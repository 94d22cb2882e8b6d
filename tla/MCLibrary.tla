----------------------------- MODULE MCLibrary -----------------------------
(***************************************************************************)
(* The code without threads of its own, checked together.  The initial     *)
(* state chooses what runs: one call of a function of the library or of    *)
(* the loader with each of its inputs, a hash table under every sequence   *)
(* of calls, the bytes of a file under the calls of two processes, the     *)
(* keyboard, or the screen.                                                *)
(***************************************************************************)
EXTENDS Lists, Formatting, Numbers, FileData, Hash, Loader, Archive, Boot, Console

VARIABLE running

MCElements == {[key |-> k, copy |-> 1] : k \in 1 .. 4} \cup {[key |-> 1, copy |-> 2]}
MChash(e) == 3 * e.key
MCPart == [p \in Writers |-> IF p = 1 THEN 0 .. 1 ELSE 2 .. 4]
MCBits == [t \in {"hh", "h", "int", "l", "ll", "j", "t", "z"} |->
             CASE t = "hh" -> 3 [] t = "h" -> 5 [] t \in {"ll", "j"} -> 16 [] OTHER -> 12]
MCRaw == [t \in DOMAIN MCBits |->
            IF t = "int" THEN {0, 7, 1000, 2048, 4095} ELSE {0, 3, 4, 31, 32767, 32768, 65535}]

vars == <<running, call, ret, hvars, fvars, kvars, svars>>

Init ==
  /\ running \in {"calls", "hash", "file", "keyboard", "screen"}
  /\ CallsInit /\ HashInit /\ FilesInit /\ KeyboardInit /\ ScreenInit
  /\ running # "screen" => cursor = 0

Calling ==
  \/ /\ call = NoCall
     /\ ListCalls \/ BlockCalls \/ StringCalls \/ FormatCalls \/ NumberCalls \/ BitmapCalls
          \/ LoaderCalls \/ ArchiveCalls \/ BootCalls
  \/ Leave

Next ==
  /\ UNCHANGED running
  /\ \/ running = "calls" /\ Calling /\ UNCHANGED <<hvars, fvars, kvars, svars>>
     \/ running = "hash" /\ HashCalls /\ UNCHANGED <<call, ret, fvars, kvars, svars>>
     \/ running = "file" /\ FileSteps /\ UNCHANGED <<call, ret, hvars, kvars, svars>>
     \/ running = "keyboard" /\ KeyboardSteps /\ UNCHANGED <<call, ret, hvars, fvars>>
     \/ running = "screen" /\ ScreenSteps /\ UNCHANGED <<call, ret, hvars, fvars>>

Spec == Init /\ [][Next]_vars
=============================================================================
