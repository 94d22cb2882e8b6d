--------------------------------- MODULE Block ---------------------------------
(***************************************************************************)
(* What the block layer (devices/block.c) promises its callers: a call of  *)
(* block_read or block_write takes effect at one moment between the call   *)
(* and the return, although any number of threads call at once.            *)
(***************************************************************************)
CONSTANTS Threads, Sectors, Values

VARIABLES
  disk,   \* disk[s]: contents of sector s
  call,   \* call[t]: what thread t has called, the last call when it is out
  phase,  \* phase[t]: "out", "called", or "done" before it returns
  result  \* result[t]: the data in the buffer of thread t's read

bvars == <<disk, call, phase, result>>

Calls == [op : {"read", "write"}, sec : Sectors, val : Values]

BInit ==
  /\ disk \in [Sectors -> Values]
  /\ call \in [Threads -> Calls]
  /\ phase = [t \in Threads |-> "out"]
  /\ result \in [Threads -> Values]

Enter(t) ==
  /\ phase[t] = "out"
  /\ phase' = [phase EXCEPT ![t] = "called"]
  /\ \E c \in Calls : call' = [call EXCEPT ![t] = c]
  /\ UNCHANGED <<disk, result>>

Effect(t) ==
  /\ phase[t] = "called"
  /\ phase' = [phase EXCEPT ![t] = "done"]
  /\ IF call[t].op = "read"
       THEN result' = [result EXCEPT ![t] = disk[call[t].sec]] /\ UNCHANGED disk
       ELSE disk' = [disk EXCEPT ![call[t].sec] = call[t].val] /\ UNCHANGED result
  /\ UNCHANGED call

Leave(t) ==
  /\ phase[t] = "done"
  /\ phase' = [phase EXCEPT ![t] = "out"]
  /\ UNCHANGED <<disk, call, result>>

BNext == \E t \in Threads : Enter(t) \/ Effect(t) \/ Leave(t)

BSpec == BInit /\ [][BNext]_bvars
=============================================================================
