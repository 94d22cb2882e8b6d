-------------------------------- MODULE Calls --------------------------------
(***************************************************************************)
(* A caller of library functions.  A call enters a function with arguments *)
(* that one of the modules of the library lets it choose and has its       *)
(* result at once, as the functions share no state; then it is over.       *)
(***************************************************************************)
VARIABLES
  call,  \* the function and its arguments
  ret    \* what it has returned and left in the memory given to it

NoCall == [fn |-> "none"]

CallsInit == call = NoCall /\ ret = NoCall

Enter(f, a, r) ==
  /\ call.fn = "none"
  /\ call' = [fn |-> f, args |-> a]
  /\ ret' = r

Leave ==
  /\ call.fn # "none"
  /\ call' = NoCall /\ ret' = NoCall
=============================================================================
