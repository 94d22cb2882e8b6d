------------------------------ MODULE IdeProofs ------------------------------
(* Proofs about module Ide, for any threads, sectors and values. *)
EXTENDS Ide, TLAPS

(* No completion is on its way, or exactly one is: pending or counted. *)
Quiet == ~irq /\ completion_wait = 0
Signalled == (irq /\ completion_wait = 0) \/ (~irq /\ completion_wait = 1)

Using == {"issue", "down", "poll", "release"}

(* The state of the channel while t has it, by where t is in ide_read or    *)
(* ide_write.                                                               *)
Serving(t) ==
  /\ pc[t] \in {"issue", "release"} => dev.st = "idle" /\ Quiet
  /\ pc[t] \in {"down", "poll"} => dev.sec = call[t].sec
  /\ pc[t] = "down" /\ call[t].op = "read" =>
       /\ dev.cmd = "read"
       /\ (dev.st = "busy" /\ Quiet) \/ (dev.st \in {"drq", "error"} /\ Signalled)
  /\ pc[t] = "poll" /\ call[t].op = "read" =>
       dev.cmd = "read" /\ dev.st \in {"drq", "error"} /\ Quiet
  /\ pc[t] = "poll" /\ call[t].op = "write" =>
       /\ dev.cmd = "write"
       /\ (dev.st \in {"busy", "drq"} /\ Quiet) \/ (dev.st = "error" /\ Signalled)
  /\ pc[t] = "down" /\ call[t].op = "write" =>
       /\ dev.cmd = "commit"
       /\ (dev.st = "busy" /\ Quiet /\ dev.data = call[t].val) \/ (dev.st = "idle" /\ Signalled)

(* OneCommand says nothing of a channel that is working.  The holder of the *)
(* lock is in the middle of a call and the channel in the state that call   *)
(* has brought it to; a free channel is idle.  A panic freezes all.  No     *)
(* interrupt is ever dropped for being unexpected.                          *)
IdeInv ==
  /\ TypeOK
  /\ \A t \in Threads : pc[t] \in Using => lock = t
  /\ expecting_interrupt
  /\ Quiet \/ Signalled
  /\ Panicked => \A t \in Threads : pc[t] = "panic"
  /\ ~Panicked =>
       /\ lock = NULL => dev.st = "idle" /\ Quiet
       /\ lock # NULL => pc[lock] \in Using /\ Serving(lock)

LEMMA AnythingType == ASSUME NEW S, S # {} PROVE Anything(S) \in S
BY DEF Anything

LEMMA AnyCall == Anything(Calls) \in Calls
<1>1. [op |-> "read", sec |-> Anything(Sectors), val |-> Anything(Values)] \in Calls
  BY IdeAssumption, AnythingType DEF Calls
<1> QED
  BY <1>1, AnythingType

LEMMA IdeInitInv == Init => IdeInv
<1> SUFFICES ASSUME Init PROVE IdeInv
  OBVIOUS
<1>1. TypeOK
  BY IdeAssumption, AnythingType, AnyCall DEF Init, TypeOK, Device
<1> QED
  BY <1>1, IdeAssumption DEF Init, IdeInv, Panicked, Quiet, Using

(* Every step keeps the types. *)
LEMMA IdeTypeStep == TypeOK /\ [Next]_vars => TypeOK'
<1> SUFFICES ASSUME TypeOK, [Next]_vars PROVE TypeOK'
  OBVIOUS
<1> USE DEF TypeOK
<1>1. ASSUME NEW t \in Threads, block_read(t) PROVE TypeOK'
  BY <1>1, IdeAssumption, AnythingType DEF block_read, Calls
<1>2. ASSUME NEW t \in Threads, block_write(t) PROVE TypeOK'
  BY <1>2 DEF block_write, Calls
<1>3. ASSUME NEW t \in Threads, Acquire(t) PROVE TypeOK'
  BY <1>3 DEF Acquire
<1>4. ASSUME NEW t \in Threads, Issue(t) PROVE TypeOK'
  BY <1>4 DEF Issue, select_sector, AfterIssue, Device, Calls
<1>5. ASSUME NEW t \in Threads, Down(t) PROVE TypeOK'
  BY <1>5 DEF Down
<1>6. ASSUME NEW t \in Threads, Transfer(t) PROVE TypeOK'
  <2>0. call[t].val \in Values /\ dev.data \in Values
    BY DEF Device, Calls
  <2>1. dev' \in Device
    <3>1. \/ dev' = [dev EXCEPT !.st = "idle"]
          \/ dev' = [dev EXCEPT !.st = "busy", !.cmd = "commit", !.data = call[t].val]
      BY <1>6 DEF Transfer
    <3> QED
      BY <2>0, <3>1 DEF Device
  <2>2. pc' = [pc EXCEPT ![t] = "release"] \/ pc' = [pc EXCEPT ![t] = "down"]
    BY <1>6 DEF Transfer, AfterOutput
  <2>3. buffer' = buffer \/ buffer' = [buffer EXCEPT ![t] = dev.data]
    BY <1>6 DEF Transfer
  <2> QED
    BY <1>6, <2>0, <2>1, <2>2, <2>3 DEF Transfer
<1>7. ASSUME NEW t \in Threads, Panic(t) PROVE TypeOK'
  BY <1>7 DEF Panic
<1>8. ASSUME NEW t \in Threads, Release(t) PROVE TypeOK'
  BY <1>8 DEF Release
<1>9. CASE interrupt_handler
  <2>1. completion_wait' \in Nat
    BY <1>9 DEF interrupt_handler, Up
  <2> QED
    BY <1>9, <2>1, Zenon DEF interrupt_handler
<1>10. CASE DeviceStep
  BY <1>10 DEF DeviceStep, DeviceRead, DeviceWrite, DeviceCommit, DeviceError, Device
<1>11. CASE UNCHANGED vars
  BY <1>11 DEF vars
<1> QED
  BY <1>1, <1>2, <1>3, <1>4, <1>5, <1>6, <1>7, <1>8, <1>9, <1>10, <1>11 DEF Next, Driver

(* And the invariant. *)
LEMMA IdeStep == IdeInv /\ [Next]_vars => IdeInv'
<1> SUFFICES ASSUME IdeInv, [Next]_vars PROVE IdeInv'
  OBVIOUS
<1>0. TypeOK /\ TypeOK'
  BY IdeTypeStep DEF IdeInv
<1> USE DEF IdeInv, Using, Panicked
<1>1. ASSUME NEW t \in Threads, block_read(t) PROVE IdeInv'
  BY <1>0, <1>1, IdeAssumption DEF block_read, Serving, Quiet, Signalled, TypeOK
<1>2. ASSUME NEW t \in Threads, block_write(t) PROVE IdeInv'
  BY <1>0, <1>2, IdeAssumption DEF block_write, Serving, Quiet, Signalled, TypeOK
<1>3. ASSUME NEW t \in Threads, Acquire(t) PROVE IdeInv'
  BY <1>0, <1>3, IdeAssumption DEF Acquire, Serving, Quiet, Signalled, TypeOK
<1>4. ASSUME NEW t \in Threads, Issue(t) PROVE IdeInv'
  BY <1>0, <1>4, IdeAssumption DEF Issue, select_sector, AfterIssue, Serving, Quiet, Signalled, TypeOK, Device, Calls
<1>5. ASSUME NEW t \in Threads, Down(t) PROVE IdeInv'
  BY <1>0, <1>5, IdeAssumption DEF Down, Serving, Quiet, Signalled, TypeOK, Device, Calls
<1>6. ASSUME NEW t \in Threads, Transfer(t) PROVE IdeInv'
  <2>0. ~Panicked /\ lock = t /\ Serving(t) /\ pc[t] = "poll" /\ dev.st = "drq"
    BY <1>0, <1>6, IdeAssumption DEF Transfer, TypeOK
  <2>1. lock = t /\ Serving(t) /\ Quiet /\ Quiet'
    <3>1. Quiet
      BY <1>0, <2>0 DEF Serving, TypeOK, Calls
    <3> QED
      BY <1>6, <2>0, <3>1 DEF Transfer, Quiet
  <2>2. CASE call[t].op = "read"
    <3>1. dev'.st = "idle" /\ pc' = [pc EXCEPT ![t] = "release"] /\ lock' = lock
      BY <1>0, <1>6, <2>2 DEF Transfer, TypeOK, Device
    <3> QED
      BY <1>0, <1>6, <2>1, <3>1 DEF Transfer, Serving, TypeOK
  <2>3. CASE call[t].op = "write"
    <3>0. dev \in Device /\ dev' = [dev EXCEPT !.st = "busy", !.cmd = "commit", !.data = call[t].val]
      BY <1>0, <1>6, <2>3 DEF Transfer, TypeOK
    <3>1. dev'.st = "busy" /\ dev'.cmd = "commit" /\ dev'.sec = dev.sec /\ dev'.data = call[t].val
      BY <3>0 DEF Device
    <3>2. pc' = [pc EXCEPT ![t] = "down"] /\ lock' = lock /\ call' = call
      BY <1>6, <2>3 DEF Transfer, AfterOutput
    <3> QED
      BY <1>0, <1>6, <2>1, <2>3, <3>1, <3>2 DEF Transfer, Serving, TypeOK
  <2> QED
    BY <1>0, <2>2, <2>3 DEF TypeOK, Calls
<1>7. ASSUME NEW t \in Threads, Panic(t) PROVE IdeInv'
  BY <1>0, <1>7 DEF Panic, Quiet, Signalled, TypeOK
<1>8. ASSUME NEW t \in Threads, Release(t) PROVE IdeInv'
  BY <1>0, <1>8, IdeAssumption DEF Release, Serving, Quiet, Signalled, TypeOK
<1>9. CASE interrupt_handler
  <2>1. irq /\ ~irq' /\ completion_wait = 0 /\ completion_wait' = 1
    BY <1>0, <1>9 DEF interrupt_handler, Up, Quiet, Signalled, TypeOK
  <2>2. Signalled /\ Signalled' /\ ~Quiet
    BY <2>1 DEF Signalled, Quiet
  <2>3. UNCHANGED <<dev, lock, expecting_interrupt, pc, call>>
    BY <1>9 DEF interrupt_handler
  <2> QED
    BY <1>0, <2>2, <2>3 DEF Serving
<1>10. CASE DeviceStep
  <2>1. /\ ~Panicked /\ dev.st = "busy"
        /\ UNCHANGED <<lock, expecting_interrupt, completion_wait, pc, call>>
    BY <1>10 DEF DeviceStep, DeviceRead, DeviceWrite, DeviceCommit, DeviceError
  <2>2. lock \in Threads /\ pc[lock] \in {"down", "poll"} /\ Serving(lock) /\ Quiet
    BY <1>0, <2>1, IdeAssumption DEF Serving, Signalled, TypeOK, Calls
  <2>3. CASE DeviceRead
    <3>1. dev'.st = "drq" /\ dev'.cmd = "read" /\ dev'.sec = dev.sec /\ Signalled'
      BY <1>0, <2>1, <2>2, <2>3 DEF DeviceRead, TypeOK, Device, Quiet, Signalled
    <3> QED
      BY <1>0, <2>1, <2>2, <2>3, <3>1 DEF DeviceRead, Serving, TypeOK, Calls
  <2>4. CASE DeviceWrite
    <3>1. dev'.st = "drq" /\ dev'.cmd = "write" /\ dev'.sec = dev.sec /\ Quiet'
      BY <1>0, <2>1, <2>2, <2>4 DEF DeviceWrite, TypeOK, Device, Quiet
    <3> QED
      BY <1>0, <2>1, <2>2, <2>4, <3>1 DEF DeviceWrite, Serving, TypeOK, Calls
  <2>5. CASE DeviceCommit
    <3>1. dev'.st = "idle" /\ dev'.cmd = "commit" /\ dev'.sec = dev.sec /\ Signalled'
      BY <1>0, <2>1, <2>2, <2>5 DEF DeviceCommit, TypeOK, Device, Quiet, Signalled
    <3> QED
      BY <1>0, <2>1, <2>2, <2>5, <3>1 DEF DeviceCommit, Serving, TypeOK, Calls
  <2>6. CASE DeviceError
    <3>1. dev'.st = "error" /\ dev'.cmd = dev.cmd /\ dev'.sec = dev.sec /\ Signalled'
      BY <1>0, <2>1, <2>2, <2>6 DEF DeviceError, TypeOK, Device, Quiet, Signalled
    <3> QED
      BY <1>0, <2>1, <2>2, <2>6, <3>1 DEF DeviceError, Serving, TypeOK, Calls
  <2> QED
    BY <1>10, <2>3, <2>4, <2>5, <2>6 DEF DeviceStep
<1>11. CASE UNCHANGED vars
  BY <1>11 DEF vars, TypeOK, Serving, Quiet, Signalled
<1> QED
  BY <1>1, <1>2, <1>3, <1>4, <1>5, <1>6, <1>7, <1>8, <1>9, <1>10, <1>11 DEF Next, Driver

(* One command at a time is in work on a channel, and its completion is     *)
(* never taken for that of another.                                         *)
THEOREM OneCommandAtATime == Spec => []OneCommand
<1>1. IdeInv => OneCommand
  BY IdeAssumption DEF IdeInv, OneCommand, Panicked, Using, Serving, Quiet, Signalled, TypeOK
<1> QED
  BY <1>1, IdeInitInv, IdeStep, PTL DEF Spec

-----------------------------------------------------------------------------
(* The refinement of Block.  The variables of Block that Ide does not have: *)
Phase == [t \in Threads |-> IF pc[t] = "out" THEN "out" ELSE IF Done(t) THEN "done" ELSE "called"]
Result == [t \in Threads |->
             IF Done(t) /\ pc[t] # "release" /\ call[t].op = "read" THEN dev.data ELSE buffer[t]]

(* A step that changes them for one thread, or for none. *)
LEMMA PhaseStep ==
  ASSUME NEW t \in Threads, NEW v, Phase'[t] = v,
         \A u \in Threads \ {t} : Phase'[u] = Phase[u]
  PROVE  Phase' = [Phase EXCEPT ![t] = v]
<1>1. Phase = [u \in Threads |-> Phase[u]] /\ Phase' = [u \in Threads |-> Phase'[u]]
  BY DEF Phase
<1> QED
  BY <1>1

LEMMA ResultStep ==
  ASSUME NEW t \in Threads, NEW v, Result'[t] = v,
         \A u \in Threads \ {t} : Result'[u] = Result[u]
  PROVE  Result' = [Result EXCEPT ![t] = v]
<1>1. Result = [u \in Threads |-> Result[u]] /\ Result' = [u \in Threads |-> Result'[u]]
  BY DEF Result
<1> QED
  BY <1>1

LEMMA SamePhase == (\A u \in Threads : Phase'[u] = Phase[u]) => Phase' = Phase
BY DEF Phase

LEMMA SameResult == (\A u \in Threads : Result'[u] = Result[u]) => Result' = Result
BY DEF Result

LEMMA AbstractInit == Init => Abstract!BInit
<1> SUFFICES ASSUME Init PROVE Abstract!BInit
  OBVIOUS
<1>1. TypeOK
  BY IdeInitInv DEF IdeInv
<1>2. \A t \in Threads : pc[t] = "out" /\ ~Done(t)
  BY DEF Init, Done
<1> QED
  BY <1>1, <1>2 DEF TypeOK, Abstract!BInit, Abstract!Calls, Calls

LEMMA BystandersOut ==
  ASSUME IdeInv, ~Panicked, NEW u \in Threads, u # lock
  PROVE  pc[u] \in {"out", "lock"} /\ ~Done(u)
BY DEF IdeInv, TypeOK, Panicked, Using, Done

(* block_read and block_write enter a call. *)
LEMMA CallEnters ==
  ASSUME IdeInv, NEW t \in Threads, block_read(t) \/ block_write(t)
  PROVE  Abstract!Enter(t)
<1>1. /\ pc[t] = "out" /\ pc' = [pc EXCEPT ![t] = "lock"]
      /\ UNCHANGED <<disk, dev, buffer>>
  BY DEF block_read, block_write
<1>2. PICK c \in Calls : call' = [call EXCEPT ![t] = c]
  BY IdeAssumption, AnythingType DEF block_read, block_write, Calls
<1>3. TypeOK
  BY DEF IdeInv
<1>4. Phase[t] = "out" /\ Phase'[t] = "called" /\ Result'[t] = Result[t]
  BY <1>1, <1>3 DEF Phase, Result, Done, TypeOK
<1>5. ASSUME NEW u \in Threads \ {t} PROVE Phase'[u] = Phase[u] /\ Result'[u] = Result[u]
  BY <1>1, <1>2, <1>3 DEF Phase, Result, Done, TypeOK
<1>6. Phase' = [Phase EXCEPT ![t] = "called"] /\ Result' = Result
  BY <1>4, <1>5, PhaseStep, SameResult
<1> QED
  BY <1>1, <1>2, <1>4, <1>6 DEF Abstract!Enter, Abstract!Calls, Calls, Phase, Result

(* lock_release returns from it. *)
LEMMA ReleaseLeaves ==
  ASSUME IdeInv, NEW t \in Threads, Release(t)
  PROVE  Abstract!Leave(t)
<1>1. /\ pc[t] = "release" /\ pc' = [pc EXCEPT ![t] = "out"]
      /\ UNCHANGED <<disk, dev, call, buffer>>
  BY DEF Release
<1>2. TypeOK
  BY DEF IdeInv
<1>3. Phase[t] = "done" /\ Phase'[t] = "out" /\ Result'[t] = Result[t]
  BY <1>1, <1>2 DEF Phase, Result, Done, TypeOK
<1>4. ASSUME NEW u \in Threads \ {t} PROVE Phase'[u] = Phase[u] /\ Result'[u] = Result[u]
  BY <1>1, <1>2 DEF Phase, Result, Done, TypeOK
<1>5. Phase' = [Phase EXCEPT ![t] = "out"] /\ Result' = Result
  BY <1>3, <1>4, PhaseStep, SameResult
<1> QED
  BY <1>1, <1>3, <1>5 DEF Abstract!Leave, Phase, Result

(* The driver's other steps change nothing that Block has. *)
LEMMA DriverStutters ==
  ASSUME IdeInv, NEW t \in Threads, Acquire(t) \/ Issue(t) \/ Down(t) \/ Transfer(t)
  PROVE  UNCHANGED <<disk, call, Phase, Result>>
<1>1. TypeOK /\ UNCHANGED <<disk, call>>
  BY DEF IdeInv, Acquire, Issue, Down, Transfer
<1>2. pc[t] \in Using => ~Panicked /\ lock = t /\ Serving(t)
  BY <1>1, IdeAssumption DEF IdeInv, TypeOK, Using, Panicked
<1>3. \A u \in Threads \ {t} : pc[t] \in Using => pc[u] \in {"out", "lock"} /\ ~Done(u)
  BY <1>2, BystandersOut
<1>4. Phase'[t] = Phase[t] /\ Result'[t] = Result[t]
  <2>1. CASE Acquire(t)
    BY <1>1, <2>1 DEF Acquire, Phase, Result, Done, TypeOK
  <2>2. CASE Issue(t)
    <3>1. ~Done(t) /\ pc[t] = "issue"
      BY <2>2 DEF Issue, Done
    <3>2. dev'.st = "busy" /\ pc'[t] \in {"down", "poll"} /\ buffer' = buffer
      BY <1>1, <2>2 DEF Issue, select_sector, AfterIssue, TypeOK, Device
    <3>3. ~Done(t)'
      BY <3>2 DEF Done
    <3> QED
      BY <3>1, <3>2, <3>3 DEF Phase, Result
  <2>3. CASE Down(t)
    BY <1>1, <1>2, <2>3 DEF Down, Using, Serving, Phase, Result, Done, TypeOK, Calls, Quiet, Signalled
  <2>4. CASE Transfer(t) /\ call[t].op = "read"
    BY <1>1, <2>4 DEF Transfer, Phase, Result, Done, TypeOK, Device
  <2>5. CASE Transfer(t) /\ call[t].op = "write"
    BY <1>1, <2>5 DEF Transfer, AfterOutput, Phase, Result, Done, TypeOK, Device
  <2> QED
    BY <1>1, <2>1, <2>2, <2>3, <2>4, <2>5 DEF TypeOK, Calls
<1>5. ASSUME NEW u \in Threads \ {t} PROVE Phase'[u] = Phase[u] /\ Result'[u] = Result[u]
  <2>1. pc'[u] = pc[u] /\ call'[u] = call[u] /\ buffer'[u] = buffer[u]
    BY <1>1 DEF Acquire, Issue, Down, Transfer, TypeOK
  <2>2. CASE Acquire(t)
    BY <2>1, <2>2 DEF Acquire, Phase, Result, Done
  <2>3. CASE pc[t] \in Using
    BY <1>3, <2>1, <2>3 DEF Phase, Result, Done
  <2> QED
    BY <2>2, <2>3 DEF Issue, Down, Transfer, Using
<1> QED
  BY <1>1, <1>4, <1>5, SamePhase, SameResult

(* The device performs the call of the lock's holder at one moment. *)
LEMMA DeviceEffects ==
  ASSUME IdeInv, IdeInv', DeviceStep
  PROVE  (\E t \in Threads : Abstract!Effect(t)) \/ UNCHANGED <<disk, call, Phase, Result>>
<1>1. TypeOK /\ TypeOK' /\ ~Panicked /\ dev.st = "busy" /\ UNCHANGED <<lock, pc, call, buffer>>
  BY DEF IdeInv, DeviceStep, DeviceRead, DeviceWrite, DeviceCommit, DeviceError
<1>2. lock \in Threads /\ pc[lock] \in {"down", "poll"} /\ Serving(lock)
  BY <1>1, IdeAssumption DEF IdeInv, TypeOK, Using, Serving
<1>3. PICK t \in Threads : t = lock
  BY <1>2
<1>4. pc[t] \in {"down", "poll"} /\ Serving(t) /\ call[t] \in Calls
  BY <1>1, <1>2, <1>3 DEF TypeOK
<1>5. ASSUME NEW u \in Threads \ {t} PROVE Phase'[u] = Phase[u] /\ Result'[u] = Result[u]
  BY <1>1, <1>3, BystandersOut DEF Phase, Result, Done
<1>6. ~Done(t) /\ Phase[t] = "called" /\ Result[t] = buffer[t]
  BY <1>1, <1>4 DEF Done, Phase, Result
<1>7. CASE DeviceRead
  <2>1. dev'.st = "drq" /\ dev'.data = disk[call[t].sec] /\ disk' = disk
    BY <1>1, <1>4, <1>7 DEF DeviceRead, Serving, TypeOK, Device
  <2>2. call[t].op = "read"
    BY <1>4, <1>7 DEF DeviceRead, Serving, Calls
  <2>3. Done(t)' /\ Phase'[t] = "done" /\ Result'[t] = disk[call[t].sec]
    BY <1>1, <1>4, <2>1, <2>2 DEF Done, Phase, Result
  <2>4. Phase' = [Phase EXCEPT ![t] = "done"] /\ Result' = [Result EXCEPT ![t] = disk[call[t].sec]]
    BY <1>5, <2>3, PhaseStep, ResultStep
  <2>5. Abstract!Effect(t)
    BY <1>1, <1>6, <2>1, <2>2, <2>4 DEF Abstract!Effect, Phase, Result
  <2> QED
    BY <2>5
<1>8. CASE DeviceCommit
  <2>1. call[t].op = "write" /\ pc[t] = "down"
    BY <1>4, <1>8 DEF DeviceCommit, Serving, Calls
  <2>2. dev'.st = "idle" /\ disk' = [disk EXCEPT ![call[t].sec] = call[t].val]
    BY <1>1, <1>4, <1>8, <2>1 DEF DeviceCommit, Serving, TypeOK, Device
  <2>3. Done(t)' /\ Phase'[t] = "done" /\ Result'[t] = Result[t]
    BY <1>1, <1>6, <2>1, <2>2 DEF Done, Phase, Result
  <2>4. Phase' = [Phase EXCEPT ![t] = "done"] /\ Result' = Result
    BY <1>5, <2>3, PhaseStep, SameResult
  <2>5. Abstract!Effect(t)
    BY <1>1, <1>6, <2>1, <2>2, <2>4 DEF Abstract!Effect, Phase, Result
  <2> QED
    BY <2>5
<1>9. CASE DeviceWrite \/ DeviceError
  <2>1. disk' = disk /\ dev'.st \in {"drq", "error"} /\ (dev'.st = "drq" => dev.cmd = "write")
    BY <1>1, <1>9 DEF DeviceWrite, DeviceError, TypeOK, Device
  <2>2. ~Done(t)'
    BY <1>1, <1>4, <2>1 DEF Done, Serving, Calls
  <2>3. Phase'[t] = Phase[t] /\ Result'[t] = Result[t]
    BY <1>1, <1>4, <1>6, <2>2 DEF Phase, Result
  <2> QED
    BY <1>1, <1>5, <2>1, <2>3, SamePhase, SameResult
<1> QED
  BY <1>7, <1>8, <1>9 DEF DeviceStep

(* block.c: the driver "internally synchronizes accesses to block devices": *)
(* every call of block_read and block_write takes effect at one moment,     *)
(* until the kernel panics.                                                 *)
THEOREM IdeImplementsBlock == Spec => ImplementsBlock
<1>1. ASSUME IdeInv, IdeInv', [Next]_vars
      PROVE  Panicked' \/ Abstract!BNext \/ UNCHANGED <<disk, call, Phase, Result>>
  <2>1. ASSUME NEW t \in Threads, block_read(t) \/ block_write(t) PROVE Abstract!BNext
    BY <1>1, <2>1, CallEnters DEF Abstract!BNext
  <2>2. ASSUME NEW t \in Threads, Release(t) PROVE Abstract!BNext
    BY <1>1, <2>2, ReleaseLeaves DEF Abstract!BNext
  <2>3. ASSUME NEW t \in Threads, Panic(t) PROVE Panicked'
    BY <2>3 DEF Panic, Panicked
  <2>4. ASSUME NEW t \in Threads, Acquire(t) \/ Issue(t) \/ Down(t) \/ Transfer(t)
        PROVE  UNCHANGED <<disk, call, Phase, Result>>
    BY <1>1, <2>4, DriverStutters
  <2>5. CASE interrupt_handler \/ UNCHANGED vars
    BY <2>5 DEF interrupt_handler, vars, Phase, Result, Done
  <2>6. CASE DeviceStep
    BY <1>1, <2>6, DeviceEffects DEF Abstract!BNext
  <2> QED
    BY <1>1, <2>1, <2>2, <2>3, <2>4, <2>5, <2>6 DEF Next, Driver
<1>2. ASSUME IdeInv, IdeInv', [Next]_vars
      PROVE  [Panicked' \/ Abstract!BNext]_(Abstract!bvars)
  BY <1>1, <1>2 DEF Abstract!bvars, Phase, Result
<1> QED
  BY <1>2, AbstractInit, IdeInitInv, IdeStep, PTL DEF Spec, ImplementsBlock
=============================================================================
