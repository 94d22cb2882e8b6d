---------------------------------- MODULE Ide ----------------------------------
(***************************************************************************)
(* The ATA driver of devices/ide.c on one channel: threads that read and   *)
(* write sectors under the channel's lock, the device, and the interrupt   *)
(* handler that ups completion_wait.  A sector stands for a disk of the    *)
(* channel and a sector number.                                            *)
(*                                                                         *)
(* completion_wait is the value of the semaphore and lock the holder of    *)
(* the lock: how waiting threads sleep and wake is the subject of          *)
(* Semaphore and Monitor.                                                  *)
(***************************************************************************)
EXTENDS Naturals

CONSTANTS Threads, Sectors, Values, NULL

ASSUME IdeAssumption == NULL \notin Threads /\ Sectors # {} /\ Values # {}

VARIABLES
  disk,                \* disk[s]: contents of sector s
  dev,                 \* the device: its state, command, sector and data register
  irq,                 \* the channel's interrupt is pending
  lock,                \* holder of the channel's lock
  expecting_interrupt, \* struct channel
  completion_wait,     \* struct channel: the semaphore's value
  pc,                  \* where thread t is in block_read or block_write
  call,                \* call[t]: its arguments
  buffer               \* buffer[t]: what thread t has read last

vars == <<disk, dev, irq, lock, expecting_interrupt, completion_wait, pc, call, buffer>>

Calls == [op : {"read", "write"}, sec : Sectors, val : Values]

\* BSY, DRQ or neither; "error" is neither, after a command that failed.
Device ==
  [st : {"idle", "busy", "drq", "error"}, cmd : {"read", "write", "commit"},
   sec : Sectors, data : Values]

Anything(S) == CHOOSE x \in S : TRUE

(* The state after ide_init has identified the disks. *)
Init ==
  /\ disk \in [Sectors -> Values]
  /\ dev = [st |-> "idle", cmd |-> "read", sec |-> Anything(Sectors), data |-> Anything(Values)]
  /\ irq = FALSE
  /\ lock = NULL
  /\ expecting_interrupt = TRUE
  /\ completion_wait = 0
  /\ pc = [t \in Threads |-> "out"]
  /\ call = [t \in Threads |-> Anything(Calls)]
  /\ buffer = [t \in Threads |-> Anything(Values)]

-----------------------------------------------------------------------------
(* Mutants. *)

\* Leaves the sector selection registers as they are.
select_sector_skip(t) == dev

\* Returns when the data has been handed over, not when it is acknowledged.
AfterOutput_release == "release"

\* The interrupt handler does not wake the waiter.
Up_none == completion_wait

-----------------------------------------------------------------------------
(* The driver. *)

block_read(t) ==
  /\ pc[t] = "out"
  /\ \E s \in Sectors :
       call' = [call EXCEPT ![t] = [op |-> "read", sec |-> s, val |-> Anything(Values)]]
  /\ pc' = [pc EXCEPT ![t] = "lock"]
  /\ UNCHANGED <<disk, dev, irq, lock, expecting_interrupt, completion_wait, buffer>>

block_write(t) ==
  /\ pc[t] = "out"
  /\ \E s \in Sectors, v \in Values :
       call' = [call EXCEPT ![t] = [op |-> "write", sec |-> s, val |-> v]]
  /\ pc' = [pc EXCEPT ![t] = "lock"]
  /\ UNCHANGED <<disk, dev, irq, lock, expecting_interrupt, completion_wait, buffer>>

Acquire(t) ==
  /\ pc[t] = "lock"
  /\ lock = NULL
  /\ lock' = t
  /\ pc' = [pc EXCEPT ![t] = "issue"]
  /\ UNCHANGED <<disk, dev, irq, expecting_interrupt, completion_wait, call, buffer>>

\* Where ide_read and ide_write go on after issue_pio_command.
AfterIssue(op) == IF op = "read" THEN "down" ELSE "poll"

\* select_sector writes the sector selection registers.  Its reading of the
\* status register clears a pending interrupt, and it gives up waiting for an
\* idle device after a while.
select_sector(t) == [dev EXCEPT !.sec = call[t].sec]

\* select_sector and issue_pio_command.
Issue(t) ==
  /\ pc[t] = "issue"
  /\ expecting_interrupt' = TRUE
  /\ dev' = [select_sector(t) EXCEPT !.st = "busy", !.cmd = call[t].op]
  /\ irq' = FALSE
  /\ pc' = [pc EXCEPT ![t] = AfterIssue(call[t].op)]
  /\ UNCHANGED <<disk, lock, completion_wait, call, buffer>>

\* sema_down (&c->completion_wait).
Down(t) ==
  /\ pc[t] = "down"
  /\ completion_wait > 0
  /\ completion_wait' = completion_wait - 1
  /\ pc' = [pc EXCEPT ![t] = IF call[t].op = "read" THEN "poll" ELSE "release"]
  /\ UNCHANGED <<disk, dev, irq, lock, expecting_interrupt, call, buffer>>

\* Where ide_write goes on after output_sector.
AfterOutput == "down"

\* wait_while_busy finds BSY clear and DRQ set, and the sector is transferred.
Transfer(t) ==
  /\ pc[t] = "poll"
  /\ dev.st = "drq"
  /\ IF call[t].op = "read"
       THEN /\ buffer' = [buffer EXCEPT ![t] = dev.data]
            /\ dev' = [dev EXCEPT !.st = "idle"]
            /\ pc' = [pc EXCEPT ![t] = "release"]
       ELSE /\ dev' = [dev EXCEPT !.st = "busy", !.cmd = "commit", !.data = call[t].val]
            /\ pc' = [pc EXCEPT ![t] = AfterOutput]
            /\ UNCHANGED buffer
  /\ UNCHANGED <<disk, irq, lock, expecting_interrupt, completion_wait, call>>

\* wait_while_busy finds DRQ clear, or the device busy for 30 seconds: the
\* kernel panics and nothing more happens.
Panicked == \E t \in Threads : pc[t] = "panic"

Panic(t) ==
  /\ pc[t] = "poll"
  /\ dev.st \in {"error", "busy"}
  /\ pc' = [u \in Threads |-> "panic"]
  /\ UNCHANGED <<disk, dev, irq, lock, expecting_interrupt, completion_wait, call, buffer>>

Release(t) ==
  /\ pc[t] = "release"
  /\ lock' = NULL
  /\ pc' = [pc EXCEPT ![t] = "out"]
  /\ UNCHANGED <<disk, dev, irq, expecting_interrupt, completion_wait, call, buffer>>

Up == completion_wait + 1

interrupt_handler ==
  /\ irq
  /\ ~Panicked
  /\ irq' = FALSE
  /\ completion_wait' = IF expecting_interrupt THEN Up ELSE completion_wait
  /\ UNCHANGED <<disk, dev, lock, expecting_interrupt, pc, call, buffer>>

-----------------------------------------------------------------------------
(* The device: reads a sector and interrupts; asks for the data of a write
   without an interrupt; takes the data and interrupts.  A command may fail
   before data is transferred. *)

DeviceRead ==
  /\ dev.st = "busy" /\ dev.cmd = "read"
  /\ dev' = [dev EXCEPT !.st = "drq", !.data = disk[dev.sec]]
  /\ irq' = TRUE
  /\ UNCHANGED disk

DeviceWrite ==
  /\ dev.st = "busy" /\ dev.cmd = "write"
  /\ dev' = [dev EXCEPT !.st = "drq"]
  /\ UNCHANGED <<disk, irq>>

DeviceCommit ==
  /\ dev.st = "busy" /\ dev.cmd = "commit"
  /\ disk' = [disk EXCEPT ![dev.sec] = dev.data]
  /\ dev' = [dev EXCEPT !.st = "idle"]
  /\ irq' = TRUE

DeviceError ==
  /\ dev.st = "busy" /\ dev.cmd # "commit"
  /\ dev' = [dev EXCEPT !.st = "error"]
  /\ irq' = TRUE
  /\ UNCHANGED disk

DeviceStep ==
  /\ DeviceRead \/ DeviceWrite \/ DeviceCommit \/ DeviceError
  /\ ~Panicked
  /\ UNCHANGED <<lock, expecting_interrupt, completion_wait, pc, call, buffer>>

-----------------------------------------------------------------------------
Driver(t) ==
  Acquire(t) \/ Issue(t) \/ Down(t) \/ Transfer(t) \/ Panic(t) \/ Release(t)

Next ==
  \/ \E t \in Threads : block_read(t) \/ block_write(t) \/ Driver(t)
  \/ interrupt_handler
  \/ DeviceStep

Spec == Init /\ [][Next]_vars

\* The device works on its command, its interrupt is delivered, and a ready
\* thread runs.  Strong fairness for the sake of Acquire: a waiter that
\* lock_release makes ready is not overtaken for ever.
FairSpec ==
  /\ Spec
  /\ WF_vars(DeviceStep) /\ WF_vars(interrupt_handler)
  /\ \A t \in Threads : SF_vars(Driver(t))

-----------------------------------------------------------------------------
\* Every variable has its type.
TypeOK ==
  /\ disk \in [Sectors -> Values]
  /\ dev \in Device
  /\ irq \in BOOLEAN /\ expecting_interrupt \in BOOLEAN
  /\ lock \in Threads \cup {NULL}
  /\ completion_wait \in Nat
  /\ pc \in [Threads -> {"out", "lock", "issue", "down", "poll", "release", "panic"}]
  /\ call \in [Threads -> Calls]
  /\ buffer \in [Threads -> Values]

\* The lock's holder is the one thread that uses the channel, there is at most
\* one completion, pending or counted, for its one command, and a command is
\* issued to an idle device with none left over: the waits of
\* select_device_wait, which give up after a time, have nothing to wait for,
\* and no thread takes the completion of another's command for its own.
OneCommand ==
  /\ TypeOK
  /\ \A t \in Threads : pc[t] \in {"issue", "down", "poll", "release"} => lock = t
  /\ completion_wait + (IF irq THEN 1 ELSE 0) <= 1
  /\ \A t \in Threads : pc[t] = "issue" => dev.st = "idle" /\ ~irq /\ completion_wait = 0

\* Thread t's call has taken effect: its data has been read or written.
Done(t) ==
  \/ pc[t] = "release"
  \/ pc[t] = "poll" /\ call[t].op = "read" /\ dev.st = "drq"
  \/ pc[t] = "down" /\ call[t].op = "read" /\ dev.st = "drq"
  \/ pc[t] = "down" /\ call[t].op = "write" /\ dev.st = "idle"

Abstract == INSTANCE Block WITH
  phase <- [t \in Threads |->
              IF pc[t] = "out" THEN "out" ELSE IF Done(t) THEN "done" ELSE "called"],
  result <- [t \in Threads |->
              IF Done(t) /\ pc[t] # "release" /\ call[t].op = "read" THEN dev.data ELSE buffer[t]]

\* The driver keeps the promise of block.c: "Internally synchronizes accesses
\* to block devices, so external per-block device locking is unneeded".  Every
\* call takes effect at one moment, until the kernel panics.
ImplementsBlock == Abstract!BInit /\ [][Panicked' \/ Abstract!BNext]_(Abstract!bvars)

\* Every call returns, unless the kernel panics.
CallsReturn == \A t \in Threads : pc[t] = "lock" ~> (pc[t] = "out" \/ Panicked)
=============================================================================
