-------------------------------- MODULE Serial --------------------------------
(***************************************************************************)
(* Console output and keyboard input: threads and interrupt handlers that  *)
(* meet at the interrupt queues of devices/intq.c.  Threads write to the   *)
(* serial port's transmit queue txq under the console lock                 *)
(* (lib/kernel/console.c, devices/serial.c); the serial interrupt handler  *)
(* empties it into the UART and, with the keyboard's, fills the input      *)
(* buffer (devices/input.c), which threads read under sema_files           *)
(* (userprog/syscall.c).                                                   *)
(*                                                                         *)
(* Code that runs with interrupts disabled is one step, up to the point    *)
(* where it blocks.  A byte is the number, modulo Labels, of its turn in   *)
(* its queue: 1 for the first byte ever queued, and so on.                 *)
(***************************************************************************)
EXTENDS Naturals, Sequences

CONSTANTS
  Writers,      \* threads that write to the console
  Readers,      \* threads that read from the console
  INTQ_BUFSIZE, \* size of an interrupt queue's buffer
  Labels,       \* bytes are numbered modulo Labels
  NULL

ASSUME SerialAssumption ==
  /\ INTQ_BUFSIZE \in Nat /\ INTQ_BUFSIZE >= 2
  /\ Labels \in Nat /\ Labels > INTQ_BUFSIZE
  /\ Writers \cap Readers = {} /\ NULL \notin Writers \cup Readers

Threads == Writers \cup Readers
Byte == 0 .. (Labels - 1)

VARIABLES
  txq,          \* bytes to be transmitted, a struct intq
  buffer,       \* keys typed or received, a struct intq
  ier,          \* ier: the UART's enabled interrupts, of {"RECV", "XMIT"}
  thr,          \* the byte in the UART's transmitter holding register, or NULL
  rbr,          \* whether the UART's receiver buffer holds a byte
  wire,         \* the last byte the UART transmitted
  queued,       \* the last byte put into txq
  typed,        \* the last key put into buffer
  got,          \* the last key a reader got
  console_lock, \* its holder
  sema_files,   \* the thread that has taken it
  pc            \* pc[t]: "run"; "have" with its lock; "sleep" blocked in
                \* wait; "woken" from there

vars == <<txq, buffer, ier, thr, rbr, wire, queued, typed, got, console_lock, sema_files, pc>>
locks == <<console_lock, sema_files>>

succ(b) == (b + 1) % Labels

next(pos) == (pos + 1) % INTQ_BUFSIZE
intq_empty(q) == q.head = q.tail
intq_full(q) == next(q.head) = q.tail

\* not_full and not_empty: the thread waiting for that condition.
intq_init ==
  [buf |-> [i \in 0 .. (INTQ_BUFSIZE - 1) |-> 0], head |-> 0, tail |-> 0,
   lock |-> NULL, not_full |-> NULL, not_empty |-> NULL]

(* The state after serial_init_queue: the receive interrupt is enabled. *)
Init ==
  /\ txq = intq_init /\ buffer = intq_init
  /\ ier = {"RECV"} /\ thr = NULL /\ rbr = FALSE
  /\ wire = 0 /\ queued = 0 /\ typed = 0 /\ got = 0
  /\ console_lock = NULL /\ sema_files = NULL
  /\ pc = [t \in Threads |-> "run"]

-----------------------------------------------------------------------------
(* Mutants. *)

\* Does not wait for the console lock's holder.
acquire_console_nowait(t) ==
  /\ pc[t] = "run" /\ t \in Writers
  /\ console_lock' = t
  /\ pc' = [pc EXCEPT ![t] = "have"]
  /\ UNCHANGED <<txq, buffer, ier, thr, rbr, wire, queued, typed, got, sema_files>>

\* Sends the new byte ahead of the queued ones.
Room_jump(b) == IF intq_full(txq) THEN [q |-> txq, out |-> b] ELSE [q |-> txq, out |-> NULL]

\* Has no byte for the UART.
ToSend_none == FALSE

-----------------------------------------------------------------------------
(* Interrupt queues.  Operators on a queue; the thread that a call wakes is
   the queue's waiter before the call. *)

Put(q, b) == [q EXCEPT !.buf[q.head] = b, !.head = next(q.head), !.not_empty = NULL]
Oldest(q) == q.buf[q.tail]
Got(q) == [q EXCEPT !.tail = next(q.tail), !.not_full = NULL]

\* The bytes in a queue, oldest first.
Contents(q) ==
  [i \in 1 .. ((q.head + INTQ_BUFSIZE - q.tail) % INTQ_BUFSIZE) |->
     q.buf[(q.tail + i - 1) % INTQ_BUFSIZE]]

\* thread_unblock in signal: W is the waiter, or NULL.
Unblock(w) == [t \in Threads |-> IF t = w THEN "woken" ELSE pc[t]]

\* Update interrupt enable register.
write_ier(tx, in) ==
  (IF intq_empty(tx) THEN {} ELSE {"XMIT"}) \cup (IF intq_full(in) THEN {} ELSE {"RECV"})

-----------------------------------------------------------------------------
(* Console output. *)

acquire_console(t) ==
  /\ pc[t] = "run" /\ t \in Writers
  /\ console_lock = NULL
  /\ console_lock' = t
  /\ pc' = [pc EXCEPT ![t] = "have"]
  /\ UNCHANGED <<txq, buffer, ier, thr, rbr, wire, queued, typed, got, sema_files>>

release_console(t) ==
  /\ pc[t] = "have" /\ t \in Writers
  /\ console_lock' = NULL
  /\ pc' = [pc EXCEPT ![t] = "run"]
  /\ UNCHANGED <<txq, buffer, ier, thr, rbr, wire, queued, typed, got, sema_files>>

\* serial_putc with interrupts on, at the first test of the queue (pc "have")
\* or after a wait (pc "woken").  On a full queue it takes the queue's lock, in
\* turn after other threads, and waits; after the wait it releases the lock.
serial_putc(t) ==
  /\ t \in Writers /\ pc[t] \in {"have", "woken"}
  /\ IF intq_full(txq)
       THEN /\ txq.lock \in {NULL, t}
            /\ txq' = [txq EXCEPT !.lock = t, !.not_full = t]
            /\ pc' = [pc EXCEPT ![t] = "sleep"]
            /\ UNCHANGED <<ier, queued>>
       ELSE /\ queued' = succ(queued)
            /\ txq' = [Put(txq, succ(queued)) EXCEPT !.lock = IF @ = t THEN NULL ELSE @]
            /\ ier' = write_ier(txq', buffer)
            /\ pc' = [pc EXCEPT ![t] = "have"]
  /\ UNCHANGED <<buffer, thr, rbr, wire, typed, got, locks>>

\* putc_poll(B): waits for the UART, which sends what it holds meanwhile.
putc_poll(b) ==
  /\ thr' = b
  /\ wire' = IF thr = NULL THEN wire ELSE thr

\* serial_putc with interrupts off makes room in a full queue: OUT is the byte
\* that it polls out.
Room(b) ==
  IF intq_full(txq) THEN [q |-> Got(txq), out |-> Oldest(txq)] ELSE [q |-> txq, out |-> NULL]

\* serial_putc called with interrupts off, by an interrupt handler that prints
\* or by the thread that holds the console lock.
SerialPutcOff ==
  LET b == succ(queued)
      room == Room(b)
  IN /\ queued' = b
     /\ IF room.out = NULL
          THEN UNCHANGED <<thr, wire, pc>>
          ELSE putc_poll(room.out) /\ pc' = Unblock(txq.not_full)
     /\ txq' = Put(room.q, b)
     /\ ier' = write_ier(txq', buffer)
     /\ UNCHANGED <<buffer, rbr, typed, got, locks>>

\* serial_flush, with interrupts off, when the kernel shuts down or panics.
serial_flush ==
  LET sent == (IF thr = NULL THEN <<wire>> ELSE <<wire, thr>>) \o Contents(txq)
  IN /\ ~intq_empty(txq)
     /\ thr' = sent[Len(sent)]
     /\ wire' = sent[Len(sent) - 1]
     /\ txq' = [txq EXCEPT !.tail = txq.head, !.not_full = NULL]
     /\ pc' = Unblock(txq.not_full)
     /\ UNCHANGED <<buffer, ier, rbr, queued, typed, got, locks>>

-----------------------------------------------------------------------------
(* Console input. *)

\* read of the console takes sema_files before input_getc.
ReadLock(t) ==
  /\ t \in Readers /\ pc[t] = "run"
  /\ sema_files = NULL
  /\ sema_files' = t
  /\ pc' = [pc EXCEPT ![t] = "have"]
  /\ UNCHANGED <<txq, buffer, ier, thr, rbr, wire, queued, typed, got, console_lock>>

\* input_getc; read releases sema_files after its last key.
input_getc(t) ==
  /\ t \in Readers /\ pc[t] \in {"have", "woken"}
  /\ IF intq_empty(buffer)
       THEN /\ buffer.lock \in {NULL, t}
            /\ buffer' = [buffer EXCEPT !.lock = t, !.not_empty = t]
            /\ pc' = [pc EXCEPT ![t] = "sleep"]
            /\ UNCHANGED <<ier, got>>
       ELSE /\ got' = Oldest(buffer)
            /\ buffer' = [Got(buffer) EXCEPT !.lock = IF @ = t THEN NULL ELSE @]
            /\ ier' = write_ier(txq, buffer')
            /\ pc' = [pc EXCEPT ![t] = "have"]
  /\ UNCHANGED <<txq, thr, rbr, wire, queued, typed, locks>>

ReadUnlock(t) ==
  /\ t \in Readers /\ pc[t] = "have"
  /\ sema_files' = NULL
  /\ pc' = [pc EXCEPT ![t] = "run"]
  /\ UNCHANGED <<txq, buffer, ier, thr, rbr, wire, queued, typed, got, console_lock>>

-----------------------------------------------------------------------------
(* Interrupt handlers. *)

\* A key that produces a character; it is dropped when the buffer is full.
keyboard_interrupt ==
  /\ ~intq_full(buffer)
  /\ typed' = succ(typed)
  /\ buffer' = Put(buffer, succ(typed))
  /\ ier' = write_ier(txq, buffer')
  /\ pc' = Unblock(buffer.not_empty)
  /\ UNCHANGED <<txq, thr, rbr, wire, queued, got, locks>>

Interrupting == ("XMIT" \in ier /\ thr = NULL) \/ ("RECV" \in ier /\ rbr)

\* There is room for a byte and the UART has one; there is a byte for the UART
\* and it can take one.
ToReceive == ~intq_full(buffer) /\ rbr
ToSend == ~intq_empty(txq) /\ thr = NULL

serial_interrupt ==
  LET recv == ToReceive
      xmit == ToSend
  IN /\ Interrupting
     /\ buffer' = IF recv THEN Put(buffer, succ(typed)) ELSE buffer
     /\ typed' = IF recv THEN succ(typed) ELSE typed
     /\ rbr' = (rbr /\ ~recv)
     /\ txq' = IF xmit THEN Got(txq) ELSE txq
     /\ thr' = IF xmit THEN Oldest(txq) ELSE thr
     /\ ier' = write_ier(txq', buffer')
     /\ pc' = [t \in Threads |->
                 IF (recv /\ t = buffer.not_empty) \/ (xmit /\ t = txq.not_full)
                   THEN "woken" ELSE pc[t]]
     /\ UNCHANGED <<wire, queued, got, locks>>

(* The UART. *)
UartTransmit ==
  /\ thr # NULL
  /\ wire' = thr
  /\ thr' = NULL
  /\ UNCHANGED <<txq, buffer, ier, rbr, queued, typed, got, locks, pc>>

UartReceive ==
  /\ ~rbr
  /\ rbr' = TRUE
  /\ UNCHANGED <<txq, buffer, ier, thr, wire, queued, typed, got, locks, pc>>

-----------------------------------------------------------------------------
Next ==
  \/ \E t \in Threads :
       \/ acquire_console(t) \/ release_console(t) \/ serial_putc(t)
       \/ ReadLock(t) \/ input_getc(t) \/ ReadUnlock(t)
  \/ SerialPutcOff \/ serial_flush
  \/ keyboard_interrupt \/ serial_interrupt
  \/ UartTransmit \/ UartReceive

Spec == Init /\ [][Next]_vars

\* The UART finishes what it sends, a pending interrupt is delivered, and a
\* woken thread runs.  Nothing is assumed of keys, of readers or of writers.
FairSpec ==
  /\ Spec
  /\ WF_vars(UartTransmit)
  /\ WF_vars(serial_interrupt)
  /\ \A t \in Threads :
       WF_vars(pc[t] = "woken" /\ (serial_putc(t) \/ input_getc(t)))

-----------------------------------------------------------------------------
Intq == [buf : [0 .. (INTQ_BUFSIZE - 1) -> Byte], head : 0 .. (INTQ_BUFSIZE - 1),
         tail : 0 .. (INTQ_BUFSIZE - 1), lock : Threads \cup {NULL},
         not_full : Threads \cup {NULL}, not_empty : Threads \cup {NULL}]

\* Every variable has its type; positions stay inside the queues.
TypeOK ==
  /\ txq \in Intq /\ buffer \in Intq
  /\ ier \subseteq {"RECV", "XMIT"}
  /\ thr \in Byte \cup {NULL} /\ rbr \in BOOLEAN
  /\ {wire, queued, typed, got} \subseteq Byte
  /\ console_lock \in Writers \cup {NULL} /\ sema_files \in Readers \cup {NULL}
  /\ pc \in [Threads -> {"run", "have", "sleep", "woken"}]

\* The bytes after A up to and including Z.
After(a, z) == [i \in 1 .. ((z + Labels - a) % Labels) |-> (a + i) % Labels]

\* Bytes leave a queue in the order they entered it, none is lost and none is
\* sent or read twice, whether the interrupt handler, the polling of
\* serial_putc with interrupts off or serial_flush takes them.
InOrder ==
  /\ TypeOK
  /\ (IF thr = NULL THEN <<>> ELSE <<thr>>) \o Contents(txq) = After(wire, queued)
  /\ Contents(buffer) = After(got, typed)

\* The assertions of wait hold and no wake-up is lost: a thread asleep on a
\* queue is the queue's recorded waiter, holds the queue's lock, and what it
\* waits for is not the case.  No thread ever finds the queue's lock taken (it
\* would test the queue before it has the lock and assert the result after):
\* the console lock and sema_files let one thread at a time through.
WaitersRecorded ==
  /\ \A t \in Writers :
       /\ pc[t] = "sleep" => txq.not_full = t /\ txq.lock = t /\ intq_full(txq)
       /\ pc[t] \in {"have", "woken"} => txq.lock \in {NULL, t}
  /\ \A t \in Readers :
       /\ pc[t] = "sleep" => buffer.not_empty = t /\ buffer.lock = t /\ intq_empty(buffer)
       /\ pc[t] \in {"have", "woken"} => buffer.lock \in {NULL, t}

\* The interrupt enable register follows the queues: the transmit interrupt is
\* on whenever there is a byte to send, the receive interrupt exactly when
\* there is room for one.
IerFollows ==
  /\ ~intq_empty(txq) => "XMIT" \in ier
  /\ "RECV" \in ier <=> ~intq_full(buffer)

\* Who waits is on record, and the interrupt that ends the wait is enabled.
WaitsArmed == WaitersRecorded /\ IerFollows

\* The bytes queued and not yet transmitted.
InFlight == {After(wire, queued)[i] : i \in DOMAIN After(wire, queued)}

\* Every byte put into txq is transmitted: the UART's interrupt for it is not
\* lost or left disabled.
BytesAreSent == \A b \in Byte : b \in InFlight ~> b \notin InFlight

\* A writer asleep on the full queue gets on, and a reader asleep gets a key
\* once there is one.
SleepersGetOn ==
  /\ \A t \in Writers : pc[t] = "sleep" ~> pc[t] # "sleep"
  /\ \A t \in Readers : (pc[t] = "sleep" /\ rbr) ~> pc[t] # "sleep"

\* Queues drain and sleepers wake: every byte is sent, no sleep is for ever.
Progress == BytesAreSent /\ SleepersGetOn
=============================================================================
