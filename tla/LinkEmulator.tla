---------------------------- MODULE LinkEmulator ----------------------------
(***************************************************************************)
(* The link emulator of lab 3 (link_emulator/link.c; the one of lab 2      *)
(* differs only in how a payload is corrupted).  Three threads share one   *)
(* queue, buffer:                                                          *)
(*                                                                         *)
(*   run_forwarding          socket 1 -> buffer                            *)
(*   link_scheduler          buffer -> in_flight -> socket 2               *)
(*   run_reverse_forwarding  socket 2 -> socket 1, beside the queue        *)
(*                                                                         *)
(* buffer_lock is held only for one access to buffer at a time, so each    *)
(* critical section is one action.  The scheduler compares every time with *)
(* crt_time, the last value it read from the clock: times are kept         *)
(* relative to it, and sLag is how far the clock has moved on since.       *)
(***************************************************************************)
EXTENDS Integers, Sequences

CONSTANTS
  MaxFrames,            \* bound: data frames that reach socket 1
  MaxReverse,           \* bound: data frames that reach socket 2
  BUFFER_SIZE,
  serialization_delay,  \* in ticks of the clock
  delay,
  Loss,                 \* loss > 0
  Corrupt,              \* corrupt > 0
  corrupt2              \* corrupt2 # 0

ASSUME ConstantsAssumption ==
  /\ MaxFrames \in Nat
  /\ MaxReverse \in Nat
  /\ BUFFER_SIZE \in Nat \ {0}
  /\ serialization_delay \in Nat \ {0}
  /\ delay \in Nat
  /\ Loss \in BOOLEAN
  /\ Corrupt \in BOOLEAN
  /\ corrupt2 \in BOOLEAN

\* A frame: its place in the order of arrival on the socket, and how many
\* times the bit chosen by rand() has been flipped.
Frame(n) == [id: 0..(n - 1), flips: 0..2]

\* A frame on the wire, with the time at which it has crossed the link.
msg_in_flight == [m: Frame(MaxFrames), finish_time: Int]

\* Once the clock has moved on by this much every time the scheduler holds
\* is past, so that sLag need not grow further.
MaxLag == serialization_delay + delay

VARIABLES
  link_up1, link_up2,   \* the peer's first datagram has given its address
  buffer,               \* accepted frames, oldest first
  fwPc, fwArrived, fwFrame, overflow,
  sPc, stuff,
  in_flight,            \* frames on the wire with their finish_time
  idle_time,            \* how long until the link can take another frame
  sLag,                 \* now() - crt_time
  sSleep,               \* what is left of the current usleep()
  out2,                 \* what the program behind socket 2 has been sent
  revPc, revArrived, revFrame,
  out1                  \* what the program behind socket 1 has been sent

fwVars  == <<fwPc, fwArrived, fwFrame, overflow, link_up1>>
sVars   == <<sPc, stuff, in_flight, idle_time, sLag, sSleep, out2>>
revVars == <<revPc, revArrived, revFrame, out1, link_up2>>
vars    == <<buffer, fwVars, sVars, revVars>>

Empty == [id |-> 0, flips |-> 0]    \* an unused local variable

TypeOK ==
  /\ link_up1 \in BOOLEAN
  /\ link_up2 \in BOOLEAN
  /\ buffer \in Seq(Frame(MaxFrames))
  /\ fwPc \in {"receive", "check", "decide"}
  /\ fwArrived \in 0..MaxFrames
  /\ fwPc # "receive" => fwFrame \in Frame(MaxFrames)
  /\ overflow \in BOOLEAN
  /\ sPc \in {"clock", "drain", "look", "plan", "sleep", "block", "wait",
              "aborted"}
  /\ stuff \in BOOLEAN
  /\ in_flight \in Seq(msg_in_flight)
  /\ idle_time \in 0..serialization_delay
  /\ sLag \in 0..MaxLag
  /\ sSleep \in 0..MaxLag
  /\ out2 \in Seq(Frame(MaxFrames))
  /\ revPc \in {"receive", "send"}
  /\ revArrived \in 0..MaxReverse
  /\ revPc # "receive" => revFrame \in 0..(MaxReverse - 1)
  /\ out1 \in Seq(0..(MaxReverse - 1))

Init ==
  /\ link_up1 = FALSE
  /\ link_up2 = FALSE
  /\ buffer = <<>>
  /\ fwPc = "receive"
  /\ fwArrived = 0
  /\ fwFrame = Empty
  /\ overflow = FALSE
  /\ sPc = "clock"
  /\ stuff = FALSE
  /\ in_flight = <<>>
  /\ idle_time = 0
  /\ sLag = 0
  /\ sSleep = 0
  /\ out2 = <<>>
  /\ revPc = "receive"
  /\ revArrived = 0
  /\ revFrame = 0
  /\ out1 = <<>>

\* A failed assert() aborts the whole process.
Running == sPc # "aborted"

\* Sending fails while the address of the peer is not known.
send_message1(m) == IF link_up1 THEN Append(out1, m) ELSE out1
send_message2(m) == IF link_up2 THEN Append(out2, m) ELSE out2

-----------------------------------------------------------------------------
(* queue.c: the oldest entry is the one dequeue returns.                   *)

PushFront(q, m) == <<m>> \o q      \* mutant: the entry becomes the oldest

enqueue(q, m) == Append(q, m)
dequeue(q)    == Tail(q)
oldest(q)     == Head(q)

-----------------------------------------------------------------------------
(* run_forwarding.                                                         *)

\* receive_message1 keeps the address of the first datagram and drops it.
Handshake1 ==
  /\ Running
  /\ fwPc = "receive"
  /\ ~link_up1
  /\ link_up1' = TRUE
  /\ UNCHANGED <<buffer, fwPc, fwArrived, fwFrame, overflow, sVars, revVars>>

Receive1 ==
  /\ Running
  /\ fwPc = "receive"
  /\ link_up1
  /\ fwArrived < MaxFrames
  /\ fwFrame' = [id |-> fwArrived, flips |-> 0]
  /\ fwArrived' = fwArrived + 1
  /\ fwPc' = "check"
  /\ UNCHANGED <<buffer, overflow, link_up1, sVars, revVars>>

OverflowsLate == Len(buffer) > BUFFER_SIZE      \* mutant: off by one

Overflows == Len(buffer) >= BUFFER_SIZE

\* The room left in buffer is read in one critical section ...
CheckSpace ==
  /\ Running
  /\ fwPc = "check"
  /\ overflow' = Overflows
  /\ fwPc' = "decide"
  /\ UNCHANGED <<buffer, fwArrived, fwFrame, link_up1, sVars, revVars>>

\* The bit is flipped, and with corrupt2 the same bit is flipped again.
Corrupted(f) == [id |-> f.id, flips |-> IF corrupt2 THEN 2 ELSE 1]

NotSignalled == sPc     \* mutant: the signal is forgotten

\* pthread_cond_signal wakes the scheduler if it is waiting; it then leaves
\* pthread_cond_wait and starts its loop again.
Signalled == IF sPc = "wait" THEN "clock" ELSE sPc

\* ... and used in a later one.
Forward ==
  /\ Running
  /\ fwPc = "decide"
  /\ ~overflow
  /\ \E f \in {fwFrame} \union (IF Corrupt THEN {Corrupted(fwFrame)} ELSE {}) :
       buffer' = enqueue(buffer, f)
  /\ sPc' = Signalled
  /\ fwPc' = "receive"
  /\ UNCHANGED <<fwArrived, fwFrame, overflow, link_up1,
                 stuff, in_flight, idle_time, sLag, sSleep, out2, revVars>>

Drop ==
  /\ Running
  /\ fwPc = "decide"
  /\ overflow \/ Loss
  /\ fwPc' = "receive"
  /\ UNCHANGED <<buffer, fwArrived, fwFrame, overflow, link_up1, sVars, revVars>>

-----------------------------------------------------------------------------
(* link_scheduler.                                                         *)

Least(a, b) == IF a < b THEN a ELSE b
Most(a, b)  == IF a < b THEN b ELSE a

Rebased(f) == [m |-> f.m, finish_time |-> f.finish_time - sLag]

\* crt_time = now(): every time held is rebased on the new value.
ReadClock ==
  /\ sPc = "clock"
  /\ in_flight' = [i \in DOMAIN in_flight |-> Rebased(in_flight[i])]
  /\ idle_time' = Most(idle_time - sLag, 0)
  /\ sLag' = 0
  /\ sPc' = "drain"
  /\ UNCHANGED <<buffer, stuff, sSleep, out2, fwVars, revVars>>

Due == in_flight # <<>> /\ oldest(in_flight).finish_time <= 0

\* The frame is freed whether or not it could be sent.
SendDue ==
  /\ sPc = "drain"
  /\ Due
  /\ in_flight' = dequeue(in_flight)
  /\ out2' = send_message2(oldest(in_flight).m)
  /\ UNCHANGED <<buffer, sPc, stuff, idle_time, sLag, sSleep, fwVars, revVars>>

NothingDue ==
  /\ sPc = "drain"
  /\ ~Due
  /\ sPc' = "look"
  /\ UNCHANGED <<buffer, stuff, in_flight, idle_time, sLag, sSleep, out2,
                 fwVars, revVars>>

StuffAlways == Len(buffer) >= 0     \* mutant: off by one

Stuff == Len(buffer) > 0

LookAtBuffer ==
  /\ sPc = "look"
  /\ stuff' = Stuff
  /\ sPc' = "plan"
  /\ UNCHANGED <<buffer, in_flight, idle_time, sLag, sSleep, out2,
                 fwVars, revVars>>

\* How long usleep() is asked to sleep, given idle_time and in_flight.
WaitTime(idle, flight) ==
  IF flight # <<>> /\ oldest(flight).finish_time > 0
  THEN Least(idle, oldest(flight).finish_time)
  ELSE idle

\* The end of an iteration: sleep, or go for the lock to wait on buffer_cond.
Pause(idle, flight) ==
  IF idle > 0 \/ (flight # <<>> /\ oldest(flight).finish_time > 0)
  THEN sPc' = "sleep" /\ sSleep' = WaitTime(idle, flight)
  ELSE sPc' = "block" /\ UNCHANGED sSleep

LinkAlwaysIdle == TRUE      \* mutant: the rate is not enforced

LinkIdle == idle_time <= 0

PutInFlight ==
  /\ sPc = "plan"
  /\ stuff /\ LinkIdle
  /\ idle_time' = serialization_delay
  /\ in_flight' = enqueue(in_flight,
                          [m |-> oldest(buffer),
                           finish_time |-> serialization_delay + delay])
  /\ buffer' = dequeue(buffer)
  /\ Pause(idle_time', in_flight')
  /\ UNCHANGED <<stuff, sLag, out2, fwVars, revVars>>

NothingToPut ==
  /\ sPc = "plan"
  /\ ~(stuff /\ LinkIdle)
  /\ Pause(idle_time, in_flight)
  /\ UNCHANGED <<buffer, stuff, in_flight, idle_time, sLag, out2,
                 fwVars, revVars>>

WakeUp ==
  /\ sPc = "sleep"
  /\ sSleep = 0
  /\ sPc' = "clock"
  /\ UNCHANGED <<buffer, stuff, in_flight, idle_time, sLag, sSleep, out2,
                 fwVars, revVars>>

\* lock; assert(!buffer->size); pthread_cond_wait, which gives the lock back.
Block ==
  /\ sPc = "block"
  /\ sPc' = IF buffer = <<>> THEN "wait" ELSE "aborted"
  /\ UNCHANGED <<buffer, stuff, in_flight, idle_time, sLag, sSleep, out2,
                 fwVars, revVars>>

\* POSIX lets pthread_cond_wait return without a signal.
SpuriousWakeUp ==
  /\ sPc = "wait"
  /\ sPc' = "clock"
  /\ UNCHANGED <<buffer, stuff, in_flight, idle_time, sLag, sSleep, out2,
                 fwVars, revVars>>

Tick ==
  /\ Running
  /\ sLag' = Least(sLag + 1, MaxLag)
  /\ sSleep' = Most(sSleep - 1, 0)
  /\ UNCHANGED <<buffer, sPc, stuff, in_flight, idle_time, out2,
                 fwVars, revVars>>

-----------------------------------------------------------------------------
(* run_reverse_forwarding.                                                 *)

Handshake2 ==
  /\ Running
  /\ revPc = "receive"
  /\ ~link_up2
  /\ link_up2' = TRUE
  /\ UNCHANGED <<buffer, revPc, revArrived, revFrame, out1, fwVars, sVars>>

Receive2 ==
  /\ Running
  /\ revPc = "receive"
  /\ link_up2
  /\ revArrived < MaxReverse
  /\ revFrame' = revArrived
  /\ revArrived' = revArrived + 1
  /\ revPc' = "send"
  /\ UNCHANGED <<buffer, out1, link_up2, fwVars, sVars>>

SendReverseTwice ==     \* mutant: the frame is kept and sent again
  /\ Running
  /\ revPc = "send"
  /\ out1' = send_message1(revFrame)
  /\ Len(out1) < 2
  /\ UNCHANGED <<buffer, revPc, revArrived, revFrame, link_up2, fwVars, sVars>>

SendReverse ==
  /\ Running
  /\ revPc = "send"
  /\ out1' = send_message1(revFrame)
  /\ revPc' = "receive"
  /\ UNCHANGED <<buffer, revArrived, revFrame, link_up2, fwVars, sVars>>

-----------------------------------------------------------------------------

Forwarder == Handshake1 \/ Receive1 \/ CheckSpace \/ Forward \/ Drop

Scheduler ==
  \/ ReadClock \/ SendDue \/ NothingDue \/ LookAtBuffer
  \/ PutInFlight \/ NothingToPut \/ WakeUp \/ Block

Reverse == Handshake2 \/ Receive2 \/ SendReverse

Next == Forwarder \/ Scheduler \/ SpuriousWakeUp \/ Reverse \/ Tick

\* Threads that can run do run, and the clock advances.  Nothing is assumed
\* of the programs that send to the two sockets, nor of spurious wake-ups.
Fairness ==
  /\ WF_vars(CheckSpace)
  /\ WF_vars(Forward \/ Drop)
  /\ WF_vars(Scheduler)
  /\ WF_vars(SendReverse)
  /\ WF_vars(Tick)

Spec == Init /\ [][Next]_vars

FairSpec == Spec /\ Fairness

-----------------------------------------------------------------------------
(* Safety.                                                                 *)

\* The space check and the enqueue it allows are two critical sections with
\* the scheduler running in between: the queue still never outgrows its size.
BufferBound == Len(buffer) <= BUFFER_SIZE

\* No lost wake-up: whenever the scheduler sits in pthread_cond_wait, which
\* only a new frame ends, it leaves no frame behind in either queue.
WaitsOnlyWhenIdle == sPc = "wait" => buffer = <<>> /\ in_flight = <<>>

\* assert(mif->m): a frame seen under the lock is still there when the lock
\* has been given up and taken again to dequeue it.
DequeueFindsFrame == sPc = "plan" /\ stuff => buffer # <<>>

\* The rate of the link: two frames never leave less than a serialization
\* delay apart, by their finish times, whatever the scheduler's own delays.
\* That alone keeps in_flight small, which has no limit in the code.
Paced ==
  \A i \in 1..(Len(in_flight) - 1) :
    in_flight[i + 1].finish_time - in_flight[i].finish_time
      >= serialization_delay

-----------------------------------------------------------------------------
(* Each direction implements FifoLink.                                     *)

Ids(frames) == [i \in DOMAIN frames |-> frames[i].id]

OnWire == [i \in DOMAIN in_flight |-> in_flight[i].m.id]

Forth == INSTANCE FifoLink WITH
           next  <- IF fwPc = "receive" THEN fwArrived ELSE fwArrived - 1,
           chan  <- OnWire \o Ids(buffer),
           out   <- Ids(out2)

\* From socket 1 to socket 2, through both queues, frames keep their order
\* and none is delivered twice.
ForthIsFifo == Forth!Spec

Back == INSTANCE FifoLink WITH
          next  <- revArrived,
          chan  <- IF revPc = "send" THEN <<revFrame>> ELSE <<>>,
          out   <- out1

\* The way back, which skips the queue, is a FIFO link too.
BackIsFifo == Back!Spec

\* The emulator is a link for each direction, whatever the other one does.
EachWayIsFifo == ForthIsFifo /\ BackIsFifo

-----------------------------------------------------------------------------
(* Liveness.                                                               *)

Accepted(n) == \E i \in DOMAIN (OnWire \o Ids(buffer)) :
                 (OnWire \o Ids(buffer))[i] = n

Delivered(n) == \E i \in DOMAIN out2 : out2[i].id = n

\* A frame the link has accepted is delivered once the receiver has made
\* itself known, or the scheduler's assertion ends the process.
AcceptedIsDelivered ==
  \A n \in 0..(MaxFrames - 1) :
    (Accepted(n) /\ link_up2) ~> (Delivered(n) \/ ~Running)

=============================================================================
