------------------------- MODULE LinkEmulatorProofs -------------------------
(***************************************************************************)
(* Proofs about LinkEmulator, for every delay, queue size and number of    *)
(* frames: its invariants, that it implements FifoLink in both directions, *)
(* and that it keeps the order of the frames, as every such link does.     *)
(***************************************************************************)
EXTENDS LinkEmulator, SequenceTheorems, TLAPS

\* TypeOK is inductive together with the fact that a dequeue after a look at
\* the buffer finds a frame: only the scheduler takes frames out.
TypeInv == TypeOK /\ DequeueFindsFrame

LEMMA EmptyIsSeq == \A S : <<>> \in Seq(S)
  BY EmptySeq

\* Sequences of any set S, the queues of the emulator among them.
LEMMA QueueTypes ==
  ASSUME NEW S, NEW q \in Seq(S)
  PROVE  /\ \A m \in S : enqueue(q, m) \in Seq(S) /\ enqueue(q, m) # <<>>
         /\ q # <<>> => oldest(q) \in S /\ dequeue(q) \in Seq(S)
  BY AppendProperties, HeadTailProperties DEF enqueue, oldest, dequeue

LEMMA FrameTypes ==
  ASSUME NEW f \in msg_in_flight
  PROVE  f.m \in Frame(MaxFrames) /\ f.finish_time \in Int
  BY DEF msg_in_flight

LEMMA TypeInit == Init => TypeInv
  <1> SUFFICES ASSUME Init  PROVE TypeInv
    OBVIOUS
  <1>1. /\ buffer \in Seq(Frame(MaxFrames))
        /\ in_flight \in Seq(msg_in_flight)
        /\ out2 \in Seq(Frame(MaxFrames))
        /\ out1 \in Seq(0..(MaxReverse - 1))
    BY EmptyIsSeq DEF Init
  <1>2. sLag \in 0..MaxLag /\ sSleep \in 0..MaxLag
    BY ConstantsAssumption DEF Init, MaxLag
  <1>3. link_up1 \in BOOLEAN /\ link_up2 \in BOOLEAN /\ overflow \in BOOLEAN
          /\ stuff \in BOOLEAN /\ sPc = "clock" /\ fwPc = "receive" /\ revPc = "receive"
    BY Zenon DEF Init
  <1>4. fwArrived \in 0..MaxFrames /\ revArrived \in 0..MaxReverse
          /\ idle_time \in 0..serialization_delay
    BY ConstantsAssumption DEF Init
  <1> QED
    BY <1>1, <1>2, <1>3, <1>4 DEF TypeInv, TypeOK, DequeueFindsFrame

LEMMA ReadClockType == TypeInv /\ ReadClock => TypeInv'
  <1> SUFFICES ASSUME TypeInv, ReadClock
               PROVE  TypeInv'
    OBVIOUS
  <1> USE ConstantsAssumption DEF TypeInv, TypeOK, DequeueFindsFrame, ReadClock
  <1>1. in_flight' \in Seq(msg_in_flight)
    <2>1. /\ in_flight' = [i \in 1..Len(in_flight) |-> Rebased(in_flight[i])]
          /\ Len(in_flight) \in Nat
      BY LenProperties
    <2>2. ASSUME NEW i \in 1..Len(in_flight)
          PROVE  Rebased(in_flight[i]) \in msg_in_flight
      <3>1. in_flight[i] \in msg_in_flight /\ sLag \in Int
        BY ElementOfSeq DEF MaxLag
      <3>2. in_flight[i].m \in Frame(MaxFrames) /\ in_flight[i].finish_time \in Int
        BY <3>1, FrameTypes
      <3> QED
        BY <3>1, <3>2 DEF Rebased, msg_in_flight
    <2> QED
      BY <2>1, <2>2, SeqDef
  <1>2. idle_time' \in 0..serialization_delay /\ sLag' \in 0..MaxLag
    BY DEF Most, MaxLag
  <1> QED
    BY <1>1, <1>2 DEF fwVars, revVars

LEMMA PutInFlightType == TypeInv /\ PutInFlight => TypeInv'
  <1> SUFFICES ASSUME TypeInv, PutInFlight
               PROVE  TypeInv'
    OBVIOUS
  <1> USE ConstantsAssumption DEF TypeInv, TypeOK, DequeueFindsFrame
  <1>1. /\ buffer # <<>>
        /\ idle_time' = serialization_delay
        /\ in_flight' = Append(in_flight,
                          [m |-> Head(buffer),
                           finish_time |-> serialization_delay + delay])
        /\ buffer' = Tail(buffer)
        /\ UNCHANGED <<stuff, sLag, out2, fwVars, revVars>>
    BY DEF PutInFlight, enqueue, dequeue, oldest
  <1>2. Head(buffer) \in Frame(MaxFrames) /\ buffer' \in Seq(Frame(MaxFrames))
    BY <1>1, HeadTailProperties
  <1>3. in_flight' \in Seq(msg_in_flight)
    <2>1. [m |-> Head(buffer), finish_time |-> serialization_delay + delay]
            \in msg_in_flight
      BY <1>2 DEF msg_in_flight
    <2> QED
      BY <1>1, <2>1, AppendProperties
  <1>4. /\ sPc' = "sleep"
        /\ sSleep' = WaitTime(idle_time', in_flight')
    BY <1>1 DEF PutInFlight, Pause
  <1>5. sSleep' \in 0..MaxLag
    <2>1. CASE in_flight' # <<>> /\ Head(in_flight').finish_time > 0
      <3>1. Head(in_flight').finish_time \in Int
        BY <1>3, <2>1, QueueTypes, FrameTypes DEF oldest
      <3> QED
        BY <1>1, <1>4, <2>1, <3>1 DEF WaitTime, oldest, Least, MaxLag
    <2>2. CASE ~(in_flight' # <<>> /\ Head(in_flight').finish_time > 0)
      BY <1>1, <1>4, <2>2 DEF WaitTime, oldest, MaxLag
    <2> QED
      BY <2>1, <2>2
  <1> QED
    BY <1>1, <1>2, <1>3, <1>4, <1>5 DEF fwVars, revVars

LEMMA NothingToPutType == TypeInv /\ NothingToPut => TypeInv'
  <1> SUFFICES ASSUME TypeInv, NothingToPut
               PROVE  TypeInv'
    OBVIOUS
  <1> USE ConstantsAssumption DEF TypeInv, TypeOK, DequeueFindsFrame
  <1>1. /\ sPc' \in {"sleep", "block"}
        /\ sSleep' \in {sSleep, WaitTime(idle_time, in_flight)}
        /\ UNCHANGED <<buffer, stuff, in_flight, idle_time, sLag, out2,
                       fwVars, revVars>>
    BY DEF NothingToPut, Pause
  <1>2. WaitTime(idle_time, in_flight) \in 0..MaxLag
    <2>1. CASE in_flight # <<>> /\ Head(in_flight).finish_time > 0
      <3>1. Head(in_flight).finish_time \in Int
        BY <2>1, QueueTypes, FrameTypes DEF oldest
      <3> QED
        BY <2>1, <3>1 DEF WaitTime, oldest, Least, MaxLag
    <2>2. CASE ~(in_flight # <<>> /\ Head(in_flight).finish_time > 0)
      BY <2>2 DEF WaitTime, oldest, MaxLag
    <2> QED
      BY <2>1, <2>2
  <1> QED
    BY <1>1, <1>2 DEF fwVars, revVars

LEMMA ForwarderType == TypeInv /\ Forwarder => TypeInv'
  <1> SUFFICES ASSUME TypeInv, Forwarder
               PROVE  TypeInv'
    OBVIOUS
  <1> USE ConstantsAssumption
      DEF TypeInv, TypeOK, DequeueFindsFrame, sVars, revVars
  <1>1. CASE Handshake1
    BY <1>1 DEF Handshake1
  <1>2. CASE Receive1
    <2>1. fwFrame' = [id |-> fwArrived, flips |-> 0] /\ fwArrived < MaxFrames
      BY <1>2 DEF Receive1, Empty
    <2>2. fwFrame' \in Frame(MaxFrames)
      BY <2>1 DEF Frame
    <2> QED
      BY <1>2, <2>2 DEF Receive1
  <1>3. CASE CheckSpace
    BY <1>3 DEF CheckSpace, Overflows
  <1>4. CASE Forward
    <2>1. PICK f \in {fwFrame} \union (IF Corrupt THEN {Corrupted(fwFrame)} ELSE {}) :
             buffer' = enqueue(buffer, f)
      BY <1>4 DEF Forward
    <2>2. f \in Frame(MaxFrames)
      <3>1. fwFrame \in Frame(MaxFrames)
        BY <1>4 DEF Forward
      <3>2. Corrupted(fwFrame) \in Frame(MaxFrames)
        <4>1. fwFrame.id \in 0..(MaxFrames - 1)
          BY <3>1 DEF Frame
        <4>2. (IF corrupt2 THEN 2 ELSE 1) \in 0..2
          BY Z3
        <4> QED
          BY <4>1, <4>2, Zenon DEF Corrupted, Frame
      <3> QED
        BY <3>1, <3>2
    <2>3. buffer' \in Seq(Frame(MaxFrames)) /\ buffer' # <<>>
      BY <2>1, <2>2, QueueTypes
    <2>4. sPc' \in {sPc, "clock"}
      BY <1>4 DEF Forward, Signalled
    <2> QED
      BY <1>4, <2>3, <2>4 DEF Forward
  <1>5. CASE Drop
    BY <1>5 DEF Drop
  <1> QED
    BY <1>1, <1>2, <1>3, <1>4, <1>5 DEF Forwarder

LEMMA SchedulerType == TypeInv /\ (Scheduler \/ SpuriousWakeUp) => TypeInv'
  <1> SUFFICES ASSUME TypeInv, Scheduler \/ SpuriousWakeUp
               PROVE  TypeInv'
    OBVIOUS
  <1> USE ConstantsAssumption
      DEF TypeInv, TypeOK, DequeueFindsFrame, fwVars, revVars
  <1>1. CASE ReadClock
    BY <1>1, ReadClockType
  <1>2. CASE SendDue
    <2>1. /\ oldest(in_flight).m \in Frame(MaxFrames)
          /\ in_flight' \in Seq(msg_in_flight)
      BY <1>2, QueueTypes, FrameTypes DEF SendDue, send_message2, Due
    <2>2. out2' \in Seq(Frame(MaxFrames))
      BY <1>2, <2>1, AppendProperties DEF SendDue, send_message2
    <2> QED
      BY <1>2, <2>1, <2>2 DEF SendDue, send_message2
  <1>3. CASE NothingDue
    BY <1>3 DEF NothingDue
  <1>4. CASE LookAtBuffer
    <2>1. stuff' => buffer # <<>>
      <3>1. stuff' => Len(buffer) > 0
        BY <1>4 DEF LookAtBuffer, Stuff
      <3>2. buffer = <<>> => Len(buffer) = 0
        OBVIOUS
      <3> QED
        BY <3>1, <3>2
    <2>2. stuff' \in BOOLEAN
      BY <1>4 DEF LookAtBuffer, Stuff
    <2> QED
      BY <1>4, <2>1, <2>2 DEF LookAtBuffer
  <1>5. CASE PutInFlight
    BY <1>5, PutInFlightType
  <1>6. CASE NothingToPut
    BY <1>6, NothingToPutType
  <1>7. CASE WakeUp
    BY <1>7 DEF WakeUp
  <1>8. CASE Block
    BY <1>8 DEF Block
  <1>9. CASE SpuriousWakeUp
    BY <1>9 DEF SpuriousWakeUp
  <1> QED
    BY <1>1, <1>2, <1>3, <1>4, <1>5, <1>6, <1>7, <1>8, <1>9 DEF Scheduler

LEMMA ReverseType == TypeInv /\ Reverse => TypeInv'
  <1> SUFFICES ASSUME TypeInv, Reverse
               PROVE  TypeInv'
    OBVIOUS
  <1> USE ConstantsAssumption
      DEF TypeInv, TypeOK, DequeueFindsFrame, fwVars, sVars
  <1>1. CASE Handshake2
    BY <1>1 DEF Handshake2
  <1>2. CASE Receive2
    BY <1>2 DEF Receive2
  <1>3. CASE SendReverse
    <2>1. out1' \in Seq(0..(MaxReverse - 1))
      BY <1>3, AppendProperties DEF SendReverse, send_message1
    <2> QED
      BY <1>3, <2>1 DEF SendReverse, send_message1
  <1> QED
    BY <1>1, <1>2, <1>3 DEF Reverse

LEMMA TypeNext == TypeInv /\ [Next]_vars => TypeInv'
  <1> SUFFICES ASSUME TypeInv, [Next]_vars
               PROVE  TypeInv'
    OBVIOUS
  <1>1. CASE Tick
    BY <1>1, ConstantsAssumption
    DEF Tick, TypeInv, TypeOK, DequeueFindsFrame, Least, Most, MaxLag, fwVars, revVars
  <1>2. CASE UNCHANGED vars
    BY <1>2 DEF TypeInv, TypeOK, DequeueFindsFrame, vars, fwVars, sVars, revVars
  <1> QED
    BY <1>1, <1>2, ForwarderType, SchedulerType, ReverseType DEF Next

LEMMA TypeInvariant == Spec => []TypeInv
  BY TypeInit, TypeNext, PTL DEF Spec

\* Every variable of the three threads keeps its type.
THEOREM TypeCorrect == Spec => []TypeOK
  BY TypeInvariant, PTL DEF TypeInv

\* assert(mif->m): the dequeue that follows a look at the queue, in another
\* critical section, finds a frame.
THEOREM DequeueSafe == Spec => []DequeueFindsFrame
  BY TypeInvariant, PTL DEF TypeInv

-----------------------------------------------------------------------------
(* The bound on the queue.                                                 *)

\* The answer of the space check stays valid until it is used: nobody but
\* the forwarder itself adds to the queue.
SpaceInv ==
  /\ Len(buffer) <= BUFFER_SIZE
  /\ fwPc = "decide" /\ ~overflow => Len(buffer) < BUFFER_SIZE

LEMMA SpaceInit == Init => SpaceInv
  BY ConstantsAssumption DEF Init, SpaceInv

LEMMA SpaceNext == TypeInv /\ SpaceInv /\ [Next]_vars => SpaceInv'
  <1> SUFFICES ASSUME TypeInv, SpaceInv, [Next]_vars
               PROVE  SpaceInv'
    OBVIOUS
  <1>0. /\ Len(buffer) \in Nat
        /\ BUFFER_SIZE \in Nat \ {0}
        /\ buffer \in Seq(Frame(MaxFrames))
    BY ConstantsAssumption DEF TypeInv, TypeOK
  <1>1. CASE CheckSpace
    <2>1. Overflows <=> Len(buffer) >= BUFFER_SIZE
      BY DEF Overflows
    <2>2. buffer' = buffer /\ (overflow' <=> Overflows)
      BY <1>1 DEF CheckSpace
    <2> QED
      BY <1>0, <2>1, <2>2 DEF SpaceInv
  <1>2. CASE Forward
    <2>1. PICK f : buffer' = Append(buffer, f)
      BY <1>2 DEF Forward, enqueue
    <2>2. Len(buffer') = Len(buffer) + 1
      BY <1>0, <2>1
    <2>3. Len(buffer) < BUFFER_SIZE /\ fwPc' = "receive"
      BY <1>2 DEF Forward, SpaceInv
    <2> QED
      BY <1>0, <2>2, <2>3 DEF SpaceInv
  <1>3. CASE PutInFlight
    <2>1. /\ buffer # <<>>
          /\ buffer' = Tail(buffer)
          /\ UNCHANGED <<fwPc, overflow>>
      BY <1>3 DEF PutInFlight, TypeInv, DequeueFindsFrame, dequeue, fwVars
    <2>2. Len(buffer') = Len(buffer) - 1
      BY <1>0, <2>1, HeadTailProperties
    <2> QED
      BY <1>0, <2>1, <2>2 DEF SpaceInv
  <1>4. CASE Handshake1 \/ Receive1 \/ Drop
    <2>1. buffer' = buffer /\ fwPc' # "decide"
      BY <1>4 DEF Handshake1, Receive1, Drop
    <2> QED
      BY <2>1 DEF SpaceInv
  <1>5. ASSUME UNCHANGED <<buffer, fwVars>>
        PROVE  SpaceInv'
    BY <1>5 DEF SpaceInv, fwVars
  <1>6. CASE Reverse \/ Tick \/ SpuriousWakeUp \/ UNCHANGED vars
    BY <1>5, <1>6
    DEF Reverse, Handshake2, Receive2, SendReverse, Tick, SpuriousWakeUp, vars
  <1>7. CASE Scheduler /\ ~PutInFlight
    BY <1>5, <1>7
    DEF Scheduler, ReadClock, SendDue, NothingDue, LookAtBuffer, NothingToPut,
        WakeUp, Block
  <1> QED
    BY <1>1, <1>2, <1>3, <1>4, <1>6, <1>7 DEF Next, Forwarder

\* The queue never outgrows BUFFER_SIZE, though the room in it is checked and
\* used in two critical sections.
THEOREM BufferBounded == Spec => []BufferBound
  <1>1. Spec => []SpaceInv
    BY TypeInvariant, SpaceInit, SpaceNext, PTL DEF Spec
  <1>2. SpaceInv => BufferBound
    BY DEF SpaceInv, BufferBound
  <1> QED
    BY <1>1, <1>2, PTL

-----------------------------------------------------------------------------
(* No lost wake-up.                                                        *)

\* Between the loop that sends what is due and the end of the iteration
\* nothing on the wire is due, so the scheduler sleeps unless its wire is
\* empty; and it goes on to wait with the buffer empty too.
IdleInv ==
  /\ sPc \in {"look", "plan"} /\ in_flight # <<>> =>
       oldest(in_flight).finish_time > 0
  /\ sPc \in {"block", "wait"} => in_flight = <<>>
  /\ sPc = "wait" => buffer = <<>>

LEMMA IdleInit == Init => IdleInv
  BY DEF Init, IdleInv

LEMMA IdleNext == TypeInv /\ IdleInv /\ [Next]_vars => IdleInv'
  <1> SUFFICES ASSUME TypeInv, IdleInv, [Next]_vars
               PROVE  IdleInv'
    OBVIOUS
  <1>1. CASE Forward
    <2>1. sPc' # "wait" /\ (sPc' = sPc \/ sPc' = "clock") /\ in_flight' = in_flight
      BY <1>1 DEF Forward, Signalled
    <2> QED
      BY <2>1 DEF IdleInv
  <1>2. CASE NothingDue
    <2>1. in_flight # <<>> => oldest(in_flight).finish_time > 0
      <3>1. SUFFICES ASSUME in_flight # <<>>
                     PROVE  oldest(in_flight).finish_time > 0
        OBVIOUS
      <3>2. oldest(in_flight).finish_time \in Int
        BY <3>1, QueueTypes, FrameTypes DEF TypeInv, TypeOK
      <3>3. ~(oldest(in_flight).finish_time <= 0)
        BY <1>2, <3>1 DEF NothingDue, Due
      <3> QED
        BY <3>2, <3>3
    <2> QED
      BY <1>2, <2>1 DEF NothingDue, IdleInv
  <1>3. CASE PutInFlight
    <2>1. idle_time' > 0
      BY <1>3, ConstantsAssumption DEF PutInFlight
    <2>2. sPc' = "sleep"
      BY <1>3, <2>1 DEF PutInFlight, Pause
    <2> QED
      BY <2>2 DEF IdleInv
  <1>4. CASE NothingToPut
    <2>1. in_flight' = in_flight /\ sPc = "plan"
      BY <1>4 DEF NothingToPut
    <2>2. CASE in_flight # <<>>
      <3>1. sPc' = "sleep"
        BY <1>4, <2>1, <2>2 DEF NothingToPut, Pause, IdleInv
      <3> QED
        BY <3>1 DEF IdleInv
    <2>3. CASE in_flight = <<>>
      <3>1. sPc' \in {"sleep", "block"}
        BY <1>4 DEF NothingToPut, Pause
      <3> QED
        BY <2>1, <2>3, <3>1 DEF IdleInv
    <2> QED
      BY <2>2, <2>3
  <1>5. CASE Block
    BY <1>5 DEF Block, IdleInv
  <1>6. CASE LookAtBuffer
    BY <1>6 DEF LookAtBuffer, IdleInv
  <1>7. CASE ReadClock \/ SendDue \/ WakeUp \/ SpuriousWakeUp
    <2>1. sPc' \in {"drain", "clock"}
      BY <1>7 DEF ReadClock, SendDue, WakeUp, SpuriousWakeUp
    <2> QED
      BY <2>1 DEF IdleInv
  <1>8. ASSUME UNCHANGED <<buffer, sPc, in_flight>>
        PROVE  IdleInv'
    BY <1>8 DEF IdleInv
  <1>9. CASE Reverse \/ Tick \/ UNCHANGED vars
    BY <1>8, <1>9
    DEF Reverse, Handshake2, Receive2, SendReverse, Tick, vars, sVars
  <1>10. CASE Handshake1 \/ Receive1 \/ CheckSpace \/ Drop
    BY <1>8, <1>10
    DEF Handshake1, Receive1, CheckSpace, Drop, sVars
  <1> QED
    BY <1>1, <1>2, <1>3, <1>4, <1>5, <1>6, <1>7, <1>9, <1>10
    DEF Next, Forwarder, Scheduler

\* The scheduler never waits for a signal while a frame is in its queues: no
\* wake-up is lost, for any delays and any interleaving.
THEOREM NoLostWakeUp == Spec => []WaitsOnlyWhenIdle
  <1>1. Spec => []IdleInv
    BY TypeInvariant, IdleInit, IdleNext, PTL DEF Spec
  <1>2. IdleInv => WaitsOnlyWhenIdle
    BY DEF IdleInv, WaitsOnlyWhenIdle
  <1> QED
    BY <1>1, <1>2, PTL

-----------------------------------------------------------------------------
(* The rate of the link.                                                   *)

\* The newest frame on the wire crosses it at most a delay after the link is
\* free again, which is when the next one can follow it.
LastInv ==
  in_flight # <<>> =>
    in_flight[Len(in_flight)].finish_time <= idle_time + delay

PaceInv == Paced /\ LastInv

LEMMA PaceInit == Init => PaceInv
  BY DEF Init, PaceInv, Paced, LastInv

LEMMA FlightFacts ==
  ASSUME TypeInv
  PROVE  /\ in_flight \in Seq(msg_in_flight)
         /\ Len(in_flight) \in Nat
         /\ in_flight # <<>> <=> Len(in_flight) > 0
         /\ \A i \in 1..Len(in_flight) : in_flight[i].finish_time \in Int
         /\ idle_time \in Nat /\ sLag \in Nat
  <1>1. in_flight \in Seq(msg_in_flight)
    BY DEF TypeInv, TypeOK
  <1>2. Len(in_flight) \in Nat /\ (in_flight # <<>> <=> Len(in_flight) > 0)
    BY <1>1, EmptySeq
  <1>3. \A i \in 1..Len(in_flight) : in_flight[i].finish_time \in Int
    BY <1>1, ElementOfSeq, FrameTypes
  <1>4. idle_time \in Nat /\ sLag \in Nat
    BY ConstantsAssumption DEF TypeInv, TypeOK, MaxLag
  <1> QED
    BY <1>1, <1>2, <1>3, <1>4

LEMMA PaceNext == TypeInv /\ PaceInv /\ [Next]_vars => PaceInv'
  <1> SUFFICES ASSUME TypeInv, PaceInv, [Next]_vars
               PROVE  PaceInv'
    OBVIOUS
  <1> USE FlightFacts, ConstantsAssumption
  <1>1. CASE ReadClock
    <2>1. /\ in_flight' = [i \in 1..Len(in_flight) |-> Rebased(in_flight[i])]
          /\ idle_time' = Most(idle_time - sLag, 0)
      BY <1>1, LenProperties DEF ReadClock
    <2>2. /\ Len(in_flight') = Len(in_flight)
          /\ \A i \in 1..Len(in_flight) :
               in_flight'[i].finish_time = in_flight[i].finish_time - sLag
      BY <2>1 DEF Rebased
    <2>3. ASSUME NEW i \in 1..(Len(in_flight') - 1)
          PROVE  in_flight'[i + 1].finish_time - in_flight'[i].finish_time
                   >= serialization_delay
      <3>1. i \in 1..Len(in_flight) /\ i + 1 \in 1..Len(in_flight)
        BY <2>2
      <3>2. in_flight[i + 1].finish_time - in_flight[i].finish_time
              >= serialization_delay
        BY <2>2 DEF Paced, PaceInv
      <3>3. /\ in_flight[i].finish_time \in Int
            /\ in_flight[i + 1].finish_time \in Int
        BY <3>1
      <3>4. /\ in_flight'[i].finish_time = in_flight[i].finish_time - sLag
            /\ in_flight'[i + 1].finish_time = in_flight[i + 1].finish_time - sLag
        BY <2>2, <3>1
      <3> QED
        BY <3>2, <3>3, <3>4
    <2>4. in_flight' # <<>> => in_flight # <<>>
      BY <2>1
    <2>5. LastInv'
      BY <2>1, <2>2, <2>4 DEF LastInv, PaceInv, Most
    <2> QED
      BY <2>3, <2>5 DEF PaceInv, Paced
  <1>2. CASE SendDue
    <2>1. /\ in_flight # <<>>
          /\ in_flight' = Tail(in_flight)
          /\ UNCHANGED idle_time
      BY <1>2 DEF SendDue, Due, dequeue
    <2>2. /\ Len(in_flight') = Len(in_flight) - 1
          /\ \A i \in 1..Len(in_flight') : in_flight'[i] = in_flight[i + 1]
          /\ in_flight' \in Seq(msg_in_flight)
      BY <2>1, HeadTailProperties
    <2>3. ASSUME NEW i \in 1..(Len(in_flight') - 1)
          PROVE  in_flight'[i + 1].finish_time - in_flight'[i].finish_time
                   >= serialization_delay
      <3>1. /\ i \in 1..Len(in_flight') /\ i + 1 \in 1..Len(in_flight')
            /\ i + 1 \in 1..(Len(in_flight) - 1)
        BY <2>2
      <3> QED
        BY <2>2, <3>1 DEF Paced, PaceInv
    <2>4. LastInv'
      <3>1. SUFFICES ASSUME in_flight' # <<>>
                     PROVE  in_flight'[Len(in_flight')].finish_time
                              <= idle_time + delay
        BY <2>1 DEF LastInv
      <3>2. Len(in_flight') > 0
        BY <2>2, <3>1, EmptySeq
      <3>3. in_flight'[Len(in_flight')] = in_flight[Len(in_flight)]
        BY <2>2, <3>2
      <3> QED
        BY <2>1, <3>3 DEF LastInv, PaceInv
    <2> QED
      BY <2>3, <2>4 DEF PaceInv, Paced
  <1>3. CASE PutInFlight
    <2> DEFINE f == [m |-> oldest(buffer),
                     finish_time |-> serialization_delay + delay]
    <2>1. /\ idle_time = 0
          /\ idle_time' = serialization_delay
          /\ in_flight' = Append(in_flight, f)
      BY <1>3 DEF PutInFlight, LinkIdle, enqueue
    <2>2. f.finish_time = serialization_delay + delay
      OBVIOUS
    <2> HIDE DEF f
    <2>3. /\ Len(in_flight') = Len(in_flight) + 1
          /\ \A i \in 1..Len(in_flight) : in_flight'[i] = in_flight[i]
          /\ in_flight'[Len(in_flight) + 1] = f
      BY <2>1
    <2>4. ASSUME NEW i \in 1..(Len(in_flight') - 1)
          PROVE  in_flight'[i + 1].finish_time - in_flight'[i].finish_time
                   >= serialization_delay
      <3>1. CASE i \in 1..(Len(in_flight) - 1)
        BY <2>3, <3>1 DEF Paced, PaceInv
      <3>2. CASE i = Len(in_flight)
        <4>1. in_flight[i].finish_time <= delay
          BY <2>1, <2>3, <3>2 DEF LastInv, PaceInv
        <4> QED
          BY <2>2, <2>3, <3>2, <4>1
      <3> QED
        BY <2>3, <3>1, <3>2
    <2>5. LastInv'
      BY <2>1, <2>2, <2>3 DEF LastInv
    <2> QED
      BY <2>4, <2>5 DEF PaceInv, Paced
  <1>4. ASSUME UNCHANGED <<in_flight, idle_time>>
        PROVE  PaceInv'
    BY <1>4 DEF PaceInv, Paced, LastInv
  <1>5. CASE Forwarder \/ Reverse \/ Tick \/ SpuriousWakeUp \/ UNCHANGED vars
    BY <1>4, <1>5
    DEF Forwarder, Handshake1, Receive1, CheckSpace, Forward, Drop, Reverse,
        Handshake2, Receive2, SendReverse, Tick, SpuriousWakeUp, vars, sVars
  <1>6. CASE NothingDue \/ LookAtBuffer \/ NothingToPut \/ WakeUp \/ Block
    BY <1>4, <1>6
    DEF NothingDue, LookAtBuffer, NothingToPut, WakeUp, Block
  <1> QED
    BY <1>1, <1>2, <1>3, <1>5, <1>6 DEF Next, Scheduler

\* Frames cross the link at least a serialization delay apart, however late
\* the scheduler runs.
THEOREM RateKept == Spec => []Paced
  <1>1. Spec => []PaceInv
    BY TypeInvariant, PaceInit, PaceNext, PTL DEF Spec
  <1>2. PaceInv => Paced
    BY DEF PaceInv
  <1> QED
    BY <1>1, <1>2, PTL

-----------------------------------------------------------------------------
(* The way back implements FifoLink.  A frame is on the abstract link as   *)
(* long as the reverse forwarder holds it.                                 *)

LEMMA BackInit == Init => Back!Init
  BY DEF Init, Back!Init

LEMMA BackNext == TypeInv /\ [Next]_vars => [Back!Next]_(Back!vars)
  <1> SUFFICES ASSUME TypeInv, [Next]_vars
               PROVE  [Back!Next]_(Back!vars)
    OBVIOUS
  <1>1. CASE Receive2
    <2>1. /\ revPc = "receive" /\ revPc' = "send"
          /\ revArrived' = revArrived + 1
          /\ revFrame' = revArrived /\ out1' = out1 /\ revArrived \in Nat
      BY <1>1, ConstantsAssumption DEF Receive2, TypeInv, TypeOK
    <2>2. Append(<<>>, revArrived) = <<revArrived>>
      OBVIOUS
    <2>3. Back!Accept
      BY <2>1, <2>2 DEF Back!Accept
    <2> QED
      BY <2>3 DEF Back!Next
  <1>2. CASE SendReverse
    <2>1. /\ revPc = "send" /\ revPc' = "receive"
          /\ UNCHANGED revArrived
          /\ out1' = Append(out1, revFrame) \/ out1' = out1
      BY <1>2 DEF SendReverse, send_message1
    <2>2. /\ <<revFrame>> # <<>>
          /\ Head(<<revFrame>>) = revFrame /\ Tail(<<revFrame>>) = <<>>
      OBVIOUS
    <2>3. Back!Deliver \/ Back!Lose
      BY <2>1, <2>2 DEF Back!Deliver, Back!Lose
    <2> QED
      BY <2>3 DEF Back!Next
  <1>3. ASSUME UNCHANGED <<revPc, revArrived, revFrame, out1>>
        PROVE  UNCHANGED Back!vars
    BY <1>3 DEF Back!vars
  <1>4. CASE Handshake2 \/ Forwarder \/ Scheduler \/ SpuriousWakeUp \/ Tick
             \/ UNCHANGED vars
    BY <1>3, <1>4
    DEF Handshake2, Forwarder, Handshake1, Receive1, CheckSpace, Forward, Drop,
        Scheduler, ReadClock, SendDue, NothingDue, LookAtBuffer, PutInFlight,
        NothingToPut, WakeUp, Block, SpuriousWakeUp, Tick, vars, revVars
  <1> QED
    BY <1>1, <1>2, <1>4 DEF Next, Reverse

\* The way from socket 2 to socket 1, beside the queue, is a FIFO link
\* (run_reverse_forwarding).
THEOREM BackImplements == Spec => BackIsFifo
  BY TypeInvariant, BackInit, BackNext, PTL DEF Spec, BackIsFifo, Back!Spec


-----------------------------------------------------------------------------
(* The way forth implements FifoLink.  Frames enter the abstract link when *)
(* they are enqueued and leave it from the head of the wire; what moves    *)
(* from the queue to the wire does not change it.                          *)

\* The frame that the forwarder holds is the last that arrived.
NumberInv == fwPc # "receive" => fwFrame.id = fwArrived - 1

LEMMA NumberInit == Init => NumberInv
  BY DEF Init, NumberInv

LEMMA NumberNext == TypeInv /\ NumberInv /\ [Next]_vars => NumberInv'
  <1> SUFFICES ASSUME TypeInv, NumberInv, [Next]_vars
               PROVE  NumberInv'
    OBVIOUS
  <1>1. CASE Receive1
    <2>1. fwArrived' = fwArrived + 1 /\ fwFrame' = [id |-> fwArrived, flips |-> 0]
          /\ fwArrived \in Nat
      BY <1>1, ConstantsAssumption DEF Receive1, TypeInv, TypeOK
    <2> QED
      BY <2>1 DEF NumberInv
  <1>2. CASE CheckSpace
    BY <1>2 DEF CheckSpace, NumberInv
  <1>3. CASE Forward \/ Drop
    BY <1>3 DEF Forward, Drop, NumberInv
  <1>4. CASE Handshake1 \/ Scheduler \/ SpuriousWakeUp \/ Reverse \/ Tick
             \/ UNCHANGED vars
    BY <1>4
    DEF Handshake1, Scheduler, ReadClock, SendDue, NothingDue, LookAtBuffer,
        PutInFlight, NothingToPut, WakeUp, Block, SpuriousWakeUp, Reverse,
        Handshake2, Receive2, SendReverse, Tick, vars, fwVars, NumberInv
  <1> QED
    BY <1>1, <1>2, <1>3, <1>4 DEF Next, Forwarder

-----------------------------------------------------------------------------
(* The numbers in a queue, and two queues one after the other.             *)

LEMMA AsFunction ==
  ASSUME NEW S, NEW s \in Seq(S), NEW n \in Nat, Len(s) = n
  PROVE  s = [i \in 1..n |-> s[i]]
  BY LenProperties

LEMMA IdsTypes ==
  ASSUME NEW q \in Seq(Frame(MaxFrames))
  PROVE  Ids(q) \in Seq(Nat) /\ Len(Ids(q)) = Len(q)
  <1>1. Len(q) \in Nat /\ DOMAIN q = 1..Len(q)
        /\ \A i \in 1..Len(q) : q[i] \in Frame(MaxFrames)
    BY LenProperties, ElementOfSeq
  <1>2. \A i \in 1..Len(q) : q[i].id \in Nat
    BY <1>1, ConstantsAssumption DEF Frame
  <1> QED
    BY <1>1, <1>2 DEF Ids

LEMMA WireTypes ==
  ASSUME TypeInv
  PROVE  OnWire \in Seq(Nat) /\ Len(OnWire) = Len(in_flight)
  <1>1. Len(in_flight) \in Nat /\ DOMAIN in_flight = 1..Len(in_flight)
        /\ \A i \in 1..Len(in_flight) : in_flight[i] \in msg_in_flight
    BY LenProperties, ElementOfSeq DEF TypeInv, TypeOK
  <1>2. \A i \in 1..Len(in_flight) : in_flight[i].m.id \in Nat
    BY <1>1, FrameTypes, ConstantsAssumption DEF Frame
  <1> QED
    BY <1>1, <1>2 DEF OnWire

\* A queue of frames and the numbers in it change together.
LEMMA IdsAppend ==
  ASSUME NEW q \in Seq(Frame(MaxFrames)), NEW f \in Frame(MaxFrames)
  PROVE  Ids(Append(q, f)) = Append(Ids(q), f.id)
  <1>1. PICK r : r = Append(q, f)
    OBVIOUS
  <1>2. /\ r \in Seq(Frame(MaxFrames)) /\ Len(r) = Len(q) + 1
        /\ \A i \in 1..Len(q) : r[i] = q[i]
        /\ r[Len(q) + 1] = f /\ Len(q) \in Nat
    BY <1>1, AppendProperties, LenProperties
  <1>3. f.id \in Nat
    BY ConstantsAssumption DEF Frame
  <1>4. /\ Append(Ids(q), f.id) \in Seq(Nat)
        /\ Len(Append(Ids(q), f.id)) = Len(q) + 1
        /\ \A i \in 1..Len(q) : Append(Ids(q), f.id)[i] = Ids(q)[i]
        /\ Append(Ids(q), f.id)[Len(q) + 1] = f.id
    BY <1>3, IdsTypes, AppendProperties
  <1>5. Ids(r) \in Seq(Nat) /\ Len(Ids(r)) = Len(q) + 1
    BY <1>2, IdsTypes
  <1>6. \A i \in 1..(Len(q) + 1) : Ids(r)[i] = r[i].id
    BY <1>2, LenProperties DEF Ids
  <1>7. \A i \in 1..Len(q) : Ids(q)[i] = q[i].id
    BY LenProperties DEF Ids
  <1>8. \A i \in 1..(Len(q) + 1) : Ids(r)[i] = Append(Ids(q), f.id)[i]
    BY <1>2, <1>4, <1>6, <1>7
  <1>9. Ids(r) = Append(Ids(q), f.id)
    BY <1>4, <1>5, <1>8, SeqEqual
  <1> QED
    BY <1>1, <1>9

LEMMA IdsTail ==
  ASSUME NEW q \in Seq(Frame(MaxFrames)), q # <<>>
  PROVE  Ids(q) # <<>> /\ Head(Ids(q)) = Head(q).id /\ Ids(Tail(q)) = Tail(Ids(q))
  <1>1. PICK r : r = Tail(q)
    OBVIOUS
  <1>2. /\ r \in Seq(Frame(MaxFrames)) /\ Len(r) = Len(q) - 1
        /\ \A i \in 1..Len(r) : r[i] = q[i + 1]
        /\ Head(q) = q[1] /\ Len(q) \in Nat /\ Len(q) >= 1
    BY <1>1, HeadTailProperties, LenProperties, EmptySeq
  <1>3. Ids(q) \in Seq(Nat) /\ Len(Ids(q)) = Len(q) /\ Ids(q) # <<>>
    BY <1>2, IdsTypes, EmptySeq
  <1>4. /\ Tail(Ids(q)) \in Seq(Nat) /\ Len(Tail(Ids(q))) = Len(q) - 1
        /\ \A i \in 1..(Len(q) - 1) : Tail(Ids(q))[i] = Ids(q)[i + 1]
        /\ Head(Ids(q)) = Ids(q)[1]
    BY <1>3, HeadTailProperties
  <1>5. \A i \in 1..Len(q) : Ids(q)[i] = q[i].id
    BY LenProperties DEF Ids
  <1>6. \A i \in 1..Len(r) : Ids(r)[i] = r[i].id
    BY <1>2, LenProperties DEF Ids
  <1>7. Ids(r) \in Seq(Nat) /\ Len(Ids(r)) = Len(q) - 1
    BY <1>2, IdsTypes
  <1>8. ASSUME NEW i \in 1..(Len(q) - 1) PROVE Ids(r)[i] = Tail(Ids(q))[i]
    <2>1. i \in 1..Len(r) /\ i + 1 \in 1..Len(q)
      BY <1>2
    <2>2. Ids(r)[i] = r[i].id /\ r[i] = q[i + 1]
      BY <1>2, <1>6, <2>1
    <2>3. Tail(Ids(q))[i] = Ids(q)[i + 1] /\ Ids(q)[i + 1] = q[i + 1].id
      BY <1>4, <1>5, <2>1
    <2> QED
      BY <2>2, <2>3
  <1>9. Ids(r) = Tail(Ids(q))
    BY <1>4, <1>7, <1>8, SeqEqual
  <1>10. Ids(q)[1] = q[1].id
    BY <1>2, <1>5
  <1> QED
    BY <1>1, <1>2, <1>3, <1>4, <1>9, <1>10

\* What leaves the first of two queues for the second stays in its place.
LEMMA MovesOn ==
  ASSUME NEW S, NEW s \in Seq(S), NEW t \in Seq(S), t # <<>>
  PROVE  Append(s, Head(t)) \o Tail(t) = s \o t
  <1>1. /\ Head(t) \in S /\ Tail(t) \in Seq(S) /\ Len(Tail(t)) = Len(t) - 1
        /\ \A k \in 1..Len(Tail(t)) : Tail(t)[k] = t[k + 1]
        /\ Len(s) \in Nat /\ Len(t) \in Nat /\ Head(t) = t[1] /\ Len(t) >= 1
    BY HeadTailProperties, LenProperties, EmptySeq
  <1>2. t = <<Head(t)>> \o Tail(t)
    BY <1>1
  <1>3. Append(s, Head(t)) = s \o <<Head(t)>>
    BY <1>1, AppendIsConcat
  <1>4. <<Head(t)>> \in Seq(S)
    BY <1>1
  <1>5. (s \o <<Head(t)>>) \o Tail(t) = s \o (<<Head(t)>> \o Tail(t))
    BY <1>1, <1>4, ConcatAssociative
  <1> QED
    BY <1>2, <1>3, <1>5

LEMMA EntersLast ==
  ASSUME NEW S, NEW s \in Seq(S), NEW t \in Seq(S), NEW e \in S
  PROVE  s \o Append(t, e) = Append(s \o t, e)
  <1>1. <<e>> \in Seq(S) /\ s \o t \in Seq(S)
    BY ConcatProperties
  <1>2. Append(t, e) = t \o <<e>> /\ Append(s \o t, e) = (s \o t) \o <<e>>
    BY <1>1, AppendIsConcat
  <1>3. s \o (t \o <<e>>) = (s \o t) \o <<e>>
    BY <1>1, ConcatAssociative
  <1> QED
    BY <1>2, <1>3

LEMMA LeavesFirst ==
  ASSUME NEW S, NEW s \in Seq(S), NEW t \in Seq(S), s # <<>>
  PROVE  s \o t # <<>> /\ Head(s \o t) = Head(s) /\ Tail(s \o t) = Tail(s) \o t
  <1>1. /\ Head(s) \in S /\ Tail(s) \in Seq(S) /\ Len(Tail(s)) = Len(s) - 1
        /\ \A k \in 1..Len(Tail(s)) : Tail(s)[k] = s[k + 1]
        /\ Len(s) \in Nat /\ Len(t) \in Nat /\ Head(s) = s[1] /\ Len(s) >= 1
    BY HeadTailProperties, LenProperties, EmptySeq
  <1>2. /\ s \o t \in Seq(S) /\ Len(s \o t) = Len(s) + Len(t)
        /\ \A k \in 1..(Len(s) + Len(t)) :
             (s \o t)[k] = IF k <= Len(s) THEN s[k] ELSE t[k - Len(s)]
    BY ConcatProperties
  <1>3. s \o t # <<>>
    BY <1>1, <1>2, EmptySeq
  <1>4. /\ Tail(s \o t) \in Seq(S) /\ Len(Tail(s \o t)) = Len(s) + Len(t) - 1
        /\ \A k \in 1..(Len(s) + Len(t) - 1) : Tail(s \o t)[k] = (s \o t)[k + 1]
        /\ Head(s \o t) = (s \o t)[1]
    BY <1>1, <1>2, <1>3, HeadTailProperties
  <1>5. /\ Tail(s) \o t \in Seq(S) /\ Len(Tail(s) \o t) = Len(s) - 1 + Len(t)
        /\ \A k \in 1..(Len(s) - 1 + Len(t)) :
             (Tail(s) \o t)[k] =
               IF k <= Len(s) - 1 THEN Tail(s)[k] ELSE t[k - (Len(s) - 1)]
    BY <1>1, ConcatProperties
  <1>6. \A k \in 1..(Len(s) + Len(t) - 1) : Tail(s \o t)[k] = (Tail(s) \o t)[k]
    <2> SUFFICES ASSUME NEW k \in 1..(Len(s) + Len(t) - 1)
                 PROVE  Tail(s \o t)[k] = (Tail(s) \o t)[k]
      OBVIOUS
    <2>1. CASE k <= Len(s) - 1
      BY <1>1, <1>2, <1>4, <1>5, <2>1
    <2>2. CASE k > Len(s) - 1
      <3>1. (s \o t)[k + 1] = t[(k + 1) - Len(s)]
        BY <1>1, <1>2, <2>2
      <3>2. (Tail(s) \o t)[k] = t[k - (Len(s) - 1)]
        BY <1>1, <1>5, <2>2
      <3>3. (k + 1) - Len(s) = k - (Len(s) - 1)
        BY <1>1
      <3> QED
        BY <1>4, <3>1, <3>2, <3>3
    <2> QED
      BY <1>1, <2>1, <2>2
  <1>7. Len(s) - 1 + Len(t) = Len(s) + Len(t) - 1
    BY <1>1
  <1>8. Tail(s \o t) = Tail(s) \o t
    BY <1>4, <1>5, <1>6, <1>7, SeqEqual
  <1>9. (s \o t)[1] = s[1]
    BY <1>1, <1>2
  <1> QED
    BY <1>1, <1>3, <1>4, <1>8, <1>9

-----------------------------------------------------------------------------
(* Each step of the emulator is a step of the abstract link or none.       *)

LEMMA ForthInit == Init => Forth!Init
  <1> SUFFICES ASSUME Init PROVE Forth!Init
    OBVIOUS
  <1>1. buffer = <<>> /\ in_flight = <<>> /\ out2 = <<>>
        /\ fwPc = "receive" /\ fwArrived = 0
    BY DEF Init
  <1>2. OnWire = <<>> /\ Ids(buffer) = <<>> /\ Ids(out2) = <<>>
    BY <1>1 DEF OnWire, Ids
  <1>3. <<>> \o <<>> = <<>>
    OBVIOUS
  <1> QED
    BY <1>1, <1>2, <1>3 DEF Forth!Init

\* What of the emulator's state the abstract link sees.
LEMMA ForthSees ==
  ASSUME UNCHANGED <<buffer, in_flight, out2, fwPc, fwArrived>>
  PROVE  UNCHANGED Forth!vars
  <1>1. OnWire' = OnWire /\ Ids(buffer)' = Ids(buffer) /\ Ids(out2)' = Ids(out2)
    BY DEF OnWire, Ids
  <1> QED
    BY <1>1 DEF Forth!vars

LEMMA ForthForward ==
  ASSUME TypeInv, NumberInv, Forward
  PROVE  Forth!Accept
  <1> USE ConstantsAssumption
  <1>1. /\ buffer \in Seq(Frame(MaxFrames)) /\ fwFrame \in Frame(MaxFrames)
        /\ fwArrived \in Nat /\ fwFrame.id = fwArrived - 1
        /\ fwPc = "decide" /\ fwPc' = "receive"
        /\ UNCHANGED <<fwArrived, in_flight, out2>>
    BY DEF TypeInv, TypeOK, NumberInv, Forward
  <1>2. PICK f : /\ f \in Frame(MaxFrames) /\ f.id = fwFrame.id
                 /\ buffer' = Append(buffer, f)
    <2>1. \A f \in {fwFrame} \union {Corrupted(fwFrame)} :
            f \in Frame(MaxFrames) /\ f.id = fwFrame.id
      BY <1>1 DEF Corrupted, Frame
    <2> QED
      BY <2>1 DEF Forward, enqueue
  <1>3. Ids(buffer') = Append(Ids(buffer), f.id)
    BY <1>1, <1>2, IdsAppend
  <1>4. f.id \in Nat
    BY <1>2 DEF Frame
  <1>5. OnWire' = OnWire /\ Ids(out2)' = Ids(out2)
    BY <1>1 DEF OnWire, Ids
  <1>6. OnWire \in Seq(Nat) /\ Ids(buffer) \in Seq(Nat)
    BY <1>1, WireTypes, IdsTypes
  <1>7. OnWire \o Append(Ids(buffer), f.id) = Append(OnWire \o Ids(buffer), f.id)
    BY <1>4, <1>6, EntersLast
  <1>8. Ids(buffer)' = Ids(buffer')
    BY DEF Ids
  <1>9. (OnWire \o Ids(buffer))' = Append(OnWire \o Ids(buffer), fwArrived - 1)
    BY <1>1, <1>2, <1>3, <1>5, <1>7, <1>8
  <1> QED
    BY <1>1, <1>5, <1>9 DEF Forth!Accept

LEMMA ForthDrop ==
  ASSUME TypeInv, Drop
  PROVE  Forth!Refuse
  <1> USE ConstantsAssumption
  <1>1. /\ fwArrived \in Nat /\ fwPc = "decide" /\ fwPc' = "receive"
        /\ UNCHANGED <<fwArrived, in_flight, out2, buffer>>
    BY DEF TypeInv, TypeOK, Drop, sVars
  <1>2. OnWire' = OnWire /\ Ids(buffer)' = Ids(buffer) /\ Ids(out2)' = Ids(out2)
    BY <1>1 DEF OnWire, Ids
  <1> QED
    BY <1>1, <1>2 DEF Forth!Refuse

LEMMA ForthReceive ==
  ASSUME TypeInv, Receive1
  PROVE  UNCHANGED Forth!vars
  <1>1. /\ fwArrived \in Int /\ fwPc = "receive" /\ fwPc' = "check"
        /\ fwArrived' = fwArrived + 1
        /\ UNCHANGED <<in_flight, out2, buffer>>
    BY ConstantsAssumption DEF TypeInv, TypeOK, Receive1, sVars
  <1>2. OnWire' = OnWire /\ Ids(buffer)' = Ids(buffer) /\ Ids(out2)' = Ids(out2)
    BY <1>1 DEF OnWire, Ids
  <1> QED
    BY <1>1, <1>2 DEF Forth!vars

LEMMA ForthReadClock ==
  ASSUME TypeInv, ReadClock
  PROVE  UNCHANGED Forth!vars
  <1>1. /\ in_flight' = [i \in DOMAIN in_flight |-> Rebased(in_flight[i])]
        /\ UNCHANGED <<buffer, out2, fwPc, fwArrived>>
    BY DEF ReadClock, fwVars
  <1>2. OnWire' = OnWire
    BY <1>1 DEF OnWire, Rebased
  <1>3. Ids(buffer)' = Ids(buffer) /\ Ids(out2)' = Ids(out2)
    BY <1>1 DEF Ids
  <1> QED
    BY <1>1, <1>2, <1>3 DEF Forth!vars

LEMMA ForthSendDue ==
  ASSUME TypeInv, SendDue
  PROVE  Forth!Deliver \/ Forth!Lose
  <1>1. /\ in_flight \in Seq(msg_in_flight) /\ in_flight # <<>>
        /\ in_flight' = Tail(in_flight)
        /\ out2' = Append(out2, Head(in_flight).m) \/ out2' = out2
        /\ buffer \in Seq(Frame(MaxFrames)) /\ out2 \in Seq(Frame(MaxFrames))
        /\ UNCHANGED <<buffer, fwPc, fwArrived>>
    BY DEF TypeInv, TypeOK, SendDue, Due, oldest, dequeue, send_message2, fwVars
  <1>2. /\ Head(in_flight) = in_flight[1] /\ Head(in_flight) \in msg_in_flight
        /\ Len(in_flight') = Len(in_flight) - 1
        /\ in_flight' \in Seq(msg_in_flight)
        /\ \A i \in 1..Len(in_flight') : in_flight'[i] = in_flight[i + 1]
        /\ Len(in_flight) \in Nat /\ Len(in_flight) >= 1
    BY <1>1, HeadTailProperties, LenProperties, EmptySeq
  <1>3. /\ OnWire \in Seq(Nat) /\ Len(OnWire) = Len(in_flight)
        /\ OnWire # <<>>
    BY <1>2, WireTypes, EmptySeq
  <1>4. \A i \in 1..Len(in_flight) : OnWire[i] = in_flight[i].m.id
    BY <1>1, LenProperties DEF OnWire
  <1>5. Head(OnWire) = Head(in_flight).m.id
    BY <1>2, <1>3, <1>4
  <1>6. OnWire' = Tail(OnWire)
    <2>1. /\ Tail(OnWire) \in Seq(Nat) /\ Len(Tail(OnWire)) = Len(OnWire) - 1
          /\ \A i \in 1..(Len(OnWire) - 1) : Tail(OnWire)[i] = OnWire[i + 1]
      BY <1>3, HeadTailProperties
    <2>2. OnWire' = [i \in 1..(Len(in_flight) - 1) |-> in_flight'[i].m.id]
      BY <1>2, LenProperties DEF OnWire
    <2>3. ASSUME NEW i \in 1..(Len(in_flight) - 1)
          PROVE  in_flight'[i].m.id = Tail(OnWire)[i]
      <3>1. i + 1 \in 1..Len(in_flight) /\ i \in 1..(Len(OnWire) - 1)
            /\ i \in 1..Len(in_flight')
        BY <1>2, <1>3
      <3>2. in_flight'[i] = in_flight[i + 1]
        BY <1>2, <3>1
      <3>3. Tail(OnWire)[i] = OnWire[i + 1]
        BY <2>1, <3>1
      <3> QED
        BY <1>4, <3>1, <3>2, <3>3
    <2>4. Len(in_flight) - 1 \in Nat /\ Len(Tail(OnWire)) = Len(in_flight) - 1
      BY <1>2, <1>3, <2>1
    <2>5. Tail(OnWire) = [i \in 1..(Len(in_flight) - 1) |-> Tail(OnWire)[i]]
      BY <2>1, <2>4, AsFunction
    <2> QED
      BY <2>2, <2>3, <2>5
  <1>7. Ids(buffer)' = Ids(buffer) /\ Ids(buffer) \in Seq(Nat)
    BY <1>1, IdsTypes DEF Ids
  <1>8. /\ OnWire \o Ids(buffer) # <<>>
        /\ Head(OnWire \o Ids(buffer)) = Head(in_flight).m.id
        /\ (OnWire \o Ids(buffer))' = Tail(OnWire \o Ids(buffer))
    BY <1>3, <1>5, <1>6, <1>7, LeavesFirst
  <1>9. CASE out2' = Append(out2, Head(in_flight).m)
    <2>1. Head(in_flight).m \in Frame(MaxFrames)
      BY <1>2, FrameTypes
    <2>2. Ids(out2') = Append(Ids(out2), Head(in_flight).m.id)
      BY <1>1, <1>9, <2>1, IdsAppend
    <2>3. Ids(out2)' = Ids(out2')
      BY DEF Ids
    <2>4. Forth!Deliver
      BY <1>1, <1>8, <2>2, <2>3 DEF Forth!Deliver
    <2> QED
      BY <2>4
  <1>10. CASE out2' = out2
    <2>1. Ids(out2)' = Ids(out2)
      BY <1>10 DEF Ids
    <2>2. Forth!Lose
      BY <1>1, <1>8, <2>1 DEF Forth!Lose
    <2> QED
      BY <2>2
  <1> QED
    BY <1>1, <1>9, <1>10

LEMMA ForthPutInFlight ==
  ASSUME TypeInv, PutInFlight
  PROVE  UNCHANGED Forth!vars
  <1> USE ConstantsAssumption
  <1> DEFINE f == [m |-> oldest(buffer),
                   finish_time |-> serialization_delay + delay]
  <1>1. /\ buffer \in Seq(Frame(MaxFrames)) /\ buffer # <<>>
        /\ in_flight \in Seq(msg_in_flight)
        /\ in_flight' = Append(in_flight, f) /\ buffer' = Tail(buffer)
        /\ UNCHANGED <<out2, fwPc, fwArrived>>
    BY DEF TypeInv, TypeOK, DequeueFindsFrame, PutInFlight, enqueue, dequeue,
           fwVars
  <1>2. Head(buffer) \in Frame(MaxFrames)
    BY <1>1, HeadTailProperties
  <1>3. f \in msg_in_flight /\ f.m = Head(buffer)
    BY <1>2 DEF msg_in_flight, oldest
  <1>4. PICK n \in Nat : n = Head(buffer).id
    BY <1>2 DEF Frame
  <1> HIDE DEF f
  <1>5. PICK g : g = f
    OBVIOUS
  <1>6. /\ in_flight' \in Seq(msg_in_flight)
        /\ Len(in_flight') = Len(in_flight) + 1
        /\ \A i \in 1..Len(in_flight) : in_flight'[i] = in_flight[i]
        /\ in_flight'[Len(in_flight) + 1] = g /\ Len(in_flight) \in Nat
    BY <1>1, <1>3, <1>5, AppendProperties, LenProperties
  <1>7. OnWire \in Seq(Nat) /\ Len(OnWire) = Len(in_flight)
    BY WireTypes
  <1>8. \A i \in 1..Len(in_flight) : OnWire[i] = in_flight[i].m.id
    BY <1>1, LenProperties DEF OnWire
  <1>9. OnWire' = Append(OnWire, n)
    <2>1. /\ Append(OnWire, n) \in Seq(Nat)
          /\ Len(Append(OnWire, n)) = Len(in_flight) + 1
          /\ \A i \in 1..Len(in_flight) : Append(OnWire, n)[i] = OnWire[i]
          /\ Append(OnWire, n)[Len(in_flight) + 1] = n
      BY <1>4, <1>7, AppendProperties
    <2>2. OnWire' = [i \in 1..(Len(in_flight) + 1) |-> in_flight'[i].m.id]
      BY <1>6, LenProperties DEF OnWire
    <2>3. g.m.id = n
      BY <1>3, <1>4, <1>5
    <2>4. \A i \in 1..(Len(in_flight) + 1) :
            in_flight'[i].m.id = Append(OnWire, n)[i]
      BY <1>6, <1>8, <2>1, <2>3
    <2>5. Len(in_flight) + 1 \in Nat
      BY <1>6
    <2>6. Append(OnWire, n)
            = [i \in 1..(Len(in_flight) + 1) |-> Append(OnWire, n)[i]]
      BY <2>1, <2>5, AsFunction
    <2> QED
      BY <2>2, <2>4, <2>6
  <1>10. /\ Ids(buffer) \in Seq(Nat) /\ Ids(buffer) # <<>>
         /\ Head(Ids(buffer)) = n /\ Ids(buffer') = Tail(Ids(buffer))
    BY <1>1, <1>4, IdsTypes, IdsTail
  <1>11. Ids(buffer)' = Ids(buffer')
    BY DEF Ids
  <1>12. (OnWire \o Ids(buffer))' = OnWire \o Ids(buffer)
    BY <1>7, <1>9, <1>10, <1>11, MovesOn
  <1>13. Ids(out2)' = Ids(out2)
    BY <1>1 DEF Ids
  <1> QED
    BY <1>1, <1>12, <1>13 DEF Forth!vars

LEMMA ForthNext == TypeInv /\ NumberInv /\ [Next]_vars => [Forth!Next]_(Forth!vars)
  <1> SUFFICES ASSUME TypeInv, NumberInv, [Next]_vars
               PROVE  [Forth!Next]_(Forth!vars)
    OBVIOUS
  <1>1. CASE Forward
    BY <1>1, ForthForward DEF Forth!Next
  <1>2. CASE Drop
    BY <1>2, ForthDrop DEF Forth!Next
  <1>3. CASE Receive1
    BY <1>3, ForthReceive
  <1>4. CASE ReadClock
    BY <1>4, ForthReadClock
  <1>5. CASE SendDue
    BY <1>5, ForthSendDue DEF Forth!Next
  <1>6. CASE PutInFlight
    BY <1>6, ForthPutInFlight
  <1>7. CASE CheckSpace
    <2>1. UNCHANGED <<buffer, in_flight, out2, fwArrived>>
          /\ fwPc = "check" /\ fwPc' = "decide"
      BY <1>7 DEF CheckSpace, sVars
    <2>2. OnWire' = OnWire /\ Ids(buffer)' = Ids(buffer) /\ Ids(out2)' = Ids(out2)
      BY <2>1 DEF OnWire, Ids
    <2> QED
      BY <2>1, <2>2 DEF Forth!vars
  <1>8. CASE Handshake1 \/ Reverse \/ Tick \/ SpuriousWakeUp \/ UNCHANGED vars
    <2>1. UNCHANGED <<buffer, in_flight, out2, fwPc, fwArrived>>
      BY <1>8 DEF Handshake1, Reverse, Handshake2, Receive2, SendReverse, Tick,
                  SpuriousWakeUp, vars, sVars, fwVars
    <2> QED
      BY <2>1, ForthSees
  <1>9. CASE NothingDue \/ LookAtBuffer \/ NothingToPut \/ WakeUp \/ Block
    <2>1. UNCHANGED <<buffer, in_flight, out2, fwPc, fwArrived>>
      BY <1>9 DEF NothingDue, LookAtBuffer, NothingToPut, WakeUp, Block, fwVars
    <2> QED
      BY <2>1, ForthSees
  <1> QED
    BY <1>1, <1>2, <1>3, <1>4, <1>5, <1>6, <1>7, <1>8, <1>9
    DEF Next, Forwarder, Scheduler

\* The way from socket 1 to socket 2, through both queues and both threads,
\* is a FIFO link: frames keep their order and none is sent twice.
THEOREM ForthImplements == Spec => ForthIsFifo
  BY TypeInvariant, NumberInit, NumberNext, ForthInit, ForthNext, PTL
  DEF Spec, ForthIsFifo, Forth!Spec

\* The emulator implements the abstract link once in each direction, with the
\* same behaviour: threads, locks and the flags of the one do not touch what
\* the other one delivers.
THEOREM EachWayImplements == Spec => EachWayIsFifo
  BY ForthImplements, BackImplements DEF EachWayIsFifo

-----------------------------------------------------------------------------
(* What a FIFO link promises, and so what the emulator keeps in each       *)
(* direction.                                                              *)

(* How a sequence in two parts changes when one part does.                 *)

LEMMA AppendAfter ==
  ASSUME NEW S, NEW s \in Seq(S), NEW t \in Seq(S), NEW e \in S
  PROVE  s \o Append(t, e) = Append(s \o t, e)
<1>0. s \o t \in Seq(S)
  BY ConcatProperties
<1>1. <<e>> \in Seq(S)
  OBVIOUS
<1>2. Append(t, e) = t \o <<e>> /\ Append(s \o t, e) = (s \o t) \o <<e>>
  BY <1>0, AppendIsConcat
<1>4. s \o (t \o <<e>>) = (s \o t) \o <<e>>
  BY <1>1, ConcatAssociative
<1> QED
  BY <1>2, <1>4

LEMMA HeadMoves ==
  ASSUME NEW S, NEW s \in Seq(S), NEW t \in Seq(S), t # <<>>
  PROVE  Append(s, Head(t)) \o Tail(t) = s \o t
<1>1. Head(t) \in S /\ Tail(t) \in Seq(S) /\ t = <<Head(t)>> \o Tail(t)
  BY HeadTailProperties
<1>2. Append(s, Head(t)) = s \o <<Head(t)>>
  BY <1>1, AppendIsConcat
<1>3. <<Head(t)>> \in Seq(S)
  BY <1>1
<1>4. (s \o <<Head(t)>>) \o Tail(t) = s \o (<<Head(t)>> \o Tail(t))
  BY <1>1, <1>3, ConcatAssociative
<1> QED
  BY <1>1, <1>2, <1>4

\* s is in order and has only frames below n.
Good(s, n) ==
  /\ \A i, j \in DOMAIN s : i < j => s[i] < s[j]
  /\ \A k \in DOMAIN s : s[k] < n

LEMMA AppendGood ==
  ASSUME NEW s \in Seq(Nat), NEW n \in Nat, NEW m \in Nat, m > n, Good(s, n)
  PROVE  Good(Append(s, m - 1), m)
<1>1. PICK t : t = Append(s, m - 1)
  OBVIOUS
<1>2. /\ Len(s) \in Nat /\ DOMAIN s = 1..Len(s) /\ DOMAIN t = 1..(Len(s) + 1)
      /\ \A k \in 1..Len(s) : t[k] = s[k] /\ s[k] \in Nat
      /\ t[Len(s) + 1] = m - 1
  BY <1>1, AppendProperties, LenProperties, ElementOfSeq
<1>3. \A k \in DOMAIN t : k \in DOMAIN s \/ k = Len(s) + 1
  BY <1>2
<1>4. ASSUME NEW k \in DOMAIN t, NEW l \in DOMAIN t, k < l PROVE t[k] < t[l]
  <2>1. k \in DOMAIN s
    BY <1>2, <1>4
  <2>2. t[k] = s[k] /\ s[k] \in Nat /\ s[k] < n
    BY <1>2, <2>1 DEF Good
  <2>3. CASE l \in DOMAIN s
    BY <1>2, <1>4, <2>1, <2>3 DEF Good
  <2>4. CASE l = Len(s) + 1
    BY <1>2, <2>2, <2>4
  <2> QED
    BY <1>3, <2>3, <2>4
<1>5. ASSUME NEW k \in DOMAIN t PROVE t[k] < m
  <2>1. CASE k \in DOMAIN s
    BY <1>2, <2>1 DEF Good
  <2>2. CASE k = Len(s) + 1
    BY <1>2, <2>2
  <2> QED
    BY <1>3, <2>1, <2>2
<1> QED
  BY <1>1, <1>4, <1>5 DEF Good

\* The frames of t keep their order in s o t when the oldest is lost.
LEMMA TailGood ==
  ASSUME NEW s \in Seq(Nat), NEW t \in Seq(Nat), t # <<>>, NEW n \in Nat,
         Good(s \o t, n)
  PROVE  Good(s \o Tail(t), n)
<1>1. PICK u : u = s \o t
  OBVIOUS
<1>2. PICK v : v = s \o Tail(t)
  OBVIOUS
<1>3. /\ Tail(t) \in Seq(Nat) /\ Len(Tail(t)) = Len(t) - 1
      /\ \A k \in 1..Len(Tail(t)) : Tail(t)[k] = t[k + 1]
      /\ Len(s) \in Nat /\ Len(t) \in Nat /\ Len(t) >= 1
  BY HeadTailProperties, LenProperties, EmptySeq
<1>4. /\ DOMAIN u = 1..(Len(s) + Len(t))
      /\ \A k \in DOMAIN u : u[k] = IF k <= Len(s) THEN s[k] ELSE t[k - Len(s)]
  BY <1>1, ConcatProperties, LenProperties
<1>5. /\ DOMAIN v = 1..(Len(s) + Len(t) - 1)
      /\ \A k \in DOMAIN v : v[k] = IF k <= Len(s) THEN s[k] ELSE Tail(t)[k - Len(s)]
  <2>1. /\ v \in Seq(Nat) /\ Len(v) = Len(s) + Len(Tail(t))
        /\ \A k \in 1..(Len(s) + Len(Tail(t))) :
             v[k] = IF k <= Len(s) THEN s[k] ELSE Tail(t)[k - Len(s)]
    BY <1>2, <1>3, ConcatProperties
  <2>2. Len(s) + Len(Tail(t)) = Len(s) + Len(t) - 1
    BY <1>3
  <2>3. DOMAIN v = 1..Len(v)
    BY <2>1, LenProperties
  <2> QED
    BY <2>1, <2>2, <2>3
<1> DEFINE f(k) == IF k <= Len(s) THEN k ELSE k + 1
<1>6. ASSUME NEW k \in DOMAIN v PROVE f(k) \in DOMAIN u /\ v[k] = u[f(k)]
  <2>1. k \in Int /\ f(k) \in DOMAIN u
    BY <1>3, <1>4, <1>5
  <2>2. CASE k <= Len(s)
    BY <1>4, <1>5, <2>1, <2>2
  <2>3. CASE ~(k <= Len(s))
    <3>1. k - Len(s) \in 1..Len(Tail(t)) /\ (k + 1) - Len(s) = (k - Len(s)) + 1
          /\ ~(k + 1 <= Len(s))
      BY <1>3, <1>5, <2>1, <2>3
    <3>2. v[k] = Tail(t)[k - Len(s)] /\ Tail(t)[k - Len(s)] = t[(k + 1) - Len(s)]
      BY <1>3, <1>5, <2>3, <3>1
    <3>3. f(k) = k + 1 /\ u[k + 1] = t[(k + 1) - Len(s)]
      BY <1>4, <2>1, <2>3, <3>1
    <3> QED
      BY <2>1, <3>2, <3>3
  <2> QED
    BY <2>2, <2>3
<1>7. \A k, l \in DOMAIN v : k < l => f(k) < f(l)
  BY <1>3, <1>5
<1> HIDE DEF f
<1>8. Good(v, n)
  BY <1>1, <1>6, <1>7 DEF Good
<1> QED
  BY <1>2, <1>8

\* The state of a link on which the next frame is n, c is on its way and o has
\* been delivered.
Kept(n, c, o) ==
  n \in Nat /\ c \in Seq(Nat) /\ o \in Seq(Nat) /\ Good(o \o c, n)

\* What FifoLink!Next lets happen to those three.
Moves(n, c, o, n1, c1, o1) ==
  \/ n1 \in Nat /\ n1 > n /\ c1 = Append(c, n1 - 1) /\ o1 = o
  \/ n1 \in Nat /\ n1 > n /\ c1 = c /\ o1 = o
  \/ c # <<>> /\ o1 = Append(o, Head(c)) /\ c1 = Tail(c) /\ n1 = n
  \/ c # <<>> /\ o1 = o /\ c1 = Tail(c) /\ n1 = n
  \/ n1 = n /\ c1 = c /\ o1 = o

LEMMA KeptFirst == Kept(0, <<>>, <<>>)
<1>1. <<>> \o <<>> = <<>>
  BY ConcatEmptySeq, EmptySeq
<1>2. DOMAIN <<>> = {}
  OBVIOUS
<1> QED
  BY <1>1, <1>2, EmptySeq DEF Kept, Good

LEMMA KeptNext ==
  ASSUME NEW n, NEW c, NEW o, NEW n1, NEW c1, NEW o1,
         Kept(n, c, o), Moves(n, c, o, n1, c1, o1)
  PROVE  Kept(n1, c1, o1)
<1>1. /\ n \in Nat /\ c \in Seq(Nat) /\ o \in Seq(Nat)
      /\ o \o c \in Seq(Nat) /\ Good(o \o c, n)
  BY ConcatProperties DEF Kept
<1>2. CASE n1 \in Nat /\ n1 > n /\ c1 = Append(c, n1 - 1) /\ o1 = o
  <2>1. n1 - 1 \in Nat
    BY <1>1, <1>2
  <2>2. /\ c1 \in Seq(Nat)
        /\ o \o c1 = Append(o \o c, n1 - 1)
    BY <1>1, <1>2, <2>1, AppendAfter, AppendProperties
  <2>3. Good(Append(o \o c, n1 - 1), n1)
    BY <1>1, <1>2, AppendGood
  <2> QED
    BY <1>1, <1>2, <2>2, <2>3 DEF Kept
<1>3. CASE n1 \in Nat /\ n1 > n /\ c1 = c /\ o1 = o
  <2>1. \A k \in DOMAIN (o \o c) : (o \o c)[k] \in Nat
    BY <1>1, ElementOfSeq, LenProperties
  <2>2. \A v \in Nat : v < n => v < n1
    BY <1>1, <1>3
  <2>3. \A k \in DOMAIN (o \o c) : (o \o c)[k] < n1
    BY <1>1, <2>1, <2>2, Zenon DEF Good
  <2>4. Good(o \o c, n1)
    BY <1>1, <2>3, Zenon DEF Good
  <2> QED
    BY <1>1, <1>3, <2>4 DEF Kept
<1>4. c # <<>> => Head(c) \in Nat /\ Tail(c) \in Seq(Nat)
  BY <1>1, HeadTailProperties
<1>5. CASE c # <<>> /\ o1 = Append(o, Head(c)) /\ c1 = Tail(c) /\ n1 = n
  <2>1. o1 \in Seq(Nat) /\ c1 \in Seq(Nat)
    BY <1>1, <1>4, <1>5, AppendProperties
  <2>2. o1 \o c1 = o \o c
    BY <1>1, <1>5, HeadMoves
  <2> QED
    BY <1>1, <1>5, <2>1, <2>2 DEF Kept
<1>6. CASE c # <<>> /\ o1 = o /\ c1 = Tail(c) /\ n1 = n
  <2>1. Good(o \o Tail(c), n)
    BY <1>1, <1>6, TailGood
  <2> QED
    BY <1>1, <1>4, <1>6, <2>1 DEF Kept
<1>7. CASE n1 = n /\ c1 = c /\ o1 = o
  BY <1>7
<1> QED
  BY <1>2, <1>3, <1>5, <1>6, <1>7 DEF Moves

ForthKept ==
  Kept(IF fwPc = "receive" THEN fwArrived ELSE fwArrived - 1,
       OnWire \o Ids(buffer), Ids(out2))

BackKept ==
  Kept(revArrived, IF revPc = "send" THEN <<revFrame>> ELSE <<>>, out1)

LEMMA ForthKeeps == ForthKept /\ [Forth!Next]_(Forth!vars) => ForthKept'
<1> SUFFICES ASSUME ForthKept, [Forth!Next]_(Forth!vars) PROVE ForthKept'
  OBVIOUS
<1> DEFINE n == IF fwPc = "receive" THEN fwArrived ELSE fwArrived - 1
           c == OnWire \o Ids(buffer)
           o == Ids(out2)
<1>1. Moves(n, c, o, n', c', o')
  BY DEF Moves, Forth!Next, Forth!Accept, Forth!Refuse, Forth!Deliver,
         Forth!Lose, Forth!vars
<1> HIDE DEF n, c, o
<1>2. Kept(n, c, o)
  BY DEF ForthKept, n, c, o
<1>3. Kept(n', c', o')
  BY <1>1, <1>2, KeptNext
<1> QED
  BY <1>3 DEF ForthKept, Kept, n, c, o

LEMMA BackKeeps == BackKept /\ [Back!Next]_(Back!vars) => BackKept'
<1> SUFFICES ASSUME BackKept, [Back!Next]_(Back!vars) PROVE BackKept'
  OBVIOUS
<1> DEFINE c == IF revPc = "send" THEN <<revFrame>> ELSE <<>>
<1>1. Moves(revArrived, c, out1, revArrived', c', out1')
  BY DEF Moves, Back!Next, Back!Accept, Back!Refuse, Back!Deliver,
         Back!Lose, Back!vars
<1> HIDE DEF c
<1>2. Kept(revArrived, c, out1)
  BY DEF BackKept, c
<1>3. Kept(revArrived', c', out1')
  BY <1>1, <1>2, KeptNext
<1> QED
  BY <1>3 DEF BackKept, Kept, c

\* What socket 2 has received, followed by what the wire and the queue hold, is
\* in the order of arrival at socket 1: no frame overtakes another, is there
\* twice or is made up, whatever the threads do (link.c:162-302).
THEOREM ForthKeepsOrder == Spec => []Forth!InOrder
<1>1. Forth!Init => ForthKept
  BY KeptFirst DEF Forth!Init, ForthKept
<1>2. ForthKept => Forth!InOrder
  BY DEF ForthKept, Kept, Good, Forth!InOrder, Forth!Increasing
<1> QED
  BY <1>1, <1>2, ForthKeeps, ForthImplements, PTL DEF ForthIsFifo, Forth!Spec

\* So it is with what socket 1 receives and the frame the reverse forwarder
\* holds (link.c:304-317).
THEOREM BackKeepsOrder == Spec => []Back!InOrder
<1>1. Back!Init => BackKept
  BY KeptFirst DEF Back!Init, BackKept
<1>2. BackKept => Back!InOrder
  BY DEF BackKept, Kept, Good, Back!InOrder, Back!Increasing
<1> QED
  BY <1>1, <1>2, BackKeeps, BackImplements, PTL DEF BackIsFifo, Back!Spec

=============================================================================
