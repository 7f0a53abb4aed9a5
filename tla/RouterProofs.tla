---------------------------- MODULE RouterProofs ----------------------------
(***************************************************************************)
(* Proofs about Router: adding the carry twice is enough, so that every    *)
(* header a router has sent passes the check of the next, and a packet is  *)
(* forwarded at most as often as its ttl allows.                           *)
(***************************************************************************)
EXTENDS Router, FiniteSetTheorems, TLAPS

(* Division by WORD, by its uniqueness.                                    *)

LEMMA Division ==
  ASSUME NEW s \in Nat
  PROVE  /\ s \div WORD \in Nat
         /\ s % WORD \in 0..(WORD - 1)
         /\ s = WORD * (s \div WORD) + (s % WORD)
BY WordAssumption DEF WordAssumption

LEMMA Quotient ==
  ASSUME NEW q \in Nat, NEW r \in 0..(WORD - 1)
  PROVE  /\ (WORD * q + r) \div WORD = q
         /\ (WORD * q + r) % WORD = r
BY WordAssumption DEF WordAssumption

\* Twice is enough: with its checksum a sum of fewer than WORD words comes
\* out as 0 (lib.c:195-197).
THEOREM ChecksumVerifies ==
  ASSUME NEW s \in Nat, s \div WORD <= WORD - 2
  PROVE  /\ checksum(s) \in 0..(WORD - 1)
         /\ checksum(s + checksum(s)) = 0
<1> DEFINE q == s \div WORD
           r == s % WORD
           c == checksum(s)
           P == WORD * q
<1>1. q \in Nat /\ r \in 0..(WORD - 1) /\ P \in Nat /\ s = P + r
  BY Division, WordAssumption DEF WordAssumption
<1>0. q <= WORD - 2 /\ P = WORD * q /\ q = s \div WORD /\ r = s % WORD /\ c = checksum(s)
  OBVIOUS
<1>8. c = WORD - 1 - (((q + r) + ((q + r) \div WORD)) % WORD)
  BY DEF checksum
<1> HIDE DEF q, r, c, P
<1>2. WORD \in Nat /\ WORD > 1
  BY WordAssumption DEF WordAssumption
<1>3. \A t \in Nat : t < WORD => t \div WORD = 0 /\ t % WORD = t
  BY <1>2
<1>4. \A t \in Nat : t >= WORD /\ t < 2 * WORD => t \div WORD = 1 /\ t % WORD = t - WORD
  BY <1>2
<1>5. WORD * (q + 1) = P + WORD
  BY <1>0, <1>1, <1>2
<1>6. CASE q + r < WORD
  <2>1. c = WORD - 1 - (q + r)
    BY <1>1, <1>2, <1>3, <1>6, <1>8
  <2>2. s + c = P + (WORD - 1 - q)
    BY <1>1, <1>2, <2>1
  <2> DEFINE t == WORD - 1 - q
  <2>3. (s + c) \div WORD = q /\ (s + c) % WORD = t
    <3>1. t \in 0..(WORD - 1) /\ s + c = WORD * q + t
      BY <1>0, <1>1, <1>2, <2>2
    <3> HIDE DEF t
    <3> QED
      BY <1>1, <3>1, Quotient
  <2>4. checksum(s + c) = 0
    BY <1>1, <1>2, <1>3, <2>3 DEF checksum
  <2> QED
    BY <1>0, <1>1, <1>2, <1>6, <2>1, <2>4
<1>7. CASE q + r >= WORD
  <2>1. q + r < 2 * WORD /\ q + r + 1 - WORD < WORD
    BY <1>0, <1>1, <1>2
  <2>2. (q + r) + ((q + r) \div WORD) = q + r + 1
    BY <1>1, <1>2, <1>4, <1>7, <2>1
  <2>3. (q + r + 1) % WORD = q + r + 1 - WORD
    BY <1>1, <1>2, <1>4, <1>7, <2>1
  <2>4. c = 2 * WORD - 2 - (q + r)
    BY <1>1, <1>2, <1>8, <2>2, <2>3
  <2>5. s + c = WORD * (q + 1) + (WORD - 2 - q)
    BY <1>1, <1>2, <1>5, <2>4
  <2> DEFINE t == WORD - 2 - q
             u == q + 1
  <2>6. (s + c) \div WORD = u /\ (s + c) % WORD = t
    <3>1. u \in Nat /\ t \in 0..(WORD - 1) /\ s + c = WORD * u + t
      BY <1>0, <1>1, <1>2, <2>5
    <3> HIDE DEF t, u
    <3> QED
      BY <3>1, Quotient
  <2>7. checksum(s + c) = 0
    BY <1>1, <1>2, <1>3, <2>6 DEF checksum
  <2> QED
    BY <1>0, <1>1, <1>2, <1>7, <2>1, <2>4, <2>7
<1> QED
  BY <1>0, <1>1, <1>2, <1>6, <1>7

-----------------------------------------------------------------------------
(* What a router sends.                                                    *)

Spent(f) == f.hops + f.ttl = f.ttl0

\* What the invariants say of a frame that a router has sent.
Good(f) == f \in Frame /\ Spent(f) /\ Intact(f)

\* The sum of the words of a header is below 3 * WORD.
LEMMA HeaderSum ==
  ASSUME NEW f \in Frame
  PROVE  /\ header_sum(f) \in Nat
         /\ header_sum(f) \div WORD <= WORD - 2
<1>1. WORD \in Nat /\ WORD > 5 /\ MaxTtl \in Nat /\ MaxTtl < WORD
  BY WordAssumption, RouterAssumption DEF WordAssumption, RouterAssumption
<1>2. f.ttl \in 0..MaxTtl /\ f.src \in 0..5 /\ f.dst \in 0..5
  BY DEF Frame, Addresses
<1>3. protocol(f) \in 0..1
  BY DEF protocol
<1>4. header_sum(f) \in Nat /\ header_sum(f) < 3 * WORD
  BY <1>1, <1>2, <1>3 DEF header_sum
<1>5. header_sum(f) \div WORD < 3
  BY <1>1, <1>4
<1> QED
  BY <1>1, <1>4, <1>5

\* Only the check of a frame changes when it is computed.
LEMMA CheckedIsGood ==
  ASSUME NEW f \in Frame, Spent(f)
  PROVE  Good(Checked(f)) /\ Checked(f).interface = f.interface
<1> DEFINE g == [f EXCEPT !.check = checksum(header_sum(f))]
<1>1. checksum(header_sum(f)) \in 0..(WORD - 1)
      /\ checksum(header_sum(f) + checksum(header_sum(f))) = 0
  BY HeaderSum, ChecksumVerifies
<1>2. g \in Frame
  BY <1>1 DEF Frame
<1>3. g.check = checksum(header_sum(f)) /\ header_sum(g) = header_sum(f)
  BY DEF Frame, header_sum, protocol
<1>4. g.interface = f.interface /\ g.hops = f.hops /\ g.ttl = f.ttl /\ g.ttl0 = f.ttl0
  BY DEF Frame
<1> QED
  BY <1>1, <1>2, <1>3, <1>4 DEF Checked, Good, Intact, Spent

LEMMA AnswerIsGood ==
  ASSUME NEW f \in Frame, NEW ttl \in 0..MaxTtl
  PROVE  Good(Answer(f, ttl))
<1> DEFINE g == [f EXCEPT !.type = "answer", !.src = f.dst, !.dst = f.src,
                          !.ttl = ttl, !.ttl0 = ttl, !.hops = 0]
<1>0. "answer" \in Types /\ 0 \in 0..MaxTtl
  BY RouterAssumption DEF Types, RouterAssumption
<1>1. g \in Frame
  BY <1>0 DEF Frame
<1>2. Spent(g)
  <2>1. g.hops = 0 /\ g.ttl = ttl /\ g.ttl0 = ttl
    BY DEF Frame
  <2> QED
    BY <2>1, RouterAssumption DEF Spent, RouterAssumption
<1> QED
  BY <1>1, <1>2, CheckedIsGood DEF Answer

LEMMA DecrementedIsGood ==
  ASSUME NEW f \in Frame, Spent(f), f.ttl > 0
  PROVE  Good(Decremented(f))
<1> DEFINE g == [f EXCEPT !.ttl = (f.ttl - 1) % (MaxTtl + 1), !.hops = f.hops + 1]
<1>1. /\ f.ttl \in 0..MaxTtl /\ f.hops \in 0..MaxTtl /\ f.ttl0 \in 0..MaxTtl
      /\ MaxTtl \in Nat
  BY RouterAssumption DEF Frame, RouterAssumption
<1>0. (f.ttl - 1) % (MaxTtl + 1) = f.ttl - 1
  BY <1>1
<1>2. f.ttl - 1 \in 0..MaxTtl /\ f.hops + 1 \in 0..MaxTtl
  BY <1>1 DEF Spent
<1>6. g = [f EXCEPT !.ttl = f.ttl - 1, !.hops = f.hops + 1]
  BY <1>0
<1>7. Decremented(f) = Checked(g)
  BY DEF Decremented
<1> HIDE DEF g
<1>3. g \in Frame
  BY <1>2, <1>6 DEF Frame
<1>4. g.ttl = f.ttl - 1 /\ g.hops = f.hops + 1 /\ g.ttl0 = f.ttl0
  BY <1>6 DEF Frame
<1>5. Spent(g)
  BY <1>1, <1>4 DEF Spent
<1> QED
  BY <1>3, <1>5, <1>7, CheckedIsGood

LEMMA OnLinkIsGood ==
  ASSUME NEW g, Good(g), NEW r \in Routers, NEW i
  PROVE  \A h \in OnLink(g, r, i) : Good(h)
<1> DEFINE h == [g EXCEPT !.router = 1 - r, !.interface = 0]
<1>0. 1 - r \in Routers /\ 0 \in Interfaces
  BY DEF Routers, Interfaces
<1>1. h \in Frame
  BY <1>0 DEF Good, Frame
<1>2. /\ header_sum(h) = header_sum(g) /\ h.check = g.check
      /\ h.ttl = g.ttl /\ h.hops = g.hops /\ h.ttl0 = g.ttl0
  BY DEF Good, Frame, header_sum, protocol
<1>3. Good(h)
  BY <1>1, <1>2 DEF Good, Intact, Spent
<1> QED
  BY <1>3 DEF OnLink

-----------------------------------------------------------------------------
(* The invariant.                                                          *)

FramesGood == \A f \in frames : f \in Frame /\ Spent(f) /\ (f.interface = 0 => Intact(f))

IInv == TypeOK /\ FramesGood

LEMMA InitIInv == Init => IInv
<1> SUFFICES ASSUME Init PROVE IInv
  OBVIOUS
<1>1. PICK known \in {Addresses, {Host(r) : r \in Routers}} :
        arp_table = [r \in Routers |-> known]
  BY DEF Init
<1>2. \A r \in Routers : Host(r) \in Addresses
  BY DEF Routers, Host, Addresses
<1>3. known \subseteq Addresses
  BY <1>2
<1>4. arp_table \in [Routers -> SUBSET Addresses]
  BY <1>1, <1>3
<1>5. sent \in 0..MaxPackets
  BY RouterAssumption DEF Init, RouterAssumption
<1>6. alive \in [Routers -> BOOLEAN]
  BY DEF Init
<1> QED
  BY <1>4, <1>5, <1>6 DEF Init, IInv, TypeOK, FramesGood

LEMMA SendKeepsIInv ==
  ASSUME IInv, NEW f \in frames, NEW g, Good(g), NEW r \in Routers, NEW i,
         Send(f, g, r, i)
  PROVE  (\A h \in frames' : h \in Frame /\ Spent(h) /\ (h.interface = 0 => Intact(h)))
BY OnLinkIsGood DEF Send, IInv, FramesGood, Good

\* Whatever becomes of a frame, the frames that are left are good ones.
LEMMA HandleKeepsFrames ==
  ASSUME IInv, NEW r \in Routers, Handle(r)
  PROVE  /\ \A h \in frames' : h \in Frame /\ Spent(h) /\ (h.interface = 0 => Intact(h))
         /\ alive' \in [Routers -> BOOLEAN]
<1> DEFINE Kept == /\ \A h \in frames' :
                          h \in Frame /\ Spent(h) /\ (h.interface = 0 => Intact(h))
                   /\ alive' \in [Routers -> BOOLEAN]
<1> SUFFICES Kept
  OBVIOUS
<1>1. PICK f \in frames : \/ Tema1(f, r) \/ Lab4(f, r) \/ Drop(f)
  BY DEF Handle
<1>2. f \in Frame /\ Spent(f) /\ alive \in [Routers -> BOOLEAN] /\ f.ttl \in Nat
  BY RouterAssumption DEF IInv, FramesGood, TypeOK, Frame, RouterAssumption
<1>3. ASSUME Drop(f) PROVE Kept
  BY <1>2, <1>3 DEF Drop, IInv, FramesGood
<1>4. ASSUME send_icmp_error(f, r) PROVE Kept
  <2>1. PICK ttl \in 0..MaxTtl : Send(f, Answer(f, ttl), r, f.interface)
    BY <1>4 DEF send_icmp_error
  <2>2. Good(Answer(f, ttl))
    BY <1>2, AnswerIsGood
  <2>3. alive' = alive
    BY <2>1 DEF Send
  <2> QED
    BY <1>2, <2>1, <2>2, <2>3, SendKeepsIInv
<1>5. ASSUME NEW i, f.ttl > 0, Send(f, Decremented(f), r, i) PROVE Kept
  <2>1. Good(Decremented(f))
    BY <1>2, <1>5, DecrementedIsGood
  <2>2. alive' = alive
    BY <1>5 DEF Send
  <2> QED
    BY <1>2, <1>5, <2>1, <2>2, SendKeepsIInv
<1>6. ASSUME Crash(f, r) PROVE Kept
  BY <1>2, <1>6 DEF Crash, IInv, FramesGood
<1>7. CASE Tema1(f, r)
  <2>1. CASE Drop(f)
    BY <1>3, <2>1
  <2>2. CASE EchoReply(f, r) \/ Unreachable(f, r)
    BY <1>4, <2>2 DEF EchoReply, Unreachable
  <2>3. CASE Forward(f, r)
    BY <1>2, <1>3, <1>5, <2>3 DEF Forward, Tema1Expired
  <2> QED
    BY <1>7, <2>1, <2>2, <2>3 DEF Tema1
<1>8. CASE Lab4(f, r)
  BY <1>2, <1>3, <1>5, <1>6, <1>8 DEF Lab4, Lab4Expired
<1> QED
  BY <1>1, <1>3, <1>7, <1>8

LEMMA StepIInv == IInv /\ [Next]_vars => IInv'
<1> SUFFICES ASSUME IInv, [Next]_vars PROVE IInv'
  OBVIOUS
<1>1. ASSUME NEW r \in Routers, Handle(r) PROVE IInv'
  <2>1. /\ \A h \in frames' : h \in Frame /\ Spent(h) /\ (h.interface = 0 => Intact(h))
        /\ alive' \in [Routers -> BOOLEAN]
    BY <1>1, HandleKeepsFrames
  <2>2. UNCHANGED <<kind, table, arp_table, sent>>
    BY <1>1 DEF Handle
  <2> QED
    BY <2>1, <2>2 DEF IInv, TypeOK, FramesGood, Spent, Intact, header_sum, protocol
<1>2. ASSUME NEW r \in Routers, NEW type \in {"data", "echo"}, NEW dst \in Addresses,
             NEW ttl \in 0..MaxTtl, NEW damaged \in BOOLEAN,
             SendPacket(r, type, dst, ttl, damaged)
      PROVE  IInv'
  <2> DEFINE e == [type |-> type, src |-> Host(r), dst |-> dst, ttl |-> ttl,
                   check |-> 0, router |-> r, interface |-> 1,
                   ttl0 |-> ttl, hops |-> 0]
             f == Checked(e)
             g == [f EXCEPT !.check = (f.check + 1) % WORD]
  <2>1. WORD \in Nat \ {0, 1} /\ MaxTtl \in Nat /\ MaxPackets \in Nat
    BY WordAssumption, RouterAssumption DEF WordAssumption, RouterAssumption
  <2>2. e \in Frame /\ Spent(e)
    BY <2>1 DEF Frame, Types, Addresses, Host, Routers, Interfaces, Spent
  <2>3. Good(f) /\ f.interface = 1
    <3> HIDE DEF e
    <3>1. Good(f) /\ f.interface = e.interface
      BY <2>2, CheckedIsGood
    <3> QED
      BY <3>1 DEF e
  <2> HIDE DEF f
  <2>4. (f.check + 1) % WORD \in 0..(WORD - 1)
    BY <2>1, <2>3 DEF Good, Frame
  <2>5. g \in Frame /\ Spent(g) /\ g.interface = 1
    BY <2>3, <2>4 DEF Good, Frame, Spent
  <2>6. /\ sent < MaxPackets /\ sent' = sent + 1
        /\ frames' = frames \union {IF damaged THEN g ELSE f}
        /\ UNCHANGED <<kind, table, arp_table, alive>>
    BY <1>2 DEF SendPacket, f
  <2> HIDE DEF g
  <2>7. \A h \in frames' : h \in Frame /\ Spent(h) /\ (h.interface = 0 => Intact(h))
    BY <2>3, <2>5, <2>6 DEF IInv, FramesGood, Good
  <2>8. sent' \in 0..MaxPackets
    BY <2>1, <2>6 DEF IInv, TypeOK
  <2> QED
    BY <2>6, <2>7, <2>8 DEF IInv, TypeOK, FramesGood, Spent, Intact, header_sum, protocol
<1>3. CASE UNCHANGED vars
  BY <1>3 DEF vars, IInv, TypeOK, FramesGood, Spent, Intact, header_sum, protocol
<1> QED
  BY <1>1, <1>2, <1>3 DEF Next

LEMMA Invariance == Spec => []IInv
BY InitIInv, StepIInv, PTL DEF Spec

\* Every variable keeps its type; ttl and hops stay within their bounds.
THEOREM TypeCorrect == Spec => []TypeOK
<1>1. IInv => TypeOK
  BY DEF IInv
<1> QED
  BY <1>1, Invariance, PTL

\* Whatever path a packet takes, no router finds the checksum wrong that
\* another has computed.
THEOREM ChecksumsAlwaysHold == Spec => []ChecksumsHold
<1>1. IInv => ChecksumsHold
  BY DEF IInv, FramesGood, ChecksumsHold
<1> QED
  BY <1>1, Invariance, PTL

\* For every table, loops included, no packet is forwarded more often than the
\* ttl it was sent with: a hop and a ttl used up go together (Spent), and the
\* tests of the ttl keep it from wrapping at 0 (router.c:178-187 of Tema1_pcom,
\* router.c:106-111 of lab4).
THEOREM HopsAlwaysBounded == Spec => []HopsBounded
<1>1. ASSUME NEW f \in Frame, Spent(f) PROVE f.hops <= f.ttl0
  <2>1. f.hops \in Nat /\ f.ttl \in Nat /\ f.ttl0 \in Nat
    BY RouterAssumption DEF Frame, RouterAssumption
  <2> QED
    BY <1>1, <2>1 DEF Spent
<1>2. IInv => HopsBounded
  BY <1>1 DEF IInv, FramesGood, HopsBounded
<1> QED
  BY <1>2, Invariance, PTL

-----------------------------------------------------------------------------
(* The number of frames.                                                   *)

Counted == IsFiniteSet(frames) /\ Cardinality(frames) <= sent

\* One frame is taken off the wire, and at most one other is put on it.
Exchanged(f) ==
  \/ frames' = frames \ {f}
  \/ \E h : frames' = (frames \ {f}) \union {h}

LEMMA SendExchanges ==
  ASSUME NEW f, NEW g, NEW r, NEW i, Send(f, g, r, i)
  PROVE  Exchanged(f)
BY DEF Send, OnLink, Exchanged

LEMMA HandleExchanges ==
  ASSUME NEW r \in Routers, Handle(r)
  PROVE  \E f \in frames : Exchanged(f)
<1>1. PICK f \in frames : Tema1(f, r) \/ Lab4(f, r) \/ Drop(f)
  BY DEF Handle
<1>2. Drop(f) => Exchanged(f)
  BY DEF Drop, Exchanged
<1>3. \A g, i : Send(f, g, r, i) => Exchanged(f)
  BY SendExchanges
<1>4. send_icmp_error(f, r) => Exchanged(f)
  BY <1>3 DEF send_icmp_error
<1>5. Crash(f, r) => Exchanged(f)
  BY DEF Crash, Exchanged
<1>6. Tema1(f, r) => Exchanged(f)
  BY <1>2, <1>3, <1>4 DEF Tema1, EchoReply, Unreachable, Forward
<1>7. Lab4(f, r) => Exchanged(f)
  BY <1>2, <1>3, <1>5 DEF Lab4
<1> QED
  BY <1>1, <1>2, <1>6, <1>7

LEMMA StepCounted == TypeOK /\ Counted /\ [Next]_vars => Counted'
<1> SUFFICES ASSUME TypeOK, Counted, [Next]_vars PROVE Counted'
  OBVIOUS
<1>1. sent \in Nat /\ Cardinality(frames) \in Nat
  BY RouterAssumption, FS_CardinalityType DEF TypeOK, Counted, RouterAssumption
<1>2. ASSUME NEW r \in Routers, Handle(r) PROVE Counted'
  <2>1. PICK f \in frames : Exchanged(f)
    BY <1>2, HandleExchanges
  <2>2. sent' = sent
    BY <1>2 DEF Handle
  <2> DEFINE rest == frames \ {f}
  <2>3. IsFiniteSet(rest) /\ Cardinality(rest) = Cardinality(frames) - 1
    BY FS_RemoveElement DEF Counted
  <2> HIDE DEF rest
  <2>4. CASE frames' = rest
    BY <1>1, <2>2, <2>3, <2>4 DEF Counted
  <2>5. ASSUME NEW h, frames' = rest \union {h} PROVE Counted'
    <3>1. /\ IsFiniteSet(rest \union {h})
          /\ \/ Cardinality(rest \union {h}) = Cardinality(rest)
             \/ Cardinality(rest \union {h}) = Cardinality(rest) + 1
      BY <2>3, FS_AddElement
    <3> QED
      BY <1>1, <2>2, <2>3, <2>5, <3>1 DEF Counted
  <2> QED
    BY <2>1, <2>4, <2>5 DEF Exchanged, rest
<1>3. ASSUME NEW r \in Routers, NEW type \in {"data", "echo"}, NEW dst \in Addresses,
             NEW ttl \in 0..MaxTtl, NEW damaged \in BOOLEAN,
             SendPacket(r, type, dst, ttl, damaged)
      PROVE  Counted'
  <2>1. sent' = sent + 1 /\ \E h : frames' = frames \union {h}
    BY <1>3 DEF SendPacket
  <2>2. PICK h : frames' = frames \union {h}
    BY <2>1
  <2>3. /\ IsFiniteSet(frames \union {h})
        /\ \/ Cardinality(frames \union {h}) = Cardinality(frames)
           \/ Cardinality(frames \union {h}) = Cardinality(frames) + 1
    BY FS_AddElement DEF Counted
  <2> QED
    BY <1>1, <2>1, <2>2, <2>3 DEF Counted
<1>4. CASE UNCHANGED vars
  BY <1>4 DEF vars, Counted
<1> QED
  BY <1>2, <1>3, <1>4 DEF Next

\* No outcome of the loops answers a packet and forwards it as well: there are
\* never more frames than packets were sent, whatever the tables are.
THEOREM OneFrameAlways == Spec => []OneFramePerPacket
<1>1. Init => Counted
  BY FS_EmptySet DEF Init, Counted
<1>2. Counted => OneFramePerPacket
  BY DEF Counted, OneFramePerPacket
<1> QED
  BY <1>1, <1>2, StepCounted, TypeCorrect, PTL DEF Spec

=============================================================================
