-------------------------- MODULE ChatServerProofs --------------------------
(***************************************************************************)
(* Proofs about ChatServer: until a connection is reset, every client is   *)
(* sent whole packets, and all clients see packets in the same order, for  *)
(* any number of clients, packets and parts under way.                     *)
(***************************************************************************)
EXTENDS ChatServer, Integers, FiniteSetTheorems, SequenceTheorems, TLAPS

AnyPart == Part \union {NoPart}

-----------------------------------------------------------------------------
(* The tables of the server.                                               *)

N == Cardinality(Clients)

LEMMA CountOfClients == N \in Nat
BY ConstantsAssumption, FS_CardinalityType DEF ConstantsAssumption, N

\* No client is polled twice, and all that are polled have been accepted.
Distinct == \A k, l \in InUse : poll_fds[k] = poll_fds[l] => k = l
Accepted == \A k \in InUse : conn[poll_fds[k]] \notin {"none", "pending"}

\* The slot the server is at.
AtSlot ==
  /\ sPc \in {"recv", "send"} => i \in InUse
  /\ sPc = "recv" => bytes \in {0, 1}
  /\ sPc = "send" => j <= Len(poll_fds) + 1
  /\ sPc = "killed" => ~NoReset

\* The part that client c has sent after m others.
PartOf(c, m) == [from |-> c, n |-> (m \div 2) + 1, part |-> (m % 2) + 1]

\* The parts of c that the server has received.
Taken(c) == typed[c] - Len(up[c])

\* What is under way to the server is the rest of what has been sent.
UpInOrder ==
  \A c \in Clients :
    /\ Len(up[c]) <= typed[c]
    /\ \A k \in 1..Len(up[c]) : up[c][k] = PartOf(c, Taken(c) + k - 1)

Base == TypeOK /\ Distinct /\ Accepted /\ AtSlot /\ UpInOrder

\* A table without repetitions has no more entries than there are clients.
LEMMA TableFits ==
  ASSUME NEW s \in Seq(Clients),
         \A k, l \in 1..Len(s) : s[k] = s[l] => k = l
  PROVE  Len(s) <= N
<1>1. s \in [1..Len(s) -> Clients] /\ Len(s) \in Nat /\ DOMAIN s = 1..Len(s)
  BY LenProperties
<1>2. s \in Injection(1..Len(s), Clients)
  <2>1. IsInjective(s)
    BY <1>1 DEF IsInjective
  <2> QED
    BY <1>1, <2>1 DEF Injection
<1>3. Cardinality(1..Len(s)) <= Cardinality(Clients)
  BY <1>2, FS_Injection, ConstantsAssumption DEF ConstantsAssumption
<1>4. Cardinality(1..Len(s)) = Len(s)
  <2> DEFINE n == Len(s)
  <2>1. n \in Nat
    BY <1>1
  <2> HIDE DEF n
  <2>2. Cardinality(1..n) = IF 1 > n THEN 0 ELSE n - 1 + 1
    BY <2>1, FS_Interval
  <2> QED
    BY <2>1, <2>2 DEF n
<1> QED
  BY <1>3, <1>4 DEF N

LEMMA PartOfIsPart ==
  ASSUME NEW c \in Clients, NEW m \in Nat, m < 2 * MaxPackets
  PROVE  PartOf(c, m) \in Part
BY ConstantsAssumption DEF ConstantsAssumption, PartOf, Part

LEMMA BaseInit == Init => Base
<1> SUFFICES ASSUME Init PROVE Base
  OBVIOUS
<1>1. N \in Nat /\ MaxPackets \in Nat /\ SockBuf \in Nat
  BY CountOfClients, ConstantsAssumption DEF ConstantsAssumption
<1>2. up \in [Clients -> Seq(Part)]
  BY EmptySeq DEF Init
<1>3. down \in [Clients -> Seq(AnyPart)] /\ got \in [Clients -> Seq(AnyPart)]
  BY EmptySeq DEF Init
<1>4. received_packet \in [{1, 2} -> AnyPart]
  BY DEF Init, AnyPart
<1>5. poll_fds \in Seq(Clients) /\ Len(poll_fds) = 0
  BY EmptySeq DEF Init
<1>6. \A c \in Clients : Len(up[c]) = 0 /\ Len(down[c]) = 0 /\ typed[c] = 0
  BY EmptySeq DEF Init
<1>7. TypeOK
  <2>1. /\ conn \in [Clients -> {"none", "pending", "open", "fin", "rst", "dead"}]
        /\ typed \in [Clients -> 0..(2 * MaxPackets)]
    BY <1>1 DEF Init
  <2>2. /\ i \in 0..(N + 1) /\ j \in 1..(N + 1)
        /\ bytes \in 0..2 /\ bytes_sent \in 0..1 /\ Len(poll_fds) <= N
    BY <1>1, <1>5 DEF Init
  <2>3. \A c \in Clients : Len(up[c]) <= SockBuf /\ Len(down[c]) <= SockBuf
    BY <1>1, <1>6
  <2> QED
    BY <1>2, <1>3, <1>4, <1>5, <2>1, <2>2, <2>3 DEF Init, TypeOK, N, AnyPart
<1>8. Distinct /\ Accepted /\ AtSlot
  BY <1>5 DEF Init, Distinct, Accepted, AtSlot, InUse
<1> QED
  BY <1>6, <1>7, <1>8 DEF Base, UpInOrder

\* A connection that has been reset stays so.
LEMMA ResetStays ==
  ASSUME TypeOK, [Next]_vars, NoReset'
  PROVE  NoReset
<1> DEFINE Lost(c) == conn[c] \in {"rst", "dead"} /\ conn'[c] \notin {"rst", "dead"}
<1> SUFFICES ASSUME NEW c \in Clients, Lost(c) PROVE FALSE
  BY DEF NoReset
<1> USE DEF TypeOK
<1>1. ASSUME NEW d \in Clients, Client(d) PROVE FALSE
  BY <1>1 DEF Client, Connect, ClientSend, ClientReceive, ClientClose
<1>2. CASE UNCHANGED conn
  BY <1>2
<1>3. ASSUME NEW d \in Clients, Accept(d) PROVE FALSE
  BY <1>3 DEF Accept, Pending
<1>4. CASE RecvFails
  BY <1>4 DEF RecvFails
<1>5. CASE SendToClosed
  BY <1>5 DEF SendToClosed
<1>6. CASE SendFails
  BY <1>6 DEF SendFails
<1>7. Poll \/ NextSlot \/ StartReceiving \/ ScanDone \/ RecvPart
      \/ SendPart \/ Killed \/ Forwarded \/ UNCHANGED vars => UNCHANGED conn
  BY DEF Poll, NextSlot, StartReceiving, ScanDone, RecvPart, SendPart, Killed,
         Forwarded, vars, netVars
<1> QED
  BY <1>1, <1>2, <1>3, <1>4, <1>5, <1>6, <1>7 DEF Next, Server

LEMMA TableStays ==
  ASSUME TypeOK, Distinct, Accepted, UNCHANGED poll_fds,
         \A c \in Clients : conn[c] \notin {"none", "pending"}
                            => conn'[c] \notin {"none", "pending"}
  PROVE  Distinct' /\ Accepted'
<1>1. \A k \in InUse : poll_fds[k] \in Clients
  BY ElementOfSeq DEF TypeOK, InUse
<1> QED
  BY <1>1 DEF Distinct, Accepted, InUse

LEMMA UpStays ==
  ASSUME UpInOrder, UNCHANGED <<typed, up>>
  PROVE  UpInOrder'
BY DEF UpInOrder, Taken

LEMMA ConnectBase ==
  ASSUME Base, [Next]_vars, NEW c \in Clients, Connect(c)
  PROVE  Base'
<1> USE DEF Base, Connect, clientVars, tableVars, packetVars
<1>1. TypeOK'
  BY DEF TypeOK
<1>2. Distinct' /\ Accepted' /\ UpInOrder'
  <2>1. \A d \in Clients : conn'[d] = IF d = c THEN "pending" ELSE conn[d]
    BY DEF TypeOK
  <2> QED
    BY <2>1, TableStays, UpStays
<1>3. AtSlot'
  BY ResetStays DEF AtSlot, InUse
<1> QED
  BY <1>1, <1>2, <1>3

LEMMA ClientSendBase ==
  ASSUME Base, NEW c \in Clients, ClientSend(c)
  PROVE  Base'
<1> USE DEF Base, ClientSend, tableVars, packetVars
<1> DEFINE p == PartOf(c, typed[c])
<1>1. typed[c] \in Nat /\ typed[c] < 2 * MaxPackets
  BY DEF TypeOK
<1>2. p \in Part
  BY <1>1, PartOfIsPart
<1>3. up' = [up EXCEPT ![c] = Append(up[c], p)] /\ typed' = [typed EXCEPT ![c] = typed[c] + 1]
  BY DEF PartOf
<1> HIDE DEF p
<1>4. up \in [Clients -> Seq(Part)] /\ typed \in [Clients -> 0..(2 * MaxPackets)]
  BY DEF TypeOK
<1>5. /\ up'[c] \in Seq(Part) /\ Len(up'[c]) = Len(up[c]) + 1
      /\ \A k \in 1..Len(up[c]) : up'[c][k] = up[c][k]
      /\ up'[c][Len(up[c]) + 1] = p
  BY <1>2, <1>3, <1>4, AppendProperties
<1>6. \A d \in Clients \ {c} : up'[d] = up[d] /\ typed'[d] = typed[d]
  BY <1>3, <1>4
<1>7. typed'[c] = typed[c] + 1 /\ typed'[c] \in 0..(2 * MaxPackets)
  BY <1>1, <1>3, <1>4, ConstantsAssumption DEF ConstantsAssumption
<1>8. TypeOK'
  <2>1. up' \in [Clients -> Seq(Part)] /\ typed' \in [Clients -> 0..(2 * MaxPackets)]
    BY <1>3, <1>4, <1>5, <1>7
  <2>2. \A d \in Clients : Len(up'[d]) <= SockBuf
    BY <1>4, <1>5, <1>6, ConstantsAssumption, LenProperties DEF TypeOK, ConstantsAssumption
  <2> QED
    BY <2>1, <2>2 DEF TypeOK
<1>9. UpInOrder'
  <2>1. Len(up[c]) \in Nat /\ Len(up[c]) <= typed[c]
        /\ \A k \in 1..Len(up[c]) : up[c][k] = PartOf(c, Taken(c) + k - 1)
    BY <1>4, LenProperties DEF UpInOrder
  <2>2. Taken(c)' = Taken(c)
    <3>1. (typed[c] + 1) - (Len(up[c]) + 1) = typed[c] - Len(up[c])
      BY <1>1, <2>1
    <3> QED
      BY <1>5, <1>7, <3>1 DEF Taken
  <2>3. Taken(c) + (Len(up[c]) + 1) - 1 = typed[c]
    BY <1>1, <2>1 DEF Taken
  <2>4. \A k \in 1..Len(up'[c]) : up'[c][k] = PartOf(c, Taken(c) + k - 1)
    BY <1>5, <2>1, <2>3 DEF p
  <2>5. \A d \in Clients \ {c} : Taken(d)' = Taken(d)
    BY <1>6 DEF Taken
  <2>6. Len(up'[c]) <= typed'[c]
    BY <1>1, <1>5, <1>7, <2>1
  <2>7. ASSUME NEW d \in Clients \ {c}
        PROVE  /\ Len(up'[d]) <= typed'[d]
               /\ \A k \in 1..Len(up'[d]) : up'[d][k] = PartOf(d, Taken(d)' + k - 1)
    BY <1>6, <2>5 DEF UpInOrder
  <2> QED
    BY <2>2, <2>4, <2>6, <2>7 DEF UpInOrder
<1>10. Distinct' /\ Accepted' /\ AtSlot'
  BY DEF Distinct, Accepted, AtSlot, InUse, NoReset
<1> QED
  BY <1>8, <1>9, <1>10

LEMMA ClientReceiveBase ==
  ASSUME Base, NEW c \in Clients, ClientReceive(c)
  PROVE  Base'
<1> USE DEF Base, ClientReceive, tableVars, packetVars
<1>1. /\ down \in [Clients -> Seq(AnyPart)] /\ got \in [Clients -> Seq(AnyPart)]
      /\ down[c] \in Seq(AnyPart) /\ down[c] # <<>> /\ got[c] \in Seq(AnyPart)
  BY DEF TypeOK, AnyPart
<1>2. /\ Head(down[c]) \in AnyPart /\ Tail(down[c]) \in Seq(AnyPart)
      /\ Len(Tail(down[c])) = Len(down[c]) - 1
  BY <1>1, HeadTailProperties
<1>3. Append(got[c], Head(down[c])) \in Seq(AnyPart)
  BY <1>1, <1>2, AppendProperties
<1>4. down' \in [Clients -> Seq(AnyPart)] /\ got' \in [Clients -> Seq(AnyPart)]
  BY <1>1, <1>2, <1>3
<1>5. \A d \in Clients : Len(down'[d]) <= SockBuf
  BY <1>1, <1>2, LenProperties, ConstantsAssumption DEF TypeOK, ConstantsAssumption
<1>6. TypeOK'
  BY <1>4, <1>5 DEF TypeOK, AnyPart
<1>7. Distinct' /\ Accepted' /\ AtSlot' /\ UpInOrder'
  BY DEF Distinct, Accepted, AtSlot, InUse, NoReset, UpInOrder, Taken
<1> QED
  BY <1>6, <1>7

LEMMA ClientCloseBase ==
  ASSUME Base, [Next]_vars, NEW c \in Clients, ClientClose(c)
  PROVE  Base'
<1> USE DEF Base, ClientClose, clientVars, tableVars, packetVars
<1>1. PICK ending \in {"fin", "rst", "dead"} : conn' = [conn EXCEPT ![c] = ending]
  OBVIOUS
<1>2. down' \in [Clients -> Seq(AnyPart)] /\ \A d \in Clients : Len(down'[d]) <= SockBuf
  <2>1. down \in [Clients -> Seq(AnyPart)] /\ down' = [down EXCEPT ![c] = <<>>]
    BY DEF TypeOK, AnyPart
  <2>2. down' \in [Clients -> Seq(AnyPart)]
    BY <2>1, EmptySeq
  <2>3. \A d \in Clients : Len(down'[d]) <= SockBuf
    BY <2>1, EmptySeq, ConstantsAssumption DEF TypeOK, ConstantsAssumption
  <2> QED
    BY <2>2, <2>3
<1>3. conn' \in [Clients -> {"none", "pending", "open", "fin", "rst", "dead"}]
  BY <1>1 DEF TypeOK
<1>4. TypeOK'
  BY <1>2, <1>3 DEF TypeOK, AnyPart
<1>5. Distinct' /\ Accepted' /\ UpInOrder'
  <2>1. \A d \in Clients : conn'[d] = conn[d] \/ conn'[d] \in {"fin", "rst", "dead"}
    BY <1>1 DEF TypeOK
  <2> QED
    BY <2>1, TableStays, UpStays
<1>6. AtSlot'
  BY ResetStays DEF AtSlot, InUse
<1> QED
  BY <1>4, <1>5, <1>6

LEMMA AcceptBase ==
  ASSUME Base, [Next]_vars, NEW c \in Clients, Accept(c)
  PROVE  Base'
<1> USE DEF Base, Accept, clientVars, packetVars
<1>1. poll_fds \in Seq(Clients) /\ conn[c] = "pending"
  BY DEF TypeOK, Pending
<1>2. /\ poll_fds' \in Seq(Clients) /\ Len(poll_fds') = Len(poll_fds) + 1
      /\ \A k \in 1..Len(poll_fds) : poll_fds'[k] = poll_fds[k]
      /\ poll_fds'[Len(poll_fds) + 1] = c
      /\ Len(poll_fds) \in Nat
  BY <1>1, AppendProperties, LenProperties
<1>3. \A k \in 1..Len(poll_fds) : poll_fds[k] \in Clients /\ poll_fds[k] # c
  BY <1>1, ElementOfSeq DEF Accepted, InUse
<1>4. Distinct'
  BY <1>2, <1>3 DEF Distinct, InUse
<1>5. \A d \in Clients : conn'[d] = IF d = c THEN "open" ELSE conn[d]
  BY DEF TypeOK
<1>6. Accepted'
  BY <1>2, <1>3, <1>5 DEF Accepted, InUse
<1>7. Len(poll_fds') <= N
  BY <1>2, <1>4, TableFits DEF Distinct, InUse
<1>8. TypeOK'
  <2>1. i' \in 0..(N + 1)
    BY CountOfClients
  <2>2. conn' \in [Clients -> {"none", "pending", "open", "fin", "rst", "dead"}]
    BY DEF TypeOK
  <2> QED
    BY <1>2, <1>7, <2>1, <2>2 DEF TypeOK, N
<1>9. AtSlot' /\ UpInOrder'
  BY UpStays DEF AtSlot
<1> QED
  BY <1>4, <1>6, <1>8, <1>9

LEMMA RecvPartBase ==
  ASSUME Base, RecvPart
  PROVE  Base'
<1> USE DEF Base, RecvPart, clientVars, tableVars
<1>c. PICK c \in Clients : c = poll_fds[i]
  BY ElementOfSeq DEF TypeOK, AtSlot, InUse
<1>1. c \in Clients /\ i \in InUse /\ bytes \in {0, 1}
  BY DEF AtSlot
<1>2. /\ up \in [Clients -> Seq(Part)] /\ up[c] \in Seq(Part) /\ up[c] # <<>>
      /\ up' = [up EXCEPT ![c] = Tail(up[c])]
  BY <1>c DEF TypeOK
<1>0. /\ TypeOK /\ Distinct /\ Accepted /\ AtSlot /\ UpInOrder
      /\ received_packet' = [received_packet EXCEPT ![bytes + 1] = Head(up[c])]
      /\ UNCHANGED <<conn, down, typed, got, poll_fds, revents, listening, i>>
  BY <1>c
<1>6. /\ bytes' \in 0..2 /\ bytes_sent' \in 0..1 /\ j' \in 1..(N + 1)
      /\ sPc' \in {"recv", "send"} /\ (sPc' = "recv" => bytes' = 1)
      /\ (sPc' = "send" => j' = 1)
  <2>1. bytes' = bytes + 1 /\ bytes' \in {1, 2}
    BY <1>1
  <2>2. CASE bytes' = 2
    <3>1. sPc' = "send" /\ j' = 1 /\ bytes_sent' = 0
      BY <2>1, <2>2 DEF Forwarding, Complete
    <3> QED
      BY <2>2, <3>1, CountOfClients
  <2>3. CASE bytes' = 1
    <3>1. sPc' = "recv" /\ UNCHANGED <<j, bytes_sent>>
      BY <2>1, <2>3 DEF Complete
    <3> QED
      BY <2>3, <3>1 DEF TypeOK, N
  <2> QED
    BY <2>1, <2>2, <2>3
<1> HIDE DEF Base, RecvPart, clientVars, tableVars
<1>3. /\ Head(up[c]) \in Part /\ Tail(up[c]) \in Seq(Part)
      /\ Len(Tail(up[c])) = Len(up[c]) - 1 /\ Len(up[c]) \in Nat
      /\ \A k \in 1..Len(Tail(up[c])) : Tail(up[c])[k] = up[c][k + 1]
  BY <1>2, HeadTailProperties, LenProperties
<1>4. /\ up'[c] = Tail(up[c]) /\ \A d \in Clients \ {c} : up'[d] = up[d]
  BY <1>1, <1>2
<1>5. received_packet' \in [{1, 2} -> AnyPart]
  <2>1. received_packet \in [{1, 2} -> AnyPart]
    BY <1>0 DEF TypeOK, AnyPart
  <2> QED
    BY <1>0, <1>3, <2>1 DEF AnyPart
<1>7. TypeOK'
  <2>1. up' \in [Clients -> Seq(Part)]
    BY <1>1, <1>2, <1>3
  <2>2. \A d \in Clients : Len(up'[d]) <= SockBuf
    <3>1. SockBuf \in Nat /\ Len(up[c]) <= SockBuf /\ Len(up'[c]) = Len(up[c]) - 1
      BY <1>0, <1>1, <1>3, <1>4, ConstantsAssumption DEF TypeOK, ConstantsAssumption
    <3>2. Len(up'[c]) <= SockBuf
      BY <1>3, <3>1
    <3> QED
      BY <1>0, <1>4, <3>2 DEF TypeOK
  <2> QED
    BY <1>0, <1>5, <1>6, <2>1, <2>2 DEF TypeOK, N, AnyPart
<1>8. Distinct' /\ Accepted'
  BY <1>0, TableStays
<1>9. AtSlot'
  <2>1. Len(poll_fds) \in Nat /\ Len(poll_fds') = Len(poll_fds) /\ i' = i
    BY <1>0, LenProperties DEF TypeOK
  <2> QED
    BY <1>1, <1>6, <2>1 DEF AtSlot, InUse
<1>10. UpInOrder'
  <2>1. typed[c] \in Nat /\ typed' = typed /\ Len(up[c]) <= typed[c]
    BY <1>0, <1>1 DEF TypeOK, UpInOrder
  <2>2. Taken(c)' = Taken(c) + 1 /\ Taken(c) \in Nat
    BY <1>3, <1>4, <2>1 DEF Taken
  <2>3. Len(up'[c]) <= typed'[c]
    BY <1>3, <1>4, <2>1
  <2>4. ASSUME NEW k \in 1..Len(up'[c]) PROVE up'[c][k] = PartOf(c, Taken(c)' + k - 1)
    <3>1. k + 1 \in 1..Len(up[c]) /\ up'[c][k] = up[c][k + 1]
      BY <1>3, <1>4, <2>4
    <3>2. up[c][k + 1] = PartOf(c, Taken(c) + (k + 1) - 1)
      BY <1>0, <1>1, <3>1 DEF UpInOrder
    <3>3. Taken(c) + (k + 1) - 1 = Taken(c)' + k - 1
      BY <1>3, <2>2, <3>1
    <3> QED
      BY <3>1, <3>2, <3>3
  <2>5. ASSUME NEW d \in Clients \ {c}
        PROVE  /\ Len(up'[d]) <= typed'[d]
               /\ \A k \in 1..Len(up'[d]) : up'[d][k] = PartOf(d, Taken(d)' + k - 1)
    <3>1. Taken(d)' = Taken(d)
      BY <1>4, <2>1 DEF Taken
    <3> QED
      BY <1>0, <1>4, <2>1, <3>1 DEF UpInOrder
  <2> QED
    BY <2>3, <2>4, <2>5 DEF UpInOrder
<1> QED
  BY <1>7, <1>8, <1>9, <1>10 DEF Base

\* A client is taken out of the table.
LEMMA Removal ==
  ASSUME NEW s \in Seq(Clients), NEW m \in 1..Len(s), NEW t,
         t = [k \in 1..(Len(s) - 1) |-> s[IF k < m THEN k ELSE k + 1]]
  PROVE  /\ t \in Seq(Clients)
         /\ Len(t) = Len(s) - 1
         /\ \A k \in 1..Len(t) : t[k] = s[IF k < m THEN k ELSE k + 1]
<1>1. Len(s) \in Nat /\ Len(s) >= 1 /\ \A k \in 1..Len(s) : s[k] \in Clients
  BY ElementOfSeq, LenProperties
<1>2. \A k \in 1..(Len(s) - 1) : (IF k < m THEN k ELSE k + 1) \in 1..Len(s)
  BY <1>1
<1>3. t \in [1..(Len(s) - 1) -> Clients] /\ Len(s) - 1 \in Nat
  BY <1>1, <1>2
<1>4. t \in Seq(Clients)
  BY <1>3, SeqDef
<1>5. Len(t) = Len(s) - 1
  BY <1>3, <1>4, LenProperties
<1> QED
  BY <1>4, <1>5

LEMMA RecvFailsBase ==
  ASSUME Base, [Next]_vars, RecvFails
  PROVE  Base'
<1>0. /\ TypeOK /\ Distinct /\ Accepted /\ AtSlot /\ UpInOrder
      /\ UNCHANGED <<up, down, typed, got, listening, received_packet, bytes>>
      /\ sPc = "recv"
  BY DEF Base, RecvFails, clientVars
<1>1. PICK c \in Clients : c = poll_fds[i] /\ conn[c] = "rst"
                           /\ conn' = [conn EXCEPT ![c] = "dead"]
  BY <1>0, ElementOfSeq DEF RecvFails, TypeOK, AtSlot, InUse
<1>2. /\ poll_fds \in Seq(Clients) /\ Len(poll_fds) \in Nat
      /\ i \in 1..Len(poll_fds) /\ Len(poll_fds) <= N /\ N \in Nat
  BY <1>0, CountOfClients, LenProperties DEF TypeOK, AtSlot, InUse, N
<1>3. conn \in [Clients -> {"none", "pending", "open", "fin", "rst", "dead"}]
  BY <1>0 DEF TypeOK
<1>4. conn' \in [Clients -> {"none", "pending", "open", "fin", "rst", "dead"}]
      /\ \A d \in Clients : conn[d] \notin {"none", "pending"}
                            => conn'[d] \notin {"none", "pending"}
  BY <1>1, <1>3
<1>5. UpInOrder'
  BY <1>0, UpStays
<1>6. ~NoReset'
  BY <1>1, <1>3 DEF NoReset
<1>7. CASE bytes > 0
  <2>1. /\ sPc' = "send" /\ j' = 1 /\ bytes_sent' = 0
        /\ UNCHANGED <<poll_fds, revents, i>>
    BY <1>7 DEF RecvFails, Forwarding
  <2>2. TypeOK'
    <3>1. j' \in 1..(N + 1) /\ bytes_sent' \in 0..1
      BY <1>2, <2>1
    <3> QED
      BY <1>0, <1>4, <2>1, <3>1 DEF TypeOK, N
  <2>3. Distinct' /\ Accepted'
    BY <1>0, <1>4, <2>1, TableStays
  <2>4. AtSlot'
    BY <1>0, <1>2, <2>1 DEF AtSlot, InUse
  <2> QED
    BY <1>5, <2>2, <2>3, <2>4 DEF Base
<1>8. CASE ~(bytes > 0)
  <2>1. /\ poll_fds' = [k \in 1..(Len(poll_fds) - 1) |->
                          poll_fds[IF k < i THEN k ELSE k + 1]]
        /\ revents' = [k \in Slots |-> IF k >= i /\ k < Len(poll_fds)
                                       THEN revents[k + 1] ELSE revents[k]]
        /\ sPc' = "scan" /\ i' = i + 1
        /\ UNCHANGED <<j, bytes_sent>>
    BY <1>8 DEF RecvFails
  <2>2. /\ poll_fds' \in Seq(Clients) /\ Len(poll_fds') = Len(poll_fds) - 1
        /\ \A k \in 1..Len(poll_fds') :
             poll_fds'[k] = poll_fds[IF k < i THEN k ELSE k + 1]
    BY <1>2, <2>1, Removal
  <2>3. revents' \in [Slots -> BOOLEAN]
    <3>1. revents \in [Slots -> BOOLEAN]
      BY <1>0 DEF TypeOK
    <3>2. \A k \in Slots : k < Len(poll_fds) => k + 1 \in Slots
      BY <1>2 DEF Slots, N
    <3> QED
      BY <2>1, <3>1, <3>2
  <2>4. TypeOK'
    <3>1. i' \in 0..(N + 1) /\ Len(poll_fds') <= N
      BY <1>2, <2>1, <2>2
    <3> QED
      BY <1>0, <1>4, <2>1, <2>2, <2>3, <3>1 DEF TypeOK, N
  <2>5. \A k \in 1..Len(poll_fds') : (IF k < i THEN k ELSE k + 1) \in 1..Len(poll_fds)
    BY <1>2, <2>2
  <2>6. Distinct'
    <3> SUFFICES ASSUME NEW k \in 1..Len(poll_fds'), NEW l \in 1..Len(poll_fds'),
                        poll_fds'[k] = poll_fds'[l]
                 PROVE  k = l
      BY DEF Distinct, InUse
    <3>1. (IF k < i THEN k ELSE k + 1) = (IF l < i THEN l ELSE l + 1)
      BY <1>0, <2>2, <2>5 DEF Distinct, InUse
    <3> QED
      BY <1>2, <3>1
  <2>7. Accepted'
    <3>1. \A k \in 1..Len(poll_fds) :
            poll_fds[k] \in Clients /\ conn[poll_fds[k]] \notin {"none", "pending"}
      BY <1>0, <1>2, ElementOfSeq DEF Accepted, InUse
    <3> QED
      BY <1>4, <2>2, <2>5, <3>1 DEF Accepted, InUse
  <2>8. AtSlot'
    BY <2>1 DEF AtSlot
  <2> QED
    BY <1>5, <2>4, <2>6, <2>7, <2>8 DEF Base
<1> QED
  BY <1>7, <1>8

LEMMA SendPartBase ==
  ASSUME Base, SendPart
  PROVE  Base'
<1>0. /\ TypeOK /\ Distinct /\ Accepted /\ AtSlot /\ UpInOrder
      /\ UNCHANGED <<conn, up, typed, got, poll_fds, revents, listening,
                     received_packet, bytes, sPc, i>>
      /\ sPc = "send" /\ j \in InUse
  BY DEF Base, SendPart, clientVars, tableVars
<1>1. PICK c \in Clients :
        /\ c = poll_fds[j] /\ Len(down[c]) < SockBuf
        /\ down' = [down EXCEPT ![c] = Append(down[c], received_packet[bytes_sent + 1])]
  BY <1>0, ElementOfSeq DEF SendPart, TypeOK, InUse
<1>2. /\ Len(poll_fds) \in Nat /\ Len(poll_fds) <= N /\ N \in Nat
      /\ j \in 1..Len(poll_fds) /\ bytes_sent \in {0, 1}
  BY <1>0, CountOfClients, LenProperties DEF TypeOK, InUse, N
<1>3. j' \in 1..(Len(poll_fds) + 1) /\ bytes_sent' \in {0, 1}
  BY <1>2 DEF SendPart, PartSent
<1>4. down \in [Clients -> Seq(AnyPart)] /\ down[c] \in Seq(AnyPart)
  BY <1>0 DEF TypeOK, AnyPart
<1>5. received_packet[bytes_sent + 1] \in AnyPart
  <2>1. bytes_sent + 1 \in {1, 2}
    BY <1>2
  <2>2. received_packet \in [{1, 2} -> AnyPart]
    BY <1>0 DEF TypeOK, AnyPart
  <2> QED
    BY <2>1, <2>2
<1>6. /\ Append(down[c], received_packet[bytes_sent + 1]) \in Seq(AnyPart)
      /\ Len(Append(down[c], received_packet[bytes_sent + 1])) = Len(down[c]) + 1
      /\ Len(down[c]) \in Nat
  BY <1>4, <1>5, AppendProperties, LenProperties
<1>7. down' \in [Clients -> Seq(AnyPart)]
  BY <1>1, <1>4, <1>6
<1>8. \A d \in Clients : Len(down'[d]) <= SockBuf
  <2>0. down'[c] = Append(down[c], received_packet[bytes_sent + 1]) /\ SockBuf \in Nat
    BY <1>1, <1>4, ConstantsAssumption DEF ConstantsAssumption
  <2>1. Len(down'[c]) <= SockBuf
    BY <1>1, <1>6, <2>0
  <2>2. \A d \in Clients \ {c} : down'[d] = down[d]
    BY <1>1, <1>4
  <2> QED
    BY <1>0, <2>1, <2>2 DEF TypeOK
<1>9. TypeOK'
  <2>1. j' \in 1..(N + 1) /\ bytes_sent' \in 0..1
    BY <1>2, <1>3
  <2> QED
    BY <1>0, <1>7, <1>8, <2>1 DEF TypeOK, N, AnyPart
<1>10. AtSlot'
  <2>1. InUse' = InUse /\ i \in InUse
    BY <1>0 DEF AtSlot, InUse
  <2> QED
    BY <1>0, <1>2, <1>3, <2>1 DEF AtSlot
<1>11. Distinct' /\ Accepted' /\ UpInOrder'
  BY <1>0, TableStays, UpStays
<1> QED
  BY <1>9, <1>10, <1>11 DEF Base

\* The steps that leave the streams and the entries of the table alone.
LEMMA QuietBase ==
  ASSUME Base, [Next]_vars,
         \/ Poll \/ NextSlot \/ StartReceiving \/ ScanDone
         \/ SendToClosed \/ SendFails \/ Killed \/ Forwarded \/ UNCHANGED vars
  PROVE  Base'
<1>0. /\ TypeOK /\ Distinct /\ Accepted /\ AtSlot /\ UpInOrder
      /\ UNCHANGED <<up, down, typed, got, poll_fds, received_packet>>
  BY DEF Base, Poll, NextSlot, StartReceiving, ScanDone, SendToClosed, SendFails,
         Killed, Forwarded, vars, netVars, clientVars, tableVars, packetVars
<1>1. /\ Len(poll_fds) \in Nat /\ Len(poll_fds) <= N /\ N \in Nat
      /\ \A k \in InUse : poll_fds[k] \in Clients
      /\ InUse = 1..Len(poll_fds) /\ InUse' = InUse
      /\ i \in 0..(N + 1) /\ j \in 1..(N + 1) /\ bytes_sent \in {0, 1}
      /\ bytes \in 0..2
  BY <1>0, CountOfClients, LenProperties, ElementOfSeq DEF TypeOK, InUse, N
<1>2. conn \in [Clients -> {"none", "pending", "open", "fin", "rst", "dead"}]
  BY <1>0 DEF TypeOK
<1>3. UpInOrder'
  BY <1>0, UpStays
\* What is left to show of a step.
<1> DEFINE Rest ==
             /\ conn' \in [Clients -> {"none", "pending", "open", "fin", "rst", "dead"}]
             /\ \A c \in Clients : conn[c] \notin {"none", "pending"}
                                   => conn'[c] \notin {"none", "pending"}
             /\ sPc' \in {"poll", "scan", "recv", "send", "killed"}
             /\ revents' \in [Slots -> BOOLEAN] /\ listening' \in BOOLEAN
             /\ i' \in 0..(N + 1) /\ j' \in 1..(N + 1)
             /\ bytes' \in 0..2 /\ bytes_sent' \in 0..1
             /\ AtSlot'
<1>4. ASSUME Rest PROVE Base'
  <2>1. TypeOK'
    BY <1>0, <1>4 DEF TypeOK, N
  <2>2. Distinct' /\ Accepted'
    BY <1>0, <1>4, TableStays
  <2> QED
    BY <1>3, <1>4, <2>1, <2>2 DEF Base
<1>5. CASE Poll
  <2>1. revents' \in [Slots -> BOOLEAN]
    BY <1>0, <1>5 DEF Poll, TypeOK, Readable
  <2>2. listening' \in BOOLEAN
    BY <1>5 DEF Poll
  <2>3. /\ UNCHANGED <<conn, bytes, bytes_sent, j>>
        /\ sPc' = "scan" /\ i' = 0
    BY <1>5 DEF Poll, netVars, packetVars
  <2>4. AtSlot'
    BY <2>3 DEF AtSlot
  <2>5. bytes \in 0..2 /\ bytes_sent \in 0..1 /\ j \in 1..(N + 1)
    BY <1>0 DEF TypeOK, N
  <2> QED
    BY <1>1, <1>2, <1>4, <2>1, <2>2, <2>3, <2>4, <2>5
<1>6. CASE NextSlot
  <2>1. i' \in 0..(N + 1)
    BY <1>1, <1>6 DEF NextSlot
  <2> QED
    BY <1>0, <1>1, <1>2, <1>4, <1>6, <2>1
       DEF NextSlot, TypeOK, AtSlot, netVars, packetVars, tableVars
<1>7. CASE StartReceiving
  BY <1>0, <1>1, <1>2, <1>4, <1>7
     DEF StartReceiving, TypeOK, AtSlot, netVars, tableVars
<1>8. CASE ScanDone
  BY <1>0, <1>1, <1>2, <1>4, <1>8
     DEF ScanDone, TypeOK, AtSlot, netVars, packetVars, tableVars
<1>9. CASE SendToClosed
  <2>1. j \in InUse /\ j' \in 1..(N + 1) /\ bytes_sent' \in 0..1
        /\ j' <= Len(poll_fds) + 1
    BY <1>1, <1>9 DEF SendToClosed, PartSent
  <2>2. PICK c \in Clients : conn[c] = "fin" /\ conn' \in {conn, [conn EXCEPT ![c] = "dead"]}
    BY <1>1, <1>9 DEF SendToClosed
  <2> QED
    BY <1>0, <1>1, <1>2, <1>4, <1>9, <2>1, <2>2 DEF SendToClosed, TypeOK, AtSlot, tableVars
<1>10. CASE SendFails
  <2>1. j \in InUse /\ j' \in 1..(N + 1) /\ bytes_sent' \in 0..1
        /\ j' <= Len(poll_fds) + 1
    BY <1>1, <1>10 DEF SendFails
  <2>2. PICK c \in Clients : conn[c] = "rst" /\ conn' = [conn EXCEPT ![c] = "dead"]
    BY <1>1, <1>10 DEF SendFails
  <2> QED
    BY <1>0, <1>1, <1>2, <1>4, <1>10, <2>1, <2>2 DEF SendFails, TypeOK, AtSlot, tableVars
<1>11. CASE Killed
  <2>1. ~NoReset /\ conn' = conn
    BY <1>1, <1>11 DEF Killed, NoReset, netVars
  <2>2. ~NoReset'
    BY <2>1 DEF NoReset
  <2> QED
    BY <1>0, <1>1, <1>2, <1>4, <1>11, <2>1, <2>2
       DEF Killed, TypeOK, AtSlot, packetVars, tableVars
<1>12. CASE Forwarded
  <2>1. i \in InUse
    BY <1>0, <1>12 DEF Forwarded, AtSlot
  <2>2. i' \in 0..(N + 1)
    BY <1>1, <1>12, <2>1 DEF Forwarded
  <2> QED
    BY <1>0, <1>1, <1>2, <1>4, <1>12, <2>2
       DEF Forwarded, TypeOK, AtSlot, netVars, packetVars, tableVars
<1>13. CASE UNCHANGED vars
  BY <1>0, <1>1, <1>2, <1>4, <1>13
     DEF TypeOK, AtSlot, NoReset, vars, netVars, packetVars, tableVars
<1> QED
  BY <1>5, <1>6, <1>7, <1>8, <1>9, <1>10, <1>11, <1>12, <1>13

LEMMA BaseStep == Base /\ [Next]_vars => Base'
<1> SUFFICES ASSUME Base, [Next]_vars PROVE Base'
  OBVIOUS
<1>1. ASSUME NEW c \in Clients, Client(c) PROVE Base'
  BY <1>1, ConnectBase, ClientSendBase, ClientReceiveBase, ClientCloseBase DEF Client
<1>2. CASE Server
  BY <1>2, AcceptBase, RecvPartBase, RecvFailsBase, SendPartBase, QuietBase DEF Server
<1> QED
  BY <1>1, <1>2, QuietBase DEF Next

\* Every variable keeps its type; no client is polled twice, so the table never
\* has more entries than there are clients (poll_fds, server.c:91-167).
THEOREM TypeCorrect == Spec => []TypeOK
<1>1. Base => TypeOK
  BY DEF Base
<1> QED
  BY <1>1, BaseInit, BaseStep, PTL DEF Spec

-----------------------------------------------------------------------------
(* The streams.                                                            *)

\* The server has received, or has sent, the first part of a packet only.
Halved(c)  == sPc = "recv" /\ bytes = 1 /\ poll_fds[i] = c
Halfway(c) == sPc = "send" /\ j \in InUse /\ bytes_sent = 1 /\ poll_fds[j] = c

\* What the server takes from a client is taken in pairs of parts.
TakenInPairs ==
  \A c \in Clients :
    /\ Taken(c) % 2 = IF Halved(c) THEN 1 ELSE 0
    /\ Halved(c) => received_packet[1] = PartOf(c, Taken(c) - 1)

\* The packet of p has been received as a whole.
Seen(p) == p \in Part /\ 2 * p.n <= Taken(p.from)

PacketWhole ==
  sPc = "send" =>
    Whole(received_packet) /\ Seen(received_packet[1]) /\ Seen(received_packet[2])

WholePairs(s) == \A k \in 1..Len(s) : 2 * k <= Len(s) => Whole(Packet(s, k))

\* A stream has an odd number of parts only while its last packet is being
\* sent, or if its client left in between.
SentInPairs ==
  \A c \in Clients :
    /\ WholePairs(Stream(c))
    /\ conn[c] # "fin" =>
         /\ Len(Stream(c)) % 2 = IF Halfway(c) THEN 1 ELSE 0
         /\ Halfway(c) => Stream(c)[Len(Stream(c))] = received_packet[1]

AllSeen == \A c \in Clients : \A k \in 1..Len(Stream(c)) : Seen(Stream(c)[k])

\* The parts have positions, in the order in which they are forwarded, that
\* grow along every stream.
Bound(m, top) == IF m = j /\ bytes_sent = 1 THEN top ELSE top - 1

InOrder(pos, top) ==
  /\ \A c \in Clients : \A k, l \in 1..Len(Stream(c)) :
       k < l => pos[Stream(c)[k]] < pos[Stream(c)[l]]
  /\ \A c \in Clients : \A k \in 1..Len(Stream(c)) : pos[Stream(c)[k]] <= top
  /\ sPc = "send" =>
       /\ pos[received_packet[1]] = top - 1 /\ pos[received_packet[2]] = top
       /\ \A m \in InUse, c \in Clients : m >= j /\ poll_fds[m] = c =>
            \A k \in 1..Len(Stream(c)) : pos[Stream(c)[k]] < Bound(m, top)

Ordered == \E pos \in [AnyPart -> Nat], top \in Nat : InOrder(pos, top)

Streams == TakenInPairs /\ PacketWhole /\ SentInPairs /\ AllSeen /\ Ordered

LEMMA StreamType ==
  ASSUME TypeOK, NEW c \in Clients
  PROVE  /\ Stream(c) \in Seq(AnyPart) /\ Len(Stream(c)) \in Nat
         /\ Taken(c) \in Int
<1>1. got[c] \in Seq(AnyPart) /\ down[c] \in Seq(AnyPart)
  BY DEF TypeOK, AnyPart
<1>2. Stream(c) \in Seq(AnyPart)
  BY <1>1, ConcatProperties DEF Stream
<1>3. typed[c] \in Int /\ Len(up[c]) \in Nat
  BY LenProperties DEF TypeOK
<1> QED
  BY <1>2, <1>3, LenProperties DEF Taken

LEMMA StreamsInit == Init => Streams
<1> SUFFICES ASSUME Init PROVE Streams
  OBVIOUS
<1>1. \A c \in Clients : Stream(c) = <<>> /\ Len(Stream(c)) = 0 /\ Taken(c) = 0
  BY EmptySeq, ConcatEmptySeq DEF Init, Stream, Taken
<1>2. TakenInPairs /\ PacketWhole
  BY <1>1 DEF Init, TakenInPairs, PacketWhole, Halved
<1>3. SentInPairs /\ AllSeen
  BY <1>1 DEF Init, SentInPairs, AllSeen, WholePairs, Halfway
<1>4. InOrder([p \in AnyPart |-> 0], 0)
  BY <1>1 DEF InOrder, Init
<1>5. Ordered
  <2>1. [p \in AnyPart |-> 0] \in [AnyPart -> Nat]
    OBVIOUS
  <2> QED
    BY <1>4, <2>1 DEF Ordered
<1> QED
  BY <1>2, <1>3, <1>5 DEF Streams

\* t is s, or what is left of it when the end is cut off.
CutOff(t, s) ==
  /\ Len(t) \in Nat /\ Len(t) <= Len(s)
  /\ \A k \in 1..Len(t) : t[k] = s[k]

LEMMA PrefixIsCut ==
  ASSUME NEW S, NEW s \in Seq(S), NEW t \in Seq(S)
  PROVE  CutOff(s, s \o t)
<1>1. Len(s) \in Nat /\ Len(t) \in Nat
  BY LenProperties
<1>2. Len(s \o t) = Len(s) + Len(t)
  BY ConcatProperties
<1>3. \A k \in 1..(Len(s) + Len(t)) :
        (s \o t)[k] = IF k <= Len(s) THEN s[k] ELSE t[k - Len(s)]
  BY ConcatProperties
<1>4. ASSUME NEW k \in 1..Len(s) PROVE s[k] = (s \o t)[k]
  <2>1. k \in 1..(Len(s) + Len(t)) /\ k <= Len(s)
    BY <1>1
  <2> QED
    BY <1>3, <2>1
<1> QED
  BY <1>1, <1>2, <1>4 DEF CutOff

LEMMA CutPairs ==
  ASSUME NEW s, NEW t, Len(s) \in Nat, CutOff(t, s), WholePairs(s)
  PROVE  WholePairs(t)
<1> SUFFICES ASSUME NEW k \in 1..Len(t), 2 * k <= Len(t) PROVE Whole(Packet(t, k))
  BY DEF WholePairs
<1>1. k \in 1..Len(s) /\ 2 * k <= Len(s) /\ 2 * k - 1 \in 1..Len(t) /\ 2 * k \in 1..Len(t)
  BY DEF CutOff
<1>2. t[2 * k - 1] = s[2 * k - 1] /\ t[2 * k] = s[2 * k]
  BY <1>1 DEF CutOff
<1>3. Packet(t, k) = Packet(s, k)
  BY <1>2 DEF Packet
<1> QED
  BY <1>1, <1>3 DEF WholePairs

\* The steps that neither receive a part nor send one to an open connection.
LEMMA StreamsStay ==
  ASSUME Base, Streams, UNCHANGED received_packet,
         \A c \in Clients : /\ CutOff(Stream(c)', Stream(c)) /\ Taken(c)' = Taken(c)
                            /\ conn'[c] # "fin" => Stream(c)' = Stream(c)
                            /\ conn'[c] # "fin" => conn[c] # "fin"
                            /\ Halved(c)' = Halved(c)
                            /\ Halfway(c)' = Halfway(c) \/ conn'[c] = "fin",
         sPc' = "send" =>
           /\ sPc = "send" /\ UNCHANGED poll_fds
           /\ \/ j' = j /\ (bytes_sent = 1 => bytes_sent' = 1)
              \/ j' = j + 1 /\ bytes_sent' = 0
  PROVE  Streams'
<1>0. \A c \in Clients : /\ Len(Stream(c)) \in Nat
                         /\ \A k \in 1..Len(Stream(c)') :
                              k \in 1..Len(Stream(c)) /\ Stream(c)'[k] = Stream(c)[k]
  <2>1. \A c \in Clients : Len(Stream(c)) \in Nat
    BY StreamType DEF Base
  <2>2. ASSUME NEW c \in Clients, NEW k \in 1..Len(Stream(c)')
        PROVE  k \in 1..Len(Stream(c)) /\ Stream(c)'[k] = Stream(c)[k]
    <3>1. CutOff(Stream(c)', Stream(c)) /\ Len(Stream(c)) \in Nat
      BY <2>1
    <3> QED
      BY <3>1 DEF CutOff
  <2> QED
    BY <2>1, <2>2
<1>1. TakenInPairs'
  BY DEF Streams, TakenInPairs
<1>2. \A p : Seen(p) => Seen(p)'
  BY DEF Seen, Part
<1>3. PacketWhole'
  BY <1>2 DEF Streams, PacketWhole
<1>4. SentInPairs'
  <2> SUFFICES ASSUME NEW c \in Clients
               PROVE  /\ WholePairs(Stream(c)')
                      /\ conn'[c] # "fin" =>
                           /\ Len(Stream(c)') % 2 = IF Halfway(c)' THEN 1 ELSE 0
                           /\ Halfway(c)' => Stream(c)'[Len(Stream(c)')] = received_packet'[1]
    BY DEF SentInPairs
  <2>1. WholePairs(Stream(c)')
    BY <1>0, CutPairs DEF Streams, SentInPairs
  <2> QED
    BY <2>1 DEF Streams, SentInPairs
<1>5. AllSeen'
  BY <1>0, <1>2 DEF Streams, AllSeen
<1>6. Ordered'
  <2>1. PICK pos \in [AnyPart -> Nat], top \in Nat : InOrder(pos, top)
    BY DEF Streams, Ordered
  <2>2. /\ \A c \in Clients : \A k, l \in 1..Len(Stream(c)') :
             k < l => pos[Stream(c)'[k]] < pos[Stream(c)'[l]]
        /\ \A c \in Clients : \A k \in 1..Len(Stream(c)') : pos[Stream(c)'[k]] <= top
    BY <1>0, <2>1 DEF InOrder
  <2>3. ASSUME sPc' = "send"
        PROVE  /\ pos[received_packet'[1]] = top - 1 /\ pos[received_packet'[2]] = top
               /\ \A m \in InUse', c \in Clients : m >= j' /\ poll_fds'[m] = c =>
                    \A k \in 1..Len(Stream(c)') : pos[Stream(c)'[k]] < Bound(m, top)'
    <3>1. sPc = "send" /\ poll_fds' = poll_fds /\ InUse' = InUse
      BY <2>3 DEF InUse
    <3>2. pos[received_packet'[1]] = top - 1 /\ pos[received_packet'[2]] = top
      BY <2>1, <3>1 DEF InOrder
    <3>3. ASSUME NEW m \in InUse, NEW c \in Clients, m >= j', poll_fds[m] = c,
                 NEW k \in 1..Len(Stream(c)')
          PROVE  pos[Stream(c)'[k]] < Bound(m, top)'
      <4>1. m \in Int /\ j \in Int
        BY DEF Base, TypeOK, InUse
      <4>2. m >= j
        BY <2>3, <3>3, <4>1
      <4>0. k \in 1..Len(Stream(c)) /\ Stream(c)'[k] = Stream(c)[k]
        BY <1>0, <3>3
      <4>3. pos[Stream(c)[k]] < Bound(m, top)
        BY <2>1, <3>1, <3>3, <4>0, <4>2 DEF InOrder
      <4>4. pos[Stream(c)[k]] \in Nat
        <5>1. Stream(c)[k] \in AnyPart
          BY <4>0, StreamType, ElementOfSeq DEF Base
        <5> QED
          BY <5>1
      <4> QED
        BY <2>3, <3>3, <4>0, <4>1, <4>3, <4>4 DEF Bound
    <3> QED
      BY <3>1, <3>2, <3>3
  <2>4. InOrder(pos, top)'
    BY <2>2, <2>3 DEF InOrder
  <2> QED
    BY <2>4 DEF Ordered
<1> QED
  BY <1>1, <1>3, <1>4, <1>5, <1>6 DEF Streams

LEMMA PairsAppend ==
  ASSUME NEW s \in Seq(AnyPart), NEW e \in AnyPart, WholePairs(s),
         Len(s) % 2 = 1 => Whole(<<s[Len(s)], e>>)
  PROVE  WholePairs(Append(s, e))
<1> DEFINE t == Append(s, e)
<1>1. /\ Len(s) \in Nat /\ Len(t) = Len(s) + 1
      /\ \A k \in 1..Len(s) : t[k] = s[k]
      /\ t[Len(s) + 1] = e
  BY AppendProperties, LenProperties
<1> HIDE DEF t
<1> SUFFICES ASSUME NEW k \in 1..Len(t), 2 * k <= Len(t) PROVE Whole(Packet(t, k))
  BY DEF WholePairs, t
<1>2. CASE 2 * k <= Len(s)
  <2>1. k \in 1..Len(s) /\ t[2 * k - 1] = s[2 * k - 1] /\ t[2 * k] = s[2 * k]
    BY <1>1, <1>2
  <2> QED
    BY <1>2, <2>1 DEF WholePairs, Packet
<1>3. CASE 2 * k = Len(s) + 1
  <2>1. Len(s) % 2 = 1 /\ 2 * k - 1 = Len(s) /\ Len(s) \in 1..Len(s)
    BY <1>1, <1>3
  <2>2. t[2 * k - 1] = s[Len(s)] /\ t[2 * k] = e
    BY <1>1, <1>3, <2>1
  <2> QED
    BY <2>1, <2>2 DEF Packet
<1> QED
  BY <1>1, <1>2, <1>3

\* The two parts of a packet.
LEMMA PairIsWhole ==
  ASSUME NEW c \in Clients, NEW m \in Nat, m % 2 = 1, m < 2 * MaxPackets
  PROVE  /\ PartOf(c, m - 1) \in Part /\ PartOf(c, m) \in Part
         /\ PartOf(c, m - 1).from = c /\ PartOf(c, m).from = c
         /\ 2 * PartOf(c, m - 1).n = m + 1 /\ 2 * PartOf(c, m).n = m + 1
         /\ PartOf(c, m - 1).part = 1
         /\ PartOf(c, m) = [PartOf(c, m - 1) EXCEPT !.part = 2]
         /\ PartOf(c, m - 1) # PartOf(c, m)
<1>1. /\ (m - 1) \div 2 = m \div 2 /\ (m - 1) % 2 = 0 /\ m - 1 \in Nat
      /\ 2 * (m \div 2) = m - 1
  OBVIOUS
<1>2. PartOf(c, m - 1) \in Part /\ PartOf(c, m) \in Part
  BY <1>1, PartOfIsPart, ConstantsAssumption DEF ConstantsAssumption
<1>3. /\ PartOf(c, m - 1) = [from |-> c, n |-> (m \div 2) + 1, part |-> 1]
      /\ PartOf(c, m) = [from |-> c, n |-> (m \div 2) + 1, part |-> 2]
  BY <1>1 DEF PartOf
<1>4. 2 * ((m \div 2) + 1) = m + 1
  BY <1>1
<1>5. PartOf(c, m) = [PartOf(c, m - 1) EXCEPT !.part = 2]
  BY <1>3
<1> QED
  BY <1>2, <1>3, <1>4, <1>5

LEMMA RecvPartStreams ==
  ASSUME Base, Streams, RecvPart
  PROVE  Streams'
<1>0. /\ TypeOK /\ AtSlot /\ UpInOrder
      /\ TakenInPairs /\ SentInPairs /\ AllSeen /\ Ordered
      /\ UNCHANGED <<conn, down, typed, got, poll_fds, i>>
      /\ sPc = "recv" /\ bytes' = bytes + 1
  BY DEF Base, Streams, RecvPart, clientVars, tableVars
<1>c. PICK c \in Clients : c = poll_fds[i]
  BY <1>0, ElementOfSeq DEF TypeOK, AtSlot, InUse
<1>p. PICK p : p = Head(up[c])
  OBVIOUS
<1>1. /\ received_packet' = [received_packet EXCEPT ![bytes + 1] = p]
      /\ up' = [up EXCEPT ![c] = Tail(up[c])] /\ up[c] # <<>>
      /\ bytes \in {0, 1} /\ received_packet \in [{1, 2} -> AnyPart]
      /\ up \in [Clients -> Seq(Part)] /\ up[c] \in Seq(Part)
  BY <1>0, <1>c, <1>p DEF RecvPart, TypeOK, AtSlot, AnyPart
<1>2. /\ p \in Part /\ p = up[c][1] /\ Len(up[c]) \in Nat /\ Len(up[c]) >= 1
      /\ Len(Tail(up[c])) = Len(up[c]) - 1
  BY <1>1, <1>p, HeadTailProperties, LenProperties, EmptySeq
<1>3. /\ typed[c] \in Nat /\ typed[c] <= 2 * MaxPackets /\ MaxPackets \in Nat
      /\ Len(up[c]) <= typed[c]
  BY <1>0, ConstantsAssumption DEF TypeOK, UpInOrder, ConstantsAssumption
<1>m. PICK m \in Nat : m = Taken(c) /\ m < 2 * MaxPackets
  BY <1>2, <1>3 DEF Taken
<1>4. p = PartOf(c, m)
  <2>1. 1 \in 1..Len(up[c]) /\ Taken(c) + 1 - 1 = m
    BY <1>2, <1>m
  <2> QED
    BY <1>0, <1>2, <2>1 DEF UpInOrder
<1>5. Taken(c)' = m + 1 /\ \A d \in Clients \ {c} : Taken(d)' = Taken(d)
  <2>1. up'[c] = Tail(up[c]) /\ \A d \in Clients \ {c} : up'[d] = up[d]
    BY <1>1
  <2>2. typed[c] - (Len(up[c]) - 1) = m + 1
    BY <1>2, <1>3, <1>m DEF Taken
  <2> QED
    BY <1>0, <1>2, <2>1, <2>2 DEF Taken
<1>6. \A d \in Clients : Stream(d)' = Stream(d) /\ ~Halfway(d)
  BY <1>0 DEF Stream, Halfway
<1>7. \A q : Seen(q) => Seen(q)'
  <2> SUFFICES ASSUME NEW q, Seen(q) PROVE Seen(q)'
    OBVIOUS
  <2>1. q.from \in Clients /\ q.n \in Nat
    BY ConstantsAssumption DEF Seen, Part, ConstantsAssumption
  <2>2. Taken(q.from)' \in Int /\ Taken(q.from)' >= Taken(q.from)
    BY <1>0, <1>5, <1>m, <2>1, StreamType
  <2>3. Taken(q.from) \in Int
    BY <1>0, <2>1, StreamType
  <2> QED
    BY <2>1, <2>2, <2>3 DEF Seen
<1>8. AllSeen'
  BY <1>0, <1>6, <1>7 DEF AllSeen
<1>9. \A d \in Clients : Halved(d) <=> d = c /\ bytes = 1
  BY <1>0, <1>c DEF Halved
<1>10. \A d \in Clients \ {c} : Taken(d) % 2 = 0 /\ Taken(d)' % 2 = 0
  BY <1>0, <1>5, <1>9 DEF TakenInPairs
<1>11. PICK pos \in [AnyPart -> Nat], top \in Nat : InOrder(pos, top)
  BY <1>0 DEF Ordered
<1>12. \A d \in Clients : \A k \in 1..Len(Stream(d)) : Stream(d)[k] \in AnyPart
  BY <1>0, StreamType, ElementOfSeq
<1>13. CASE bytes = 0
  <2>1. sPc' = "recv" /\ bytes' = 1 /\ received_packet'[1] = p
    BY <1>0, <1>1, <1>13 DEF RecvPart, Complete
  <2>2. m % 2 = 0 /\ (m + 1) % 2 = 1
    <3>1. m % 2 = 0
      BY <1>0, <1>9, <1>13, <1>m DEF TakenInPairs
    <3> QED
      BY <3>1
  <2>3. \A d \in Clients : (Halved(d)' <=> d = c) /\ ~Halfway(d)'
    BY <1>0, <1>c, <2>1 DEF Halved, Halfway
  <2>4. TakenInPairs'
    <3>1. (m + 1) - 1 = m
      OBVIOUS
    <3> QED
      BY <1>4, <1>5, <1>10, <2>1, <2>2, <2>3, <3>1 DEF TakenInPairs
  <2>5. PacketWhole'
    BY <2>1 DEF PacketWhole
  <2>6. SentInPairs'
    BY <1>0, <1>6, <2>3 DEF SentInPairs
  <2>7. InOrder(pos, top)'
    BY <1>6, <1>11, <2>1 DEF InOrder
  <2>8. Ordered'
    BY <2>7 DEF Ordered
  <2> QED
    BY <1>8, <2>4, <2>5, <2>6, <2>8 DEF Streams
<1>14. CASE bytes = 1
  <2>1. /\ sPc' = "send" /\ j' = 1 /\ bytes_sent' = 0
        /\ received_packet'[1] = received_packet[1] /\ received_packet'[2] = p
    BY <1>0, <1>1, <1>14 DEF RecvPart, Complete, Forwarding
  <2>2. m % 2 = 1 /\ (m + 1) % 2 = 0 /\ received_packet[1] = PartOf(c, m - 1)
    <3>1. m % 2 = 1 /\ received_packet[1] = PartOf(c, m - 1)
      BY <1>0, <1>9, <1>14, <1>m DEF TakenInPairs
    <3> QED
      BY <3>1
  <2>3. \A d \in Clients : ~Halved(d)' /\ ~Halfway(d)'
    BY <2>1 DEF Halved, Halfway
  <2>4. TakenInPairs'
    BY <1>5, <1>10, <2>2, <2>3 DEF TakenInPairs
  <2>q. PICK q : q = received_packet[1]
    OBVIOUS
  <2>5. /\ q \in Part /\ q.from = c /\ p.from = c
        /\ 2 * q.n = m + 1 /\ 2 * p.n = m + 1
        /\ q.part = 1 /\ p = [q EXCEPT !.part = 2] /\ q # p
    BY <1>4, <1>m, <2>2, <2>q, PairIsWhole
  <2>6. Whole(received_packet)'
    BY <2>1, <2>5, <2>q DEF Whole
  <2>7. Seen(p)' /\ Seen(q)'
    BY <1>2, <1>5, <2>5 DEF Seen
  <2>8. PacketWhole'
    BY <2>1, <2>6, <2>7, <2>q DEF PacketWhole
  <2>9. SentInPairs'
    BY <1>0, <1>6, <2>3 DEF SentInPairs
  <2>10. Ordered'
    <3> DEFINE new == [pos EXCEPT ![q] = top + 1, ![p] = top + 2]
    <3>1. q \in AnyPart /\ p \in AnyPart
      BY <1>2, <2>5 DEF AnyPart
    <3>2. /\ new \in [AnyPart -> Nat] /\ new[q] = top + 1 /\ new[p] = top + 2
          /\ \A r \in AnyPart \ {p, q} : new[r] = pos[r]
      BY <2>5, <3>1
    <3> HIDE DEF new
    <3>3. ~Seen(p) /\ ~Seen(q)
      BY <1>m, <2>5 DEF Seen
    <3>4. \A d \in Clients : \A k \in 1..Len(Stream(d)) :
            /\ new[Stream(d)[k]] = pos[Stream(d)[k]]
            /\ pos[Stream(d)[k]] \in Nat /\ pos[Stream(d)[k]] <= top
      BY <1>0, <1>11, <1>12, <3>2, <3>3 DEF AllSeen, InOrder
    <3>5. top + 2 \in Nat /\ (top + 2) - 1 = top + 1
      OBVIOUS
    <3>6. /\ \A d \in Clients : \A k, l \in 1..Len(Stream(d)') :
               k < l => new[Stream(d)'[k]] < new[Stream(d)'[l]]
          /\ \A d \in Clients : \A k \in 1..Len(Stream(d)') :
               new[Stream(d)'[k]] <= top + 2
      <4>1. \A d \in Clients : \A k, l \in 1..Len(Stream(d)) :
               k < l => new[Stream(d)[k]] < new[Stream(d)[l]]
        BY <1>11, <3>4 DEF InOrder
      <4>2. \A d \in Clients : \A k \in 1..Len(Stream(d)) : new[Stream(d)[k]] <= top + 2
        <5> SUFFICES ASSUME NEW d \in Clients, NEW k \in 1..Len(Stream(d))
                     PROVE  new[Stream(d)[k]] <= top + 2
          OBVIOUS
        <5>1. new[Stream(d)[k]] \in Nat /\ new[Stream(d)[k]] <= top
          BY <3>4
        <5> QED
          BY <5>1
      <4> QED
        BY <1>6, <4>1, <4>2
    <3>7. \A k : Bound(k, top + 2)' = top + 1
      BY <2>1, <3>5 DEF Bound
    <3>8. \A d \in Clients : \A k \in 1..Len(Stream(d)') : new[Stream(d)'[k]] < top + 1
      BY <1>6, <3>4
    <3>9. InOrder(new, top + 2)'
      BY <2>1, <2>q, <3>2, <3>5, <3>6, <3>7, <3>8 DEF InOrder
    <3> QED
      BY <3>2, <3>5, <3>9 DEF Ordered
  <2> QED
    BY <1>8, <2>4, <2>8, <2>9, <2>10 DEF Streams
<1> QED
  BY <1>1, <1>13, <1>14

LEMMA SendPartStreams ==
  ASSUME Base, Streams, SendPart
  PROVE  Streams'
<1>0. /\ TypeOK /\ Distinct
      /\ TakenInPairs /\ PacketWhole /\ SentInPairs /\ AllSeen /\ Ordered
      /\ UNCHANGED <<conn, up, typed, got, poll_fds, received_packet, bytes, sPc, i>>
      /\ sPc = "send" /\ j \in InUse /\ InUse' = InUse
  BY DEF Base, Streams, SendPart, clientVars, tableVars, InUse
<1>1. PICK c \in Clients :
        /\ c = poll_fds[j] /\ conn[c] = "open"
        /\ down' = [down EXCEPT ![c] = Append(down[c], received_packet[bytes_sent + 1])]
  BY <1>0, ElementOfSeq DEF SendPart, TypeOK, InUse
<1>2. \/ bytes_sent = 0 /\ j' = j /\ bytes_sent' = 1
      \/ bytes_sent = 1 /\ j' = j + 1 /\ bytes_sent' = 0
  BY <1>0 DEF SendPart, PartSent, TypeOK
<1>e. PICK e : e = received_packet[bytes_sent + 1]
  OBVIOUS
<1>3. e \in AnyPart /\ Seen(e)
  <2>1. e = received_packet[1] \/ e = received_packet[2]
    BY <1>2, <1>e
  <2> QED
    BY <1>0, <2>1 DEF PacketWhole, Seen, AnyPart
<1>s. PICK s : s = Stream(c)
  OBVIOUS
<1>4. s \in Seq(AnyPart) /\ Len(s) \in Nat /\ \A k \in 1..Len(s) : s[k] \in AnyPart
  BY <1>0, <1>s, StreamType, ElementOfSeq
<1>5. Stream(c)' = Append(s, e)
  <2>1. got[c] \in Seq(AnyPart) /\ down[c] \in Seq(AnyPart) /\ <<e>> \in Seq(AnyPart)
    BY <1>0, <1>3 DEF TypeOK, AnyPart
  <2>2. down'[c] = Append(down[c], e) /\ got'[c] = got[c]
    BY <1>0, <1>1, <1>e DEF TypeOK
  <2>3. Append(down[c], e) = down[c] \o <<e>> /\ Append(s, e) = s \o <<e>>
    BY <1>3, <1>4, <2>1, AppendIsConcat
  <2>4. got[c] \o (down[c] \o <<e>>) = (got[c] \o down[c]) \o <<e>>
    <3>1. \A x, y, z \in Seq(AnyPart) : x \o (y \o z) = (x \o y) \o z
      BY ConcatAssociative
    <3> QED
      BY <2>1, <3>1, Zenon
  <2> QED
    BY <1>s, <2>2, <2>3, <2>4 DEF Stream
<1>6. \A d \in Clients \ {c} : Stream(d)' = Stream(d)
  BY <1>0, <1>1 DEF TypeOK, Stream
<1>7. PICK t : t = Append(s, e)
  OBVIOUS
<1>8. /\ t \in Seq(AnyPart) /\ Len(t) = Len(s) + 1
      /\ \A k \in 1..Len(s) : t[k] = s[k]
      /\ t[Len(s) + 1] = e
  BY <1>3, <1>4, <1>7, AppendProperties
<1>9. \A d \in Clients : Taken(d)' = Taken(d) /\ Halved(d)' = Halved(d)
  BY <1>0 DEF Taken, Halved
<1>10. \A q : Seen(q) => Seen(q)'
  BY <1>9 DEF Seen, Part
<1>11. TakenInPairs' /\ PacketWhole'
  BY <1>0, <1>9, <1>10 DEF TakenInPairs, PacketWhole
<1>12. AllSeen'
  <2>1. \A k \in 1..Len(t) : Seen(t[k])'
    <3> SUFFICES ASSUME NEW k \in 1..Len(t) PROVE Seen(t[k])'
      OBVIOUS
    <3>1. k \in 1..Len(s) \/ t[k] = e
      BY <1>4, <1>8
    <3> QED
      BY <1>0, <1>3, <1>8, <1>10, <1>s, <3>1 DEF AllSeen
  <2> QED
    BY <1>0, <1>5, <1>6, <1>7, <1>10, <2>1 DEF AllSeen
<1>13. \A d \in Clients : /\ Halfway(d) <=> bytes_sent = 1 /\ d = c
                          /\ Halfway(d)' <=> bytes_sent = 0 /\ d = c
  BY <1>0, <1>1, <1>2 DEF Halfway
<1>14. SentInPairs'
  <2>1. Len(s) % 2 = IF bytes_sent = 1 THEN 1 ELSE 0
    BY <1>0, <1>1, <1>13, <1>s DEF SentInPairs
  <2>2. Len(s) % 2 = 1 => Whole(<<s[Len(s)], e>>)
    <3> SUFFICES ASSUME Len(s) % 2 = 1 PROVE Whole(<<s[Len(s)], e>>)
      OBVIOUS
    <3>1. bytes_sent = 1
      BY <2>1
    <3>2. s[Len(s)] = received_packet[1] /\ e = received_packet[2]
      BY <1>0, <1>1, <1>13, <1>e, <1>s, <3>1 DEF SentInPairs
    <3> QED
      BY <1>0, <3>2 DEF PacketWhole, Whole
  <2>3. WholePairs(t)
    BY <1>0, <1>3, <1>4, <1>7, <1>s, <2>2, PairsAppend DEF SentInPairs
  <2>4. Len(t) % 2 = IF bytes_sent = 0 THEN 1 ELSE 0
    BY <1>2, <1>4, <1>8, <2>1
  <2>5. bytes_sent = 0 => t[Len(t)] = received_packet[1]
    BY <1>8, <1>e
  <2>6. \A d \in Clients \ {c} : ~Halfway(d) /\ ~Halfway(d)'
    BY <1>13
  <2> QED
    BY <1>0, <1>5, <1>6, <1>7, <1>13, <2>3, <2>4, <2>5, <2>6 DEF SentInPairs
<1>15. Ordered'
  <2>1. PICK pos \in [AnyPart -> Nat], top \in Nat : InOrder(pos, top)
    BY <1>0 DEF Ordered
  <2>2. \A k \in 1..Len(s) : pos[s[k]] \in Nat /\ pos[s[k]] <= top
    BY <1>4, <1>s, <2>1 DEF InOrder
  <2>3. /\ pos[e] \in Nat /\ pos[e] <= top
        /\ pos[e] = IF bytes_sent = 0 THEN top - 1 ELSE top
    BY <1>0, <1>2, <1>3, <1>e, <2>1 DEF InOrder
  <2>4. \A k \in 1..Len(s) : pos[s[k]] < pos[e]
    <3>1. j \in Int /\ j >= j
      BY <1>0 DEF TypeOK
    <3>2. Bound(j, top) = pos[e]
      BY <1>2, <2>3 DEF Bound
    <3> QED
      BY <1>0, <1>1, <1>s, <2>1, <3>1, <3>2 DEF InOrder
  <2>5. \A k \in 1..Len(t) :
          (k \in 1..Len(s) /\ t[k] = s[k]) \/ (k = Len(s) + 1 /\ t[k] = e)
    <3> SUFFICES ASSUME NEW k \in 1..Len(t)
                 PROVE  (k \in 1..Len(s) /\ t[k] = s[k]) \/ (k = Len(s) + 1 /\ t[k] = e)
      OBVIOUS
    <3>1. k \in 1..Len(s) \/ k = Len(s) + 1
      BY <1>4, <1>8
    <3> QED
      BY <1>8, <3>1
  <2>6. /\ \A k, l \in 1..Len(t) : k < l => pos[t[k]] < pos[t[l]]
        /\ \A k \in 1..Len(t) : pos[t[k]] <= top
    <3>1. ASSUME NEW k \in 1..Len(t), NEW l \in 1..Len(t), k < l
          PROVE  pos[t[k]] < pos[t[l]]
      <4>1. k \in 1..Len(s) /\ t[k] = s[k]
        BY <1>4, <1>8, <2>5, <3>1
      <4> QED
        BY <1>s, <2>1, <2>4, <2>5, <3>1, <4>1 DEF InOrder
    <3>2. \A k \in 1..Len(t) : pos[t[k]] <= top
      BY <2>2, <2>3, <2>5
    <3> QED
      BY <3>1, <3>2
  <2>7. ASSUME NEW m \in InUse, NEW d \in Clients, m >= j', poll_fds[m] = d,
               NEW k \in 1..Len(Stream(d)')
        PROVE  pos[Stream(d)'[k]] < Bound(m, top)'
    <3>1. m \in Int /\ j \in Int /\ m >= j
      <4>1. m \in Int /\ j \in Int
        BY <1>0, <2>7 DEF InUse
      <4> QED
        BY <1>2, <2>7, <4>1
    <3>2. CASE d = c
      <4>1. m = j
        BY <1>0, <1>1, <2>7, <3>2 DEF Distinct
      <4>2. bytes_sent = 0 /\ j' = j /\ bytes_sent' = 1
        BY <1>2, <2>7, <3>1, <4>1
      <4>3. Bound(m, top)' = top
        BY <4>1, <4>2 DEF Bound
      <4>4. pos[t[k]] <= pos[e] /\ pos[e] < top
        <5>1. k \in 1..Len(t)
          BY <1>5, <1>7, <2>7, <3>2
        <5> QED
          BY <2>2, <2>3, <2>4, <2>5, <4>2, <5>1
      <4>5. pos[t[k]] \in Nat
        BY <1>5, <1>7, <2>2, <2>3, <2>5, <2>7, <3>2
      <4> QED
        BY <1>5, <1>7, <2>3, <3>2, <4>3, <4>4, <4>5
    <3>3. CASE d # c
      <4>1. m # j /\ Stream(d)' = Stream(d)
        BY <1>1, <1>6, <2>7, <3>3
      <4>2. pos[Stream(d)[k]] < top - 1
        BY <1>0, <2>1, <2>7, <3>1, <4>1 DEF InOrder, Bound
      <4>3. pos[Stream(d)[k]] \in Nat
        BY <1>0, <2>7, <4>1, StreamType, ElementOfSeq
      <4> QED
        BY <4>1, <4>2, <4>3 DEF Bound
    <3> QED
      BY <3>2, <3>3
  <2>8. InOrder(pos, top)'
    <3>1. \A d \in Clients : \A k, l \in 1..Len(Stream(d)') :
            k < l => pos[Stream(d)'[k]] < pos[Stream(d)'[l]]
      BY <1>5, <1>6, <1>7, <2>1, <2>6 DEF InOrder
    <3>2. \A d \in Clients : \A k \in 1..Len(Stream(d)') : pos[Stream(d)'[k]] <= top
      BY <1>5, <1>6, <1>7, <2>1, <2>6 DEF InOrder
    <3>3. pos[received_packet'[1]] = top - 1 /\ pos[received_packet'[2]] = top
      BY <1>0, <2>1 DEF InOrder
    <3> QED
      BY <1>0, <2>7, <3>1, <3>2, <3>3 DEF InOrder
  <2> QED
    BY <2>8 DEF Ordered
<1> QED
  BY <1>11, <1>12, <1>14, <1>15 DEF Streams

LEMMA HeadMoves ==
  ASSUME NEW S, NEW s \in Seq(S), NEW t \in Seq(S), t # <<>>
  PROVE  Append(s, Head(t)) \o Tail(t) = s \o t
<1>1. /\ Head(t) \in S /\ Tail(t) \in Seq(S) /\ Len(Tail(t)) = Len(t) - 1
      /\ \A k \in 1..Len(Tail(t)) : Tail(t)[k] = t[k + 1]
      /\ Len(s) \in Nat /\ Len(t) \in Nat /\ Head(t) = t[1] /\ Len(t) >= 1
  BY HeadTailProperties, LenProperties, EmptySeq
<1> DEFINE u == Append(s, Head(t))
           v == Tail(t)
<1>2. /\ u \in Seq(S) /\ Len(u) = Len(s) + 1
      /\ \A k \in 1..Len(s) : u[k] = s[k]
      /\ u[Len(s) + 1] = t[1]
  BY <1>1, AppendProperties
<1>3. v \in Seq(S) /\ Len(v) = Len(t) - 1 /\ \A k \in 1..Len(v) : v[k] = t[k + 1]
  BY <1>1
<1> HIDE DEF u, v
<1>4. /\ u \o v \in Seq(S) /\ Len(u \o v) = Len(u) + Len(v)
      /\ \A k \in 1..(Len(u) + Len(v)) :
           (u \o v)[k] = IF k <= Len(u) THEN u[k] ELSE v[k - Len(u)]
  BY <1>2, <1>3, ConcatProperties
<1>5. /\ s \o t \in Seq(S) /\ Len(s \o t) = Len(s) + Len(t)
      /\ \A k \in 1..(Len(s) + Len(t)) :
           (s \o t)[k] = IF k <= Len(s) THEN s[k] ELSE t[k - Len(s)]
  BY ConcatProperties
<1>6. Len(u \o v) = Len(s \o t) /\ Len(u) + Len(v) = Len(s) + Len(t)
  BY <1>1, <1>2, <1>3, <1>4, <1>5
<1>7. ASSUME NEW k \in 1..Len(u \o v) PROVE (u \o v)[k] = (s \o t)[k]
  <2>0. k \in 1..(Len(s) + Len(t)) /\ k \in 1..(Len(u) + Len(v))
    BY <1>4, <1>6
  <2>1. CASE k <= Len(s)
    BY <1>1, <1>2, <1>4, <1>5, <2>0, <2>1
  <2>2. CASE k = Len(s) + 1
    BY <1>1, <1>2, <1>4, <1>5, <2>0, <2>2
  <2>3. CASE k > Len(s) + 1
    <3>1. k - Len(u) \in 1..Len(v) /\ (k - Len(u)) + 1 = k - Len(s)
      BY <1>1, <1>2, <1>3, <2>0, <2>3
    <3>2. v[k - Len(u)] = t[k - Len(s)]
      BY <1>3, <3>1
    <3>3. (u \o v)[k] = v[k - Len(u)] /\ (s \o t)[k] = t[k - Len(s)]
      BY <1>1, <1>2, <1>4, <1>5, <2>0, <2>3
    <3> QED
      BY <3>2, <3>3
  <2> QED
    BY <1>1, <2>0, <2>1, <2>2, <2>3
<1>8. u \o v = s \o t
  BY <1>4, <1>5, <1>6, <1>7, SeqEqual
<1> QED
  BY <1>8 DEF u, v

LEMMA StreamIsNotCut ==
  ASSUME Base, NEW c \in Clients, Stream(c)' = Stream(c)
  PROVE  CutOff(Stream(c)', Stream(c))
BY StreamType DEF Base, CutOff

\* Every other step leaves the streams as they are, or cuts the end off that of
\* a client that ends.
LEMMA OtherStreams ==
  ASSUME Base, Streams, [Next]_vars, NoReset', ~RecvPart, ~SendPart
  PROVE  Streams'
<1>0. /\ TypeOK /\ AtSlot /\ NoReset
      /\ conn \in [Clients -> {"none", "pending", "open", "fin", "rst", "dead"}]
      /\ conn' \in [Clients -> {"none", "pending", "open", "fin", "rst", "dead"}]
  BY BaseStep, ResetStays DEF Base, TypeOK
<1>1. ASSUME NEW c \in Clients, Client(c) PROVE Streams'
  <2>1. /\ UNCHANGED <<received_packet, bytes, bytes_sent, j, poll_fds, sPc, i>>
        /\ \A d \in Clients : Halved(d)' = Halved(d) /\ Halfway(d)' = Halfway(d)
    BY <1>1 DEF Client, Connect, ClientSend, ClientReceive, ClientClose,
                clientVars, tableVars, packetVars, Halved, Halfway, InUse
  <2>2. \A d \in Clients : conn'[d] # "fin" => conn[d] # "fin"
    BY <1>0, <1>1 DEF Client, Connect, ClientSend, ClientReceive, ClientClose
  <2>3. \A d \in Clients : Taken(d)' = Taken(d)
    <3>1. CASE ClientSend(c)
      <4>1. /\ typed[c] \in Nat /\ up[c] \in Seq(Part) /\ Len(up[c]) \in Nat
            /\ typed[c] < 2 * MaxPackets
        BY <1>0, <3>1, LenProperties DEF TypeOK, ClientSend
      <4>2. PartOf(c, typed[c]) \in Part
        BY <4>1, PartOfIsPart
      <4>3. /\ up' = [up EXCEPT ![c] = Append(up[c], PartOf(c, typed[c]))]
            /\ typed' = [typed EXCEPT ![c] = typed[c] + 1]
        BY <3>1 DEF ClientSend, PartOf
      <4>4. Len(Append(up[c], PartOf(c, typed[c]))) = Len(up[c]) + 1
        BY <4>1, <4>2, AppendProperties
      <4>5. (typed[c] + 1) - (Len(up[c]) + 1) = typed[c] - Len(up[c])
        BY <4>1
      <4>6. typed'[c] = typed[c] + 1 /\ Len(up'[c]) = Len(up[c]) + 1
        BY <1>0, <4>3, <4>4 DEF TypeOK
      <4>7. \A d \in Clients \ {c} : typed'[d] = typed[d] /\ up'[d] = up[d]
        BY <1>0, <4>3 DEF TypeOK
      <4> QED
        BY <4>5, <4>6, <4>7 DEF Taken
    <3>2. CASE Connect(c) \/ ClientReceive(c) \/ ClientClose(c)
      BY <3>2 DEF Connect, ClientReceive, ClientClose, clientVars, Taken
    <3> QED
      BY <1>1, <3>1, <3>2 DEF Client
  <2>4. ASSUME ~ClientClose(c)
        PROVE  \A d \in Clients : Stream(d)' = Stream(d)
    <3>1. CASE ClientReceive(c)
      <4>1. /\ got[c] \in Seq(AnyPart) /\ down[c] \in Seq(AnyPart) /\ down[c] # <<>>
            /\ got' = [got EXCEPT ![c] = Append(got[c], Head(down[c]))]
            /\ down' = [down EXCEPT ![c] = Tail(down[c])]
        BY <1>0, <3>1 DEF TypeOK, AnyPart, ClientReceive
      <4>2. \A d \in Clients \ {c} : got'[d] = got[d] /\ down'[d] = down[d]
        BY <1>0, <4>1 DEF TypeOK
      <4>3. got'[c] = Append(got[c], Head(down[c])) /\ down'[c] = Tail(down[c])
        BY <1>0, <4>1 DEF TypeOK
      <4>4. Append(got[c], Head(down[c])) \o Tail(down[c]) = got[c] \o down[c]
        BY <4>1, HeadMoves
      <4> QED
        BY <4>2, <4>3, <4>4 DEF Stream
    <3>2. CASE Connect(c) \/ ClientSend(c)
      BY <3>2 DEF Connect, ClientSend, clientVars, Stream
    <3> QED
      BY <1>1, <2>4, <3>1, <3>2 DEF Client
  <2>5. ASSUME ClientClose(c)
        PROVE  \A d \in Clients : /\ CutOff(Stream(d)', Stream(d))
                                  /\ conn'[d] # "fin" => Stream(d)' = Stream(d)
    <3>1. got' = got /\ down' = [down EXCEPT ![c] = <<>>]
      BY <2>5 DEF ClientClose, clientVars
    <3>2. conn'[c] = "fin"
      BY <1>0, <2>5 DEF ClientClose, NoReset
    <3>3. \A d \in Clients : d # c => Stream(d)' = Stream(d)
      BY <1>0, <3>1 DEF Stream, TypeOK
    <3>4. /\ got[c] \in Seq(AnyPart) /\ down[c] \in Seq(AnyPart)
          /\ got[c] \o <<>> = got[c]
      BY <1>0, ConcatEmptySeq DEF TypeOK, AnyPart
    <3>5. Stream(c)' = got[c]
      BY <1>0, <3>1, <3>4 DEF Stream, TypeOK
    <3>6. CutOff(got[c], Stream(c))
      BY <3>4, PrefixIsCut DEF Stream
    <3> QED
      BY <3>2, <3>3, <3>5, <3>6, StreamIsNotCut
  <2> QED
    BY <2>1, <2>2, <2>3, <2>4, <2>5, StreamIsNotCut, StreamsStay
<1>2. ASSUME UNCHANGED <<up, down, typed, got, received_packet>>,
             \A c \in Clients : /\ conn'[c] # "fin" => conn[c] # "fin"
                                /\ Halved(c)' = Halved(c)
                                /\ Halfway(c)' = Halfway(c) \/ conn'[c] = "fin",
             sPc' = "send" =>
               /\ sPc = "send" /\ UNCHANGED poll_fds
               /\ \/ j' = j /\ (bytes_sent = 1 => bytes_sent' = 1)
                  \/ j' = j + 1 /\ bytes_sent' = 0
      PROVE  Streams'
  <2>1. \A c \in Clients : Stream(c)' = Stream(c) /\ Taken(c)' = Taken(c)
    BY <1>2 DEF Stream, Taken
  <2> QED
    BY <1>2, <2>1, StreamIsNotCut, StreamsStay
<1>3. CASE Poll \/ NextSlot \/ StartReceiving \/ ScanDone \/ UNCHANGED vars
  BY <1>2, <1>3
     DEF Poll, NextSlot, StartReceiving, ScanDone, vars, netVars, clientVars,
         tableVars, packetVars, Halved, Halfway, InUse
<1>4. ASSUME NEW c \in Clients, Accept(c) PROVE Streams'
  <2>1. \A d \in Clients : conn'[d] # "fin" => conn[d] # "fin"
    BY <1>0, <1>4 DEF Accept, Pending
  <2> QED
    BY <1>2, <1>4, <2>1 DEF Accept, clientVars, packetVars, Halved, Halfway
<1>5. CASE Forwarded
  <2>1. j \notin InUse
    BY <1>5 DEF Forwarded, InUse
  <2> QED
    BY <1>2, <1>5, <2>1
       DEF Forwarded, netVars, clientVars, tableVars, packetVars, Halved, Halfway
<1>6. \A k \in InUse : poll_fds[k] \in Clients
  BY <1>0, ElementOfSeq DEF TypeOK, InUse
<1>7. CASE SendToClosed
  <2>1. PICK c \in Clients : /\ c = poll_fds[j] /\ conn[c] = "fin"
                             /\ conn' \in {conn, [conn EXCEPT ![c] = "dead"]}
    BY <1>6, <1>7 DEF SendToClosed
  <2>2. conn' = conn
    BY <1>0, <2>1 DEF NoReset
  <2>3. /\ sPc = "send" /\ sPc' = "send" /\ InUse' = InUse
        /\ UNCHANGED <<up, down, typed, got, poll_fds, received_packet, bytes, i>>
    BY <1>7 DEF SendToClosed, clientVars, tableVars, InUse
  <2>4. \/ bytes_sent = 1 /\ j' = j + 1 /\ bytes_sent' = 0
        \/ bytes_sent = 0 /\ j' = j /\ bytes_sent' = 1
    <3>1. bytes_sent \in {0, 1}
      BY <1>0 DEF TypeOK
    <3> QED
      BY <1>7, <3>1 DEF SendToClosed, PartSent
  <2>5. \A d \in Clients : d # c => ~Halfway(d) /\ ~Halfway(d)'
    BY <2>1, <2>3, <2>4 DEF Halfway
  <2>6. \A d \in Clients : Halved(d)' = Halved(d)
    BY <2>3 DEF Halved
  <2>7. \A d \in Clients : Halfway(d)' = Halfway(d) \/ conn'[d] = "fin"
    <3>1. conn'[c] = "fin"
      BY <2>1, <2>2
    <3>2. \A d \in Clients : d # c => Halfway(d)' = Halfway(d)
      BY <2>5 DEF Halfway
    <3> QED
      BY <3>1, <3>2
  <2>8. \/ j' = j /\ (bytes_sent = 1 => bytes_sent' = 1)
        \/ j' = j + 1 /\ bytes_sent' = 0
    BY <2>4
  <2> QED
    BY <1>2, <2>2, <2>3, <2>6, <2>7, <2>8
<1>8. ~RecvFails /\ ~SendFails /\ ~Killed
  <2>1. ~Killed /\ ~SendFails
    BY <1>0, <1>6 DEF Killed, SendFails, NoReset
  <2>2. ~RecvFails
    BY <1>0, <1>6 DEF RecvFails, NoReset, AtSlot
  <2> QED
    BY <2>1, <2>2
<1> QED
  BY <1>1, <1>3, <1>4, <1>5, <1>7, <1>8 DEF Next, Server

-----------------------------------------------------------------------------

\* The inductive invariant: the streams are in order until a reset.
IInv == Base /\ (NoReset => Streams)

LEMMA Invariance == Spec => []IInv
<1>1. Init => IInv
  BY BaseInit, StreamsInit DEF IInv
<1>2. IInv /\ [Next]_vars => IInv'
  <2> SUFFICES ASSUME IInv, [Next]_vars, NoReset' PROVE Streams'
    BY BaseStep DEF IInv
  <2>1. Base /\ Streams
    BY ResetStays DEF IInv, Base
  <2> QED
    BY <2>1, RecvPartStreams, SendPartStreams, OtherStreams
<1> QED
  BY <1>1, <1>2, PTL DEF Spec

\* However recv() and send() split the packets of however many clients, no
\* client is sent the parts of two, until a connection is reset.
THEOREM PacketsAlwaysWhole == Spec => []PacketsStayWhole
<1>1. IInv => PacketsStayWhole
  <2> SUFFICES ASSUME IInv, NoReset, NEW c \in Clients,
                      NEW k \in 1..(Len(Stream(c)) \div 2)
               PROVE  Whole(Packet(Stream(c), k))
    BY DEF PacketsStayWhole
  <2>1. Len(Stream(c)) \in Nat
    BY StreamType DEF IInv, Base
  <2>2. k \in 1..Len(Stream(c)) /\ 2 * k <= Len(Stream(c))
    BY <2>1
  <2> QED
    BY <2>2 DEF IInv, Streams, SentInPairs, WholePairs
<1> QED
  BY <1>1, Invariance, PTL

\* Until then all clients see the packets in one order, and none twice.
THEOREM AlwaysSameOrder == Spec => []SameOrder
<1>1. IInv => SameOrder
  <2> SUFFICES ASSUME IInv, NoReset, NEW c \in Clients, NEW d \in Clients,
                      NEW k \in DOMAIN Stream(c), NEW l \in DOMAIN Stream(c),
                      NEW m \in DOMAIN Stream(d), NEW n \in DOMAIN Stream(d),
                      Stream(c)[k] = Stream(d)[m], Stream(c)[l] = Stream(d)[n],
                      k < l
               PROVE  m < n
    BY DEF SameOrder
  <2>1. PICK pos \in [AnyPart -> Nat], top \in Nat : InOrder(pos, top)
    BY DEF IInv, Streams, Ordered
  <2>2. /\ DOMAIN Stream(c) = 1..Len(Stream(c)) /\ DOMAIN Stream(d) = 1..Len(Stream(d))
        /\ Len(Stream(c)) \in Nat /\ Len(Stream(d)) \in Nat
        /\ Stream(c)[k] \in AnyPart /\ Stream(c)[l] \in AnyPart
    BY StreamType, LenProperties, ElementOfSeq DEF IInv, Base
  <2>3. pos[Stream(c)[k]] < pos[Stream(c)[l]]
    BY <2>1, <2>2 DEF InOrder
  <2>4. pos[Stream(c)[k]] \in Nat /\ pos[Stream(c)[l]] \in Nat
    BY <2>2
  <2>5. m # n
    BY <2>3, <2>4
  <2>6. ~(n < m)
    <3> SUFFICES ASSUME n < m PROVE FALSE
      OBVIOUS
    <3>1. pos[Stream(d)[n]] < pos[Stream(d)[m]]
      BY <2>1, <2>2 DEF InOrder
    <3> QED
      BY <2>3, <2>4, <3>1
  <2> QED
    BY <2>2, <2>5, <2>6
<1> QED
  BY <1>1, Invariance, PTL

=============================================================================
