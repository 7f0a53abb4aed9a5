------------------------- MODULE StopAndWaitProofs -------------------------
(***************************************************************************)
(* Proofs about StopAndWait, for every file length, range of sequence      *)
(* numbers and behaviour of the timeouts.                                  *)
(***************************************************************************)
EXTENDS StopAndWait, SequenceTheorems, TLAPS

\* What a number on 16 bits keeps of a chunk number.
LEMMA SeqRange ==
  \A n \in Nat : /\ d_seq(n) \in 0..(SEQ_MOD - 1)
                 /\ n < SEQ_MOD => d_seq(n) = n
                 /\ d_seq(n) <= n
  <1> TAKE n \in Nat
  <1>1. SEQ_MOD \in Nat \ {0}
    BY ConstantsAssumption
  <1>2. d_seq(n) \in 0..(SEQ_MOD - 1)
    BY <1>1 DEF d_seq
  <1>3. n < SEQ_MOD => d_seq(n) = n
    BY <1>1 DEF d_seq
  <1>4. d_seq(n) <= n
    BY <1>1, <1>2, <1>3
  <1> QED
    BY <1>2, <1>3, <1>4

\* TypeOK with what keeps seq in its range.
TypeInv ==
  /\ TypeOK
  /\ cPc = "send" => seq <= chunks
  /\ cPc = "wait" => seq \in 1..chunks
  /\ cPc = "done" => seq = chunks + 1

LEMMA TypeInit == Init => TypeInv
  BY ConstantsAssumption DEF Init, TypeInv, TypeOK, Chunk

LEMMA ReceiveType == TypeInv /\ ServerReceive => TypeInv'
  <1> SUFFICES ASSUME TypeInv, ServerReceive
               PROVE  TypeInv'
    OBVIOUS
  <1> USE DEF TypeInv, TypeOK, Chunk, ServerReceive, envVars, clientVars, serverVars
  <1> DEFINE n == Head(toServer)
  <1>1. n \in 0..chunks /\ toServer' \in Seq(0..chunks)
    BY HeadTailProperties
  <1>2. toClient' \in Seq(0..(chunks + 1))
    BY AppendProperties
  <1>3. CASE ~ExpectedSegment(n)
    BY <1>1, <1>2, <1>3
  <1>4. CASE ExpectedSegment(n)
    <2>0. n \in Nat /\ n <= chunks /\ chunks \in Nat
      BY <1>1, ConstantsAssumption
    <2>1. expected_seq <= n
      BY <1>4, <2>0, SeqRange DEF ExpectedSegment
    <2>2. expected_seq' = expected_seq + 1 /\ expected_seq' \in 0..(chunks + 1)
      BY <1>4, <2>0, <2>1
    <2>3. CASE n = chunks
      BY <1>1, <1>2, <1>4, <2>2, <2>3
    <2>4. CASE n # chunks
      <3>1. file' = Append(file, n) /\ sPc' = sPc
        BY <1>4, <2>4
      <3>2. file' \in Seq(0..chunks)
        BY <1>1, <3>1, AppendProperties
      <3> QED
        BY <1>1, <1>2, <2>2, <3>1, <3>2
    <2> QED
      BY <2>3, <2>4
  <1> QED
    BY <1>3, <1>4

LEMMA TypeNext == TypeInv /\ [Next]_vars => TypeInv'
  <1> SUFFICES ASSUME TypeInv, [Next]_vars
               PROVE  TypeInv'
    OBVIOUS
  <1> USE DEF TypeInv, TypeOK, Chunk, envVars, clientVars, serverVars
  <1>1. CASE SendNext
    <2>1. seq \in 0..chunks
      BY <1>1 DEF SendNext
    <2>2. toServer' \in Seq(0..chunks)
      BY <1>1, <2>1, AppendProperties DEF SendNext
    <2> QED
      BY <1>1, <2>1, <2>2 DEF SendNext
  <1>2. CASE RecvAck
    BY <1>2, HeadTailProperties DEF RecvAck
  <1>3. CASE Timeout
    <2>1. seq - 1 \in 0..chunks
      BY <1>3 DEF Timeout
    <2>2. toServer' \in Seq(0..chunks)
      BY <1>3, <2>1, AppendProperties DEF Timeout
    <2> QED
      BY <1>3, <2>2 DEF Timeout
  <1>4. CASE ServerReceive
    BY <1>4, ReceiveType
  <1>5. CASE LoseDatagram
    BY <1>5, HeadTailProperties DEF LoseDatagram
  <1>6. CASE LoseAck
    BY <1>6, HeadTailProperties DEF LoseAck
  <1>7. CASE UNCHANGED vars
    BY <1>7 DEF vars
  <1> QED
    BY <1>1, <1>2, <1>3, <1>4, <1>5, <1>6, <1>7 DEF Next

\* Every variable of the two programs and of the network keeps its type.
THEOREM TypeCorrect == Spec => []TypeOK
  <1>1. Spec => []TypeInv
    BY TypeInit, TypeNext, PTL DEF Spec
  <1> QED
    BY <1>1, PTL DEF TypeInv

-----------------------------------------------------------------------------
(* One datagram at a time, while timeouts are timely.                      *)

\* Where expected_seq stands after chunks 0..(k - 1): at SEQ_MOD it stops for
\* ever, since no number on 16 bits is equal to it.
Reach(k) == IF k < SEQ_MOD THEN k ELSE SEQ_MOD

AloneInv ==
  timely =>
    /\ Len(toServer) + Len(toClient) <= 1
    /\ \A k \in 1..Len(toServer) : toServer[k] = seq - 1
    /\ cPc = "send" => toServer = <<>> /\ toClient = <<>>
    /\ cPc # "send" => seq >= 1 /\ expected_seq \in {Reach(seq - 1), Reach(seq)}
    /\ cPc = "send" \/ toClient # <<>> => expected_seq = Reach(seq)

LEMMA AloneInit == Init => AloneInv
  BY ConstantsAssumption DEF Init, AloneInv, Reach

\* What is under way, in numbers.
LEMMA Lengths ==
  ASSUME TypeInv
  PROVE  /\ Len(toServer) \in Nat /\ Len(toClient) \in Nat
         /\ toServer = <<>> <=> Len(toServer) = 0
         /\ toClient = <<>> <=> Len(toClient) = 0
  BY EmptySeq, LenProperties DEF TypeInv, TypeOK

\* While timeouts are timely the server accepts a datagram only if it is the
\* chunk it needs, and is up to date after every datagram.
LEMMA AloneReceive ==
  ASSUME TypeInv, AloneInv, timely, ServerReceive
  PROVE  /\ ExpectedSegment(Head(toServer)) => Head(toServer) = expected_seq
         /\ expected_seq' = Reach(seq)
         /\ seq >= 1 /\ cPc # "send"
  <1> DEFINE n == Head(toServer)
  <1>1. /\ n = seq - 1 /\ seq \in Nat /\ n \in Nat /\ seq >= 1
        /\ expected_seq \in {Reach(n), Reach(n + 1)}
        /\ cPc # "send"
    <2>1. toServer # <<>> /\ toServer \in Seq(0..chunks) /\ seq \in Nat
      BY DEF TypeInv, TypeOK, Chunk, ServerReceive
    <2>2. n = toServer[1] /\ 1 \in 1..Len(toServer) /\ n \in 0..chunks
      <3>1. Len(toServer) \in Nat /\ Len(toServer) # 0
        BY <2>1, EmptySeq, LenProperties
      <3>2. 1 \in 1..Len(toServer)
        BY <3>1
      <3>3. toServer[1] \in 0..chunks
        BY <2>1, <3>2, ElementOfSeq
      <3>4. n = toServer[1]
        BY <2>1
      <3> QED
        BY <3>2, <3>3, <3>4
    <2>3. n = seq - 1 /\ cPc # "send"
      BY <2>1, <2>2 DEF AloneInv
    <2>4. seq >= 1 /\ expected_seq \in {Reach(seq - 1), Reach(seq)}
      BY <2>3 DEF AloneInv
    <2>5. n \in Nat
      BY <2>2 DEF TypeInv, TypeOK
    <2>6. n + 1 = seq
      BY <2>1, <2>3, <2>5
    <2> QED
      BY <2>1, <2>3, <2>4, <2>5, <2>6
  <1>2. /\ SEQ_MOD \in Nat \ {0}
        /\ d_seq(n) < SEQ_MOD
        /\ n < SEQ_MOD => d_seq(n) = n
    BY <1>1, ConstantsAssumption, SeqRange
  <1>3. CASE ExpectedSegment(n)
    <2>1. expected_seq = d_seq(n)
      BY <1>3 DEF ExpectedSegment
    <2>2. n < SEQ_MOD
      BY <1>1, <1>2, <2>1 DEF Reach
    <2>3. expected_seq = n /\ Reach(n + 1) = n + 1
      BY <1>1, <1>2, <2>1, <2>2 DEF Reach
    <2>4. expected_seq' = expected_seq + 1
      BY <1>3 DEF ServerReceive
    <2>5. n + 1 = seq
      BY <1>1
    <2> QED
      BY <1>1, <2>3, <2>4, <2>5
  <1>4. CASE ~ExpectedSegment(n)
    <2>1. expected_seq # d_seq(n)
      BY <1>4 DEF ExpectedSegment
    <2>2. expected_seq = Reach(n + 1)
      BY <1>1, <1>2, <2>1 DEF Reach
    <2>3. expected_seq' = expected_seq
      BY <1>4 DEF ServerReceive, serverVars
    <2>4. n + 1 = seq
      BY <1>1
    <2> QED
      BY <1>1, <1>4, <2>2, <2>3, <2>4
  <1> QED
    BY <1>3, <1>4

LEMMA AloneNext == TypeInv /\ AloneInv /\ [Next]_vars => AloneInv'
  <1> SUFFICES ASSUME TypeInv, AloneInv, [Next]_vars, timely'
               PROVE  AloneInv'
    BY DEF AloneInv
  <1>0. timely' = timely
    BY DEF Next, vars, envVars, SendNext, RecvAck, Timeout, ServerReceive,
           LoseDatagram, LoseAck
  <1>1. timely /\ TypeInv'
    BY <1>0, TypeNext
  <1>2. /\ Len(toServer) + Len(toClient) <= 1
        /\ \A k \in 1..Len(toServer) : toServer[k] = seq - 1
        /\ cPc = "send" => toServer = <<>> /\ toClient = <<>>
        /\ cPc # "send" => seq >= 1 /\ expected_seq \in {Reach(seq - 1), Reach(seq)}
        /\ cPc = "send" \/ toClient # <<>> => expected_seq = Reach(seq)
    BY <1>1 DEF AloneInv
  <1>3. /\ Len(toServer) \in Nat /\ Len(toClient) \in Nat
        /\ toServer = <<>> <=> Len(toServer) = 0
        /\ toClient = <<>> <=> Len(toClient) = 0
        /\ toServer \in Seq(0..chunks) /\ toClient \in Seq(0..(chunks + 1))
        /\ seq \in Nat
    BY Lengths DEF TypeInv, TypeOK, Chunk
  <1>4. CASE SendNext
    <2>1. /\ toServer = <<>> /\ toClient = <<>> /\ expected_seq = Reach(seq)
          /\ seq' = seq + 1 /\ seq' - 1 = seq
          /\ UNCHANGED <<toClient, expected_seq>>
          /\ cPc' # "send" /\ toServer' = <<seq>>
      BY <1>2, <1>3, <1>4 DEF SendNext, serverVars
    <2>2. Len(toServer') = 1 /\ toServer'[1] = seq
      BY <2>1
    <2> QED
      BY <1>3, <2>1, <2>2 DEF AloneInv
  <1>5. CASE RecvAck
    <2>1. /\ cPc = "wait" /\ toClient # <<>> /\ toClient' = Tail(toClient)
          /\ cPc' = "send" /\ UNCHANGED <<seq, toServer, expected_seq>>
      BY <1>5 DEF RecvAck, serverVars
    <2>2. Len(toClient') = Len(toClient) - 1
      BY <1>3, <2>1, HeadTailProperties
    <2>3. Len(toClient') = 0 /\ Len(toServer) = 0
      BY <1>2, <1>3, <2>1, <2>2
    <2>4. toClient' = <<>> /\ toServer' = <<>>
      BY <1>1, <1>3, <2>1, <2>3, EmptySeq DEF TypeInv, TypeOK
    <2> QED
      BY <1>2, <2>1, <2>3, <2>4 DEF AloneInv
  <1>6. CASE Timeout
    <2>1. /\ toServer = <<>> /\ toClient = <<>> /\ cPc = "wait"
          /\ toServer' = <<seq - 1>>
          /\ UNCHANGED <<cPc, seq, toClient, expected_seq>>
      BY <1>1, <1>6 DEF Timeout, clientVars, serverVars
    <2>2. Len(toServer') = 1 /\ toServer'[1] = seq - 1
      BY <2>1
    <2> QED
      BY <1>2, <1>3, <2>1, <2>2 DEF AloneInv
  <1>7. CASE ServerReceive
    <2>1. /\ expected_seq' = Reach(seq) /\ seq >= 1 /\ cPc # "send"
      BY <1>1, <1>7, AloneReceive
    <2>2. /\ toServer # <<>> /\ toServer' = Tail(toServer)
          /\ toClient' = Append(toClient, expected_seq)
          /\ UNCHANGED <<cPc, seq>>
      BY <1>7 DEF ServerReceive, clientVars
    <2>3. Len(toServer') = Len(toServer) - 1 /\ Len(toClient') = Len(toClient) + 1
      BY <1>3, <2>2, HeadTailProperties, AppendProperties DEF TypeInv, TypeOK
    <2>4. Len(toServer') = 0 /\ Len(toClient') = 1
      BY <1>2, <1>3, <2>2, <2>3
    <2>5. \A k \in 1..Len(toServer') : toServer'[k] = seq' - 1
      BY <2>4
    <2>6. Len(toServer') + Len(toClient') <= 1
      BY <2>4
    <2> QED
      BY <2>1, <2>2, <2>5, <2>6 DEF AloneInv
  <1>8. CASE LoseDatagram
    <2>1. /\ toServer # <<>> /\ toServer' = Tail(toServer)
          /\ UNCHANGED <<cPc, seq, toClient, expected_seq>>
      BY <1>8 DEF LoseDatagram, clientVars, serverVars
    <2>2. Len(toServer') = Len(toServer) - 1
      BY <1>3, <2>1, HeadTailProperties
    <2>3. Len(toServer') = 0
      BY <1>2, <1>3, <2>1, <2>2
    <2> QED
      BY <1>2, <1>3, <2>1, <2>3 DEF AloneInv
  <1>9. CASE LoseAck
    <2>1. /\ toClient # <<>> /\ toClient' = Tail(toClient)
          /\ UNCHANGED <<cPc, seq, toServer, expected_seq>>
      BY <1>9 DEF LoseAck, clientVars, serverVars
    <2>2. Len(toClient') = Len(toClient) - 1
      BY <1>3, <2>1, HeadTailProperties
    <2>3. Len(toClient') = 0
      BY <1>2, <1>3, <2>1, <2>2
    <2> QED
      BY <1>2, <1>3, <2>1, <2>3 DEF AloneInv
  <1>10. CASE UNCHANGED vars
    BY <1>2, <1>10 DEF AloneInv, vars, clientVars, serverVars
  <1> QED
    BY <1>4, <1>5, <1>6, <1>7, <1>8, <1>9, <1>10 DEF Next

\* While timeouts are timely and numbers do not wrap, the client never goes
\* past a chunk that the server does not have.
THEOREM ClientNeverAhead == Spec => []NeverAhead
  <1>1. Spec => [](TypeInv /\ AloneInv)
    BY TypeInit, TypeNext, AloneInit, AloneNext, PTL DEF Spec
  <1>2. ASSUME TypeInv, AloneInv
        PROVE  NeverAhead
    <2>1. SUFFICES ASSUME timely, Receivable, cPc = "send"
                   PROVE  expected_seq >= seq
      BY DEF NeverAhead
    <2>2. expected_seq = Reach(seq)
      BY <1>2, <2>1 DEF AloneInv
    <2>3. seq \in Nat /\ chunks \in Nat /\ SEQ_MOD \in Nat /\ seq <= chunks /\ chunks < SEQ_MOD
      BY <1>2, <2>1, ConstantsAssumption DEF TypeInv, TypeOK, Receivable
    <2> QED
      BY <2>2, <2>3 DEF Reach
  <1> QED
    BY <1>1, <1>2, PTL

-----------------------------------------------------------------------------
(* The file.                                                               *)

FileInv ==
  timely \/ Receivable =>
    /\ \A k \in 1..Len(file) : file[k] = k - 1
    /\ sPc = "receive" => Len(file) = expected_seq /\ expected_seq <= chunks
    /\ sPc = "closed" => Len(file) = chunks /\ chunks < SEQ_MOD

LEMMA FileInit == Init => FileInv
  BY ConstantsAssumption DEF Init, FileInv

LEMMA FileReceive ==
  ASSUME TypeInv, AloneInv, FileInv, timely \/ Receivable, ServerReceive
  PROVE  FileInv'
  <1> DEFINE n == Head(toServer)
  <1>1. /\ n \in 0..chunks /\ chunks \in Nat /\ file \in Seq(0..chunks)
        /\ expected_seq \in Nat
        /\ sPc = "receive"
    BY HeadTailProperties DEF TypeInv, TypeOK, Chunk, ServerReceive
  <1>2. ExpectedSegment(n) => n = expected_seq
    <2>1. CASE timely
      BY <2>1, AloneReceive
    <2>2. CASE Receivable
      <3>1. n \in Nat /\ n < SEQ_MOD
        BY <1>1, <2>2, ConstantsAssumption DEF Receivable
      <3> QED
        BY <3>1, SeqRange DEF ExpectedSegment
    <2> QED
      BY <2>1, <2>2
  <1>3. /\ \A k \in 1..Len(file) : file[k] = k - 1
        /\ Len(file) = expected_seq /\ expected_seq <= chunks
    BY <1>1 DEF FileInv
  <1>4. CASE ~ExpectedSegment(n)
    <2>1. UNCHANGED <<sPc, expected_seq, file, chunks>>
      BY <1>4 DEF ServerReceive, serverVars, envVars
    <2> QED
      BY <1>1, <1>3, <2>1 DEF FileInv
  <1>5. CASE ExpectedSegment(n) /\ n = chunks
    <2>1. sPc' = "closed" /\ UNCHANGED <<file, chunks>>
      BY <1>5 DEF ServerReceive, envVars
    <2>2. chunks < SEQ_MOD
      <3>1. d_seq(n) \in 0..(SEQ_MOD - 1)
        <4>1. chunks \in Nat /\ n \in Nat
          BY <1>1
        <4> HIDE DEF n
        <4> QED
          BY <4>1, SeqRange
      <3>2. SEQ_MOD \in Nat
        BY ConstantsAssumption
      <3> QED
        BY <1>1, <1>2, <1>5, <3>1, <3>2 DEF ExpectedSegment
    <2> QED
      BY <1>2, <1>3, <1>5, <2>1, <2>2 DEF FileInv
  <1>6. CASE ExpectedSegment(n) /\ n # chunks
    <2>1. /\ expected_seq' = expected_seq + 1 /\ file' = Append(file, n)
          /\ UNCHANGED <<sPc, chunks>>
      BY <1>6 DEF ServerReceive, envVars
    <2>2. /\ Len(file') = Len(file) + 1
          /\ \A k \in 1..Len(file) : file'[k] = file[k]
          /\ file'[Len(file) + 1] = n
      BY <1>1, <2>1, AppendProperties
    <2>3. \A k \in 1..Len(file') : file'[k] = k - 1
      BY <1>1, <1>2, <1>3, <1>6, <2>2
    <2> QED
      BY <1>1, <1>2, <1>3, <1>6, <2>1, <2>2, <2>3 DEF FileInv
  <1> QED
    BY <1>4, <1>5, <1>6

LEMMA FileNext == TypeInv /\ AloneInv /\ FileInv /\ [Next]_vars => FileInv'
  <1> SUFFICES ASSUME TypeInv, AloneInv, FileInv, [Next]_vars, timely' \/ Receivable'
               PROVE  FileInv'
    BY DEF FileInv
  <1>1. timely' = timely /\ chunks' = chunks
    BY DEF Next, vars, envVars, SendNext, RecvAck, Timeout, ServerReceive,
           LoseDatagram, LoseAck
  <1>2. timely \/ Receivable
    BY <1>1 DEF Receivable
  <1>3. CASE ServerReceive
    BY <1>2, <1>3, FileReceive
  <1>4. CASE UNCHANGED serverVars
    BY <1>1, <1>2, <1>4 DEF FileInv, serverVars
  <1> QED
    BY <1>3, <1>4
    DEF Next, vars, SendNext, RecvAck, Timeout, LoseDatagram, LoseAck

LEMMA FileInvariant == Spec => [](TypeInv /\ FileInv)
  BY TypeInit, TypeNext, AloneInit, AloneNext, FileInit, FileNext, PTL DEF Spec

\* The file written is a beginning of the file sent, whatever is lost or sent
\* again, if the timeouts are timely or the file fits its numbers.
THEOREM FileStaysPrefix == Spec => []FileIsPrefix
  <1>1. ASSUME TypeInv, FileInv
        PROVE  FileIsPrefix
    <2>1. DOMAIN file = 1..Len(file)
      BY <1>1, LenProperties DEF TypeInv, TypeOK
    <2> QED
      BY <1>1, <2>1 DEF FileInv, FileIsPrefix
  <1> QED
    BY <1>1, FileInvariant, PTL

\* Under the same conditions a file that the server has closed is whole.
THEOREM ClosedFileIsWhole == Spec => []ClosedIsWhole
  <1>1. FileInv => ClosedIsWhole
    BY DEF FileInv, ClosedIsWhole
  <1> QED
    BY <1>1, FileInvariant, PTL

\* With timely timeouts the client's end is news: all of the file is written,
\* or, of one too long for d.seq, the chunks that could be numbered
\* (client.c:42-78, server.c:42-77 of lab 6).
THEOREM DoneFileIsReceived == Spec => []DoneIsReceived
  <1>1. Spec => [](TypeInv /\ AloneInv /\ FileInv)
    BY TypeInit, TypeNext, AloneInit, AloneNext, FileInit, FileNext, PTL DEF Spec
  <1>2. ASSUME TypeInv, AloneInv, FileInv
        PROVE  DoneIsReceived
    <2>1. SUFFICES ASSUME timely, cPc = "done"
                   PROVE  Len(file) = IF chunks < SEQ_MOD THEN chunks ELSE SEQ_MOD
      BY DEF DoneIsReceived
    <2>2. chunks \in Nat /\ SEQ_MOD \in Nat \ {0} /\ seq = chunks + 1 /\ seq - 1 = chunks
      BY <1>2, <2>1, ConstantsAssumption DEF TypeInv, TypeOK
    <2>3. expected_seq \in {Reach(chunks), Reach(chunks + 1)}
      BY <1>2, <2>1, <2>2 DEF AloneInv
    <2>4. CASE sPc = "closed"
      BY <1>2, <2>1, <2>4 DEF FileInv
    <2>5. CASE sPc = "receive"
      <3>1. Len(file) = expected_seq /\ expected_seq <= chunks
        BY <1>2, <2>1, <2>5 DEF FileInv
      <3> QED
        BY <2>2, <2>3, <3>1 DEF Reach
    <2> QED
      BY <1>2, <2>4, <2>5 DEF TypeInv, TypeOK
  <1> QED
    BY <1>1, <1>2, PTL

=============================================================================
