--------------------------- MODULE TransferProofs ---------------------------
(***************************************************************************)
(* Proofs about the transfers of the labs: of WindowTransfer, for every    *)
(* file length, window size and choice of modes and losses; and of         *)
(* NackTransfer, for every message, width and polynomial of the CRC whose  *)
(* highest bit is set.                                                     *)
(***************************************************************************)
EXTENDS WindowTransfer, NackTransfer, SequenceTheorems, WellFoundedInduction, TLAPS


\* TypeOK with what keeps sent in its range: the loops of stop-and-wait stop
\* before the empty chunk is counted as sent.
TypeInv ==
  /\ WindowTypeOK
  /\ cPc \in {"send", "wait"} => sent <= chunks

LEMMA TypeInit == WindowInit => TypeInv
  BY ConstantsAssumption DEF WindowInit, TypeInv, WindowTypeOK

LEMMA TypeNext == TypeInv /\ [WindowNext]_windowVars => TypeInv'
  <1> SUFFICES ASSUME TypeInv, [WindowNext]_windowVars
               PROVE  TypeInv'
    OBVIOUS
  <1> USE ConstantsAssumption DEF TypeInv, WindowTypeOK, envVars, clientVars, serverVars
  <1>1. CASE FirstWindow
    BY <1>1 DEF FirstWindow, SendHead, queue_empty
  <1>2. CASE StartSliding
    BY <1>2 DEF StartSliding
  <1>3. CASE Slide
    BY <1>3 DEF Slide, SendHead, queue_empty
  <1>4. CASE WindowDone
    BY <1>4 DEF WindowDone
  <1>5. CASE SendChunk
    <2>1. CASE sent = chunks
      BY <1>5, <2>1 DEF SendChunk
    <2>2. CASE sent # chunks
      <3>1. sent \in 0..chunks /\ sent + 1 \in 0..(chunks + 1)
        BY <1>5, <2>2 DEF SendChunk
      <3>2. toServer' \in Seq(0..chunks)
        <4>1. toServer' = Append(toServer, sent)
          BY <1>5, <2>2 DEF SendChunk, SendHead
        <4> QED
          BY <3>1, <4>1
      <3> QED
        BY <1>5, <2>2, <3>1, <3>2 DEF SendChunk, SendHead
    <2> QED
      BY <2>1, <2>2
  <1>6. CASE WaitAck
    BY <1>6 DEF WaitAck
  <1>7. CASE ServerReceive
    <2>1. CASE EndOfFile(Head(toServer))
      BY <1>7, <2>1 DEF ServerReceive
    <2>2. CASE ~EndOfFile(Head(toServer))
      <3>1. file' \in Seq(0..chunks)
        <4>1. toServer # <<>> /\ file' = Append(file, Head(toServer))
          BY <1>7, <2>2 DEF ServerReceive, Written
        <4>2. Head(toServer) \in 0..chunks
          BY <4>1, HeadTailProperties
        <4> QED
          BY <4>1, <4>2
      <3>2. toServer' \in Seq(0..chunks)
        BY <1>7 DEF ServerReceive
      <3> QED
        BY <1>7, <2>2, <3>1, <3>2 DEF ServerReceive
    <2> QED
      BY <2>1, <2>2
  <1>8. CASE LoseDatagram
    BY <1>8 DEF LoseDatagram
  <1>9. CASE LoseAck
    BY <1>9 DEF LoseAck
  <1>10. CASE UNCHANGED windowVars
    BY <1>10 DEF windowVars
  <1> QED
    BY <1>1, <1>2, <1>3, <1>4, <1>5, <1>6, <1>7, <1>8, <1>9, <1>10
    DEF WindowNext, Client

\* Every variable of the two programs and of the network keeps its type.
THEOREM TypeCorrect == WindowSpec => []WindowTypeOK
  <1>1. WindowSpec => []TypeInv
    BY TypeInit, TypeNext, PTL DEF WindowSpec
  <1> QED
    BY <1>1, PTL DEF TypeInv

-----------------------------------------------------------------------------
(* The window bound.                                                       *)

\* While the first window is being sent, what is under way is at most what
\* has been sent; from then on every datagram sent takes an acknowledgement
\* away.  In stop-and-wait nothing is under way when the client may send.
BoundInv ==
  /\ cPc = "burst" => sent <= window_size /\ Len(toServer) + acks <= sent
  /\ cPc = "send" => Len(toServer) + acks = 0
  /\ cPc = "wait" => Len(toServer) + acks <= 1
  /\ Len(toServer) + acks <= window_size

LEMMA BoundInit == WindowInit => BoundInv
  BY ConstantsAssumption DEF WindowInit, BoundInv

LEMMA BoundNext == TypeInv /\ BoundInv /\ [WindowNext]_windowVars => BoundInv'
  <1> SUFFICES ASSUME TypeInv, BoundInv, [WindowNext]_windowVars
               PROVE  BoundInv'
    OBVIOUS
  <1> USE ConstantsAssumption
      DEF TypeInv, WindowTypeOK, BoundInv, envVars, clientVars, serverVars
  <1>1. CASE FirstWindow
    BY <1>1 DEF FirstWindow, SendHead, BurstOver
  <1>2. CASE StartSliding
    BY <1>2 DEF StartSliding
  <1>3. CASE Slide
    BY <1>3 DEF Slide, SendHead
  <1>4. CASE WindowDone
    BY <1>4 DEF WindowDone
  <1>5. CASE SendChunk
    <2>1. CASE sent = chunks
      BY <1>5, <2>1 DEF SendChunk
    <2>2. CASE sent # chunks
      BY <1>5, <2>2 DEF SendChunk, SendHead
    <2> QED
      BY <2>1, <2>2
  <1>6. CASE WaitAck
    BY <1>6 DEF WaitAck
  <1>7. CASE ServerReceive
    BY <1>7 DEF ServerReceive
  <1>8. CASE LoseDatagram
    BY <1>8 DEF LoseDatagram
  <1>9. CASE LoseAck
    BY <1>9 DEF LoseAck
  <1>10. CASE UNCHANGED windowVars
    BY <1>10 DEF windowVars
  <1> QED
    BY <1>1, <1>2, <1>3, <1>4, <1>5, <1>6, <1>7, <1>8, <1>9, <1>10
    DEF WindowNext, Client

\* Never more than a window of datagrams and acknowledgements is under way.
THEOREM WindowBounded == WindowSpec => []WindowBound
  <1>1. WindowSpec => [](TypeInv /\ BoundInv)
    BY TypeInit, TypeNext, BoundInit, BoundNext, PTL DEF WindowSpec
  <1>2. BoundInv => WindowBound
    BY DEF BoundInv, WindowBound
  <1> QED
    BY <1>1, <1>2, PTL

-----------------------------------------------------------------------------
(* The file.                                                               *)

\* Without loss what has been written and what is under way are the chunks
\* sent, in their order, and once the empty datagram has closed the server
\* nothing is left to come.
FileInv ==
  ~lossy =>
    /\ \A i \in 1..Len(file) : file[i] = i - 1
    /\ sPc = "receive" =>
         /\ Len(file) + Len(toServer) = sent
         /\ \A i \in 1..Len(toServer) : toServer[i] = Len(file) + i - 1
    /\ sPc = "closed" =>
         toServer = <<>> /\ Len(file) = chunks /\ sent = chunks + 1

LEMMA FileInit == WindowInit => FileInv
  BY DEF WindowInit, FileInv

LEMMA SendKeepsFile ==
  ASSUME TypeInv, FileInv, SendHead, sent <= chunks,
         UNCHANGED <<chunks, lossy, serverVars>>
  PROVE  FileInv'
  <1> USE DEF TypeInv, WindowTypeOK, SendHead, serverVars
  <1>1. /\ Len(toServer') = Len(toServer) + 1
        /\ \A i \in 1..Len(toServer) : toServer'[i] = toServer[i]
        /\ toServer'[Len(toServer) + 1] = sent
    BY AppendProperties
  <1>3. ASSUME ~lossy'
        PROVE  /\ sPc' = "receive"
               /\ \A i \in 1..Len(file') : file'[i] = i - 1
               /\ Len(file') + Len(toServer') = sent'
    BY <1>1, <1>3 DEF FileInv
  <1>4. ASSUME ~lossy', NEW i \in 1..Len(toServer')
        PROVE  toServer'[i] = Len(file') + i - 1
    <2>1. sPc = "receive" /\ ~lossy /\ file' = file
      BY <1>3, <1>4
    <2>2. CASE i \in 1..Len(toServer)
      BY <1>1, <1>4, <2>1, <2>2 DEF FileInv
    <2>3. CASE i = Len(toServer) + 1
      <3>1. Len(file) + Len(toServer) = sent
        BY <2>1 DEF FileInv
      <3> QED
        BY <1>1, <2>1, <2>3, <3>1
    <2> QED
      BY <1>1, <2>2, <2>3
  <1> QED
    BY <1>3, <1>4 DEF FileInv

LEMMA ReceiveKeepsFile ==
  ASSUME TypeInv, FileInv, ServerReceive
  PROVE  FileInv'
  <1> USE DEF TypeInv, WindowTypeOK, ServerReceive, envVars, clientVars
  <1> DEFINE n == Head(toServer)
  <1>1. /\ n \in 0..chunks
        /\ n = toServer[1]
        /\ Len(toServer) > 0
        /\ Len(toServer') = Len(toServer) - 1
        /\ \A i \in 1..Len(toServer') : toServer'[i] = toServer[i + 1]
    BY HeadTailProperties
  <1>2. CASE EndOfFile(n)
    <2>1. UNCHANGED <<file, lossy, chunks, sent>> /\ sPc' = "closed" /\ n = chunks
      BY <1>2 DEF EndOfFile
    <2>3. ASSUME ~lossy  PROVE toServer' = <<>> /\ Len(file) = chunks /\ sent = chunks + 1
      <3>1. /\ Len(file) + Len(toServer) = sent
            /\ n = Len(file)
        BY <1>1, <2>3 DEF FileInv
      <3>2. Len(toServer) = 1 /\ Len(toServer') = 0
        BY <1>1, <2>1, <3>1
      <3>3. toServer' \in Seq(0..chunks)
        BY <1>1, HeadTailProperties
      <3>4. toServer' = <<>>
        BY <3>2, <3>3, EmptySeq
      <3> QED
        BY <1>1, <2>1, <3>1, <3>2, <3>4
    <2> QED
      BY <2>1, <2>3 DEF FileInv
  <1>3. CASE ~EndOfFile(n)
    <2>1. UNCHANGED <<sPc, lossy, chunks, sent>> /\ file' = Append(file, n)
      BY <1>3 DEF Written
    <2>2. /\ Len(file') = Len(file) + 1
          /\ \A i \in 1..Len(file) : file'[i] = file[i]
          /\ file'[Len(file) + 1] = n
      BY <1>1, <2>1, AppendProperties
    <2> HIDE DEF TypeInv, WindowTypeOK, ServerReceive
    <2>3. /\ Len(file) \in Nat /\ Len(toServer) \in Nat
          /\ \A i \in 1..Len(file) : file[i] \in Nat
          /\ \A i \in 1..Len(toServer) : toServer[i] \in Nat
          /\ sPc = "receive"
      BY DEF TypeInv, WindowTypeOK, ServerReceive
    <2>9. ASSUME ~lossy
          PROVE  /\ n = Len(file)
                 /\ \A i \in 1..Len(file) : file[i] = i - 1
                 /\ Len(file) + Len(toServer) = sent
                 /\ \A i \in 1..Len(toServer) : toServer[i] = Len(file) + i - 1
      BY <1>1, <2>3, <2>9 DEF FileInv
    <2>10. ASSUME ~lossy
           PROVE  /\ \A i \in 1..Len(file') : file'[i] = i - 1
                  /\ Len(file') + Len(toServer') = sent'
                  /\ \A i \in 1..Len(toServer') : toServer'[i] = Len(file') + i - 1
      BY <1>1, <2>1, <2>2, <2>3, <2>9, <2>10
    <2> QED
      BY <2>1, <2>3, <2>10 DEF FileInv
  <1> QED
    BY <1>2, <1>3

LEMMA FileNext == TypeInv /\ FileInv /\ [WindowNext]_windowVars => FileInv'
  <1> SUFFICES ASSUME TypeInv, FileInv, [WindowNext]_windowVars
               PROVE  FileInv'
    OBVIOUS
  <1> USE DEF envVars, clientVars, serverVars
  <1>1. CASE FirstWindow
    BY <1>1, SendKeepsFile DEF FirstWindow, queue_empty, TypeInv, WindowTypeOK
  <1>2. CASE StartSliding
    BY <1>2 DEF StartSliding, FileInv
  <1>3. CASE Slide
    BY <1>3, SendKeepsFile DEF Slide, queue_empty, TypeInv, WindowTypeOK
  <1>4. CASE WindowDone
    BY <1>4 DEF WindowDone, FileInv
  <1>5. CASE SendChunk
    <2>1. CASE sent = chunks
      BY <1>5, <2>1 DEF SendChunk, FileInv
    <2>2. CASE sent # chunks
      BY <1>5, <2>2, SendKeepsFile DEF SendChunk, TypeInv, WindowTypeOK
    <2> QED
      BY <2>1, <2>2
  <1>6. CASE WaitAck
    BY <1>6 DEF WaitAck, FileInv
  <1>7. CASE ServerReceive
    BY <1>7, ReceiveKeepsFile
  <1>8. CASE LoseDatagram
    BY <1>8 DEF LoseDatagram, FileInv
  <1>9. CASE LoseAck
    BY <1>9 DEF LoseAck, FileInv
  <1>10. CASE UNCHANGED windowVars
    BY <1>10 DEF windowVars, FileInv
  <1> QED
    BY <1>1, <1>2, <1>3, <1>4, <1>5, <1>6, <1>7, <1>8, <1>9, <1>10
    DEF WindowNext, Client

LEMMA FileInvariant == WindowSpec => [](TypeInv /\ FileInv)
  BY TypeInit, TypeNext, FileInit, FileNext, PTL DEF WindowSpec

\* Without loss the server closes the file only when it has written every
\* chunk of it in its place (server.c:35-54 of lab 5).
THEOREM ClosedFileIsWhole == WindowSpec => []ClosedIsWhole
  <1>1. ASSUME TypeInv, FileInv, ~lossy, sPc = "closed"
        PROVE  file = [i \in 1..chunks |-> i - 1]
    <2>1. file \in Seq(0..chunks) /\ Len(file) = chunks
      BY <1>1 DEF TypeInv, WindowTypeOK, FileInv
    <2>2. \A i \in 1..chunks : file[i] = i - 1
      BY <1>1, <2>1 DEF FileInv
    <2> QED
      BY <2>1, <2>2
  <1>2. TypeInv /\ FileInv => ClosedIsWhole
    BY <1>1 DEF ClosedIsWhole
  <1> QED
    BY <1>2, FileInvariant, PTL

-----------------------------------------------------------------------------
(* Recursion over numbers.                                                 *)

\* Induction from i to n, for a set of numbers.
LEMMA Induction ==
  ASSUME NEW S, NEW i \in Nat, NEW n \in Nat, i <= n, i \in S,
         \A k \in (i + 1)..n : k - 1 \in S => k \in S
  PROVE  n \in S
<1> SUFFICES ASSUME n \notin S  PROVE FALSE
  OBVIOUS
<1> DEFINE Out == {k \in i..n : k \notin S}
<1>1. n \in Out /\ Out \subseteq Nat
  OBVIOUS
<1>2. PICK R : IsWellFoundedOn(R, Nat) /\ R = {ss \in Nat \X Nat : ss[1] < ss[2]}
  BY NatLessThanWellFounded, Zenon DEF OpToRel
<1>3. PICK k \in Out : \A j \in Out : ~(<<j, k>> \in R)
  BY <1>1, <1>2, WFMin
<1>4. k \in (i + 1)..n /\ k \notin S
  BY <1>3
<1>5. k - 1 \in i..n /\ k - 1 \in Nat /\ k \in Nat
  BY <1>4
<1>6. k - 1 \in Out
  BY <1>4, <1>5
<1>7. ~(<<k - 1, k>> \in R)
  BY <1>3, <1>6
<1> QED
  BY <1>2, <1>5, <1>7

\* A recursion over 0..N has a solution, so that the function it defines is
\* one: each step n is a function F[n] of W into itself.
LEMMA Recursion ==
  \A W, b, F : \A N \in Nat :
    b \in W /\ F \in [1..N -> [W -> W]] =>
      \E r \in [0..N -> W] : r[0] = b /\ \A k \in 1..N : r[k] = F[k][r[k - 1]]
<1> TAKE W, b, F
<1> TAKE N \in Nat
<1> HAVE b \in W /\ F \in [1..N -> [W -> W]]
<1> DEFINE Follows(r, n) == r[0] = b /\ \A k \in 1..n : r[k] = F[k][r[k - 1]]
           Done == {n \in 0..N : \E r \in [0..n -> W] : Follows(r, n)}
<1>1. 0 \in Done
  <2> DEFINE first == [k \in 0..0 |-> b]
  <2>1. first \in [0..0 -> W] /\ first[0] = b /\ 1..0 = {} /\ 0 \in 0..N
    OBVIOUS
  <2> HIDE DEF first
  <2> QED
    BY <2>1
<1>2. ASSUME NEW n \in 1..N, n - 1 \in Done  PROVE n \in Done
  <2>1. PICK r \in [0..(n - 1) -> W] : Follows(r, n - 1)
    BY <1>2
  <2> DEFINE q == [k \in 0..n |-> IF k = n THEN F[n][r[n - 1]] ELSE r[k]]
  <2>2. n - 1 \in 0..(n - 1) /\ n \in 0..N /\ n \in Nat
    OBVIOUS
  <2>3. F[n] \in [W -> W] /\ r[n - 1] \in W
    BY <2>2
  <2>4. F[n][r[n - 1]] \in W
    BY <2>3
  <2>5. \A k \in 0..n : k = n \/ k \in 0..(n - 1)
    OBVIOUS
  <2>6. q \in [0..n -> W]
    BY <2>4, <2>5
  <2>7. q[0] = b
    BY <2>1, <2>2
  <2>8. ASSUME NEW k \in 1..n  PROVE q[k] = F[k][q[k - 1]]
    <3>1. k \in 0..n /\ k - 1 \in 0..n /\ k - 1 # n
      OBVIOUS
    <3>2. q[k - 1] = r[k - 1]
      BY <3>1
    <3>3. CASE k = n
      BY <3>1, <3>2, <3>3
    <3>4. CASE k # n
      <4>1. k \in 1..(n - 1)
        BY <3>4
      <4>2. q[k] = r[k]
        BY <3>1, <3>4
      <4> QED
        BY <2>1, <3>2, <4>1, <4>2
    <3> QED
      BY <3>3, <3>4
  <2> QED
    BY <2>2, <2>6, <2>7, <2>8
<1>3. N \in Done
  <2> HIDE DEF Done
  <2> QED
    BY <1>1, <1>2, Induction
<1> QED
  BY <1>3

-----------------------------------------------------------------------------
(* The CRC of lab 3.                                                       *)

Word == SUBSET Ones

LEMMA Sums ==
  /\ \A a, b \in Word : a ^^ b \in Word
  /\ \A a, b, c : b # c => a ^^ b # a ^^ c /\ b ^^ a # c ^^ a
  /\ \A a, k : a ^^ {k} # a
  BY DEF Word, SymDiff, ^^

\* The highest bit of POLY is set: what was shifted out can be told.
LEMMA ShiftedDiffers ==
  ASSUME NEW a \in Word, NEW b \in Word, a # b
  PROVE  Shifted(a) \in Word /\ Shifted(a) # Shifted(b)
<1>1. WIDTH \in Nat \ {0} /\ POLY \in Word /\ WIDTH - 1 \in POLY
  BY NackAssumption DEF NackAssumption, Word
<1>2. \A c \in Word : /\ Halved(c) \in Word /\ WIDTH - 1 \notin Halved(c)
                      /\ \A k \in Ones : k # 0 => (k \in c <=> k - 1 \in Halved(c))
  BY <1>1 DEF Halved, Word, Ones
<1>3. \A c \in Word : (WIDTH - 1 \in Shifted(c)) <=> 0 \in c
  BY <1>1, <1>2 DEF Shifted, SymDiff, ^^
<1>4. Shifted(a) \in Word
  BY <1>1, <1>2, Sums DEF Shifted
<1>5. ASSUME Shifted(a) = Shifted(b)  PROVE FALSE
  <2>1. 0 \in a <=> 0 \in b
    BY <1>3, <1>5
  <2>2. Halved(a) = Halved(b)
    <3>1. \A c, d : c ^^ POLY = d ^^ POLY => c = d
      BY Sums
    <3> QED
      BY <1>5, <2>1, <3>1 DEF Shifted
  <2>3. \A k \in Ones : k \in a <=> k \in b
    BY <1>2, <2>1, <2>2
  <2> QED
    BY <2>3 DEF Word
<1> QED
  BY <1>4, <1>5

LEMMA DividedIs ==
  ASSUME NEW crc \in Word
  PROVE  \E r \in [0..BITS -> Word] :
           /\ r[0] = crc /\ \A k \in 1..BITS : r[k] = Shifted(r[k - 1])
           /\ Divided[crc] = r[BITS]
<1> DEFINE F == [k \in 1..BITS |-> [c \in Word |-> Shifted(c)]]
           After(r) == r = [k \in 0..BITS |-> IF k = 0 THEN crc ELSE Shifted(r[k - 1])]
           after == CHOOSE r : After(r)
<1>1. BITS \in Nat \ {0}
  BY NackAssumption DEF NackAssumption
<1>2. \A c \in Word : Shifted(c) \in Word
  <2>1. \A c \in Word : \E d \in Word : c # d
    <3>1. 0 \in Ones
      BY NackAssumption DEF NackAssumption, Ones
    <3>2. {} \in Word /\ {0} \in Word /\ {} # {0}
      BY <3>1 DEF Word
    <3> QED
      BY <3>2
  <2> QED
    BY <2>1, ShiftedDiffers
<1>3. F \in [1..BITS -> [Word -> Word]]
  BY <1>2
<1>4. \A k \in 1..BITS : \A c \in Word : F[k][c] = Shifted(c)
  OBVIOUS
<1> HIDE DEF F
<1>5. PICK r \in [0..BITS -> Word] :
        r[0] = crc /\ \A k \in 1..BITS : r[k] = F[k][r[k - 1]]
  <2>1. BITS \in Nat /\ crc \in Word
    BY <1>1
  <2> QED
    BY <1>3, <2>1, Recursion
<1>6. \A k \in 0..BITS : r[k] = IF k = 0 THEN crc ELSE Shifted(r[k - 1])
  <2> SUFFICES ASSUME NEW k \in 0..BITS, k # 0  PROVE r[k] = Shifted(r[k - 1])
    BY <1>5
  <2>1. k \in 1..BITS /\ k - 1 \in 0..BITS
    BY <1>1
  <2> QED
    BY <1>5, <1>4, <2>1
<1>7. After(r)
  <2>1. r = [k \in 0..BITS |-> r[k]]
    OBVIOUS
  <2> QED
    BY <1>6, <2>1, Zenon
<1>8. After(after)
  BY <1>7, Zenon
<1>9. Divided[crc] = after[BITS]
  BY DEF Divided, Word
<1>10. after = [k \in 0..BITS |-> IF k = 0 THEN crc ELSE Shifted(after[k - 1])]
  BY <1>8, Zenon
<1> HIDE DEF after
<1>11. \A k \in 0..BITS : after[k] = IF k = 0 THEN crc ELSE Shifted(after[k - 1])
  BY <1>10
<1>12. \A k \in 0..BITS : after[k] \in Word
  <2> DEFINE Typed == {k \in 0..BITS : after[k] \in Word}
  <2>1. 0 \in Typed
    BY <1>1, <1>11
  <2>2. \A k \in 1..BITS : k - 1 \in Typed => k \in Typed
    BY <1>1, <1>2, <1>11
  <2> HIDE DEF Typed
  <2>3. ASSUME NEW n \in 0..BITS  PROVE n \in Typed
    <3>1. n \in Nat /\ \A k \in 1..n : k \in 1..BITS
      BY <1>1
    <3> QED
      BY <2>1, <2>2, <3>1, Induction
  <2> QED
    BY <2>3 DEF Typed
<1>13. after \in [0..BITS -> Word]
  BY <1>10, <1>12
<1>14. after[0] = crc /\ \A k \in 1..BITS : after[k] = Shifted(after[k - 1])
  BY <1>1, <1>11
<1> QED
  BY <1>9, <1>13, <1>14

\* The remainder of a frame, byte after byte: there is such a function, and
\* it takes its values among the words.
LEMMA BytesDivided ==
  ASSUME NEW data, NEW N \in Nat, \A k \in 1..N : data[k] \in Word
  PROVE  /\ \A k \in 1..N : \A c \in Word : Divided[c ^^ data[k]] \in Word
         /\ \E r : r = [k \in 0..N |-> IF k = 0 THEN Ones ELSE Divided[r[k - 1] ^^ data[k]]]
<1>1. ASSUME NEW k \in 1..N, NEW c \in Word  PROVE Divided[c ^^ data[k]] \in Word
  <2>1. c ^^ data[k] \in Word
    BY Sums
  <2>2. PICK r \in [0..BITS -> Word] : Divided[c ^^ data[k]] = r[BITS]
    BY <2>1, DividedIs
  <2>3. BITS \in 0..BITS
    BY NackAssumption DEF NackAssumption
  <2> QED
    BY <2>2, <2>3
<1>2. PICK F : /\ F \in [1..N -> [Word -> Word]]
               /\ \A k \in 1..N : \A c \in Word : F[k][c] = Divided[c ^^ data[k]]
  <2> DEFINE G == [k \in 1..N |-> [c \in Word |-> Divided[c ^^ data[k]]]]
  <2>1. G \in [1..N -> [Word -> Word]]
    BY <1>1
  <2>2. \A k \in 1..N : \A c \in Word : G[k][c] = Divided[c ^^ data[k]]
    OBVIOUS
  <2> QED
    BY <2>1, <2>2
<1>3. Ones \in Word /\ F \in [1..N -> [Word -> Word]]
  BY <1>2 DEF Word
<1>4. PICK r \in [0..N -> Word] : r[0] = Ones /\ \A k \in 1..N : r[k] = F[k][r[k - 1]]
  BY <1>3, Recursion
<1>5. \A k \in 0..N : r[k] = IF k = 0 THEN Ones ELSE Divided[r[k - 1] ^^ data[k]]
  <2> SUFFICES ASSUME NEW k \in 0..N, k # 0  PROVE r[k] = Divided[r[k - 1] ^^ data[k]]
    BY <1>4
  <2>1. k \in 1..N /\ k - 1 \in 0..N
    OBVIOUS
  <2> QED
    BY <1>2, <1>4, <2>1
<1>6. r = [k \in 0..N |-> r[k]]
  OBVIOUS
<1>7. r = [k \in 0..N |-> IF k = 0 THEN Ones ELSE Divided[r[k - 1] ^^ data[k]]]
  BY <1>5, <1>6, Zenon
<1> QED
  BY <1>1, <1>7, Zenon

LEMMA WordsLeft ==
  \A data, N, r :
    /\ N \in Nat /\ \A k \in 1..N : data[k] \in Word
    /\ r = [k \in 0..N |-> IF k = 0 THEN Ones ELSE Divided[r[k - 1] ^^ data[k]]]
    => /\ r \in [0..N -> Word]
       /\ r[0] = Ones /\ \A k \in 1..N : r[k] = Divided[r[k - 1] ^^ data[k]]
<1> TAKE data, N, r
<1> HAVE /\ N \in Nat /\ \A k \in 1..N : data[k] \in Word
         /\ r = [k \in 0..N |-> IF k = 0 THEN Ones ELSE Divided[r[k - 1] ^^ data[k]]]
<1>1. \A k \in 0..N : r[k] = IF k = 0 THEN Ones ELSE Divided[r[k - 1] ^^ data[k]]
  OBVIOUS
<1>2. \A k \in 1..N : \A c \in Word : Divided[c ^^ data[k]] \in Word
  BY BytesDivided, Zenon
<1>3. r[0] = Ones /\ \A k \in 1..N : r[k] = Divided[r[k - 1] ^^ data[k]]
  BY <1>1
<1> DEFINE Typed == {k \in 0..N : r[k] \in Word}
<1>4. 0 \in Typed
  BY <1>3 DEF Word
<1>5. ASSUME NEW k \in 1..N, k - 1 \in Typed  PROVE k \in Typed
  BY <1>2, <1>3, <1>5
<1>6. ASSUME NEW n \in 0..N  PROVE n \in Typed
  <2>1. n \in Nat /\ \A k \in 1..n : k \in 1..N
    OBVIOUS
  <2> HIDE DEF Typed
  <2> QED
    BY <1>4, <1>5, <2>1, Induction
<1>7. \A k \in 0..N : r[k] \in Word
  BY <1>6
<1> QED
  BY <1>3, <1>7

LEMMA RemainderIs ==
  ASSUME NEW data \in Seq(Octet)
  PROVE  /\ \A k \in 1..Len(data) : data[k] \in Word
         /\ \E r \in [0..Len(data) -> Word] :
              /\ r[0] = Ones /\ \A k \in 1..Len(data) : r[k] = Divided[r[k - 1] ^^ data[k]]
              /\ Remainder(data) = r[Len(data)]
<1> DEFINE After(r) == r = [k \in 0..Len(data) |->
                              IF k = 0 THEN Ones ELSE Divided[r[k - 1] ^^ data[k]]]
           after == CHOOSE r : After(r)
<1>1. \A k \in 1..Len(data) : data[k] \in Octet
  OBVIOUS
<1>2. Octet \subseteq Word
  BY NackAssumption DEF NackAssumption, Octet, Word, Ones
<1>3. Len(data) \in Nat /\ \A k \in 1..Len(data) : data[k] \in Word
  BY <1>1, <1>2
<1>4. \E r : After(r)
  BY <1>3, BytesDivided, Zenon
<1>5. PICK N \in Nat : N = Len(data)
  BY <1>3
<1>6. PICK r : /\ r = [k \in 0..N |-> IF k = 0 THEN Ones ELSE Divided[r[k - 1] ^^ data[k]]]
               /\ Remainder(data) = r[N]
  <2>1. After(after)
    BY <1>4, Zenon
  <2>2. Remainder(data) = after[Len(data)]
    BY Zenon DEF Remainder
  <2> HIDE DEF after
  <2> QED
    BY <1>5, <2>1, <2>2, Zenon
<1>7. \A k \in 1..N : data[k] \in Word
  BY <1>3, <1>5, Zenon
<1>8. /\ r \in [0..N -> Word]
      /\ r[0] = Ones /\ \A k \in 1..N : r[k] = Divided[r[k - 1] ^^ data[k]]
  <2>1. r = [k \in 0..N |-> IF k = 0 THEN Ones ELSE Divided[r[k - 1] ^^ data[k]]]
    BY <1>6, Zenon
  <2> QED
    BY <1>7, <2>1, WordsLeft
<1> QED
  BY <1>5, <1>6, <1>7, <1>8, Zenon

\* Words that differ stay different: bit after bit, and byte after byte.
LEMMA DividedDiffers ==
  ASSUME NEW a \in Word, NEW b \in Word, a # b
  PROVE  Divided[a] # Divided[b]
<1>1. PICK r \in [0..BITS -> Word] :
        /\ r[0] = a /\ \A k \in 1..BITS : r[k] = Shifted(r[k - 1])
        /\ Divided[a] = r[BITS]
  BY DividedIs
<1>2. PICK q \in [0..BITS -> Word] :
        /\ q[0] = b /\ \A k \in 1..BITS : q[k] = Shifted(q[k - 1])
        /\ Divided[b] = q[BITS]
  BY DividedIs
<1> DEFINE Differ == {k \in 0..BITS : r[k] # q[k]}
<1>3. BITS \in Nat
  BY NackAssumption DEF NackAssumption
<1>4. 0 \in Differ
  BY <1>1, <1>2, <1>3
<1>5. ASSUME NEW k \in 1..BITS, k - 1 \in Differ  PROVE k \in Differ
  <2>1. k \in 0..BITS /\ r[k - 1] \in Word /\ q[k - 1] \in Word
    BY <1>3, <1>5
  <2> QED
    BY <1>1, <1>2, <1>5, <2>1, ShiftedDiffers
<1>6. BITS \in Differ
  <2> HIDE DEF Differ
  <2> QED
    BY <1>3, <1>4, <1>5, Induction
<1> QED
  BY <1>1, <1>2, <1>6

\* One byte is enough.
LEMMA CrcDiffers ==
  ASSUME NEW data \in Seq(Octet), NEW other \in Seq(Octet), Len(data) = Len(other),
         NEW i \in 1..Len(data), data[i] # other[i],
         \A j \in 1..Len(data) : j # i => data[j] = other[j]
  PROVE  crc32(data) # crc32(other)
<1>1. PICK N \in Nat : N = Len(data)
  OBVIOUS
<1>2. PICK r \in [0..N -> Word] :
        /\ r[0] = Ones /\ \A k \in 1..N : r[k] = Divided[r[k - 1] ^^ data[k]]
        /\ Remainder(data) = r[N]
  BY <1>1, RemainderIs
<1>3. PICK q \in [0..N -> Word] :
        /\ q[0] = Ones /\ \A k \in 1..N : q[k] = Divided[q[k - 1] ^^ other[k]]
        /\ Remainder(other) = q[N]
  BY <1>1, RemainderIs
<1>4. i \in 1..N /\ \A j \in 1..N : j # i => data[j] = other[j]
  BY <1>1
<1>5. \A k \in 1..N : data[k] \in Word /\ other[k] \in Word
  BY <1>1, RemainderIs
<1>6. r[i - 1] = q[i - 1]
  <2> DEFINE Same == {k \in 0..(i - 1) : r[k] = q[k]}
  <2>1. 0 \in Same
    BY <1>2, <1>3, <1>4
  <2>2. ASSUME NEW k \in 1..(i - 1), k - 1 \in Same  PROVE k \in Same
    <3>1. k \in 1..N /\ k # i /\ k \in 0..(i - 1) /\ r[k - 1] = q[k - 1]
      BY <1>1, <1>4, <2>2
    <3>2. r[k] = Divided[r[k - 1] ^^ data[k]] /\ q[k] = Divided[q[k - 1] ^^ other[k]]
      BY <1>2, <1>3, <3>1
    <3>3. data[k] = other[k]
      BY <1>4, <3>1
    <3>4. r[k] = q[k]
      BY <3>1, <3>2, <3>3, Zenon
    <3> QED
      BY <3>1, <3>4
  <2>3. i - 1 \in Nat
    BY <1>4
  <2>4. i - 1 \in Same
    <3> HIDE DEF Same
    <3> QED
      BY <2>1, <2>2, <2>3, Induction
  <2> QED
    BY <2>4
<1> DEFINE Differ == {k \in i..N : r[k] # q[k]}
<1>7. ASSUME NEW k \in 1..N, r[k - 1] ^^ data[k] # q[k - 1] ^^ other[k]
      PROVE  r[k] # q[k]
  <2>1. r[k - 1] \in Word /\ q[k - 1] \in Word
    BY <1>1, <1>7
  <2>2. r[k - 1] ^^ data[k] \in Word /\ q[k - 1] ^^ other[k] \in Word
    BY <1>5, <2>1, Sums
  <2> QED
    BY <1>2, <1>3, <1>7, <2>2, DividedDiffers
<1>8. i \in Differ
  BY <1>1, <1>4, <1>6, <1>7, Sums
<1>9. ASSUME NEW k \in (i + 1)..N, k - 1 \in Differ  PROVE k \in Differ
  <2>1. k \in i..N /\ k \in 1..N /\ k # i
    BY <1>4, <1>9
  <2>2. data[k] = other[k] /\ r[k - 1] # q[k - 1]
    BY <1>4, <1>9, <2>1
  <2>3. r[k - 1] ^^ data[k] # q[k - 1] ^^ other[k]
    BY <2>2, Sums
  <2> QED
    BY <1>7, <2>1, <2>3
<1>10. N \in Differ
  <2>1. i \in Nat /\ i <= N
    BY <1>4
  <2> HIDE DEF Differ
  <2> QED
    BY <1>1, <1>8, <1>9, <2>1, Induction
<1>11. r[N] # q[N] /\ r[N] \in Word /\ q[N] \in Word
  BY <1>1, <1>10
<1>12. crc32(data) = Ones \ r[N] /\ crc32(other) = Ones \ q[N]
  BY <1>2, <1>3, Zenon DEF crc32
<1> QED
  BY <1>11, <1>12 DEF Word

-----------------------------------------------------------------------------
Frame == [data : Seq(Octet), sum : Word]

\* The link flips a bit of a byte, or one of the sum.
LEMMA FlipsAre ==
  ASSUME NEW f \in Frame, NEW g \in Flips(f)
  PROVE  /\ g \in Frame
         /\ \/ /\ g.sum = f.sum /\ Len(g.data) = Len(f.data)
               /\ \E i \in 1..Len(f.data) :
                    /\ f.data[i] # g.data[i]
                    /\ \A j \in 1..Len(f.data) : j # i => f.data[j] = g.data[j]
            \/ g.data = f.data /\ g.sum # f.sum
<1>1. f.data \in Seq(Octet) /\ f.sum \in Word /\ f = [data |-> f.data, sum |-> f.sum]
  BY DEF Frame
<1>2. DOMAIN f.data = 1..Len(f.data)
  BY <1>1
<1>3. CASE \E i \in DOMAIN f.data, b \in 0..(BITS - 1) : g = ByteFlipped(f, i, b)
  <2>1. PICK i \in 1..Len(f.data), b \in 0..(BITS - 1) :
          g = ByteFlipped(f, i, b)
    BY <1>2, <1>3
  <2> DEFINE d == [f.data EXCEPT ![i] = @ ^^ {b}]
  <2>2. g = [f EXCEPT !.data = d]
    BY <2>1 DEF ByteFlipped
  <2>3. f.data[i] \in Octet
    BY <1>1
  <2>4. f.data[i] ^^ {b} \in Octet /\ f.data[i] ^^ {b} # f.data[i]
    BY <2>3, Sums DEF Octet, SymDiff, ^^
  <2>5. /\ d \in Seq(Octet) /\ Len(d) = Len(f.data) /\ d[i] # f.data[i]
        /\ \A j \in 1..Len(f.data) : j # i => d[j] = f.data[j]
    BY <1>1, <2>4
  <2> HIDE DEF d
  <2>6. g.data = d /\ g.sum = f.sum /\ g \in Frame
    BY <1>1, <2>2, <2>5 DEF Frame
  <2> QED
    BY <2>5, <2>6
<1>4. CASE \E b \in Ones : g = SumFlipped(f, b)
  <2>1. PICK b \in Ones : g = [f EXCEPT !.sum = @ ^^ {b}]
    BY <1>4 DEF SumFlipped
  <2>2. f.sum ^^ {b} \in Word /\ f.sum ^^ {b} # f.sum
    BY <1>1, Sums DEF Word
  <2> QED
    BY <1>1, <2>1, <2>2 DEF Frame
<1> QED
  BY <1>3, <1>4 DEF Flips

\* The CRC of lab 3 tells every frame with one bit flipped, in the payload,
\* in the header or in the sum itself, from what was sent, whatever the
\* length (common.c:29-80): its polynomial has the highest bit.
THEOREM EveryFlipIsNoticed ==
  \A data \in Seq(Octet) : \A g \in Flips(Framed(data)) : crc32(g.data) # g.sum
<1> SUFFICES ASSUME NEW data \in Seq(Octet), NEW g \in Flips(Framed(data))
             PROVE  crc32(g.data) # g.sum
  OBVIOUS
<1>1. Framed(data) \in Frame /\ Framed(data).data = data /\ Framed(data).sum = crc32(data)
  BY DEF Framed, Frame, Word, crc32
<1>2. g.data \in Seq(Octet)
  BY <1>1, FlipsAre DEF Frame
<1>3. CASE g.data = data /\ g.sum # crc32(data)
  BY <1>3
<1>4. CASE /\ g.sum = crc32(data) /\ Len(g.data) = Len(data)
           /\ \E i \in 1..Len(data) :
                /\ data[i] # g.data[i]
                /\ \A j \in 1..Len(data) : j # i => data[j] = g.data[j]
  BY <1>2, <1>4, CrcDiffers
<1> QED
  BY <1>1, <1>3, <1>4, FlipsAre

\* What the receiver can hold is the frame sent, with at most one bit flipped.
OfMessage(f) == f = Framed(message) \/ f \in Flips(Framed(message))

NackInv ==
  /\ message \in Seq(Octet)
  /\ recv_data \subseteq {message}
  /\ OfMessage(t)
  /\ forth \in Seq({Framed(message)} \union Flips(Framed(message)))

LEMMA NackInvInit == NackInit => NackInv
  BY NackAssumption, EmptySeq DEF NackAssumption, NackInit, NackInv, OfMessage

LEMMA Carried ==
  ASSUME NackInv, message' = message, Carry(Framed(message))
  PROVE  forth' \in Seq({Framed(message)} \union Flips(Framed(message)))
<1> DEFINE S == {Framed(message)} \union Flips(Framed(message))
<1>1. forth \in Seq(S)
  BY DEF NackInv
<1>2. forth' = forth \/ \E g \in S : forth' = Append(forth, g)
  BY DEF Carry
<1> HIDE DEF S
<1>3. forth' \in Seq(S)
  BY <1>1, <1>2
<1> QED
  BY <1>3 DEF S

LEMMA NackInvNext == NackInv /\ [NackNext]_nackVars => NackInv'
<1> SUFFICES ASSUME NackInv, [NackNext]_nackVars  PROVE NackInv'
  OBVIOUS
<1> DEFINE S == {Framed(message)} \union Flips(Framed(message))
<1>1. CASE SendFrame \/ Resend
  <2>1. Carry(Framed(message)) /\ UNCHANGED <<message, t, recv_data>>
    BY <1>1 DEF SendFrame, Resend
  <2> QED
    BY <2>1, Carried DEF NackInv, OfMessage
<1>2. CASE ReadAnswer \/ Nack \/ UNCHANGED nackVars
  BY <1>2 DEF NackInv, OfMessage, ReadAnswer, Nack, nackVars
<1>3. CASE ReadFrame
  <2>1. forth \in Seq(S) /\ forth # <<>>
    BY <1>3 DEF NackInv, ReadFrame
  <2>2. t' = Head(forth) /\ forth' = Tail(forth) /\ UNCHANGED <<message, recv_data>>
    BY <1>3 DEF ReadFrame
  <2> HIDE DEF S
  <2>3. t' \in S /\ forth' \in Seq(S)
    BY <2>1, <2>2
  <2> QED
    BY <2>2, <2>3 DEF NackInv, OfMessage, S
<1>4. CASE WriteFile
  <2>1. OfMessage(t) /\ crc32(t.data) = t.sum /\ message \in Seq(Octet)
    BY <1>4 DEF NackInv, WriteFile, sum_ok
  <2>2. t = Framed(message)
    BY <2>1, EveryFlipIsNoticed DEF OfMessage
  <2>3. t.data = message
    BY <2>2 DEF Framed
  <2>4. recv_data' = {message} /\ UNCHANGED <<message, t, forth>>
    BY <1>4, <2>3 DEF WriteFile
  <2> QED
    BY <2>4 DEF NackInv, OfMessage
<1> QED
  BY <1>1, <1>2, <1>3, <1>4 DEF NackNext

\* The file is what was sent: a frame that the link has damaged is never
\* taken for a good one (recv.c:34, 50-57).
THEOREM FileIsSent == NackSpec => []WrittenIsSent
<1>1. NackInv => WrittenIsSent
  BY DEF NackInv, WrittenIsSent
<1> QED
  BY <1>1, NackInvInit, NackInvNext, PTL DEF NackSpec

=============================================================================
