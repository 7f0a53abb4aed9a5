----------------------------- MODULE ByteFraming -----------------------------
(***************************************************************************)
(* The framing of lab 2: send.c writes two frames byte by byte, recv.c     *)
(* looks for them in what recv_byte returns.  recv_byte never waits: while *)
(* nothing has come it makes a byte up.  Neither side escapes a DLE in the *)
(* data, yet the receiver takes one for an escape.                         *)
(***************************************************************************)
EXTENDS Integers, Sequences, SequencesExt

CONSTANTS
  PAYLOAD,          \* bytes of the payload; 100 in the code
  BUFFER,           \* bytes asked for the first time; 30 in the code
  Texts,            \* bound: the pairs of texts sent
  Noise,            \* bound: the bytes made up before the first frame
  MadeUp            \* bound: those made up behind the second

DLE == 0
STX == 2
ETX == 3

Byte == 0..255

\* strlen ends a text at its first zero, which is DLE.
ASSUME FramingAssumption ==
  /\ PAYLOAD \in Nat /\ BUFFER \in 1..(PAYLOAD \div 2)
  /\ MadeUp \subseteq Byte /\ Noise \subseteq Seq(Byte)
  /\ \A t \in Texts :
       /\ t \in Seq(Byte \ {DLE}) \X Seq(Byte \ {DLE})
       /\ Len(t[1]) < BUFFER /\ Len(t[2]) <= PAYLOAD

VARIABLES
  texts,            \* what is sent: a line that was typed, then a time
  noise,
  lost,             \* the byte of the two frames that is lost, 0 for none
  wire,             \* what has not been read yet
  call,             \* of recv_frame, 1 or 2
  byteAt,           \* "first", "sync", "ids", "data", "escaped" or "done"
  c1,
  count,            \* of the bytes of the two ids
  buf,
  received          \* what recv_frame has returned

frameVars == <<texts, noise, lost, wire, call, byteAt, c1, count, buf, received>>

\* source is 88 and dest 123131, each four bytes, the lowest first.
Ids == <<88, 0, 0, 0>> \o <<251, 224, 1, 0>>

send_frame(text) ==
  <<DLE, STX>> \o Ids \o text \o [i \in 1..(PAYLOAD - Len(text)) |-> 0]
    \o <<DLE, ETX>>

FrameSize == Len(send_frame(<<>>))

FrameInit ==
  /\ texts \in Texts /\ noise \in Noise /\ lost \in 0..(2 * FrameSize)
  /\ LET sent == send_frame(texts[1]) \o send_frame(texts[2])
     IN wire = noise \o IF lost = 0 THEN sent ELSE RemoveAt(sent, lost)
  /\ call = 1 /\ byteAt = "first" /\ c1 = DLE /\ count = 0
  /\ buf = <<>> /\ received = <<>>

\* What recv_byte may return.
Incoming == IF wire # <<>> THEN {Head(wire)} ELSE MadeUp

recv_byte == wire' = IF wire # <<>> THEN Tail(wire) ELSE wire

size == IF call = 1 THEN BUFFER ELSE PAYLOAD

\* recv_frame returns, and main calls it once more.
Returned(bytes) ==
  /\ received' = Append(received, bytes)
  /\ buf' = <<>> /\ count' = 0
  /\ call' = 2
  /\ byteAt' = IF call = 1 THEN "first" ELSE "done"
  /\ UNCHANGED c1

First(b) ==
  /\ byteAt = "first"
  /\ c1' = b /\ byteAt' = "sync"
  /\ UNCHANGED <<call, count, buf, received>>

InPairs(b) ==               \* mutant: reads both bytes anew
  /\ byteAt = "sync"
  /\ byteAt' = IF c1 = DLE /\ b = STX THEN "ids" ELSE "first"
  /\ UNCHANGED <<c1, call, count, buf, received>>

\* DLE STX in a row, wherever they are.
Sync(b) ==
  /\ byteAt = "sync"
  /\ byteAt' = IF c1 = DLE /\ b = STX THEN "ids" ELSE "sync"
  /\ c1' = b
  /\ UNCHANGED <<call, count, buf, received>>

\* Whom the frame is for is printed and not compared.
SkipIds(b) ==
  /\ byteAt = "ids"
  /\ count' = count + 1
  /\ byteAt' = IF count' = Len(Ids) THEN "data" ELSE "ids"
  /\ UNCHANGED <<c1, call, buf, received>>

Put(b) ==
  IF Len(buf) + 1 = size
  THEN Returned(Append(buf, b))
  ELSE /\ buf' = Append(buf, b) /\ byteAt' = "data"
       /\ UNCHANGED <<c1, call, count, received>>

Data(b) ==
  /\ byteAt = "data"
  /\ \/ b # DLE /\ Put(b)
     \/ b = DLE /\ byteAt' = "escaped" /\ UNCHANGED <<c1, call, count, buf, received>>

Escaped(b) ==
  /\ byteAt = "escaped"
  /\ \/ b = ETX /\ Returned(buf)
     \/ b # ETX /\ Put(b)

FrameNext ==
  /\ UNCHANGED <<texts, noise, lost>>
  /\ recv_byte
  /\ \E b \in Incoming :
       First(b) \/ Sync(b) \/ SkipIds(b) \/ Data(b) \/ Escaped(b)

FrameSpec == FrameInit /\ [][FrameNext]_frameVars

-----------------------------------------------------------------------------
(* Properties.                                                             *)

\* No bytes that were made up look like the start of a frame, and the start
\* of the first frame has not been lost.
FindsStart ==
  /\ ~\E i \in 1..(Len(noise) - 1) : noise[i] = DLE /\ noise[i + 1] = STX
  /\ lost \notin 1..2

\* Whatever came before it, the receiver finds each frame, though the first
\* call stops in the middle of one and though a byte of the first is lost: a
\* loss spoils no more than the text it hits.  It also finds the end of the
\* second frame, if an even number of zeros fills it up; with an odd number
\* it reads DLE ETX for data and goes on behind the frame (recv.c:55).
FramesRecovered ==
  FindsStart =>
    /\ Len(received) >= 1 /\ lost \notin 1..(2 + Len(Ids) + Len(texts[1]))
         => IsPrefix(texts[1], received[1])
    /\ Len(received) = 2 /\ lost <= FrameSize
         => /\ IsPrefix(texts[2], received[2])
            /\ LET zeros == PAYLOAD - Len(texts[2])
               IN zeros % 2 = 0 =>
                    Len(received[2]) = Len(texts[2]) + zeros \div 2

=============================================================================
