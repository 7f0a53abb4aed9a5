---------------------------- MODULE NackTransfer ----------------------------
(***************************************************************************)
(* The transfer of lab 3: send.c sends one frame with its CRC and waits    *)
(* for an answer, recv.c checks the one frame it reads.  A bad frame is    *)
(* answered with NACKs without end and sent again without end, and no      *)
(* second frame is read; a good frame is not answered at all.              *)
(*                                                                         *)
(* The link may lose a frame on its way forth or flip one of its bits, and *)
(* keeps what it carries back.                                             *)
(*                                                                         *)
(* A byte or a word is the set of its bits that are 1, the lowest being 0. *)
(***************************************************************************)
EXTENDS Integers, Sequences, FiniteSetsExt

CONSTANTS
  Messages,         \* bound: what is sent, each a sequence of bytes
  BITS,             \* of a byte; 8 in the code
  WIDTH, POLY,      \* of the CRC; 32 and 0xEDB88320 in the code
  MaxOnLink         \* bound: frames and answers under way

Octet == SUBSET (0..(BITS - 1))

Ones == 0..(WIDTH - 1)      \* ~0

ASSUME NackAssumption ==
  /\ BITS \in Nat \ {0} /\ WIDTH \in Nat \ {0} /\ BITS <= WIDTH
  /\ POLY \subseteq Ones /\ WIDTH - 1 \in POLY
  /\ Messages \subseteq Seq(Octet)
  /\ MaxOnLink \in Nat \ {0}

VARIABLES
  message,
  sendPc,           \* "send", "wait", "resend" or "done"
  recvPc,           \* "recv", "check", "nack" or "done"
  t,                \* the frame the receiver holds
  forth,            \* frames on the link
  nacks,            \* answers on the link
  recv_data         \* the files the receiver has written: none, or recv.data

nackVars == <<message, sendPc, recvPc, t, forth, nacks, recv_data>>

a ^^ b == SymDiff(a, b)

Halved(crc) == {k \in Ones : k + 1 \in crc}

\* One bit of a byte: the remainder of the division by POLY goes on.
Shifted(crc) == IF 0 \in crc THEN Halved(crc) ^^ POLY ELSE Halved(crc)

\* What all the bits of a byte make of crc, and all the bytes of a frame.
Divided == [crc \in SUBSET Ones |->
  LET after[bit \in 0..BITS] == IF bit = 0 THEN crc ELSE Shifted(after[bit - 1])
  IN after[BITS]]

Remainder(data) ==
  LET after[n \in 0..Len(data)] ==
        IF n = 0 THEN Ones ELSE Divided[after[n - 1] ^^ data[n]]
  IN after[Len(data)]

crc32(data) == Ones \ Remainder(data)

\* The header's sum is 0 while the sum is computed.
Framed(data) == [data |-> data, sum |-> crc32(data)]

ByteFlipped(f, i, b) == [f EXCEPT !.data[i] = @ ^^ {b}]
SumFlipped(f, b) == [f EXCEPT !.sum = @ ^^ {b}]

Flips(f) ==
  {ByteFlipped(f, i, b) : i \in DOMAIN f.data, b \in 0..(BITS - 1)}
    \union {SumFlipped(f, b) : b \in Ones}

\* What the link makes of a frame, if it has room for it.
Carry(f) ==
  \/ UNCHANGED forth
  \/ /\ Len(forth) < MaxOnLink
     /\ \E g \in {f} \union Flips(f) : forth' = Append(forth, g)

NackInit ==
  /\ message \in Messages
  /\ sendPc = "send" /\ recvPc = "recv"
  /\ t = Framed(message) /\ forth = <<>> /\ nacks = 0
  /\ recv_data = {}

-----------------------------------------------------------------------------
(* send.c.                                                                 *)

SendFrame ==
  /\ sendPc = "send"
  /\ Carry(Framed(message))
  /\ sendPc' = "wait"
  /\ UNCHANGED <<message, recvPc, t, nacks, recv_data>>

HalfANack == 3              \* mutant: sizeof of half the text

\* "AAAAAA", without the zero that ends it.
NackLength == 6

\* The buffer has one byte more than a NACK, which nobody has written.
AsInBuffer == {NackLength, NackLength + 1}

\* The one answer that is read decides once for all.
ReadAnswer ==
  /\ sendPc = "wait"
  /\ nacks > 0 /\ nacks' = nacks - 1
  /\ \E a \in AsInBuffer : sendPc' = IF a > 3 THEN "resend" ELSE "done"
  /\ UNCHANGED <<message, recvPc, t, forth, recv_data>>

Resend ==
  /\ sendPc = "resend"
  /\ Carry(Framed(message))
  /\ UNCHANGED <<message, sendPc, recvPc, t, nacks, recv_data>>

-----------------------------------------------------------------------------
(* recv.c.                                                                 *)

ReadFrame ==
  /\ recvPc = "recv"
  /\ forth # <<>> /\ t' = Head(forth) /\ forth' = Tail(forth)
  /\ recvPc' = "check"
  /\ UNCHANGED <<message, sendPc, nacks, recv_data>>

sum_ok == crc32(t.data) = t.sum

\* The loop checks the same frame again and again.
Nack ==
  /\ recvPc = "check" /\ ~sum_ok
  /\ nacks' = IF nacks < MaxOnLink THEN nacks + 1 ELSE nacks
  /\ UNCHANGED <<message, sendPc, recvPc, t, forth, recv_data>>

WriteFile ==
  /\ recvPc = "check" /\ sum_ok
  /\ recv_data' = {t.data}
  /\ recvPc' = "done"
  /\ UNCHANGED <<message, sendPc, t, forth, nacks>>

NackNext ==
  SendFrame \/ ReadAnswer \/ Resend \/ ReadFrame \/ Nack \/ WriteFile

NackSpec == NackInit /\ [][NackNext]_nackVars

\* Both programs go on.
NackFairness ==
  /\ WF_nackVars(SendFrame) /\ WF_nackVars(ReadAnswer)
  /\ WF_nackVars(ReadFrame) /\ WF_nackVars(Nack) /\ WF_nackVars(WriteFile)

-----------------------------------------------------------------------------
(* Properties.                                                             *)

\* A file that is written has what was sent: the CRC notices every bit that
\* the link flips, in the payload or in the sum itself.
WrittenIsSent == recv_data \subseteq {message}

\* A frame that arrived damaged makes the sender send for ever, though its
\* end is not in the receiver's hand any more; one that arrived whole, or
\* was lost, leaves it waiting for ever.  It never comes to its end.
NackIsHeard ==
  /\ (recvPc = "check" /\ t # Framed(message)) ~> [](sendPc = "resend")
  /\ (recvPc = "done") ~> [](sendPc = "wait")

=============================================================================
