------------------------------ MODULE FifoLink ------------------------------
(***************************************************************************)
(* What a link promises to the programs on its two ends, whatever is done  *)
(* inside it: frames are numbered in the order in which they reach the     *)
(* link, some are refused at its entrance, the accepted ones leave it in   *)
(* order, at most once, and some of those find nobody to receive them.     *)
(* LinkEmulator implements this specification once per direction.          *)
(***************************************************************************)
EXTENDS Naturals, Sequences

VARIABLES
  next,                 \* every frame that reached the link is below next
  chan,                 \* the accepted frames that have not left the link
  out                   \* the frames the far end has received

vars == <<next, chan, out>>

TypeOK ==
  /\ next \in Nat
  /\ chan \in Seq(Nat)
  /\ out \in Seq(Nat)

Init ==
  /\ next = 0
  /\ chan = <<>>
  /\ out = <<>>

\* A frame newer than every frame so far enters the link.
Accept ==
  /\ next' \in Nat /\ next' > next
  /\ chan' = Append(chan, next' - 1)
  /\ UNCHANGED out

\* A frame newer than every frame so far is dropped at the entrance.
Refuse ==
  /\ next' \in Nat /\ next' > next
  /\ UNCHANGED <<chan, out>>

\* The oldest frame on the link reaches the far end.
Deliver ==
  /\ chan # <<>>
  /\ out' = Append(out, Head(chan))
  /\ chan' = Tail(chan)
  /\ UNCHANGED next

\* The oldest frame leaves the link while nobody is connected at the far end.
Lose ==
  /\ chan # <<>>
  /\ chan' = Tail(chan)
  /\ UNCHANGED <<next, out>>

Next == Accept \/ Refuse \/ Deliver \/ Lose

Spec == Init /\ [][Next]_vars

-----------------------------------------------------------------------------

Increasing(s) == \A i, j \in DOMAIN s : i < j => s[i] < s[j]

\* No frame overtakes another, appears twice or is made up: what has been
\* received, followed by what is still on the link, is in arrival order.
InOrder ==
  /\ Increasing(out \o chan)
  /\ \A i \in DOMAIN (out \o chan) : (out \o chan)[i] < next

=============================================================================
