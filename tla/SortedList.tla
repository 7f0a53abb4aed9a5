----------------------------- MODULE SortedList -----------------------------
(***************************************************************************)
(* The window list of lab 6 (lib/list.c): datagrams in the order of their  *)
(* seq, each seq once.  send_file_go_back_n of client.c puts the file into *)
(* it; the rest of that transfer is not written yet.                       *)
(***************************************************************************)
EXTENDS Integers, Sequences, SequencesExt

CONSTANTS
  Seqs,             \* bound: sequence numbers
  Infos,            \* bound: what a datagram may hold
  MaxCalls          \* bound: calls of add_list_elem

ASSUME ListAssumption == Seqs \subseteq Int /\ MaxCalls \in Nat

VARIABLES
  entries,          \* from head on
  length,           \* size
  added             \* the calls so far, in order

listVars == <<entries, length, added>>

ListInit == entries = <<>> /\ length = 0 /\ added = <<>>

IsDuplicate(seq) == \E i \in DOMAIN entries : entries[i].seq = seq

FromTheHead(seq) ==         \* mutant: the head is not compared
  CHOOSE p \in 0..Len(entries) :
    /\ p = 0 <=> entries = <<>>
    /\ p < Len(entries) /\ p > 0 => entries[p + 1].seq >= seq
    /\ \A q \in 2..p : entries[q].seq < seq

\* After how many entries a new one goes: before the head, or after the
\* first entry whose next is not smaller.
Place(seq) ==
  IF entries = <<>> \/ Head(entries).seq > seq THEN 0
  ELSE CHOOSE p \in 1..Len(entries) :
         /\ p < Len(entries) => entries[p + 1].seq >= seq
         /\ \A q \in 2..p : entries[q].seq < seq

\* The info is copied.
add_list_elem(info, seq) ==
  /\ added' = Append(added, [seq |-> seq, info |-> info])
  /\ \/ IsDuplicate(seq) /\ UNCHANGED <<entries, length>>
     \/ /\ ~IsDuplicate(seq)
        /\ entries' = InsertAt(entries, Place(seq) + 1, [seq |-> seq, info |-> info])
        /\ length' = length + 1

ListNext ==
  /\ Len(added) < MaxCalls
  /\ \E info \in Infos, seq \in Seqs : add_list_elem(info, seq)

ListSpec == ListInit /\ [][ListNext]_listVars

-----------------------------------------------------------------------------
(* Properties.                                                             *)

\* In whatever order datagrams are put in, and however often, the list is in
\* the order of their seq, has each once, as it was the first time, and
\* counts them rightly.
ListIsWindow ==
  /\ \A i, j \in DOMAIN entries : i < j => entries[i].seq < entries[j].seq
  /\ length = Len(entries)
  /\ ToSet(entries) =
       {added[i] : i \in {i \in DOMAIN added :
                            \A j \in 1..(i - 1) : added[j].seq # added[i].seq}}

=============================================================================
