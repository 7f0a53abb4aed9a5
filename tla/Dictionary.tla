----------------------------- MODULE Dictionary -----------------------------
(***************************************************************************)
(* What a JSON object promises to its callers: a partial function from     *)
(* names to values.  JsonObject implements it with a hash table.           *)
(***************************************************************************)
EXTENDS Functions

CONSTANTS Names, Values

VARIABLES dict          \* the values of the names that have one

Init == dict = <<>>

Put(n, v) == dict' = [m \in DOMAIN dict \union {n} |-> IF m = n THEN v ELSE dict[m]]

Delete(n) ==
  /\ n \in DOMAIN dict
  /\ dict' = Restrict(dict, DOMAIN dict \ {n})

Clear == dict' = <<>>

\* An operation that fails leaves everything as it was: a stuttering step.
Next == \/ \E n \in Names : Delete(n) \/ \E v \in Values : Put(n, v)
        \/ Clear

Spec == Init /\ [][Next]_dict

=============================================================================
