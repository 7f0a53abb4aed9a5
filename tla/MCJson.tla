------------------------------- MODULE MCJson -------------------------------
(* The two halves of parson.c for TLC: JsonObject and JsonText share no     *)
(* state, so one run takes one or the other.                                *)
EXTENDS JsonObject, JsonText, TLC

VARIABLE half       \* "object" or "text"

\* Names and values are interchangeable.
Sym == Permutations(Names) \union Permutations(Values)

Array(vs)  == [type |-> "array", names |-> <<>>, values |-> vs]
Object(ns, vs) == [type |-> "object", names |-> ns, values |-> vs]

SomeScalars == {[type |-> "scalar", symbol |-> c] : c \in {"number", "null"}}

SomeStrings == {[type |-> "string", chars |-> s] :
              s \in {<<>>, <<"backslash", "quote">>, <<"n", "control">>, <<"rbracket", "slash">>}}

Leaves == SomeScalars \union SomeStrings

Wrapped(vs) ==
  {Array(<<v>>) : v \in vs} \union {Object(<< <<"backslash">> >>, <<v>>) : v \in vs}

Flat ==
  {Array(s) : s \in {<<>>} \union Leaves \X Leaves}
    \union {Object(<<>>, <<>>)}
    \union {Object(<< <<"n">>, <<>> >>, <<v, w>>) : <<v, w>> \in SomeScalars \X Leaves}
    \union {Object(<< <<>>, <<"n">> >>, <<w, v>>) : <<v, w>> \in SomeScalars \X Leaves}

Thrice == Wrapped(SomeScalars \union Wrapped(SomeScalars))

MCDocuments ==
  Leaves \union Wrapped(Leaves) \union Flat \union Wrapped(Flat) \union Thrice \union Wrapped(Thrice)

MCChar == {"n", "backslash", "quote", "control", "rbracket", "slash"}

Init ==
  /\ half \in {"object", "text"}
  /\ JsonInit /\ TextInit
  /\ half = "object" => doc = Array(<<>>) /\ pretty = FALSE
  /\ half = "text" => \A n \in Names : hash[n] = 0

Next ==
  /\ UNCHANGED half
  /\ \/ half = "object" /\ JsonNext /\ UNCHANGED textVars
     \/ half = "text" /\ TextNext /\ UNCHANGED jsonVars

Spec == Init /\ [][Next]_<<half, jsonVars, textVars>>

=============================================================================
