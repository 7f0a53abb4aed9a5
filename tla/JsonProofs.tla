----------------------------- MODULE JsonProofs -----------------------------
(***************************************************************************)
(* Proofs about the two halves of parson.c.                                *)
(*                                                                         *)
(* JsonObject, for every hash function, every capacity to start with and   *)
(* any names and values: the table stays whole, the values are owned, and  *)
(* what lookups find is a dictionary.  The argument is Knuth's for linear  *)
(* probing: between the home of a name and its cell no cell is free, so a  *)
(* search reaches it.  A removal makes a hole, which only the pairs with   *)
(* their home beyond it do not miss, and the shift moves the hole on until *)
(* no pair misses it.                                                      *)
(*                                                                         *)
(* JsonText, for any values, characters and depth: the reader only ever    *)
(* stops where the writer has once been, and has then as much of the value *)
(* as the writer had written.  So what it accepts is the value, it refuses *)
(* a text that has been cut off, and otherwise only a value too deep.      *)
(***************************************************************************)
EXTENDS JsonObject, JsonText,
        FiniteSetTheorems, SequenceTheorems, WellFoundedInduction, TLAPS

(* Arithmetic of the cells, which are 0..(m - 1) in a circle.              *)

\* v % m, for v below 2 * m.
Wrap(v, m) == IF v < m THEN v ELSE v - m

\* How many probes lead from cell a to cell b.
Dist(a, b, m) == IF a <= b THEN b - a ELSE b - a + m

LEMMA Remainder ==
  ASSUME NEW v \in Nat, NEW m \in Nat \ {0}
  PROVE  v % m \in 0..(m - 1)
OBVIOUS

LEMMA Quotient ==
  ASSUME NEW v \in Nat, NEW m \in Nat \ {0}
  PROVE  \E q \in Nat : v = m * q + (v % m)
<1>1. v \div m \in Nat
  OBVIOUS
<1>2. v = m * (v \div m) + (v % m)
  OBVIOUS
<1> QED
  BY <1>1, <1>2

LEMMA RemainderOf ==
  ASSUME NEW m \in Nat \ {0}, NEW q \in Nat, NEW r \in 0..(m - 1)
  PROVE  (m * q + r) % m = r
OBVIOUS

LEMMA ProbeWraps ==
  ASSUME NEW v \in Nat, NEW m \in Nat \ {0}, NEW i \in 0..(m - 1)
  PROVE  (v + i) % m = Wrap((v % m) + i, m)
<1> DEFINE r == v % m
<1>1. r \in 0..(m - 1)
  BY Remainder
<1>2. PICK q \in Nat : v = m * q + r
  BY Quotient
<1> HIDE DEF r
<1>3. CASE r + i < m
  <2>1. v + i = m * q + (r + i) /\ r + i \in 0..(m - 1)
    BY <1>1, <1>2, <1>3
  <2>2. (m * q + (r + i)) % m = r + i
    BY <2>1, RemainderOf
  <2> QED
    BY <2>1, <2>2, <1>3 DEF Wrap, r
<1>4. CASE r + i >= m
  <2>1. v + i = m * (q + 1) + (r + i - m) /\ r + i - m \in 0..(m - 1) /\ q + 1 \in Nat
    BY <1>1, <1>2, <1>4
  <2>2. (m * (q + 1) + (r + i - m)) % m = r + i - m
    BY <2>1, RemainderOf
  <2> QED
    BY <2>1, <2>2, <1>4, <1>1 DEF Wrap, r
<1> QED
  BY <1>1, <1>3, <1>4

LEMMA WrapDist ==
  ASSUME NEW m \in Nat \ {0}, NEW a \in 0..(m - 1)
  PROVE  /\ \A b \in 0..(m - 1) : Dist(a, b, m) \in 0..(m - 1) /\ Wrap(a + Dist(a, b, m), m) = b
         /\ \A i \in 0..(m - 1) : Wrap(a + i, m) \in 0..(m - 1) /\ Dist(a, Wrap(a + i, m), m) = i
BY DEF Wrap, Dist

LEMMA DistInjective ==
  ASSUME NEW m \in Nat \ {0}, NEW a \in 0..(m - 1), NEW b \in 0..(m - 1), NEW c \in 0..(m - 1),
         Dist(a, b, m) = Dist(a, c, m)
  PROVE  b = c
BY DEF Dist

LEMMA MayMoveIs ==
  ASSUME NEW m \in Nat \ {0}, NEW i \in 0..(m - 1), NEW j \in 0..(m - 1), NEW k \in 0..(m - 1), i # j
  PROVE  MayMove(i, j, k) <=> Dist(k, i, m) < Dist(k, j, m)
BY DEF MayMove, Dist

LEMMA NextCellIs ==
  ASSUME NEW m \in Nat, m >= 2, NEW i \in 0..(m - 1), NEW j \in 0..(m - 1)
  PROVE  /\ (j + 1) % m \in 0..(m - 1)
         /\ Dist(i, j, m) < m - 1 => Dist(i, (j + 1) % m, m) = Dist(i, j, m) + 1
<1>1. j \in Nat /\ 1 \in 0..(m - 1) /\ m \in Nat \ {0}
  OBVIOUS
<1>2. (j + 1) % m = Wrap((j % m) + 1, m)
  BY <1>1, ProbeWraps
<1>3. j % m = j
  OBVIOUS
<1> QED
  BY <1>2, <1>3 DEF Wrap, Dist

LEMMA RoomGrows ==
  ASSUME NEW m \in Nat, NEW k \in Nat, k >= 2, k >= 2 * m, m = 0 \/ m >= 2
  PROVE  (m * 7) \div 10 < (k * 7) \div 10
OBVIOUS

LEMMA RoomIsLess ==
  ASSUME NEW m \in Nat
  PROVE  /\ (m * 7) \div 10 \in Nat
         /\ m > 0 => (m * 7) \div 10 < m
OBVIOUS

-----------------------------------------------------------------------------
(* Tables.                                                                 *)

Pair == [name : Names, value : Values, cell_ix : Nat]

TableType(t, m) == t \in [pairs : Seq(Pair), cells : [0..(m - 1) -> Nat]]

\* Pairs and cells name each other.
Indexed(t, m) ==
  /\ \A x \in 1..Len(t.pairs) :
       t.pairs[x].cell_ix \in 0..(m - 1) /\ t.cells[t.pairs[x].cell_ix] = x
  /\ \A c \in 0..(m - 1) :
       t.cells[c] # 0 => t.cells[c] \in 1..Len(t.pairs) /\ t.pairs[t.cells[c]].cell_ix = c

\* No name is there twice, nor is a value.
Distinct(t) ==
  \A x, y \in 1..Len(t.pairs) :
    t.pairs[x].name = t.pairs[y].name \/ t.pairs[x].value = t.pairs[y].value => x = y

\* The probes for the name of pair x meet cell c before they meet its own.
Before(h, t, m, x, c) ==
  LET k == h[t.pairs[x].name] % m
  IN  Dist(k, c, m) < Dist(k, t.pairs[x].cell_ix, m)

\* The search for a name that is there is not stopped by a free cell.
Reached(h, t, m) ==
  \A x \in 1..Len(t.pairs), c \in 0..(m - 1) : Before(h, t, m, x, c) => t.cells[c] # 0

\* How many pairs a table of m cells takes.
Room(m) == (m * 7) \div 10

\* The object starts with no cells and never has just one.
Sized(m) == m \in Nat /\ (m = 0 \/ m >= 2)

\* A table as it is between the calls.
Table(h, t, m) ==
  /\ Sized(m)
  /\ TableType(t, m)
  /\ Indexed(t, m)
  /\ Distinct(t)
  /\ Reached(h, t, m)
  /\ Len(t.pairs) <= Room(m)

LEMMA Capacity ==
  ASSUME NEW m \in Nat, NEW t, TableType(t, m)
  PROVE  cell_capacity(t) = m /\ DOMAIN t.cells = 0..(m - 1)
<1>1. DOMAIN t.cells = 0..(m - 1)
  BY DEF TableType
<1>2. Cardinality(0..(m - 1)) = m
  BY FS_Interval
<1> QED
  BY <1>1, <1>2 DEF cell_capacity

\* With fewer pairs than cells, a cell is free.
LEMMA HasFree ==
  ASSUME NEW m \in Nat, NEW t, TableType(t, m), Indexed(t, m), Len(t.pairs) < m
  PROVE  \E c \in 0..(m - 1) : t.cells[c] = 0
<1> SUFFICES ASSUME \A c \in 0..(m - 1) : t.cells[c] # 0
             PROVE  FALSE
  OBVIOUS
<1> DEFINE n == Len(t.pairs)
<1>0. n \in Nat
  BY DEF TableType
<1>1. t.cells \in [0..(m - 1) -> 1..n]
  BY DEF TableType, Indexed
<1>2. \A c, d \in 0..(m - 1) : t.cells[c] = t.cells[d] => c = d
  BY DEF Indexed
<1>3. t.cells \in Injection(0..(m - 1), 1..n)
  BY <1>1, <1>2 DEF Injection, IsInjective
<1> HIDE DEF n
<1>4. IsFiniteSet(1..n) /\ Cardinality(1..n) = n /\ Cardinality(0..(m - 1)) = m
  <2>0. n \in Int /\ 1 \in Int
    BY <1>0
  <2>1. IsFiniteSet(1..n) /\ Cardinality(1..n) = IF 1 > n THEN 0 ELSE n - 1 + 1
    BY <2>0, FS_Interval
  <2>2. Cardinality(0..(m - 1)) = IF 0 > m - 1 THEN 0 ELSE m - 1 - 0 + 1
    BY FS_Interval
  <2> QED
    BY <2>1, <2>2, <1>0
<1>5. Cardinality(0..(m - 1)) <= Cardinality(1..n)
  BY <1>3, <1>4, FS_Injection
<1> QED
  BY <1>4, <1>5, <1>0 DEF n

LEMMA Least ==
  ASSUME NEW S, S \subseteq Nat, S # {}
  PROVE  \E m \in S : \A k \in S : m <= k
<1>1. PICK R : IsWellFoundedOn(R, Nat) /\ R = {ss \in Nat \X Nat : ss[1] < ss[2]}
  BY NatLessThanWellFounded, Zenon DEF OpToRel
<1>2. PICK m \in S : \A k \in S : ~(<<k, m>> \in R)
  BY <1>1, WFMin
<1>3. \A k \in S : ~(k < m)
  BY <1>1, <1>2
<1> QED
  BY <1>2, <1>3

LEMMA MinIsLeast ==
  ASSUME NEW S, S \subseteq Nat, S # {}
  PROVE  Min(S) \in S /\ \A k \in S : Min(S) <= k
<1>1. \E m \in S : \A k \in S : m <= k
  BY Least
<1> QED
  BY <1>1 DEF Min

\* Where the search for n ends, and what it has passed.
\* get_cell_ix returns the first cell on the way that is free or has the name.
LEMMA SearchEnds ==
  ASSUME NEW m \in Nat \ {0}, NEW t, TableType(t, m), NEW n \in Names, hash[n] \in Nat,
         \E c \in 0..(m - 1) : t.cells[c] = 0 \/ Holds(t, c, n)
  PROVE  LET k == hash[n] % m
             g == get_cell_ix(t, n)
         IN  /\ k \in 0..(m - 1) /\ g \in 0..(m - 1)
             /\ t.cells[g] = 0 \/ Holds(t, g, n)
             /\ \A c \in 0..(m - 1) :
                  Dist(k, c, m) < Dist(k, g, m) => t.cells[c] # 0 /\ ~Holds(t, c, n)
<1> DEFINE k == hash[n] % m
           Stops(c) == t.cells[c] = 0 \/ Holds(t, c, n)
           S == {i \in 0..(m - 1) : Stops(Wrap(k + i, m))}
           g == Wrap(k + Min(S), m)
<1>1. k \in 0..(m - 1)
  BY Remainder
<1>2. \A i \in 0..(m - 1) : Probe(t, n, i) = Wrap(k + i, m)
  BY ProbeWraps, Capacity DEF Probe, hash_string
<1>3. S = {i \in 0..(cell_capacity(t) - 1) :
             t.cells[Probe(t, n, i)] = OBJECT_INVALID_IX \/ Holds(t, Probe(t, n, i), n)}
  BY <1>2, Capacity DEF OBJECT_INVALID_IX
<1>4. PICK d \in 0..(m - 1) : Stops(d)
  OBVIOUS
<1>5. S # {}
  <2>1. Dist(k, d, m) \in 0..(m - 1) /\ Wrap(k + Dist(k, d, m), m) = d
    BY <1>1, WrapDist
  <2>2. Dist(k, d, m) \in S
    BY <2>1, <1>4
  <2> QED
    BY <2>2
<1>6. Min(S) \in S /\ \A i \in S : Min(S) <= i
  <2>1. S \subseteq Nat
    OBVIOUS
  <2> HIDE DEF S
  <2> QED
    BY <2>1, <1>5, MinIsLeast
<1>7. get_cell_ix(t, n) = g
  <2>1. get_cell_ix(t, n) = Probe(t, n, Min(S))
    BY <1>3 DEF get_cell_ix
  <2>2. Min(S) \in 0..(m - 1)
    BY <1>6
  <2> HIDE DEF S
  <2> QED
    BY <2>1, <2>2, <1>2
<1>8. Min(S) \in 0..(m - 1) /\ Stops(g) /\ \A i \in 0..(m - 1) : Stops(Wrap(k + i, m)) => Min(S) <= i
  BY <1>6
<1> DEFINE least == Min(S)
<1>8a. /\ least \in 0..(m - 1) /\ g = Wrap(k + least, m) /\ Stops(g)
       /\ \A i \in 0..(m - 1) : Stops(Wrap(k + i, m)) => least <= i
  BY <1>8
<1> HIDE DEF least, S, k, g, Stops
<1>9. g \in 0..(m - 1) /\ Dist(k, g, m) = least
  BY <1>1, <1>8a, WrapDist
<1>10. ASSUME NEW c \in 0..(m - 1), Dist(k, c, m) < Dist(k, g, m)
       PROVE  ~Stops(c)
  <2>1. Dist(k, c, m) \in 0..(m - 1) /\ Wrap(k + Dist(k, c, m), m) = c
    BY <1>1, WrapDist
  <2> QED
    BY <2>1, <1>8a, <1>9, <1>10
<1> QED
  BY <1>1, <1>7, <1>8a, <1>9, <1>10 DEF k, Stops

-----------------------------------------------------------------------------
(* Searching a table.                                                      *)

Hashes == hash \in [Names -> Nat]

LEMMA TableFacts ==
  ASSUME NEW m, NEW t, NEW h, Table(h, t, m)
  PROVE  /\ m \in Nat /\ (m = 0 \/ m >= 2)
         /\ Len(t.pairs) \in Nat /\ DOMAIN t.pairs = 1..Len(t.pairs)
         /\ \A x \in 1..Len(t.pairs) :
              t.pairs[x] \in Pair /\ t.pairs[x].name \in Names /\ t.pairs[x].value \in Values
         /\ t.cells \in [0..(m - 1) -> Nat]
         /\ cell_capacity(t) = m /\ DOMAIN t.cells = 0..(m - 1)
         /\ Len(t.pairs) <= Room(m) /\ Room(m) \in Nat /\ (m > 0 => Room(m) < m) /\ (m = 0 => Room(m) = 0)
         /\ item_capacity(t) = Room(m)
<1>1. m \in Nat /\ (m = 0 \/ m >= 2) /\ TableType(t, m) /\ Len(t.pairs) <= Room(m)
  BY DEF Table, Sized
<1>2. cell_capacity(t) = m /\ DOMAIN t.cells = 0..(m - 1)
  BY <1>1, Capacity
<1>3. Room(m) \in Nat /\ (m > 0 => Room(m) < m) /\ (m = 0 => Room(m) = 0)
  BY <1>1, RoomIsLess DEF Room
<1>4. t.pairs \in Seq(Pair) /\ t.cells \in [0..(m - 1) -> Nat]
  BY <1>1 DEF TableType
<1>5. /\ Len(t.pairs) \in Nat /\ DOMAIN t.pairs = 1..Len(t.pairs)
      /\ \A x \in 1..Len(t.pairs) : t.pairs[x] \in Pair
  BY <1>4
<1>6. \A x \in 1..Len(t.pairs) : t.pairs[x].name \in Names /\ t.pairs[x].value \in Values
  BY <1>5 DEF Pair
<1>7. item_capacity(t) = Room(m)
  BY <1>2 DEF item_capacity, Room
<1> QED
  BY <1>1, <1>2, <1>3, <1>4, <1>5, <1>6, <1>7

\* Where a search ends, whether the name is there or not.
LEMMA Search ==
  ASSUME NEW m, NEW t, Table(hash, t, m), m > 0, Hashes, NEW n \in Names
  PROVE  LET k == hash[n] % m
             g == get_cell_ix(t, n)
         IN  /\ g \in 0..(m - 1)
             /\ t.cells[g] = 0 \/ Holds(t, g, n)
             /\ \A c \in 0..(m - 1) : Dist(k, c, m) < Dist(k, g, m) => t.cells[c] # 0
             /\ \A x \in 1..Len(t.pairs) : t.pairs[x].name = n => t.cells[g] = x /\ Holds(t, g, n)
             /\ Found(t, n) <=> Holds(t, g, n)
<1> DEFINE k == hash[n] % m
           g == get_cell_ix(t, n)
<1>1. /\ m \in Nat \ {0} /\ TableType(t, m) /\ Indexed(t, m) /\ Len(t.pairs) < m
      /\ Distinct(t) /\ Reached(hash, t, m) /\ hash[n] \in Nat
      /\ DOMAIN t.cells = 0..(m - 1) /\ t.cells \in [0..(m - 1) -> Nat]
  BY TableFacts DEF Table, Hashes
<1>2. \E c \in 0..(m - 1) : t.cells[c] = 0
  BY <1>1, HasFree
<1>3. \E c \in 0..(m - 1) : t.cells[c] = 0 \/ Holds(t, c, n)
  BY <1>2
<1>4. /\ k \in 0..(m - 1) /\ g \in 0..(m - 1)
      /\ t.cells[g] = 0 \/ Holds(t, g, n)
      /\ \A c \in 0..(m - 1) :
           Dist(k, c, m) < Dist(k, g, m) => t.cells[c] # 0 /\ ~Holds(t, c, n)
  BY <1>1, <1>3, SearchEnds
<1>5. ASSUME NEW x \in 1..Len(t.pairs), t.pairs[x].name = n
      PROVE  t.cells[g] = x /\ Holds(t, g, n)
  <2> DEFINE d == t.pairs[x].cell_ix
  <2>1. d \in 0..(m - 1) /\ t.cells[d] = x /\ x # 0
    BY <1>1 DEF Indexed
  <2>2. Holds(t, d, n)
    BY <2>1, <1>5 DEF Holds, OBJECT_INVALID_IX
  <2>3. ~(Dist(k, d, m) < Dist(k, g, m))
    BY <2>1, <2>2, <1>4
  <2>4. Dist(k, g, m) < Dist(k, d, m) => Before(hash, t, m, x, g)
    BY <1>5 DEF Before
  <2>5. Dist(k, g, m) < Dist(k, d, m) => t.cells[g] # 0
    BY <2>4, <1>1, <1>4 DEF Reached
  <2>6. CASE Dist(k, g, m) < Dist(k, d, m)
    <3>1. Holds(t, g, n) /\ t.cells[g] \in 1..Len(t.pairs)
      BY <2>5, <2>6, <1>4, <1>1 DEF Indexed
    <3>2. t.pairs[t.cells[g]].name = n
      BY <3>1 DEF Holds
    <3> QED
      BY <3>1, <3>2, <1>5, <1>1 DEF Distinct
  <2>7. CASE ~(Dist(k, g, m) < Dist(k, d, m))
    <3>0. Dist(k, g, m) \in 0..(m - 1) /\ Dist(k, d, m) \in 0..(m - 1)
      BY <1>1, <1>4, <2>1, WrapDist
    <3>1. Dist(k, g, m) = Dist(k, d, m)
      BY <2>3, <2>7, <3>0
    <3>2. g = d
      BY <3>1, <1>1, <1>4, <2>1, DistInjective
    <3> QED
      BY <3>2, <2>1, <2>2
  <2> QED
    BY <2>6, <2>7
<1>6. Found(t, n) <=> Holds(t, g, n)
  BY <1>1, <1>2 DEF Found, OBJECT_INVALID_IX
<1> QED
  BY <1>4, <1>5, <1>6

\* A name is found if a pair has it, and then with the value of that pair.
\* It finds the name if a pair has it, and then that pair.
LEMMA FoundIs ==
  ASSUME NEW m, NEW t, Table(hash, t, m), Hashes, NEW n \in Names
  PROVE  /\ Found(t, n) <=> \E x \in 1..Len(t.pairs) : t.pairs[x].name = n
         /\ Found(t, n) => /\ m > 0
                           /\ t.cells[get_cell_ix(t, n)] \in 1..Len(t.pairs)
                           /\ t.pairs[t.cells[get_cell_ix(t, n)]].name = n
                           /\ get_cell_ix(t, n) = t.pairs[t.cells[get_cell_ix(t, n)]].cell_ix
<1>1. CASE m = 0
  <2>1. DOMAIN t.cells = {} /\ 1..Len(t.pairs) = {}
    BY <1>1, TableFacts
  <2> QED
    BY <2>1 DEF Found
<1>2. CASE m > 0
  <2> DEFINE g == get_cell_ix(t, n)
  <2>1. /\ g \in 0..(m - 1)
        /\ \A x \in 1..Len(t.pairs) : t.pairs[x].name = n => t.cells[g] = x /\ Holds(t, g, n)
        /\ Found(t, n) <=> Holds(t, g, n)
    BY <1>2, Search
  <2>2. Holds(t, g, n) => t.cells[g] \in 1..Len(t.pairs) /\ t.pairs[t.cells[g]].cell_ix = g
    BY <2>1 DEF Holds, Table, Indexed, OBJECT_INVALID_IX
  <2>3. Holds(t, g, n) => t.pairs[t.cells[g]].name = n
    BY DEF Holds
  <2> QED
    BY <1>2, <2>1, <2>2, <2>3
<1> QED
  BY <1>1, <1>2, TableFacts

-----------------------------------------------------------------------------
(* Adding a pair.                                                          *)

LEMMA AppendPairs ==
  ASSUME NEW S, NEW s \in Seq(S), NEW e \in S
  PROVE  /\ Append(s, e) \in Seq(S) /\ Len(Append(s, e)) = Len(s) + 1 /\ Len(s) \in Nat
         /\ \A x \in 1..Len(s) : Append(s, e)[x] = s[x]
         /\ Append(s, e)[Len(s) + 1] = e
BY AppendProperties

LEMMA Patched ==
  ASSUME NEW S, NEW T, NEW f \in [S -> T], NEW c, NEW e \in T
  PROVE  [f EXCEPT ![c] = e] \in [S -> T]
OBVIOUS

LEMMA EmptyTable ==
  ASSUME NEW h, NEW m, Sized(m)
  PROVE  Table(h, json_object_init(m), m) /\ json_object_init(m).pairs = <<>>
<1> DEFINE t == json_object_init(m)
<1>1. t.pairs = <<>> /\ Len(t.pairs) = 0 /\ t.cells = [c \in 0..(m - 1) |-> 0]
  BY DEF json_object_init, OBJECT_INVALID_IX
<1>2. m \in Nat /\ Room(m) \in Nat
  BY RoomIsLess DEF Sized, Room
<1>3. TableType(t, m)
  BY <1>1, <1>2 DEF TableType, json_object_init, OBJECT_INVALID_IX
<1> HIDE DEF t
<1>4. Indexed(t, m) /\ Distinct(t) /\ Reached(h, t, m) /\ Len(t.pairs) <= Room(m)
  BY <1>1, <1>2 DEF Indexed, Distinct, Reached
<1> QED
  BY <1>1, <1>3, <1>4 DEF Table, t

\* A table with room, and without this name and value, is a table with them.
LEMMA Placed ==
  ASSUME NEW m, NEW t, Table(hash, t, m), Hashes, NEW n \in Names, NEW v \in Values,
         Len(t.pairs) < Room(m),
         \A x \in 1..Len(t.pairs) : t.pairs[x].name # n /\ t.pairs[x].value # v
  PROVE  LET u == Place(t, n, v)
         IN  /\ Table(hash, u, m)
             /\ Len(u.pairs) = Len(t.pairs) + 1
             /\ \A x \in 1..Len(t.pairs) :
                  u.pairs[x].name = t.pairs[x].name /\ u.pairs[x].value = t.pairs[x].value
             /\ u.pairs[Len(t.pairs) + 1].name = n /\ u.pairs[Len(t.pairs) + 1].value = v
<1> DEFINE g == get_cell_ix(t, n)
           k == hash[n] % m
           p == [name |-> n, value |-> v, cell_ix |-> g]
           l == Len(t.pairs)
           u == Place(t, n, v)
<1>1. /\ m \in Nat /\ m > 0 /\ l \in Nat /\ l < Room(m) /\ t.cells \in [0..(m - 1) -> Nat]
      /\ t \in [pairs : Seq(Pair), cells : [0..(m - 1) -> Nat]]
      /\ Sized(m) /\ Indexed(t, m) /\ Distinct(t) /\ Reached(hash, t, m)
  BY TableFacts DEF Table, TableType
<1>2. /\ g \in 0..(m - 1) /\ t.cells[g] = 0
      /\ \A c \in 0..(m - 1) : Dist(k, c, m) < Dist(k, g, m) => t.cells[c] # 0
  <2>1. ~Holds(t, g, n)
    BY <1>1, FoundIs, Search
  <2> QED
    BY <2>1, <1>1, Search
<1>3. p \in Pair
  BY <1>2, <1>1 DEF Pair
<1>4. u.pairs = Append(t.pairs, p) /\ u.cells = [t.cells EXCEPT ![g] = l + 1]
  BY DEF Place, count
<1>5. u = [pairs |-> Append(t.pairs, p), cells |-> [t.cells EXCEPT ![g] = l + 1]]
  BY DEF Place, count
<1>6. /\ Append(t.pairs, p) \in Seq(Pair) /\ Len(u.pairs) = l + 1
      /\ \A x \in 1..l : u.pairs[x] = t.pairs[x]
      /\ u.pairs[l + 1] = p
  BY <1>1, <1>3, <1>4, AppendPairs
<1>7. TableType(u, m)
  <2>1. l + 1 \in Nat /\ t.cells \in [0..(m - 1) -> Nat]
    BY <1>1
  <2>2. [t.cells EXCEPT ![g] = l + 1] \in [0..(m - 1) -> Nat]
    BY <2>1, Patched
  <2> QED
    BY <1>5, <1>6, <2>2 DEF TableType
<1>8. /\ u.cells[g] = l + 1
      /\ \A c \in 0..(m - 1) : c # g => u.cells[c] = t.cells[c]
  BY <1>4, <1>1, <1>2
<1> HIDE DEF u
<1>9. u.pairs[l + 1].name = n /\ u.pairs[l + 1].value = v /\ u.pairs[l + 1].cell_ix = g
  BY <1>6
<1>9a. \A x \in 1..(l + 1) : x \in 1..l \/ x = l + 1
  BY <1>1
<1> HIDE DEF p, g, k, l
<1>10. Indexed(u, m)
  <2>1. ASSUME NEW x \in 1..(l + 1)
        PROVE  u.pairs[x].cell_ix \in 0..(m - 1) /\ u.cells[u.pairs[x].cell_ix] = x
    <3>1. CASE x = l + 1
      BY <3>1, <1>9, <1>8, <1>2
    <3>2. CASE x \in 1..l
      <4>1. /\ u.pairs[x].cell_ix = t.pairs[x].cell_ix
            /\ t.pairs[x].cell_ix \in 0..(m - 1) /\ t.cells[t.pairs[x].cell_ix] = x /\ x # 0
        BY <3>2, <1>6, <1>1 DEF Indexed, l
      <4> QED
        BY <4>1, <1>2, <1>8
    <3> QED
      BY <3>1, <3>2, <1>9a
  <2>2. ASSUME NEW c \in 0..(m - 1), u.cells[c] # 0
        PROVE  u.cells[c] \in 1..(l + 1) /\ u.pairs[u.cells[c]].cell_ix = c
    <3>1. CASE c = g
      BY <3>1, <1>8, <1>9, <1>1
    <3>2. CASE c # g
      <4>1. u.cells[c] = t.cells[c] /\ t.cells[c] \in 1..l /\ t.pairs[t.cells[c]].cell_ix = c
        BY <3>2, <2>2, <1>8, <1>1 DEF Indexed, l
      <4> QED
        BY <4>1, <1>6, <1>1
    <3> QED
      BY <3>1, <3>2
  <2> QED
    BY <2>1, <2>2, <1>6 DEF Indexed
<1>11. Distinct(u)
  <2>1. \A x \in 1..l : /\ u.pairs[x].name = t.pairs[x].name /\ u.pairs[x].value = t.pairs[x].value
                        /\ t.pairs[x].name # n /\ t.pairs[x].value # v
    BY <1>6 DEF l
  <2>2. \A x, y \in 1..l : t.pairs[x].name = t.pairs[y].name \/ t.pairs[x].value = t.pairs[y].value => x = y
    BY <1>1 DEF Distinct, l
  <2> QED
    BY <2>1, <2>2, <1>6, <1>9, <1>9a DEF Distinct
<1>12. Reached(hash, u, m)
  <2> SUFFICES ASSUME NEW x \in 1..(l + 1), NEW c \in 0..(m - 1), Before(hash, u, m, x, c)
               PROVE  u.cells[c] # 0
    BY <1>6 DEF Reached
  <2>1. CASE c = g
    BY <2>1, <1>8, <1>1
  <2>2. CASE c # g /\ x = l + 1
    <3>1. Dist(k, c, m) < Dist(k, g, m)
      BY <2>2, <1>9 DEF Before, k
    <3> QED
      BY <3>1, <1>2, <1>8, <2>2
  <2>3. CASE c # g /\ x \in 1..l
    <3>1. Before(hash, t, m, x, c)
      BY <2>3, <1>6 DEF Before
    <3>2. t.cells[c] # 0
      BY <3>1, <2>3, <1>1 DEF Reached, l
    <3> QED
      BY <3>2, <1>8, <2>3
  <2> QED
    BY <2>1, <2>2, <2>3, <1>9a
<1>13. Len(u.pairs) <= Room(m)
  BY <1>6, <1>1, TableFacts
<1>14. Table(hash, u, m)
  BY <1>1, <1>7, <1>10, <1>11, <1>12, <1>13 DEF Table
<1> QED
  BY <1>14, <1>6, <1>9 DEF u, l

-----------------------------------------------------------------------------
(* Removing a pair, and shifting those behind it.                          *)

\* The table without the entry that is left over in the hole.
Emptied(t, i) == [t EXCEPT !.cells[i] = 0]

\* A table while it is shifted.  The cells from the hole l.i to l.j have been
\* looked at; pairs in them that are left would be found with the hole empty,
\* and the others miss it at most.  A free cell f further on ends the shift.
Shifting(h, t, m, l) ==
  LET u == Emptied(t, l.i)
  IN  /\ Sized(m) /\ m > 0
      /\ l.i \in 0..(m - 1) /\ l.j \in 0..(m - 1) /\ l.x \in Nat
      /\ TableType(t, m)
      /\ Indexed(u, m)
      /\ Distinct(u)
      /\ Len(u.pairs) <= Room(m)
      /\ \A x \in 1..Len(u.pairs), c \in 0..(m - 1) :
           Before(h, u, m, x, c)
             => u.cells[c] # 0 \/ (c = l.i /\ Dist(l.i, l.j, m) < Dist(l.i, u.pairs[x].cell_ix, m))
      /\ \E f \in 0..(m - 1) :
           u.cells[f] = 0 /\ Dist(l.i, l.j, m) < Dist(l.i, f, m) /\ l.x + Dist(l.j, f, m) <= m - 1

LEMMA EmptiedIs ==
  ASSUME NEW m \in Nat, NEW t, TableType(t, m), NEW i \in 0..(m - 1)
  PROVE  /\ TableType(Emptied(t, i), m)
         /\ Emptied(t, i).pairs = t.pairs
         /\ Emptied(t, i).cells[i] = 0
         /\ \A c \in 0..(m - 1) : c # i => Emptied(t, i).cells[c] = t.cells[c]
BY DEF TableType, Emptied

LEMMA CutLast ==
  ASSUME NEW S, NEW s \in Seq(S), Len(s) > 0, NEW y \in 1..Len(s)
  PROVE  LET q == SubSeq([s EXCEPT ![y] = s[Len(s)]], 1, Len(s) - 1)
         IN  /\ q \in Seq(S) /\ Len(q) = Len(s) - 1
             /\ \A x \in 1..(Len(s) - 1) : q[x] = IF x = y THEN s[Len(s)] ELSE s[x]
<1> DEFINE r == [s EXCEPT ![y] = s[Len(s)]]
<1>1. /\ r \in Seq(S) /\ Len(r) = Len(s) /\ Len(s) \in Nat
      /\ \A x \in 1..Len(s) : r[x] = IF x = y THEN s[Len(s)] ELSE s[x]
  BY ExceptSeq
<1> HIDE DEF r
<1>2. /\ SubSeq(r, 1, Len(s) - 1) \in Seq(S)
      /\ Len(SubSeq(r, 1, Len(s) - 1)) = Len(s) - 1
      /\ \A x \in 1..(Len(s) - 1) : SubSeq(r, 1, Len(s) - 1)[x] = r[x]
  BY <1>1, SubSeqProperties
<1> QED
  BY <1>1, <1>2 DEF r

LEMMA DistPositive ==
  ASSUME NEW m \in Nat \ {0}, NEW a \in 0..(m - 1), NEW b \in 0..(m - 1), a # b
  PROVE  /\ Dist(a, a, m) = 0 /\ Dist(a, b, m) \in 1..(m - 1)
         /\ Dist(a, a, m) < Dist(a, b, m) /\ 0 + Dist(a, b, m) <= m - 1
BY DEF Dist

\* Filling the gap in a table leaves the cell of the removed pair as a hole.
LEMMA RemovalStarts ==
  ASSUME NEW h, NEW m, NEW t, Table(h, t, m), NEW y \in 1..Len(t.pairs),
         NEW loops, loops.i = t.pairs[y].cell_ix, loops.j = loops.i, loops.x = 0
  PROVE  LET u == FillGap(t, y)
         IN  /\ Shifting(h, u, m, loops)
             /\ Len(u.pairs) = Len(t.pairs) - 1
             /\ \A x \in 1..(Len(t.pairs) - 1) :
                  u.pairs[x] = IF x = y THEN t.pairs[Len(t.pairs)] ELSE t.pairs[x]
<1> DEFINE last == Len(t.pairs)
           p == t.pairs[last]
           i == t.pairs[y].cell_ix
           u == FillGap(t, y)
           w == Emptied(u, i)
<1>1. /\ m \in Nat /\ Sized(m) /\ Len(t.pairs) \in Nat /\ Len(t.pairs) <= Room(m)
      /\ t.cells \in [0..(m - 1) -> Nat] /\ t.pairs \in Seq(Pair) /\ TableType(t, m)
      /\ Indexed(t, m) /\ Distinct(t) /\ Reached(h, t, m) /\ Room(m) \in Nat
      /\ m > 0 => Room(m) < m
  BY TableFacts DEF Table, TableType
<1>2. i \in 0..(m - 1) /\ t.cells[i] = y /\ p.cell_ix \in 0..(m - 1) /\ t.cells[p.cell_ix] = last
  <2>1. \A x \in 1..Len(t.pairs) :
          t.pairs[x].cell_ix \in 0..(m - 1) /\ t.cells[t.pairs[x].cell_ix] = x
    BY <1>1 DEF Indexed
  <2>2. last \in 1..Len(t.pairs)
    BY <1>1
  <2> QED
    BY <2>1, <2>2
<1>3. m > 0 /\ last > 0 /\ last < m
  <2>1. last \in Nat /\ y \in 1..last /\ last <= Room(m)
    BY <1>1
  <2> HIDE DEF last, p, u, w
  <2>2. last > 0
    BY <2>1
  <2>3. m > 0
    BY <1>1, <1>2
  <2>4. Room(m) < m /\ Room(m) \in Nat
    BY <1>1, <2>3
  <2> QED
    BY <1>1, <2>1, <2>2, <2>3, <2>4
<1>4. /\ u.pairs \in Seq(Pair) /\ Len(u.pairs) = last - 1
      /\ \A x \in 1..(last - 1) : u.pairs[x] = IF x = y THEN p ELSE t.pairs[x]
  BY <1>1, <1>3, CutLast DEF FillGap, count
<1>5. u.cells = IF y < last THEN [t.cells EXCEPT ![p.cell_ix] = y] ELSE t.cells
  BY DEF FillGap, count
<1>6. u.cells \in [0..(m - 1) -> Nat]
  <2>0. y \in Nat /\ t.cells \in [0..(m - 1) -> Nat]
    BY <1>1
  <2>1. [t.cells EXCEPT ![p.cell_ix] = y] \in [0..(m - 1) -> Nat]
    BY <2>0, Patched
  <2> QED
    BY <2>1, <1>5, <1>1
<1>7. TableType(u, m)
  <2>1. u = [pairs |-> u.pairs, cells |-> u.cells]
    BY DEF FillGap
  <2> HIDE DEF u
  <2> QED
    BY <2>1, <1>4, <1>6 DEF TableType
<1> HIDE DEF u
<1>8. /\ w.pairs = u.pairs /\ w.cells[i] = 0
      /\ \A c \in 0..(m - 1) : c # i => w.cells[c] = u.cells[c]
  <2>1. m \in Nat /\ i \in 0..(m - 1)
    BY <1>1, <1>2
  <2> HIDE DEF i
  <2> QED
    BY <2>1, <1>7, EmptiedIs
<1>9. \A c \in 0..(m - 1) :
        c # i => w.cells[c] = IF y < last /\ c = p.cell_ix THEN y ELSE t.cells[c]
  BY <1>5, <1>8, <1>1
<1>10. y # last => p.cell_ix # i
  BY <1>2
<1>11. /\ Len(w.pairs) = last - 1
       /\ \A x \in 1..(last - 1) : w.pairs[x] = IF x = y THEN p ELSE t.pairs[x]
  BY <1>4, <1>8
<1>12. \A x \in 1..(last - 1) : w.pairs[x] = t.pairs[IF x = y THEN last ELSE x]
  BY <1>11
<1>13. \A x \in 1..last : /\ t.pairs[x].cell_ix \in 0..(m - 1) /\ t.cells[t.pairs[x].cell_ix] = x
  BY <1>1 DEF Indexed
<1>14. \A c \in 0..(m - 1) : t.cells[c] # 0 => t.cells[c] \in 1..last /\ t.pairs[t.cells[c]].cell_ix = c
  BY <1>1 DEF Indexed
<1>15. y \in 1..last
  OBVIOUS
<1> HIDE DEF last, p, i, u, w
<1>15a. m \in Nat \ {0} /\ i \in 0..(m - 1)
  BY <1>1, <1>2, <1>3
<1>16. p = t.pairs[last] /\ last \in Nat
  BY <1>1 DEF p, last
<1>17. Indexed(w, m)
  <2>1. ASSUME NEW x \in 1..(last - 1)
        PROVE  w.pairs[x].cell_ix \in 0..(m - 1) /\ w.cells[w.pairs[x].cell_ix] = x
    <3>1. CASE x = y
      <4>1. w.pairs[x].cell_ix = p.cell_ix /\ y < last
        BY <3>1, <1>11, <1>15, <1>16
      <4> QED
        BY <4>1, <3>1, <1>2, <1>9, <1>10
    <3>2. CASE x # y
      <4>1. /\ w.pairs[x] = t.pairs[x] /\ x \in 1..last /\ x # last
            /\ t.pairs[x].cell_ix \in 0..(m - 1) /\ t.cells[t.pairs[x].cell_ix] = x
        BY <3>2, <1>11, <1>13, <1>16
      <4>2. t.pairs[x].cell_ix # i /\ t.pairs[x].cell_ix # p.cell_ix
        BY <4>1, <3>2, <1>2
      <4> QED
        BY <4>1, <4>2, <1>9
    <3> QED
      BY <3>1, <3>2
  <2>2. ASSUME NEW c \in 0..(m - 1), w.cells[c] # 0
        PROVE  w.cells[c] \in 1..(last - 1) /\ w.pairs[w.cells[c]].cell_ix = c
    <3>1. c # i
      BY <2>2, <1>8
    <3>2. CASE y < last /\ c = p.cell_ix
      <4>1. w.cells[c] = y /\ y \in 1..(last - 1)
        BY <3>1, <3>2, <1>9, <1>15, <1>16
      <4> QED
        BY <4>1, <3>2, <1>11
    <3>3. CASE ~(y < last /\ c = p.cell_ix)
      <4>1. w.cells[c] = t.cells[c]
        BY <3>1, <3>3, <1>9
      <4>2. t.cells[c] \in 1..last /\ t.pairs[t.cells[c]].cell_ix = c
        BY <4>1, <2>2, <1>14
      <4>3. t.cells[c] # y
        BY <4>2, <3>1 DEF i
      <4>4. t.cells[c] # last
        BY <4>2, <4>3, <3>3, <1>15, <1>16
      <4>5. t.cells[c] \in 1..(last - 1)
        BY <4>2, <4>4, <1>16
      <4> QED
        BY <4>1, <4>2, <4>3, <4>5, <1>11
    <3> QED
      BY <3>2, <3>3
  <2> QED
    BY <2>1, <2>2, <1>11 DEF Indexed
<1>18. Distinct(w)
  <2> SUFFICES ASSUME NEW x1 \in 1..(last - 1), NEW x2 \in 1..(last - 1),
                      w.pairs[x1].name = w.pairs[x2].name \/ w.pairs[x1].value = w.pairs[x2].value
               PROVE  x1 = x2
    BY <1>11 DEF Distinct
  <2> DEFINE y1 == IF x1 = y THEN last ELSE x1
             y2 == IF x2 = y THEN last ELSE x2
  <2>1. y1 \in 1..last /\ y2 \in 1..last /\ w.pairs[x1] = t.pairs[y1] /\ w.pairs[x2] = t.pairs[y2]
    BY <1>12, <1>16, <1>15
  <2>2. y1 = y2
    <3> HIDE DEF y1, y2
    <3> QED
      BY <2>1, <1>1 DEF Distinct, last
  <2> QED
    BY <2>2, <1>16
<1>19. ASSUME NEW x \in 1..Len(w.pairs), NEW c \in 0..(m - 1), Before(h, w, m, x, c)
       PROVE  w.cells[c] # 0 \/ (c = i /\ Dist(i, i, m) < Dist(i, w.pairs[x].cell_ix, m))
  <2> DEFINE z == IF x = y THEN last ELSE x
  <2>1. x \in 1..(last - 1) /\ z \in 1..last /\ w.pairs[x] = t.pairs[z] /\ z # y
    BY <1>11, <1>12, <1>15, <1>16
  <2> HIDE DEF z
  <2>2. Before(h, t, m, z, c)
    BY <2>1, <1>19 DEF Before
  <2>3. t.cells[c] # 0
    BY <2>1, <2>2, <1>1 DEF Reached, last
  <2>4. CASE c = i
    <3>1. t.pairs[z].cell_ix \in 0..(m - 1) /\ t.pairs[z].cell_ix # i
      BY <2>1, <1>13, <1>2
    <3>2. Dist(i, i, m) < Dist(i, t.pairs[z].cell_ix, m)
      BY <3>1, <1>15a, DistPositive
    <3> QED
      BY <3>2, <2>4, <2>1
  <2>5. CASE c # i
    <3>1. w.cells[c] = IF y < last /\ c = p.cell_ix THEN y ELSE t.cells[c]
      BY <2>5, <1>9
    <3>2. y # 0
      BY <1>15, <1>16
    <3> QED
      BY <2>3, <3>1, <3>2
  <2> QED
    BY <2>4, <2>5
<1>20. \E f \in 0..(m - 1) :
         w.cells[f] = 0 /\ Dist(i, i, m) < Dist(i, f, m) /\ 0 + Dist(i, f, m) <= m - 1
  <2>1. PICK f \in 0..(m - 1) : t.cells[f] = 0
    BY <1>1, <1>3, HasFree DEF last
  <2>2. f # i /\ f # p.cell_ix
    BY <2>1, <1>2, <1>15, <1>3
  <2>3. w.cells[f] = 0
    BY <2>1, <2>2, <1>9
  <2>4. Dist(i, i, m) < Dist(i, f, m) /\ 0 + Dist(i, f, m) <= m - 1
    BY <2>2, <1>1, <1>2, <1>3, DistPositive
  <2> QED
    BY <2>3, <2>4
<1>21. loops.i = i /\ loops.j = i /\ loops.x = 0
  BY DEF i
<1>22. Len(w.pairs) <= Room(m)
  BY <1>1, <1>11, <1>16 DEF last
<1>23. Shifting(h, u, m, loops)
  <2>1. w = Emptied(u, loops.i)
    BY <1>21 DEF w
  <2>2. loops.i \in 0..(m - 1) /\ loops.j \in 0..(m - 1) /\ loops.x \in Nat
    BY <1>2, <1>21
  <2>3. \A x \in 1..Len(w.pairs), c \in 0..(m - 1) :
          Before(h, w, m, x, c)
            => w.cells[c] # 0
                 \/ (c = loops.i /\ Dist(loops.i, loops.j, m) < Dist(loops.i, w.pairs[x].cell_ix, m))
    BY <1>19, <1>21
  <2>4. \E f \in 0..(m - 1) :
          /\ w.cells[f] = 0 /\ Dist(loops.i, loops.j, m) < Dist(loops.i, f, m)
          /\ loops.x + Dist(loops.j, f, m) <= m - 1
    BY <1>20, <1>21
  <2> QED
    BY <2>1, <2>2, <2>3, <2>4, <1>1, <1>3, <1>7, <1>17, <1>18, <1>22 DEF Shifting
<1> QED
  BY <1>23, <1>4 DEF u, last, p

\* Distances along the circle from the hole.

LEMMA DistType ==
  ASSUME NEW m \in Nat \ {0}, NEW a \in 0..(m - 1), NEW b \in 0..(m - 1)
  PROVE  Dist(a, b, m) \in Nat /\ Dist(a, a, m) = 0
BY DEF Dist

LEMMA FreeComesNearer ==
  ASSUME NEW m \in Nat \ {0}, NEW i \in 0..(m - 1), NEW j \in 0..(m - 1), NEW f \in 0..(m - 1),
         NEW k \in 0..(m - 1), f # k, Dist(i, k, m) = Dist(i, j, m) + 1, Dist(i, j, m) < Dist(i, f, m)
  PROVE  /\ Dist(i, k, m) < Dist(i, f, m)
         /\ Dist(j, f, m) = Dist(k, f, m) + 1
         /\ Dist(k, k, m) < Dist(k, f, m)
BY DEF Dist

LEMMA FreeLies ==
  ASSUME NEW m \in Nat \ {0}, NEW i \in 0..(m - 1), NEW j \in 0..(m - 1), NEW f \in 0..(m - 1),
         Dist(i, j, m) < Dist(i, f, m)
  PROVE  Dist(i, j, m) < m - 1 /\ m >= 2 /\ Dist(j, f, m) >= 1 /\ f # i
BY DEF Dist

LEMMA StaysBehind ==
  ASSUME NEW m \in Nat \ {0}, NEW i \in 0..(m - 1), NEW j \in 0..(m - 1), NEW c \in 0..(m - 1),
         NEW k \in 0..(m - 1), Dist(k, i, m) < Dist(k, c, m), Dist(i, j, m) < Dist(i, c, m)
  PROVE  Dist(k, j, m) < Dist(k, c, m)
BY DEF Dist

LEMMA NextIsBehind ==
  ASSUME NEW m \in Nat \ {0}, NEW i \in 0..(m - 1), NEW j \in 0..(m - 1), NEW c \in 0..(m - 1),
         NEW k \in 0..(m - 1), Dist(i, k, m) = Dist(i, j, m) + 1,
         Dist(i, j, m) < Dist(i, c, m), c # k
  PROVE  Dist(i, k, m) < Dist(i, c, m)
BY DEF Dist

\* What the next turn finds: i is the hole, k the next cell, and u the table
\* without the entry that is left over in the hole.
Scene(t, m, l, i, k, u) ==
  /\ /\ m \in Nat \ {0} /\ i \in 0..(m - 1) /\ l.j \in 0..(m - 1) /\ k \in 0..(m - 1)
     /\ k # i /\ Dist(i, k, m) = Dist(i, l.j, m) + 1
  /\ /\ Sized(m) /\ m >= 2 /\ l.x \in Nat /\ l.x < m - 1
     /\ TableType(t, m) /\ TableType(u, m) /\ u.pairs = t.pairs /\ u.cells[i] = 0
     /\ Len(t.pairs) \in Nat /\ cell_capacity(t) = m
     /\ \A c \in 0..(m - 1) : c # i => u.cells[c] = t.cells[c]
  /\ \A x \in 1..Len(t.pairs) :
       /\ t.pairs[x].cell_ix \in 0..(m - 1) /\ t.pairs[x].cell_ix # i
       /\ t.cells[t.pairs[x].cell_ix] = x
  /\ \A c \in 0..(m - 1) :
       c # i /\ t.cells[c] # 0
         => t.cells[c] \in 1..Len(t.pairs) /\ t.pairs[t.cells[c]].cell_ix = c

LEMMA ShiftFacts ==
  ASSUME NEW h, NEW m, NEW t, NEW l, Shifting(h, t, m, l)
  PROVE  Scene(t, m, l, l.i, (l.j + 1) % m, Emptied(t, l.i))
<1> DEFINE i == l.i
           k == (l.j + 1) % m
           u == Emptied(t, i)
<1>0. /\ m \in Nat \ {0} /\ Sized(m) /\ TableType(t, m) /\ l.x \in Nat
      /\ i \in 0..(m - 1) /\ l.j \in 0..(m - 1) /\ Indexed(u, m)
  BY DEF Shifting, Sized
<1>1. m \in Nat \ {0} /\ i \in 0..(m - 1) /\ l.j \in 0..(m - 1)
  BY <1>0
<1>2. PICK f \in 0..(m - 1) : Dist(i, l.j, m) < Dist(i, f, m) /\ l.x + Dist(l.j, f, m) <= m - 1
  BY DEF Shifting
<1>3. Dist(i, l.j, m) < m - 1 /\ m >= 2 /\ Dist(l.j, f, m) >= 1
  BY <1>1, <1>2, FreeLies
<1>4. Dist(l.j, f, m) \in Nat
  BY <1>1, DistType
<1>5. l.x < m - 1
  BY <1>0, <1>1, <1>2, <1>3, <1>4
<1>6. k \in 0..(m - 1) /\ Dist(i, k, m) = Dist(i, l.j, m) + 1
  <2>1. m \in Nat /\ m >= 2
    BY <1>1, <1>3
  <2> QED
    BY <2>1, <1>1, <1>3, NextCellIs
<1>7. /\ TableType(u, m) /\ u.pairs = t.pairs /\ u.cells[i] = 0
      /\ \A c \in 0..(m - 1) : c # i => u.cells[c] = t.cells[c]
  <2>1. m \in Nat /\ TableType(t, m) /\ i \in 0..(m - 1)
    BY <1>0, <1>1
  <2> HIDE DEF i
  <2> QED
    BY <2>1, EmptiedIs
<1>8. Len(t.pairs) \in Nat
  BY <1>0 DEF TableType
<1>9. k # i
  <2>1. Dist(i, i, m) = 0 /\ Dist(i, l.j, m) \in Nat
    BY <1>1, DistType
  <2> QED
    BY <2>1, <1>6
<1> HIDE DEF u, k, i
<1>10. \A x \in 1..Len(t.pairs) :
         /\ t.pairs[x].cell_ix \in 0..(m - 1) /\ u.cells[t.pairs[x].cell_ix] = x
  BY <1>0, <1>7 DEF Indexed
<1>11. \A x \in 1..Len(t.pairs) :
         /\ t.pairs[x].cell_ix \in 0..(m - 1) /\ t.pairs[x].cell_ix # i
         /\ t.cells[t.pairs[x].cell_ix] = x
  <2> SUFFICES ASSUME NEW x \in 1..Len(t.pairs)
               PROVE  /\ t.pairs[x].cell_ix \in 0..(m - 1) /\ t.pairs[x].cell_ix # i
                      /\ t.cells[t.pairs[x].cell_ix] = x
    OBVIOUS
  <2>1. x # 0
    BY <1>8
  <2> QED
    BY <2>1, <1>7, <1>10
<1>12. \A c \in 0..(m - 1) :
         c # i /\ t.cells[c] # 0
           => t.cells[c] \in 1..Len(t.pairs) /\ t.pairs[t.cells[c]].cell_ix = c
  BY <1>0, <1>7 DEF Indexed
<1>13. cell_capacity(t) = m
  BY <1>0, Capacity
<1> QED
  BY <1>0, <1>1, <1>3, <1>5, <1>6, <1>7, <1>8, <1>9, <1>11, <1>12, <1>13 DEF Scene, u, k, i

\* A turn that leaves pair y where it is.
Stayed(h, t, m, l, y, l2) ==
  LET k == (l.j + 1) % m
  IN  /\ y = t.cells[k] /\ y # 0 /\ ~MayMove(l.i, k, h[t.pairs[y].name] % m)
      /\ l2.i = l.i /\ l2.j = k /\ l2.x = l.x + 1

\* The pair in the next cell stays where it is.
LEMMA TurnStays ==
  ASSUME NEW h \in [Names -> Nat], NEW m, NEW t, NEW l, Shifting(h, t, m, l),
         NEW y, NEW l2, Stayed(h, t, m, l, y, l2)
  PROVE  Shifting(h, t, m, l2)
<1> DEFINE i == l.i
           k == (l.j + 1) % m
           u == Emptied(t, i)
           s == h[t.pairs[y].name] % m
<1>0. Scene(t, m, l, i, k, u)
  BY ShiftFacts, Zenon
<1>01. /\ y = t.cells[k] /\ y # 0 /\ ~MayMove(i, k, s)
       /\ l2.i = i /\ l2.j = k /\ l2.x = l.x + 1
  BY Zenon DEF Stayed
<1>2. /\ Indexed(u, m) /\ Distinct(u) /\ Len(u.pairs) <= Room(m)
      /\ \A x \in 1..Len(u.pairs), c \in 0..(m - 1) :
           Before(h, u, m, x, c)
             => u.cells[c] # 0 \/ (c = i /\ Dist(i, l.j, m) < Dist(i, u.pairs[x].cell_ix, m))
  BY DEF Shifting
<1>3. PICK f \in 0..(m - 1) :
         u.cells[f] = 0 /\ Dist(i, l.j, m) < Dist(i, f, m) /\ l.x + Dist(l.j, f, m) <= m - 1
  BY DEF Shifting
<1> HIDE DEF s, k, u, i
<1>1. /\ m \in Nat \ {0} /\ i \in 0..(m - 1) /\ l.j \in 0..(m - 1) /\ k \in 0..(m - 1)
      /\ k # i /\ Dist(i, k, m) = Dist(i, l.j, m) + 1
  BY <1>0 DEF Scene
<1>1a. /\ Sized(m) /\ l.x \in Nat /\ TableType(t, m) /\ u.pairs = t.pairs
       /\ Len(t.pairs) \in Nat
       /\ \A c \in 0..(m - 1) : c # i => u.cells[c] = t.cells[c]
  BY <1>0 DEF Scene
<1>1b. \A x \in 1..Len(t.pairs) :
         /\ t.pairs[x].cell_ix \in 0..(m - 1) /\ t.pairs[x].cell_ix # i
         /\ t.cells[t.pairs[x].cell_ix] = x
  BY <1>0 DEF Scene
<1>1c. y \in 1..Len(t.pairs) /\ t.pairs[y].cell_ix = k
  BY <1>0, <1>01 DEF Scene
<1>4. s \in 0..(m - 1)
  <2>1. t.pairs[y].name \in Names
    <3>1. t.pairs \in Seq(Pair)
      BY <1>1a DEF TableType
    <3>2. t.pairs[y] \in Pair
      BY <3>1, <1>1c
    <3> QED
      BY <3>2 DEF Pair
  <2>2. h[t.pairs[y].name] \in Nat
    BY <2>1
  <2> QED
    BY <2>2, <1>1, Remainder DEF s
<1>5. ~(Dist(s, i, m) < Dist(s, k, m))
  BY <1>01, <1>1, <1>4, MayMoveIs
<1>6. Before(h, u, m, y, i) <=> Dist(s, i, m) < Dist(s, k, m)
  BY <1>1a, <1>1c DEF Before, s
<1>7. ASSUME NEW x \in 1..Len(u.pairs), NEW c \in 0..(m - 1), Before(h, u, m, x, c)
      PROVE  u.cells[c] # 0 \/ (c = i /\ Dist(i, k, m) < Dist(i, u.pairs[x].cell_ix, m))
  <2> SUFFICES ASSUME c = i, Dist(i, l.j, m) < Dist(i, u.pairs[x].cell_ix, m)
               PROVE  Dist(i, k, m) < Dist(i, u.pairs[x].cell_ix, m)
    BY <1>2, <1>7
  <2>1. x # y
    BY <1>5, <1>6, <1>7
  <2>2. x \in 1..Len(t.pairs) /\ u.pairs[x].cell_ix \in 0..(m - 1) /\ u.pairs[x].cell_ix # k
    BY <2>1, <1>01, <1>1a, <1>1b
  <2> QED
    BY <2>2, <1>1, NextIsBehind
<1>8. u.cells[f] = 0 /\ Dist(i, k, m) < Dist(i, f, m) /\ (l.x + 1) + Dist(k, f, m) <= m - 1
  <2>1. f # k
    BY <1>01, <1>1, <1>1a, <1>3
  <2>2. Dist(i, k, m) < Dist(i, f, m) /\ Dist(l.j, f, m) = Dist(k, f, m) + 1
    BY <2>1, <1>1, <1>3, FreeComesNearer
  <2>3. Dist(k, f, m) \in Nat
    BY <1>1, DistType
  <2> QED
    BY <2>2, <2>3, <1>1, <1>1a, <1>3
<1>9. l2.i = i /\ l2.j = k /\ l2.x = l.x + 1 /\ l.x + 1 \in Nat
  BY <1>01, <1>1a
<1>10. u = Emptied(t, l2.i)
  BY <1>9 DEF u
<1>11. m > 0 /\ l2.i \in 0..(m - 1) /\ l2.j \in 0..(m - 1) /\ l2.x \in Nat
  BY <1>1, <1>1a, <1>9
<1>12. \A x \in 1..Len(u.pairs), c \in 0..(m - 1) :
         Before(h, u, m, x, c)
           => u.cells[c] # 0
                \/ (c = l2.i /\ Dist(l2.i, l2.j, m) < Dist(l2.i, u.pairs[x].cell_ix, m))
  BY <1>7, <1>9
<1>13. \E g \in 0..(m - 1) :
         /\ u.cells[g] = 0 /\ Dist(l2.i, l2.j, m) < Dist(l2.i, g, m)
         /\ l2.x + Dist(l2.j, g, m) <= m - 1
  BY <1>8, <1>9
<1> QED
  BY <1>1, <1>1a, <1>2, <1>10, <1>11, <1>12, <1>13 DEF Shifting

LEMMA PairMoved ==
  ASSUME NEW p \in Pair, NEW c \in Nat
  PROVE  LET q == [p EXCEPT !.cell_ix = c]
         IN  q \in Pair /\ q.name = p.name /\ q.value = p.value /\ q.cell_ix = c
BY DEF Pair

\* A turn that moves pair y to the hole.
Moved(h, t, m, l, y, t2, l2) ==
  LET k == (l.j + 1) % m
  IN  /\ y = t.cells[k] /\ y # 0 /\ MayMove(l.i, k, h[t.pairs[y].name] % m)
      /\ t2 = [t EXCEPT !.pairs[y].cell_ix = l.i, !.cells[l.i] = y]
      /\ l2.i = k /\ l2.j = k /\ l2.x = l.x + 1

\* The pair in the next cell moves to the hole, which is then where it was.
LEMMA TurnMoves ==
  ASSUME NEW h \in [Names -> Nat], NEW m, NEW t, NEW l, Shifting(h, t, m, l),
         NEW y, NEW l2, NEW t2, Moved(h, t, m, l, y, t2, l2)
  PROVE  /\ Shifting(h, t2, m, l2)
         /\ Len(t2.pairs) = Len(t.pairs)
         /\ \A x \in 1..Len(t.pairs) :
              t2.pairs[x].name = t.pairs[x].name /\ t2.pairs[x].value = t.pairs[x].value
<1> DEFINE i == l.i
           k == (l.j + 1) % m
           u == Emptied(t, i)
           u2 == Emptied(t2, k)
           s == h[t.pairs[y].name] % m
<1>0. Scene(t, m, l, i, k, u)
  BY ShiftFacts, Zenon
<1>01. /\ y = t.cells[k] /\ y # 0 /\ MayMove(i, k, s) /\ l2.i = k /\ l2.j = k
       /\ t2 = [t EXCEPT !.pairs[y].cell_ix = i, !.cells[i] = y]
       /\ l2.x = l.x + 1
  BY Zenon DEF Moved
<1>2. /\ Distinct(u) /\ Len(u.pairs) <= Room(m)
      /\ \A x \in 1..Len(u.pairs), c \in 0..(m - 1) :
           Before(h, u, m, x, c)
             => u.cells[c] # 0 \/ (c = i /\ Dist(i, l.j, m) < Dist(i, u.pairs[x].cell_ix, m))
  BY DEF Shifting
<1>3. PICK f \in 0..(m - 1) :
         u.cells[f] = 0 /\ Dist(i, l.j, m) < Dist(i, f, m) /\ l.x + Dist(l.j, f, m) <= m - 1
  BY DEF Shifting
<1> HIDE DEF s, k, u, i, u2
<1>1. /\ m \in Nat \ {0} /\ i \in 0..(m - 1) /\ l.j \in 0..(m - 1) /\ k \in 0..(m - 1)
      /\ k # i /\ Dist(i, k, m) = Dist(i, l.j, m) + 1
  BY <1>0 DEF Scene
<1>1a. /\ Sized(m) /\ l.x \in Nat /\ TableType(t, m) /\ u.pairs = t.pairs /\ u.cells[i] = 0
       /\ Len(t.pairs) \in Nat
       /\ \A c \in 0..(m - 1) : c # i => u.cells[c] = t.cells[c]
  BY <1>0 DEF Scene
<1>1b. \A x \in 1..Len(t.pairs) :
         /\ t.pairs[x].cell_ix \in 0..(m - 1) /\ t.pairs[x].cell_ix # i
         /\ t.cells[t.pairs[x].cell_ix] = x
  BY <1>0 DEF Scene
<1>1c. y \in 1..Len(t.pairs) /\ t.pairs[y].cell_ix = k
  BY <1>0, <1>01 DEF Scene
<1>1d. \A c \in 0..(m - 1) :
         c # i /\ t.cells[c] # 0
           => t.cells[c] \in 1..Len(t.pairs) /\ t.pairs[t.cells[c]].cell_ix = c
  BY <1>0 DEF Scene
<1>1e. /\ t \in [pairs : Seq(Pair), cells : [0..(m - 1) -> Nat]]
       /\ t.pairs \in Seq(Pair) /\ t.cells \in [0..(m - 1) -> Nat]
       /\ \A x \in 1..Len(t.pairs) : t.pairs[x] \in Pair
  <2>1. t \in [pairs : Seq(Pair), cells : [0..(m - 1) -> Nat]]
    BY <1>1a DEF TableType
  <2>2. t.pairs \in Seq(Pair)
    BY <2>1
  <2>3. \A x \in 1..Len(t.pairs) : t.pairs[x] \in Pair
    BY <2>2
  <2> QED
    BY <2>1, <2>2, <2>3
<1>1f. Sized(m) /\ Len(t.pairs) \in Nat /\ y \in Nat /\ i \in Nat /\ m \in Nat /\ m > 0
  <2>1. Sized(m) /\ Len(t.pairs) \in Nat
    BY <1>1a
  <2> QED
    BY <2>1, <1>1, <1>1c
<1>4. s \in 0..(m - 1)
  <2>1. t.pairs[y].name \in Names
    BY <1>1c, <1>1e DEF Pair
  <2>2. h[t.pairs[y].name] \in Nat
    BY <2>1
  <2> QED
    BY <2>2, <1>1, Remainder DEF s
<1>5. Dist(s, i, m) < Dist(s, k, m)
  BY <1>01, <1>1, <1>4, MayMoveIs
<1> DEFINE q == [t.pairs[y] EXCEPT !.cell_ix = i]
<1>6. q \in Pair /\ q.name = t.pairs[y].name /\ q.value = t.pairs[y].value /\ q.cell_ix = i
  BY <1>1f, <1>1c, <1>1e, PairMoved
<1>7. t2.pairs = [t.pairs EXCEPT ![y] = q] /\ t2.cells = [t.cells EXCEPT ![i] = y]
      /\ t2 = [pairs |-> t2.pairs, cells |-> t2.cells]
  BY <1>01, <1>1e
<1> HIDE DEF q
<1>8. /\ t2.pairs \in Seq(Pair) /\ Len(t2.pairs) = Len(t.pairs) /\ t2.pairs[y] = q
      /\ \A x \in 1..Len(t.pairs) : x # y => t2.pairs[x] = t.pairs[x]
  <2>1. t.pairs \in Seq(Pair) /\ y \in 1..Len(t.pairs) /\ q \in Pair
    BY <1>1e, <1>6, <1>1c
  <2>2. /\ [t.pairs EXCEPT ![y] = q] \in Seq(Pair)
        /\ Len([t.pairs EXCEPT ![y] = q]) = Len(t.pairs)
        /\ \A x \in 1..Len(t.pairs) :
             [t.pairs EXCEPT ![y] = q][x] = IF x = y THEN q ELSE t.pairs[x]
    BY <2>1, ExceptSeq
  <2> QED
    BY <1>7, <2>1, <2>2
<1>9. t2.cells \in [0..(m - 1) -> Nat] /\ t2.cells[i] = y
      /\ \A c \in 0..(m - 1) : c # i => t2.cells[c] = t.cells[c]
  <2>1. y \in Nat /\ i \in 0..(m - 1) /\ t.cells \in [0..(m - 1) -> Nat]
    BY <1>1f, <1>1e, <1>1
  <2>2. t2.cells = [t.cells EXCEPT ![i] = y]
    BY <1>7
  <2> QED
    BY <2>1, <2>2, Patched
<1>10. TableType(t2, m)
  BY <1>7, <1>8, <1>9 DEF TableType
<1>11. /\ u2.pairs = t2.pairs /\ u2.cells[k] = 0 /\ u2.cells[i] = y
       /\ \A c \in 0..(m - 1) : c # i /\ c # k => u2.cells[c] = t.cells[c]
  <2>1. /\ u2.pairs = t2.pairs /\ u2.cells[k] = 0
        /\ \A c \in 0..(m - 1) : c # k => u2.cells[c] = t2.cells[c]
    <3>1. m \in Nat /\ k \in 0..(m - 1)
      BY <1>1, <1>1f
    <3> QED
      BY <3>1, <1>10, EmptiedIs DEF u2
  <2> QED
    BY <2>1, <1>1, <1>9
<1>12. Indexed(u2, m)
  <2>1. ASSUME NEW x \in 1..Len(t.pairs)
        PROVE  u2.pairs[x].cell_ix \in 0..(m - 1) /\ u2.cells[u2.pairs[x].cell_ix] = x
    <3>1. CASE x = y
      BY <3>1, <1>8, <1>6, <1>11, <1>1
    <3>2. CASE x # y
      <4>1. u2.pairs[x].cell_ix = t.pairs[x].cell_ix
        BY <3>2, <1>8, <1>11
      <4>2. t.pairs[x].cell_ix # k /\ t.pairs[x].cell_ix # i
        BY <3>2, <1>1b, <1>01
      <4> QED
        BY <4>1, <4>2, <1>1b, <1>11
    <3> QED
      BY <3>1, <3>2
  <2>2. ASSUME NEW c \in 0..(m - 1), u2.cells[c] # 0
        PROVE  u2.cells[c] \in 1..Len(t.pairs) /\ u2.pairs[u2.cells[c]].cell_ix = c
    <3>1. CASE c = i
      BY <3>1, <1>11, <1>1c, <1>8, <1>6
    <3>2. CASE c # i
      <4>1. c # k
        BY <2>2, <1>11
      <4>2. /\ u2.cells[c] = t.cells[c] /\ t.cells[c] \in 1..Len(t.pairs)
            /\ t.pairs[t.cells[c]].cell_ix = c
        BY <4>1, <3>2, <2>2, <1>11, <1>1d
      <4>3. t.cells[c] # y
        BY <4>1, <4>2, <1>1c
      <4> QED
        BY <4>2, <4>3, <1>8, <1>11
    <3> QED
      BY <3>1, <3>2
  <2> QED
    BY <2>1, <2>2, <1>8, <1>11 DEF Indexed
<1>13. \A x \in 1..Len(t.pairs) :
         t2.pairs[x].name = t.pairs[x].name /\ t2.pairs[x].value = t.pairs[x].value
  BY <1>8, <1>6
<1>14. Distinct(u2)
  <2>1. Len(u2.pairs) = Len(t.pairs) /\ Len(u.pairs) = Len(t.pairs)
    BY <1>8, <1>11, <1>1a
  <2>2. \A x \in 1..Len(t.pairs) :
          u2.pairs[x].name = u.pairs[x].name /\ u2.pairs[x].value = u.pairs[x].value
    BY <1>13, <1>11, <1>1a
  <2> QED
    BY <2>1, <2>2, <1>2 DEF Distinct
<1>15. ASSUME NEW x \in 1..Len(t.pairs), NEW c \in 0..(m - 1), Before(h, u2, m, x, c)
       PROVE  u2.cells[c] # 0 \/ (c = k /\ Dist(k, k, m) < Dist(k, u2.pairs[x].cell_ix, m))
  <2>0. x \in 1..Len(u.pairs)
    BY <1>1a
  <2>1. CASE x = y
    <3>1. Dist(s, c, m) < Dist(s, i, m)
      BY <2>1, <1>15, <1>11, <1>8, <1>6 DEF Before, s
    <3>2. Dist(s, c, m) \in Nat /\ Dist(s, i, m) \in Nat /\ Dist(s, k, m) \in Nat
      BY <1>1, <1>4, DistType
    <3>3. Dist(s, c, m) < Dist(s, k, m)
      BY <3>1, <3>2, <1>5
    <3>3a. c # i /\ c # k
      <4>1. Dist(s, c, m) # Dist(s, i, m) /\ Dist(s, c, m) # Dist(s, k, m)
        BY <3>1, <3>2, <3>3
      <4> QED
        BY <4>1
    <3>4. Before(h, u, m, y, c)
      BY <3>3, <1>1a, <1>1c DEF Before, s
    <3>5. u.cells[c] # 0
      BY <3>3, <3>3a, <3>4, <2>0, <2>1, <1>2
    <3> QED
      BY <3>3a, <3>5, <1>1a, <1>11
  <2>2. CASE x # y
    <3>1. u2.pairs[x] = t.pairs[x] /\ u.pairs[x] = t.pairs[x]
      BY <2>2, <1>8, <1>11, <1>1a
    <3>2. Before(h, u, m, x, c)
      BY <3>1, <1>15 DEF Before
    <3>3. u.cells[c] # 0 \/ c = i
      BY <3>2, <2>0, <1>2
    <3>4. CASE c = k
      <4>1. t.pairs[x].cell_ix \in 0..(m - 1) /\ t.pairs[x].cell_ix # k
        BY <2>2, <1>1b, <1>01
      <4>2. Dist(k, k, m) < Dist(k, t.pairs[x].cell_ix, m)
        BY <4>1, <1>1, DistPositive
      <4> QED
        BY <4>2, <3>4, <3>1
    <3>5. CASE c = i
      BY <3>5, <1>11, <1>1c, <1>1a
    <3>6. CASE c # i /\ c # k
      BY <3>3, <3>6, <1>1a, <1>11
    <3> QED
      BY <3>4, <3>5, <3>6
  <2> QED
    BY <2>1, <2>2
<1>16. u2.cells[f] = 0 /\ Dist(k, k, m) < Dist(k, f, m) /\ (l.x + 1) + Dist(k, f, m) <= m - 1
  <2>1. f # k /\ f # i
    <3>1. f # i
      BY <1>1, <1>3, FreeLies
    <3> QED
      BY <3>1, <1>01, <1>1, <1>1a, <1>3
  <2>1a. f # k
    BY <2>1
  <2>1b. Dist(i, l.j, m) < Dist(i, f, m) /\ l.x + Dist(l.j, f, m) <= m - 1 /\ l.x \in Nat
    BY <1>3, <1>1a
  <2>2. Dist(k, k, m) < Dist(k, f, m) /\ Dist(l.j, f, m) = Dist(k, f, m) + 1
    BY <2>1a, <2>1b, <1>1, FreeComesNearer
  <2>3. Dist(k, f, m) \in Nat
    BY <1>1, DistType
  <2>4. u2.cells[f] = 0
    BY <2>1, <1>1a, <1>3, <1>11
  <2> QED
    BY <2>1b, <2>2, <2>3, <2>4, <1>1
<1>17. l2.x = l.x + 1 /\ l.x + 1 \in Nat /\ m > 0 /\ u2 = Emptied(t2, l2.i)
  BY <1>01, <1>1, <1>1a DEF u2
<1>18. l2.i \in 0..(m - 1) /\ l2.j \in 0..(m - 1) /\ l2.x \in Nat /\ Len(u2.pairs) <= Room(m)
  BY <1>01, <1>1, <1>17, <1>11, <1>8, <1>2, <1>1a
<1>19. \A x \in 1..Len(u2.pairs), c \in 0..(m - 1) :
         Before(h, u2, m, x, c)
           => u2.cells[c] # 0
                \/ (c = l2.i /\ Dist(l2.i, l2.j, m) < Dist(l2.i, u2.pairs[x].cell_ix, m))
  BY <1>15, <1>01, <1>8, <1>11
<1>20. \E g \in 0..(m - 1) :
         /\ u2.cells[g] = 0 /\ Dist(l2.i, l2.j, m) < Dist(l2.i, g, m)
         /\ l2.x + Dist(l2.j, g, m) <= m - 1
  BY <1>16, <1>01, <1>17
<1>21. Shifting(h, t2, m, l2)
  BY <1>1f, <1>10, <1>12, <1>14, <1>17, <1>18, <1>19, <1>20 DEF Shifting
<1> QED
  BY <1>21, <1>8, <1>13

\* At a free cell the shift is over: emptying the hole leaves a table.
LEMMA ShiftEnds ==
  ASSUME NEW h \in [Names -> Nat], NEW m, NEW t, NEW l, Shifting(h, t, m, l),
         t.cells[(l.j + 1) % m] = 0
  PROVE  Table(h, Emptied(t, l.i), m) /\ Emptied(t, l.i).pairs = t.pairs
<1> DEFINE i == l.i
           k == (l.j + 1) % m
           u == Emptied(t, i)
<1>0. Scene(t, m, l, i, k, u) /\ t.cells[k] = 0
  BY ShiftFacts
<1>2. /\ Indexed(u, m) /\ Distinct(u) /\ Len(u.pairs) <= Room(m)
      /\ \A x \in 1..Len(u.pairs), c \in 0..(m - 1) :
           Before(h, u, m, x, c)
             => u.cells[c] # 0 \/ (c = i /\ Dist(i, l.j, m) < Dist(i, u.pairs[x].cell_ix, m))
  BY DEF Shifting
<1> HIDE DEF k, u, i
<1>1. /\ m \in Nat \ {0} /\ i \in 0..(m - 1) /\ l.j \in 0..(m - 1) /\ k \in 0..(m - 1)
      /\ k # i /\ Dist(i, k, m) = Dist(i, l.j, m) + 1
  BY <1>0 DEF Scene
<1>1a. /\ Sized(m) /\ TableType(u, m) /\ u.pairs = t.pairs /\ Len(t.pairs) \in Nat
       /\ u.cells[k] = 0
  BY <1>0 DEF Scene
<1>1b. \A x \in 1..Len(u.pairs) :
         /\ u.pairs[x].cell_ix \in 0..(m - 1) /\ u.cells[u.pairs[x].cell_ix] = x
         /\ u.pairs[x].cell_ix # k
  BY <1>2, <1>1a DEF Indexed
<1>3. \A x \in 1..Len(u.pairs) : h[u.pairs[x].name] % m \in 0..(m - 1)
  <2> SUFFICES ASSUME NEW x \in 1..Len(u.pairs)
               PROVE  h[u.pairs[x].name] % m \in 0..(m - 1)
    OBVIOUS
  <2>1. u.pairs \in Seq(Pair)
    BY <1>1a DEF TableType
  <2>2. u.pairs[x] \in Pair
    BY <2>1
  <2>3. h[u.pairs[x].name] \in Nat
    BY <2>2 DEF Pair
  <2> QED
    BY <2>3, <1>1, Remainder
<1>4. ASSUME NEW x \in 1..Len(u.pairs), NEW c \in 0..(m - 1), Before(h, u, m, x, c)
      PROVE  u.cells[c] # 0
  <2> DEFINE s == h[u.pairs[x].name] % m
             d == u.pairs[x].cell_ix
  <2> SUFFICES ASSUME c = i, Dist(i, l.j, m) < Dist(i, d, m)
               PROVE  FALSE
    BY <1>2, <1>4
  <2>1. Dist(s, i, m) < Dist(s, d, m)
    BY <1>4 DEF Before
  <2>2. s \in 0..(m - 1) /\ d \in 0..(m - 1) /\ d # k
    BY <1>3, <1>1b
  <2>3. Before(h, u, m, x, k) <=> Dist(s, k, m) < Dist(s, d, m)
    BY DEF Before
  <2> HIDE DEF s
  <2>4. Dist(i, k, m) < Dist(i, d, m)
    BY <2>2, <1>1, NextIsBehind
  <2>5. Dist(s, k, m) < Dist(s, d, m)
    BY <2>1, <2>2, <2>4, <1>1, StaysBehind
  <2> QED
    BY <2>3, <2>5, <1>1, <1>1a, <1>2
<1>5. Table(h, u, m)
  BY <1>1a, <1>2, <1>4 DEF Table, Reached
<1> QED
  BY <1>5, <1>1a DEF u, i

-----------------------------------------------------------------------------
(* The invariant: the table, or the two tables, that each loop works on, and *)
(* who has the values.                                                     *)

ValuesOf(t) == {t.pairs[x].value : x \in DOMAIN t.pairs}

\* Between the calls.
Idle(h, t, l) == l.at = "idle" /\ Table(h, t, cell_capacity(t))

\* The larger table has the pairs of the object so far, in order, and room for
\* the others and for the one that made it grow.
Grows(h, t, l) ==
  /\ l = [at |-> "growing", larger |-> l.larger, name |-> l.name, value |-> l.value,
          made |-> l.made]
  /\ Table(h, t, cell_capacity(t))
  /\ Table(h, l.larger, cell_capacity(l.larger))
  /\ Len(l.larger.pairs) <= Len(t.pairs)
  /\ Len(t.pairs) < Room(cell_capacity(l.larger))
  /\ \A x \in 1..Len(l.larger.pairs) :
       /\ l.larger.pairs[x].name = t.pairs[x].name
       /\ l.larger.pairs[x].value = t.pairs[x].value
  /\ l.name \in Names
  /\ \A x \in 1..Len(t.pairs) : t.pairs[x].name # l.name

\* Behind a removal.
Shifts(h, t, l) ==
  /\ DOMAIN l = {"at", "i", "j", "x"} /\ l.at = "shifting"
  /\ Shifting(h, t, cell_capacity(t), l)

\* What is in the object is what has a parent, and none of it has been freed;
\* the value that waits for the larger table is not one of them.
Owned ==
  /\ ValuesOf(object) = parented
  /\ parented \subseteq allocated /\ allocated \subseteq Values
  /\ loop.at = "growing" => loop.value \in allocated \ parented

JsonInv ==
  /\ hash \in [Names -> HashCodes]
  /\ Owned
  /\ Idle(hash, object, loop) \/ Grows(hash, object, loop) \/ Shifts(hash, object, loop)

LEMMA HashesType == JsonInv => Hashes
BY JsonAssumption DEF JsonInv, Hashes, JsonAssumption

LEMMA ValuesAre ==
  ASSUME NEW h, NEW m, NEW t, Table(h, t, m)
  PROVE  ValuesOf(t) = {t.pairs[x].value : x \in 1..Len(t.pairs)}
BY TableFacts DEF ValuesOf

LEMMA ReplacedPair ==
  ASSUME NEW p \in Pair, NEW v \in Values
  PROVE  LET q == [p EXCEPT !.value = v]
         IN  q \in Pair /\ q.name = p.name /\ q.cell_ix = p.cell_ix /\ q.value = v
BY DEF Pair

LEMMA ReplacedValues ==
  ASSUME NEW h, NEW m, NEW t, NEW u, Table(h, t, m), Table(h, u, m),
         NEW y \in 1..Len(t.pairs), NEW v, v \notin ValuesOf(t), Len(u.pairs) = Len(t.pairs),
         \A x \in 1..Len(t.pairs) : u.pairs[x].value = IF x = y THEN v ELSE t.pairs[x].value
  PROVE  ValuesOf(u) = (ValuesOf(t) \union {v}) \ {t.pairs[y].value}
<1>1. ValuesOf(u) = {u.pairs[x].value : x \in 1..Len(u.pairs)}
  BY ValuesAre
<1>2. ValuesOf(t) = {t.pairs[x].value : x \in 1..Len(t.pairs)}
  BY ValuesAre
<1>3. \A x \in 1..Len(t.pairs) : x # y => t.pairs[x].value # t.pairs[y].value
  BY DEF Table, Distinct
<1>4. \A x \in 1..Len(t.pairs) : t.pairs[x].value # v
  BY <1>2
<1> QED
  BY <1>1, <1>2, <1>3, <1>4

LEMMA Replaced ==
  ASSUME NEW h, NEW m, NEW t, Table(h, t, m), NEW y \in 1..Len(t.pairs), NEW v \in Values,
         v \notin ValuesOf(t), NEW u, u = [t EXCEPT !.pairs[y].value = v]
  PROVE  /\ Table(h, u, m) /\ Len(u.pairs) = Len(t.pairs)
         /\ \A x \in 1..Len(t.pairs) :
              /\ u.pairs[x].name = t.pairs[x].name
              /\ u.pairs[x].value = IF x = y THEN v ELSE t.pairs[x].value
<1> DEFINE q == [t.pairs[y] EXCEPT !.value = v]
<1>1. /\ TableType(t, m) /\ Indexed(t, m) /\ Distinct(t) /\ Reached(h, t, m) /\ Sized(m)
      /\ Len(t.pairs) <= Room(m)
  BY DEF Table
<1>2. t \in [pairs : Seq(Pair), cells : [0..(m - 1) -> Nat]]
  BY <1>1 DEF TableType
<1>3. t.pairs \in Seq(Pair) /\ t.pairs[y] \in Pair /\ Len(t.pairs) \in Nat
  BY <1>2
<1>4. q \in Pair /\ q.name = t.pairs[y].name /\ q.cell_ix = t.pairs[y].cell_ix /\ q.value = v
  BY <1>3, ReplacedPair
<1>5. u.pairs = [t.pairs EXCEPT ![y] = q] /\ u.cells = t.cells
      /\ u = [pairs |-> u.pairs, cells |-> u.cells]
  <2>1. u = [t EXCEPT !.pairs = [t.pairs EXCEPT ![y] = q]]
    BY <1>2
  <2> HIDE DEF q
  <2> QED
    BY <2>1, <1>2
<1> HIDE DEF q
<1>6. /\ [t.pairs EXCEPT ![y] = q] \in Seq(Pair)
      /\ Len([t.pairs EXCEPT ![y] = q]) = Len(t.pairs)
      /\ \A x \in 1..Len(t.pairs) :
           [t.pairs EXCEPT ![y] = q][x] = IF x = y THEN q ELSE t.pairs[x]
  BY <1>3, <1>4, ExceptSeq
<1>7. /\ u.pairs \in Seq(Pair) /\ Len(u.pairs) = Len(t.pairs)
      /\ \A x \in 1..Len(t.pairs) : u.pairs[x] = IF x = y THEN q ELSE t.pairs[x]
  BY <1>5, <1>6
<1>8. \A x \in 1..Len(t.pairs) :
        /\ u.pairs[x].name = t.pairs[x].name /\ u.pairs[x].cell_ix = t.pairs[x].cell_ix
        /\ u.pairs[x].value = IF x = y THEN v ELSE t.pairs[x].value
  BY <1>7, <1>4
<1>9. TableType(u, m)
  BY <1>2, <1>5, <1>7 DEF TableType
<1>10. Indexed(u, m)
  BY <1>1, <1>5, <1>7, <1>8 DEF Indexed
<1>11. \A x \in 1..Len(t.pairs) : t.pairs[x].value # v
  BY ValuesAre
<1>12. Distinct(u)
  BY <1>1, <1>7, <1>8, <1>11 DEF Distinct
<1>13. Reached(h, u, m)
  BY <1>1, <1>5, <1>7, <1>8 DEF Reached, Before
<1>14. Table(h, u, m)
  BY <1>1, <1>7, <1>9, <1>10, <1>12, <1>13 DEF Table
<1> QED
  BY <1>14, <1>7, <1>8

LEMMA PlacedValues ==
  ASSUME NEW h, NEW h2, NEW m, NEW m2, NEW t, NEW u, Table(h, t, m), Table(h2, u, m2), NEW v,
         Len(u.pairs) = Len(t.pairs) + 1,
         \A x \in 1..Len(t.pairs) : u.pairs[x].value = t.pairs[x].value,
         u.pairs[Len(t.pairs) + 1].value = v
  PROVE  ValuesOf(u) = ValuesOf(t) \union {v}
<1>1. Len(t.pairs) \in Nat
  BY TableFacts
<1>2. ValuesOf(u) = {u.pairs[x].value : x \in 1..Len(u.pairs)}
  BY ValuesAre
<1>3. ValuesOf(t) = {t.pairs[x].value : x \in 1..Len(t.pairs)}
  BY ValuesAre
<1>4. \A x : x \in 1..Len(u.pairs) <=> x \in 1..Len(t.pairs) \/ x = Len(t.pairs) + 1
  BY <1>1
<1> QED
  BY <1>2, <1>3, <1>4

LEMMA SameValues ==
  ASSUME NEW h, NEW h2, NEW m, NEW m2, NEW t, NEW u, Table(h, t, m), Table(h2, u, m2),
         Len(u.pairs) = Len(t.pairs),
         \A x \in 1..Len(t.pairs) : u.pairs[x].value = t.pairs[x].value
  PROVE  ValuesOf(u) = ValuesOf(t)
<1>1. ValuesOf(u) = {u.pairs[x].value : x \in 1..Len(u.pairs)}
  BY ValuesAre
<1>2. ValuesOf(t) = {t.pairs[x].value : x \in 1..Len(t.pairs)}
  BY ValuesAre
<1> QED
  BY <1>1, <1>2

LEMMA RemovedValues ==
  ASSUME NEW h, NEW m, NEW t, NEW u, Table(h, t, m), NEW y \in 1..Len(t.pairs),
         DOMAIN u.pairs = 1..(Len(t.pairs) - 1),
         \A x \in 1..(Len(t.pairs) - 1) :
           u.pairs[x] = IF x = y THEN t.pairs[Len(t.pairs)] ELSE t.pairs[x]
  PROVE  ValuesOf(u) = ValuesOf(t) \ {t.pairs[y].value}
<1> DEFINE n == Len(t.pairs)
<1>1. n \in Nat /\ n > 0
  BY TableFacts
<1>2. ValuesOf(t) = {t.pairs[x].value : x \in 1..n}
  BY ValuesAre
<1>3. ValuesOf(u) = {u.pairs[x].value : x \in 1..(n - 1)}
  BY DEF ValuesOf
<1>4. \A x1, x2 \in 1..n : t.pairs[x1].value = t.pairs[x2].value => x1 = x2
  BY DEF Table, Distinct
<1>5. y \in 1..n
  OBVIOUS
<1>6. \A x \in 1..(n - 1) : u.pairs[x] = IF x = y THEN t.pairs[n] ELSE t.pairs[x]
  OBVIOUS
<1> HIDE DEF n
<1>7. ASSUME NEW v \in ValuesOf(u)
      PROVE  v \in ValuesOf(t) \ {t.pairs[y].value}
  <2>1. PICK x \in 1..(n - 1) : v = u.pairs[x].value
    BY <1>3
  <2> DEFINE z == IF x = y THEN n ELSE x
  <2>2. z \in 1..n /\ z # y /\ v = t.pairs[z].value
    BY <2>1, <1>1, <1>5, <1>6
  <2> HIDE DEF z
  <2> QED
    BY <2>2, <1>2, <1>4, <1>5
<1>8. ASSUME NEW v \in ValuesOf(t) \ {t.pairs[y].value}
      PROVE  v \in ValuesOf(u)
  <2>1. PICK z \in 1..n : v = t.pairs[z].value /\ z # y
    BY <1>2
  <2> DEFINE x == IF z = n THEN y ELSE z
  <2>2. x \in 1..(n - 1)
    BY <2>1, <1>1, <1>5
  <2>3. u.pairs[x].value = v
    BY <2>1, <2>2, <1>1, <1>5, <1>6
  <2> HIDE DEF x
  <2> QED
    BY <2>2, <2>3, <1>3
<1> QED
  BY <1>7, <1>8

-----------------------------------------------------------------------------
(* What the pairs say, as a function, and how a step changes it.           *)

Orderly(t) == t.pairs \in Seq(Pair) /\ Distinct(t)

\* The function from the names in t to their values.
ByPairs(t) ==
  [n \in {t.pairs[x].name : x \in DOMAIN t.pairs} |->
     t.pairs[CHOOSE x \in DOMAIN t.pairs : t.pairs[x].name = n].value]

NamesOf(t) == {t.pairs[x].name : x \in 1..Len(t.pairs)}

\* f says of every name of t what its pair says.
Tells(f, t) ==
  /\ f = [n \in DOMAIN f |-> f[n]] /\ DOMAIN f = NamesOf(t)
  /\ \A x \in 1..Len(t.pairs) : f[t.pairs[x].name] = t.pairs[x].value

Puts(d, e, n, v) == e = [k \in DOMAIN d \union {n} |-> IF k = n THEN v ELSE d[k]]

Deletes(d, e, n) == n \in DOMAIN d /\ e = [k \in DOMAIN d \ {n} |-> d[k]]

\* What may become of a dictionary in a step.
Changes(d, e) ==
  \/ e = d
  \/ \E n \in Names : Deletes(d, e, n) \/ \E v \in Values : Puts(d, e, n, v)
  \/ e = <<>>

\* A value that now has a parent is what its name stands for, else nothing shows.
TakenOrNot(d, e, n, v) == IF v \in parented' THEN Puts(d, e, n, v) ELSE e = d

LEMMA TableIsOrderly ==
  ASSUME NEW h, NEW m, NEW t, Table(h, t, m)
  PROVE  Orderly(t)
BY DEF Table, TableType, Orderly

LEMMA ShiftingIsOrderly ==
  ASSUME NEW h, NEW m, NEW t, NEW l, Shifting(h, t, m, l)
  PROVE  Orderly(t)
<1>1. TableType(t, m) /\ Distinct(Emptied(t, l.i)) /\ m \in Nat /\ l.i \in 0..(m - 1)
  BY DEF Shifting, Sized
<1>2. Emptied(t, l.i).pairs = t.pairs
  BY <1>1, EmptiedIs
<1> QED
  BY <1>1, <1>2 DEF Orderly, Distinct, TableType

\* The pairs of an orderly table are a function, and no other.
LEMMA PairsMap ==
  ASSUME NEW t, Orderly(t)
  PROVE  Len(t.pairs) \in Nat /\ DOMAIN t.pairs = 1..Len(t.pairs) /\ Tells(ByPairs(t), t)
<1>1. DOMAIN t.pairs = 1..Len(t.pairs) /\ Len(t.pairs) \in Nat
  BY DEF Orderly
<1>2. DOMAIN ByPairs(t) = NamesOf(t)
  BY <1>1 DEF ByPairs, NamesOf
<1>3. ASSUME NEW x \in 1..Len(t.pairs)
      PROVE  ByPairs(t)[t.pairs[x].name] = t.pairs[x].value
  <2> DEFINE n == t.pairs[x].name
             z == CHOOSE y \in DOMAIN t.pairs : t.pairs[y].name = n
  <2>1. z \in DOMAIN t.pairs /\ t.pairs[z].name = n
    BY <1>1
  <2>2. z = x
    <3> HIDE DEF z
    <3> QED
      BY <2>1, <1>1 DEF Orderly, Distinct
  <2>3. ByPairs(t)[n] = t.pairs[z].value
    BY <1>1 DEF ByPairs
  <2> QED
    BY <2>2, <2>3
<1>4. ByPairs(t) = [n \in DOMAIN ByPairs(t) |-> ByPairs(t)[n]]
  BY DEF ByPairs
<1> QED
  BY <1>1, <1>2, <1>3, <1>4 DEF Tells

LEMMA OneDict ==
  ASSUME NEW t, NEW f, NEW g, Tells(f, t), Tells(g, t)
  PROVE  f = g
<1>1. f = [n \in DOMAIN f |-> f[n]] /\ g = [n \in DOMAIN g |-> g[n]] /\ DOMAIN f = DOMAIN g
  BY DEF Tells
<1>2. \A n \in DOMAIN f : f[n] = g[n]
  BY DEF Tells, NamesOf
<1> QED
  BY <1>1, <1>2, Zenon

LEMMA SameDict ==
  ASSUME NEW t, NEW u, Orderly(t), Orderly(u), Len(u.pairs) = Len(t.pairs),
         \A x \in 1..Len(t.pairs) :
           u.pairs[x].name = t.pairs[x].name /\ u.pairs[x].value = t.pairs[x].value
  PROVE  ByPairs(u) = ByPairs(t)
<1>1. Tells(ByPairs(t), t) /\ Tells(ByPairs(u), u)
  BY PairsMap
<1>2. NamesOf(u) = NamesOf(t)
  BY DEF NamesOf
<1>3. Tells(ByPairs(t), u)
  BY <1>1, <1>2 DEF Tells
<1> QED
  BY <1>1, <1>3, OneDict

LEMMA PlacedDict ==
  ASSUME NEW t, NEW u, Orderly(t), Orderly(u), NEW n, NEW v,
         Len(u.pairs) = Len(t.pairs) + 1,
         \A x \in 1..Len(t.pairs) :
           /\ u.pairs[x].name = t.pairs[x].name /\ u.pairs[x].value = t.pairs[x].value
           /\ t.pairs[x].name # n,
         u.pairs[Len(t.pairs) + 1].name = n, u.pairs[Len(t.pairs) + 1].value = v
  PROVE  Puts(ByPairs(t), ByPairs(u), n, v)
<1> DEFINE d == ByPairs(t)
           f == [k \in DOMAIN d \union {n} |-> IF k = n THEN v ELSE d[k]]
<1>1. /\ f = [k \in DOMAIN f |-> f[k]] /\ DOMAIN f = DOMAIN d \union {n} /\ f[n] = v
      /\ \A k \in DOMAIN d : k # n => f[k] = d[k]
  OBVIOUS
<1>2. /\ Len(t.pairs) \in Nat
      /\ DOMAIN d = {t.pairs[x].name : x \in 1..Len(t.pairs)}
      /\ \A x \in 1..Len(t.pairs) : d[t.pairs[x].name] = t.pairs[x].value
  BY PairsMap DEF Tells, NamesOf
<1> HIDE DEF f, d
<1>3. \A x : x \in 1..Len(u.pairs) <=> x \in 1..Len(t.pairs) \/ x = Len(t.pairs) + 1
  BY <1>2
<1>4. DOMAIN f = NamesOf(u)
  <2>1. DOMAIN f \subseteq NamesOf(u)
    <3>1. \A k \in DOMAIN d : \E x \in 1..Len(u.pairs) : u.pairs[x].name = k
      BY <1>2, <1>3
    <3>2. \E x \in 1..Len(u.pairs) : u.pairs[x].name = n
      BY <1>3
    <3> QED
      BY <1>1, <3>1, <3>2 DEF NamesOf
  <2>2. NamesOf(u) \subseteq DOMAIN f
    <3>1. \A x \in 1..Len(u.pairs) : u.pairs[x].name \in DOMAIN d \union {n}
      BY <1>2, <1>3
    <3> QED
      BY <1>1, <3>1 DEF NamesOf
  <2> QED
    BY <2>1, <2>2
<1>5. ASSUME NEW x \in 1..Len(u.pairs)
      PROVE  f[u.pairs[x].name] = u.pairs[x].value
  <2>1. CASE x \in 1..Len(t.pairs)
    <3>1. u.pairs[x].name = t.pairs[x].name /\ u.pairs[x].value = t.pairs[x].value
          /\ t.pairs[x].name # n
      BY <2>1
    <3>2. t.pairs[x].name \in DOMAIN d /\ d[t.pairs[x].name] = t.pairs[x].value
      BY <2>1, <1>2
    <3> QED
      BY <3>1, <3>2, <1>1
  <2>2. CASE x = Len(t.pairs) + 1
    BY <2>2, <1>1
  <2> QED
    BY <2>1, <2>2, <1>3
<1>6. f = ByPairs(u)
  <2>1. f = [k \in DOMAIN f |-> f[k]]
    BY <1>1
  <2>2. Tells(f, u)
    BY <2>1, <1>4, <1>5 DEF Tells
  <2> QED
    BY <2>2, PairsMap, OneDict
<1> QED
  BY <1>6 DEF f, d, Puts

LEMMA ReplacedDict ==
  ASSUME NEW t, NEW u, Orderly(t), Orderly(u), NEW y \in 1..Len(t.pairs), NEW v,
         Len(u.pairs) = Len(t.pairs),
         \A x \in 1..Len(t.pairs) :
           /\ u.pairs[x].name = t.pairs[x].name
           /\ u.pairs[x].value = IF x = y THEN v ELSE t.pairs[x].value
  PROVE  Puts(ByPairs(t), ByPairs(u), t.pairs[y].name, v)
<1> DEFINE d == ByPairs(t)
           n == t.pairs[y].name
           f == [k \in DOMAIN d \union {n} |-> IF k = n THEN v ELSE d[k]]
<1>1. /\ f = [k \in DOMAIN f |-> f[k]] /\ DOMAIN f = DOMAIN d \union {n} /\ f[n] = v
      /\ \A k \in DOMAIN d : k # n => f[k] = d[k]
  OBVIOUS
<1>2. /\ Len(t.pairs) \in Nat
      /\ DOMAIN d = {t.pairs[x].name : x \in 1..Len(t.pairs)}
      /\ \A x \in 1..Len(t.pairs) : d[t.pairs[x].name] = t.pairs[x].value
  BY PairsMap DEF Tells, NamesOf
<1>3. \A x \in 1..Len(t.pairs) : x # y => t.pairs[x].name # n
  BY DEF Orderly, Distinct
<1> HIDE DEF f, d
<1>4. DOMAIN f = NamesOf(u)
  <2>1. NamesOf(u) = DOMAIN d
    BY <1>2 DEF NamesOf
  <2>2. n \in DOMAIN d
    BY <1>2
  <2> QED
    BY <2>1, <2>2, <1>1
<1>5. ASSUME NEW x \in 1..Len(u.pairs)
      PROVE  f[u.pairs[x].name] = u.pairs[x].value
  <2>1. CASE x = y
    <3>1. u.pairs[x].name = n /\ u.pairs[x].value = v
      BY <2>1
    <3> QED
      BY <3>1, <1>1
  <2>2. CASE x # y
    <3>1. u.pairs[x].name = t.pairs[x].name /\ u.pairs[x].value = t.pairs[x].value
          /\ t.pairs[x].name # n
      BY <2>2, <1>3
    <3>2. t.pairs[x].name \in DOMAIN d /\ d[t.pairs[x].name] = t.pairs[x].value
      BY <1>2
    <3> QED
      BY <3>1, <3>2, <1>1
  <2> QED
    BY <2>1, <2>2
<1>6. f = ByPairs(u)
  <2>1. f = [k \in DOMAIN f |-> f[k]]
    BY <1>1
  <2>2. Tells(f, u)
    BY <2>1, <1>4, <1>5 DEF Tells
  <2> QED
    BY <2>2, PairsMap, OneDict
<1> QED
  BY <1>6 DEF f, d, Puts

LEMMA RemovedDict ==
  ASSUME NEW t, NEW u, Orderly(t), Orderly(u), NEW y \in 1..Len(t.pairs),
         Len(u.pairs) = Len(t.pairs) - 1,
         \A x \in 1..(Len(t.pairs) - 1) :
           u.pairs[x] = IF x = y THEN t.pairs[Len(t.pairs)] ELSE t.pairs[x]
  PROVE  Deletes(ByPairs(t), ByPairs(u), t.pairs[y].name)
<1> DEFINE d == ByPairs(t)
           n == t.pairs[y].name
           f == [k \in DOMAIN d \ {n} |-> d[k]]
           l == Len(t.pairs)
<1>1. /\ f = [k \in DOMAIN f |-> f[k]] /\ DOMAIN f = DOMAIN d \ {n}
      /\ \A k \in DOMAIN d : k # n => f[k] = d[k]
  OBVIOUS
<1>2. /\ l \in Nat
      /\ DOMAIN d = {t.pairs[x].name : x \in 1..l}
      /\ \A x \in 1..l : d[t.pairs[x].name] = t.pairs[x].value
  BY PairsMap DEF Tells, NamesOf
<1>3. \A x \in 1..l : x # y => t.pairs[x].name # n
  BY DEF Orderly, Distinct
<1>4. /\ y \in 1..l /\ Len(u.pairs) = l - 1
      /\ \A x \in 1..(l - 1) : u.pairs[x] = IF x = y THEN t.pairs[l] ELSE t.pairs[x]
  OBVIOUS
<1> HIDE DEF f, d, l
<1>5. ASSUME NEW x \in 1..(l - 1)
      PROVE  \E z \in 1..l : z # y /\ u.pairs[x] = t.pairs[z]
  <2>1. CASE x = y
    BY <2>1, <1>2, <1>4
  <2>2. CASE x # y
    BY <2>2, <1>2, <1>4
  <2> QED
    BY <2>1, <2>2
<1>6. ASSUME NEW z \in 1..l, z # y
      PROVE  \E x \in 1..(l - 1) : u.pairs[x] = t.pairs[z]
  <2>1. CASE z = l
    <3>1. y \in 1..(l - 1) /\ u.pairs[y] = t.pairs[l]
      BY <2>1, <1>2, <1>4, <1>6
    <3> QED
      BY <3>1, <2>1
  <2>2. CASE z # l
    <3>1. z \in 1..(l - 1) /\ u.pairs[z] = t.pairs[z]
      BY <2>2, <1>2, <1>4, <1>6
    <3> QED
      BY <3>1
  <2> QED
    BY <2>1, <2>2
<1>7. DOMAIN f = NamesOf(u)
  <2>1. ASSUME NEW k \in DOMAIN f
        PROVE  k \in {u.pairs[x].name : x \in 1..(l - 1)}
    <3>1. PICK z \in 1..l : k = t.pairs[z].name /\ z # y
      BY <1>1, <1>2
    <3> QED
      BY <3>1, <1>6
  <2>2. ASSUME NEW x \in 1..(l - 1)
        PROVE  u.pairs[x].name \in DOMAIN f
    <3>1. PICK z \in 1..l : z # y /\ u.pairs[x] = t.pairs[z]
      BY <1>5
    <3> QED
      BY <3>1, <1>1, <1>2, <1>3
  <2> QED
    BY <2>1, <2>2, <1>4 DEF NamesOf
<1>8. \A x \in 1..Len(u.pairs) : f[u.pairs[x].name] = u.pairs[x].value
  <2> SUFFICES ASSUME NEW x \in 1..(l - 1)
               PROVE  f[u.pairs[x].name] = u.pairs[x].value
    BY <1>4
  <2>1. PICK z \in 1..l : z # y /\ u.pairs[x] = t.pairs[z]
    BY <1>5
  <2>2. t.pairs[z].name \in DOMAIN d /\ d[t.pairs[z].name] = t.pairs[z].value
    BY <1>2
  <2>3. t.pairs[z].name # n
    BY <2>1, <1>3
  <2> QED
    BY <2>1, <2>2, <2>3, <1>1
<1>9. f = ByPairs(u)
  <2>1. f = [k \in DOMAIN f |-> f[k]]
    BY <1>1
  <2>2. Tells(f, u)
    BY <2>1, <1>7, <1>8 DEF Tells
  <2> QED
    BY <2>2, PairsMap, OneDict
<1>10. n \in DOMAIN d
  BY <1>2, <1>4
<1> QED
  BY <1>9, <1>10 DEF f, d, Deletes

-----------------------------------------------------------------------------
(* Each operation keeps the invariant and changes the function as Dictionary *)
(* allows.                                                                 *)

LEMMA NewCapacityIs ==
  ASSUME NEW h, NEW m, NEW t, Table(h, t, m)
  PROVE  LET k == NewCapacity(t)
         IN  Sized(k) /\ k > 0 /\ Room(m) < Room(k)
<1>1. m \in Nat /\ (m = 0 \/ m >= 2) /\ cell_capacity(t) = m
  BY TableFacts
<1>2. NewCapacity(t) \in Nat /\ NewCapacity(t) >= 2 /\ NewCapacity(t) >= 2 * m
  BY <1>1, JsonAssumption DEF NewCapacity, JsonAssumption
<1> QED
  BY <1>1, <1>2, RoomGrows DEF Sized, Room

LEMMA JsonInitInv == JsonInit => JsonInv
<1> SUFFICES ASSUME JsonInit PROVE JsonInv
  OBVIOUS
<1>1. Sized(0)
  BY DEF Sized
<1>2. Table(hash, object, 0) /\ object.pairs = <<>>
  BY <1>1, EmptyTable DEF JsonInit
<1>3. cell_capacity(object) = 0
  BY <1>2, TableFacts
<1>4. loop.at = "idle"
  BY DEF JsonInit
<1>5. ValuesOf(object) = {}
  BY <1>2 DEF ValuesOf
<1> QED
  BY <1>2, <1>3, <1>4, <1>5 DEF JsonInit, JsonInv, Idle, Owned

LEMMA IdleFacts ==
  ASSUME JsonInv, loop.at = "idle"
  PROVE  Table(hash, object, cell_capacity(object)) /\ Hashes
<1>1. ~Grows(hash, object, loop)
  BY DEF Grows
<1>2. ~Shifts(hash, object, loop)
  BY Zenon DEF Shifts
<1> QED
  BY <1>1, <1>2, HashesType DEF JsonInv, Idle

LEMMA ReplaceInv ==
  ASSUME JsonInv, loop.at = "idle", hash' = hash,
         NEW n \in Names, NEW v \in Values, v \notin parented, Replace(n, v)
  PROVE  JsonInv' /\ TakenOrNot(ByPairs(object), ByPairs(object'), n, v)
<1> DEFINE m == cell_capacity(object)
           y == object.cells[get_cell_ix(object, n)]
           old == object.pairs[y].value
<1>1. Table(hash, object, m) /\ Hashes
  BY IdleFacts
<1>2. /\ Found(object, n)
      /\ object' = [object EXCEPT !.pairs[y].value = v]
      /\ allocated' = (allocated \union {v}) \ {old}
      /\ parented' = (parented \union {v}) \ {old}
      /\ loop' = loop
  BY DEF Replace
<1>3. y \in 1..Len(object.pairs) /\ object.pairs[y].name = n
  BY <1>1, <1>2, FoundIs
<1>4. /\ ValuesOf(object) = parented /\ parented \subseteq allocated /\ allocated \subseteq Values
      /\ hash \in [Names -> HashCodes]
  BY DEF JsonInv, Owned
<1>5. /\ Table(hash, object', m) /\ Puts(ByPairs(object), ByPairs(object'), n, v)
      /\ ValuesOf(object') = (ValuesOf(object) \union {v}) \ {old}
  <2>1. v \notin ValuesOf(object)
    BY <1>4
  <2>2. object' = [object EXCEPT !.pairs[y].value = v]
    BY <1>2
  <2> HIDE DEF m, y
  <2>3. /\ Table(hash, object', m) /\ Len((object').pairs) = Len(object.pairs)
        /\ \A x \in 1..Len(object.pairs) :
             /\ (object').pairs[x].name = object.pairs[x].name
             /\ (object').pairs[x].value = IF x = y THEN v ELSE object.pairs[x].value
    BY <1>1, <1>3, <2>1, <2>2, Replaced
  <2>4. ValuesOf(object') = (ValuesOf(object) \union {v}) \ {old}
    BY <1>1, <1>3, <2>1, <2>3, ReplacedValues
  <2>5. Orderly(object) /\ Orderly(object')
    BY <1>1, <2>3, TableIsOrderly
  <2>6. Puts(ByPairs(object), ByPairs(object'), n, v)
    BY <1>3, <2>3, <2>5, ReplacedDict
  <2> QED
    BY <2>3, <2>4, <2>6
<1>6. cell_capacity(object') = m
  BY <1>5, TableFacts
<1>7. Idle(hash, object', loop)
  BY <1>5, <1>6 DEF Idle
<1>8. Owned'
  BY <1>2, <1>4, <1>5 DEF Owned
<1>9. v \in parented'
  <2>1. old \in parented
    BY <1>1, <1>3, <1>4, ValuesAre
  <2> QED
    BY <1>2, <2>1
<1>10. TakenOrNot(ByPairs(object), ByPairs(object'), n, v)
  BY <1>5, <1>9 DEF TakenOrNot
<1> QED
  BY <1>2, <1>4, <1>7, <1>8, <1>10 DEF JsonInv

LEMMA InsertInv ==
  ASSUME JsonInv, loop.at = "idle", hash' = hash,
         NEW n \in Names, NEW v \in Values, v \notin parented, Insert(n, v)
  PROVE  JsonInv' /\ TakenOrNot(ByPairs(object), ByPairs(object'), n, v)
<1> DEFINE m == cell_capacity(object)
<1>1. Table(hash, object, m) /\ Hashes
  BY IdleFacts
<1>2. /\ ~Found(object, n) /\ ~Full(object)
      /\ object' = Place(object, n, v)
      /\ allocated' = allocated \union {v}
      /\ parented' = parented \union {v}
      /\ loop' = loop
  BY DEF Insert
<1>3. /\ ValuesOf(object) = parented /\ parented \subseteq allocated /\ allocated \subseteq Values
      /\ hash \in [Names -> HashCodes]
  BY DEF JsonInv, Owned
<1>4. Len(object.pairs) < Room(m)
  BY <1>1, <1>2, TableFacts DEF Full, count
<1>5. \A x \in 1..Len(object.pairs) : object.pairs[x].name # n /\ object.pairs[x].value # v
  BY <1>1, <1>2, <1>3, FoundIs, ValuesAre
<1>6. /\ Table(hash, object', m)
      /\ Len((object').pairs) = Len(object.pairs) + 1
      /\ \A x \in 1..Len(object.pairs) :
           /\ (object').pairs[x].name = object.pairs[x].name
           /\ (object').pairs[x].value = object.pairs[x].value
      /\ (object').pairs[Len(object.pairs) + 1].name = n
      /\ (object').pairs[Len(object.pairs) + 1].value = v
  <2> HIDE DEF m
  <2> QED
    BY <1>1, <1>2, <1>4, <1>5, Placed
<1>7. ValuesOf(object') = ValuesOf(object) \union {v}
  BY <1>1, <1>6, PlacedValues
<1>8. cell_capacity(object') = m
  BY <1>6, TableFacts
<1>9. Idle(hash, object', loop)
  BY <1>6, <1>8 DEF Idle
<1>10. Owned'
  BY <1>2, <1>3, <1>7 DEF Owned
<1>11. Puts(ByPairs(object), ByPairs(object'), n, v)
  <2>1. Orderly(object) /\ Orderly(object')
    BY <1>1, <1>6, TableIsOrderly
  <2> QED
    BY <2>1, <1>5, <1>6, PlacedDict
<1> QED
  BY <1>2, <1>3, <1>9, <1>10, <1>11 DEF JsonInv, TakenOrNot

LEMMA GrowInv ==
  ASSUME JsonInv, loop.at = "idle", hash' = hash,
         NEW n \in Names, NEW v \in Values, v \notin parented, NEW made, Grow(n, v, made)
  PROVE  JsonInv' /\ TakenOrNot(ByPairs(object), ByPairs(object'), n, v)
<1> DEFINE m == cell_capacity(object)
           k == NewCapacity(object)
           new == json_object_init(k)
<1>1. Table(hash, object, m) /\ Hashes
  BY IdleFacts
<1>2. /\ ~Found(object, n)
      /\ loop' = [at |-> "growing", larger |-> new, name |-> n, value |-> v, made |-> made]
      /\ allocated' = allocated \union {v} /\ object' = object /\ parented' = parented
  BY DEF Grow
<1>3. /\ ValuesOf(object) = parented /\ parented \subseteq allocated /\ allocated \subseteq Values
      /\ hash \in [Names -> HashCodes]
  BY DEF JsonInv, Owned
<1>4. Sized(k) /\ Room(m) < Room(k)
  BY <1>1, NewCapacityIs
<1>5. Table(hash, new, k) /\ new.pairs = <<>>
  BY <1>4, EmptyTable
<1>6. cell_capacity(new) = k
  BY <1>5, TableFacts
<1>7. \A x \in 1..Len(object.pairs) : object.pairs[x].name # n
  BY <1>1, <1>2, FoundIs
<1>8. Len(object.pairs) \in Nat /\ Len(object.pairs) <= Room(m) /\ Room(m) \in Nat /\ Room(k) \in Nat
  BY <1>1, <1>5, TableFacts
<1>9. /\ (loop').larger = new /\ (loop').name = n /\ (loop').value = v
      /\ loop' = [at |-> "growing", larger |-> (loop').larger, name |-> (loop').name,
                  value |-> (loop').value, made |-> (loop').made]
  BY <1>2
<1> HIDE DEF new, k, m
<1>10. Len(new.pairs) = 0
  BY <1>5
<1>11. Grows(hash, object, loop')
  <2>1. Len(new.pairs) <= Len(object.pairs) /\ Len(object.pairs) < Room(cell_capacity(new))
    BY <1>4, <1>6, <1>8, <1>10
  <2>2. 1..Len(new.pairs) = {}
    BY <1>10
  <2> QED
    BY <1>1, <1>5, <1>6, <1>7, <1>9, <2>1, <2>2 DEF Grows, m
<1>12. Owned'
  BY <1>2, <1>3 DEF Owned
<1> QED
  BY <1>2, <1>3, <1>11, <1>12 DEF JsonInv, TakenOrNot

LEMMA RemoveInv ==
  ASSUME JsonInv, loop.at = "idle", hash' = hash, NEW n \in Names, json_object_remove(n)
  PROVE  JsonInv' /\ Deletes(ByPairs(object), ByPairs(object'), n)
<1> DEFINE m == cell_capacity(object)
           g == get_cell_ix(object, n)
           y == object.cells[g]
           old == object.pairs[y].value
           len == Len(object.pairs)
<1>1. Table(hash, object, m) /\ Hashes
  BY IdleFacts
<1>2. /\ Found(object, n)
      /\ object' = FillGap(object, y)
      /\ allocated' = allocated \ {old}
      /\ parented' = parented \ {old}
      /\ loop' = [at |-> "shifting", i |-> g, j |-> g, x |-> 0]
  BY DEF json_object_remove, getn_value
<1>3. y \in 1..len /\ g = object.pairs[y].cell_ix
  BY <1>1, <1>2, FoundIs
<1>3a. object.pairs[y].name = n
  BY <1>1, <1>2, FoundIs
<1>4. /\ ValuesOf(object) = parented /\ parented \subseteq allocated /\ allocated \subseteq Values
      /\ hash \in [Names -> HashCodes]
  BY DEF JsonInv, Owned
<1>5. /\ (loop').i = g /\ (loop').j = g /\ (loop').x = 0 /\ (loop').at = "shifting"
      /\ DOMAIN loop' = {"at", "i", "j", "x"}
  BY <1>2
<1> HIDE DEF m, g, y
<1>6. /\ Shifting(hash, object', m, loop')
      /\ Len((object').pairs) = len - 1
      /\ \A x \in 1..(len - 1) :
           (object').pairs[x] = IF x = y THEN object.pairs[len] ELSE object.pairs[x]
  BY <1>1, <1>2, <1>3, <1>5, RemovalStarts
<1>7. TableType(object', m) /\ m \in Nat
  BY <1>6 DEF Shifting, Sized
<1>8. cell_capacity(object') = m /\ DOMAIN (object').pairs = 1..(len - 1)
  <2>1. (object').pairs \in Seq(Pair)
    BY <1>7 DEF TableType
  <2> QED
    BY <2>1, <1>6, <1>7, Capacity
<1>9. ValuesOf(object') = ValuesOf(object) \ {old}
  BY <1>1, <1>3, <1>6, <1>8, RemovedValues
<1>10. Shifts(hash, object', loop')
  BY <1>5, <1>6, <1>8 DEF Shifts
<1>11. Owned'
  BY <1>2, <1>4, <1>5, <1>9 DEF Owned
<1>12. Deletes(ByPairs(object), ByPairs(object'), n)
  <2>1. Orderly(object) /\ Orderly(object')
    BY <1>1, <1>6, TableIsOrderly, ShiftingIsOrderly
  <2> QED
    BY <2>1, <1>3, <1>3a, <1>6, RemovedDict
<1> QED
  BY <1>4, <1>10, <1>11, <1>12 DEF JsonInv

LEMMA ClearInv ==
  ASSUME JsonInv, loop.at = "idle", hash' = hash, json_object_clear
  PROVE  JsonInv' /\ ByPairs(object') = <<>>
<1> DEFINE m == cell_capacity(object)
<1>1. Table(hash, object, m) /\ Hashes
  BY IdleFacts
<1>2. /\ object' = json_object_init(m)
      /\ allocated' = allocated \ ValuesOf(object)
      /\ parented' = parented \ ValuesOf(object)
      /\ loop' = loop
  BY DEF json_object_clear, InObject, ValuesOf
<1>3. /\ ValuesOf(object) = parented /\ parented \subseteq allocated /\ allocated \subseteq Values
      /\ hash \in [Names -> HashCodes]
  BY DEF JsonInv, Owned
<1>4. Sized(m)
  BY <1>1 DEF Table
<1>5. Table(hash, object', m) /\ (object').pairs = <<>>
  BY <1>2, <1>4, EmptyTable
<1>6. cell_capacity(object') = m
  BY <1>5, TableFacts
<1>7. ValuesOf(object') = {}
  BY <1>5 DEF ValuesOf
<1>8. Idle(hash, object', loop)
  BY <1>5, <1>6 DEF Idle
<1>9. Owned'
  BY <1>2, <1>3, <1>7 DEF Owned
<1>10. ByPairs(object') = <<>>
  BY <1>5 DEF ByPairs
<1> QED
  BY <1>2, <1>3, <1>8, <1>9, <1>10 DEF JsonInv

LEMMA CreateInv ==
  ASSUME JsonInv, loop.at = "idle", hash' = hash, NEW v \in Values, CreateValue(v)
  PROVE  JsonInv' /\ ByPairs(object') = ByPairs(object)
<1>1. object' = object /\ parented' = parented /\ loop' = loop /\ allocated' = allocated \union {v}
  BY DEF CreateValue
<1>2. Owned /\ hash \in [Names -> HashCodes]
  BY DEF JsonInv
<1>3. Owned'
  BY <1>1, <1>2 DEF Owned
<1> QED
  BY <1>1, <1>3, <1>2, IdleFacts DEF JsonInv, Idle

LEMMA FreeInv ==
  ASSUME JsonInv, loop.at = "idle", hash' = hash, NEW v \in Values, json_value_free(v)
  PROVE  JsonInv' /\ ByPairs(object') = ByPairs(object)
<1>1. /\ object' = object /\ parented' = parented /\ loop' = loop
      /\ allocated' = allocated \ {v} /\ v \notin parented
  BY DEF json_value_free
<1>2. Owned /\ hash \in [Names -> HashCodes]
  BY DEF JsonInv
<1>3. Owned'
  BY <1>1, <1>2 DEF Owned
<1> QED
  BY <1>1, <1>3, <1>2, IdleFacts DEF JsonInv, Idle

LEMMA GrowingFacts ==
  ASSUME JsonInv, loop.at = "growing"
  PROVE  Grows(hash, object, loop) /\ Hashes /\ Owned /\ hash \in [Names -> HashCodes]
<1>1. ~Idle(hash, object, loop)
  BY DEF Idle
<1>2. ~Shifts(hash, object, loop)
  BY DEF Shifts
<1> QED
  BY <1>1, <1>2, HashesType DEF JsonInv

LEMMA ShiftingFacts ==
  ASSUME JsonInv, loop.at = "shifting"
  PROVE  Shifts(hash, object, loop) /\ Hashes /\ Owned /\ hash \in [Names -> HashCodes]
<1>1. ~Idle(hash, object, loop)
  BY DEF Idle
<1>2. ~Grows(hash, object, loop)
  BY DEF Grows
<1> QED
  BY <1>1, <1>2, HashesType DEF JsonInv

LEMMA RehashInv ==
  ASSUME JsonInv, hash' = hash, grow_and_rehash
  PROVE  JsonInv' /\ ByPairs(object') = ByPairs(object)
<1> DEFINE large == loop.larger
           k == cell_capacity(large)
           y == Len(large.pairs) + 1
           p == object.pairs[y]
           new == Place(large, p.name, p.value)
<1>1. /\ loop.at = "growing" /\ Len(large.pairs) < Len(object.pairs)
      /\ loop' = [loop EXCEPT !.larger = new]
      /\ object' = object /\ allocated' = allocated /\ parented' = parented
  BY DEF grow_and_rehash, count
<1>2. Grows(hash, object, loop) /\ Hashes /\ Owned /\ hash \in [Names -> HashCodes]
  BY <1>1, GrowingFacts
<1>3. /\ loop = [at |-> "growing", larger |-> large, name |-> loop.name, value |-> loop.value,
                 made |-> loop.made]
      /\ Table(hash, object, cell_capacity(object))
      /\ Table(hash, large, k)
      /\ Len(object.pairs) < Room(k)
      /\ \A x \in 1..Len(large.pairs) :
           /\ large.pairs[x].name = object.pairs[x].name
           /\ large.pairs[x].value = object.pairs[x].value
      /\ loop.name \in Names
      /\ \A x \in 1..Len(object.pairs) : object.pairs[x].name # loop.name
  BY <1>2 DEF Grows
<1>4. /\ Len(large.pairs) \in Nat /\ Len(object.pairs) \in Nat
      /\ Room(k) \in Nat
  BY <1>3, TableFacts
<1>5. y \in 1..Len(object.pairs) /\ Len(large.pairs) < Room(k)
  BY <1>1, <1>3, <1>4
<1>6. p.name \in Names /\ p.value \in Values
  BY <1>3, <1>5, TableFacts
<1>7. \A x \in 1..Len(large.pairs) : large.pairs[x].name # p.name /\ large.pairs[x].value # p.value
  <2> SUFFICES ASSUME NEW x \in 1..Len(large.pairs)
               PROVE  large.pairs[x].name # p.name /\ large.pairs[x].value # p.value
    OBVIOUS
  <2>1. x \in 1..Len(object.pairs) /\ x # y
    BY <1>1, <1>4
  <2>2. Distinct(object)
    BY <1>3 DEF Table
  <2>3. object.pairs[x].name # p.name /\ object.pairs[x].value # p.value
    BY <2>1, <2>2, <1>5 DEF Distinct
  <2> QED
    BY <2>3, <1>3
<1> HIDE DEF large, k, p
<1>8. /\ Table(hash, new, k)
      /\ Len(new.pairs) = Len(large.pairs) + 1
      /\ \A x \in 1..Len(large.pairs) :
           new.pairs[x].name = large.pairs[x].name /\ new.pairs[x].value = large.pairs[x].value
      /\ new.pairs[Len(large.pairs) + 1].name = p.name
      /\ new.pairs[Len(large.pairs) + 1].value = p.value
  BY <1>2, <1>3, <1>5, <1>6, <1>7, Placed
<1> HIDE DEF new
<1>9. cell_capacity(new) = k
  BY <1>8, TableFacts
<1>10. /\ loop' = [at |-> "growing", larger |-> new, name |-> loop.name, value |-> loop.value,
                   made |-> loop.made]
  BY <1>1, <1>3
<1>11. \A x \in 1..Len(new.pairs) :
         new.pairs[x].name = object.pairs[x].name /\ new.pairs[x].value = object.pairs[x].value
  <2> SUFFICES ASSUME NEW x \in 1..Len(new.pairs)
               PROVE  /\ new.pairs[x].name = object.pairs[x].name
                      /\ new.pairs[x].value = object.pairs[x].value
    OBVIOUS
  <2>1. x \in 1..Len(large.pairs) \/ x = Len(large.pairs) + 1
    BY <1>4, <1>8
  <2>2. CASE x \in 1..Len(large.pairs)
    BY <2>2, <1>3, <1>8
  <2>3. CASE x = Len(large.pairs) + 1
    BY <2>3, <1>8 DEF p
  <2> QED
    BY <2>1, <2>2, <2>3
<1>12. Len(new.pairs) <= Len(object.pairs)
  BY <1>1, <1>4, <1>8
<1>13. /\ (loop').larger = new /\ (loop').name = loop.name /\ (loop').value = loop.value
       /\ (loop').made = loop.made
  BY <1>10
<1>14. Grows(hash, object, loop')
  BY <1>3, <1>8, <1>9, <1>10, <1>11, <1>12, <1>13 DEF Grows
<1>15. Owned'
  BY <1>1, <1>2, <1>13 DEF Owned
<1> QED
  BY <1>1, <1>2, <1>14, <1>15 DEF JsonInv

LEMMA GrownInv ==
  ASSUME JsonInv, hash' = hash, Grown
  PROVE  JsonInv' /\ TakenOrNot(ByPairs(object), ByPairs(object'), loop.name, loop.value)
<1> DEFINE large == loop.larger
           k == cell_capacity(large)
<1>1. /\ loop.at = "growing" /\ Len(large.pairs) = Len(object.pairs)
      /\ loop' = [at |-> "idle"]
  BY DEF Grown, count
<1>2. Grows(hash, object, loop) /\ Hashes /\ Owned /\ hash \in [Names -> HashCodes]
  BY <1>1, GrowingFacts
<1>3. /\ Table(hash, object, cell_capacity(object))
      /\ Table(hash, large, k)
      /\ Len(object.pairs) < Room(k)
      /\ \A x \in 1..Len(large.pairs) :
           /\ large.pairs[x].name = object.pairs[x].name
           /\ large.pairs[x].value = object.pairs[x].value
      /\ loop.name \in Names
      /\ \A x \in 1..Len(object.pairs) : object.pairs[x].name # loop.name
  BY <1>2 DEF Grows
<1>4. /\ ValuesOf(object) = parented /\ parented \subseteq allocated /\ allocated \subseteq Values
      /\ loop.value \in allocated \ parented
  BY <1>1, <1>2 DEF Owned
<1>5. ValuesOf(large) = ValuesOf(object)
  BY <1>1, <1>3, SameValues
<1>5a. Orderly(large) /\ ByPairs(large) = ByPairs(object)
  <2>1. Orderly(large) /\ Orderly(object)
    BY <1>3, TableIsOrderly
  <2> QED
    BY <2>1, <1>1, <1>3, SameDict
<1>6. (loop').at = "idle"
  BY <1>1
<1> HIDE DEF large, k
<1>7. CASE /\ object' = Place(large, loop.name, loop.value)
           /\ parented' = parented \union {loop.value}
           /\ allocated' = allocated
  <2>1. \A x \in 1..Len(large.pairs) :
          large.pairs[x].name # loop.name /\ large.pairs[x].value # loop.value
    <3>1. \A x \in 1..Len(large.pairs) : large.pairs[x].name # loop.name
      BY <1>1, <1>3
    <3>2. \A x \in 1..Len(large.pairs) : large.pairs[x].value \in ValuesOf(large)
      BY <1>3, ValuesAre
    <3> QED
      BY <3>1, <3>2, <1>4, <1>5
  <2>2. loop.value \in Values /\ Len(large.pairs) < Room(k)
    BY <1>1, <1>3, <1>4
  <2>3. /\ Table(hash, object', k)
        /\ Len((object').pairs) = Len(large.pairs) + 1
        /\ \A x \in 1..Len(large.pairs) :
             /\ (object').pairs[x].name = large.pairs[x].name
             /\ (object').pairs[x].value = large.pairs[x].value
        /\ (object').pairs[Len(large.pairs) + 1].name = loop.name
        /\ (object').pairs[Len(large.pairs) + 1].value = loop.value
    BY <1>2, <1>3, <1>7, <2>1, <2>2, Placed
  <2>4. ValuesOf(object') = ValuesOf(large) \union {loop.value}
    BY <1>3, <2>3, PlacedValues
  <2>5. cell_capacity(object') = k
    BY <2>3, TableFacts
  <2>6. Idle(hash, object', loop')
    BY <1>6, <2>3, <2>5 DEF Idle
  <2>7. Owned'
    BY <1>4, <1>5, <1>6, <1>7, <2>4 DEF Owned
  <2>8. Puts(ByPairs(object), ByPairs(object'), loop.name, loop.value)
    <3>1. Orderly(object')
      BY <2>3, TableIsOrderly
    <3>2. Puts(ByPairs(large), ByPairs(object'), loop.name, loop.value)
      BY <3>1, <1>5a, <2>1, <2>3, PlacedDict
    <3> QED
      BY <3>2, <1>5a
  <2>9. TakenOrNot(ByPairs(object), ByPairs(object'), loop.name, loop.value)
    BY <1>7, <2>8 DEF TakenOrNot
  <2> QED
    BY <1>2, <2>6, <2>7, <2>9 DEF JsonInv
<1>8. CASE /\ object' = large
           /\ allocated' = IF loop.made THEN allocated \ {loop.value} ELSE allocated
           /\ parented' = parented
  <2>1. Idle(hash, object', loop')
    BY <1>3, <1>6, <1>8 DEF Idle, k
  <2>2. parented \subseteq allocated' /\ allocated' \subseteq Values
    BY <1>4, <1>8
  <2>3. Owned'
    BY <1>4, <1>5, <1>6, <1>8, <2>2 DEF Owned
  <2>4. TakenOrNot(ByPairs(object), ByPairs(object'), loop.name, loop.value)
    BY <1>4, <1>5a, <1>8 DEF TakenOrNot
  <2> QED
    BY <1>2, <2>1, <2>3, <2>4 DEF JsonInv
<1> QED
  BY <1>7, <1>8 DEF Grown, large

LEMMA LoopTurns ==
  ASSUME NEW k, NEW l, DOMAIN l = {"at", "i", "j", "x"}, NEW l2
  PROVE  /\ l2 = [l EXCEPT !.i = k, !.j = k, !.x = @ + 1]
              => /\ DOMAIN l2 = {"at", "i", "j", "x"} /\ l2.at = l.at
                 /\ l2.i = k /\ l2.j = k /\ l2.x = l.x + 1
         /\ l2 = [l EXCEPT !.j = k, !.x = @ + 1]
              => /\ DOMAIN l2 = {"at", "i", "j", "x"} /\ l2.at = l.at
                 /\ l2.i = l.i /\ l2.j = k /\ l2.x = l.x + 1
<1>1. "at" \in DOMAIN l /\ "i" \in DOMAIN l /\ "j" \in DOMAIN l /\ "x" \in DOMAIN l
  OBVIOUS
<1>2. ASSUME l2 = [l EXCEPT !.i = k, !.j = k, !.x = @ + 1]
      PROVE  /\ DOMAIN l2 = {"at", "i", "j", "x"} /\ l2.at = l.at
             /\ l2.i = k /\ l2.j = k /\ l2.x = l.x + 1
  BY <1>1, <1>2
<1>3. ASSUME l2 = [l EXCEPT !.j = k, !.x = @ + 1]
      PROVE  /\ DOMAIN l2 = {"at", "i", "j", "x"} /\ l2.at = l.at
             /\ l2.i = l.i /\ l2.j = k /\ l2.x = l.x + 1
  BY <1>1, <1>3
<1> QED
  BY <1>2, <1>3

LEMMA ShiftInv ==
  ASSUME JsonInv, hash' = hash, Shift
  PROVE  JsonInv' /\ ByPairs(object') = ByPairs(object)
<1> DEFINE m == cell_capacity(object)
           k == (loop.j + 1) % m
           y == object.cells[k]
           s == hash[object.pairs[y].name] % m
<1>1. /\ loop.at = "shifting" /\ y # 0
      /\ allocated' = allocated /\ parented' = parented
      /\ \/ /\ MayMove(loop.i, k, s)
            /\ object' = [object EXCEPT !.pairs[y].cell_ix = loop.i, !.cells[loop.i] = y]
            /\ loop' = [loop EXCEPT !.i = k, !.j = k, !.x = @ + 1]
         \/ /\ ~MayMove(loop.i, k, s)
            /\ loop' = [loop EXCEPT !.j = k, !.x = @ + 1]
            /\ object' = object
  BY Zenon DEF Shift, NextCell, Home, hash_string, OBJECT_INVALID_IX
<1>2. Shifts(hash, object, loop) /\ Hashes /\ Owned /\ hash \in [Names -> HashCodes]
  BY <1>1, ShiftingFacts
<1>3. /\ DOMAIN loop = {"at", "i", "j", "x"}
      /\ Shifting(hash, object, m, loop) /\ hash \in [Names -> Nat]
  BY <1>2 DEF Shifts, Hashes
<1> HIDE DEF m, k, s, y
<1>4. ASSUME MayMove(loop.i, k, s),
             object' = [object EXCEPT !.pairs[y].cell_ix = loop.i, !.cells[loop.i] = y],
             loop' = [loop EXCEPT !.i = k, !.j = k, !.x = @ + 1]
      PROVE  JsonInv' /\ ByPairs(object') = ByPairs(object)
  <2>2. /\ (loop').i = k /\ (loop').j = k /\ (loop').x = loop.x + 1 /\ (loop').at = "shifting"
        /\ DOMAIN loop' = {"at", "i", "j", "x"}
    BY <1>1, <1>3, <1>4, LoopTurns, Zenon
  <2>3. Moved(hash, object, m, loop, y, object', loop')
    BY <1>1, <1>4, <2>2, Zenon DEF Moved, k, s, y
  <2>4. /\ Shifting(hash, object', m, loop')
        /\ Len((object').pairs) = Len(object.pairs)
        /\ \A x \in 1..Len(object.pairs) :
             /\ (object').pairs[x].name = object.pairs[x].name
             /\ (object').pairs[x].value = object.pairs[x].value
    BY <1>3, <2>3, TurnMoves
  <2>5. TableType(object, m) /\ TableType(object', m) /\ m \in Nat
    BY <1>3, <2>4 DEF Shifting, Sized
  <2>6. cell_capacity(object') = m
    BY <2>5, Capacity
  <2>7. ValuesOf(object') = ValuesOf(object)
    <3>1. object.pairs \in Seq(Pair) /\ (object').pairs \in Seq(Pair)
      BY <2>5 DEF TableType
    <3>2. DOMAIN object.pairs = 1..Len(object.pairs) /\ DOMAIN (object').pairs = 1..Len(object.pairs)
      BY <3>1, <2>4
    <3>3. \A x \in 1..Len(object.pairs) : (object').pairs[x].value = object.pairs[x].value
      BY <2>4
    <3> QED
      BY <3>2, <3>3 DEF ValuesOf
  <2>8. Shifts(hash, object', loop')
    BY <2>2, <2>4, <2>6 DEF Shifts
  <2>9. Owned'
    BY <1>1, <1>2, <2>2, <2>7 DEF Owned
  <2>10. ByPairs(object') = ByPairs(object)
    <3>1. Orderly(object) /\ Orderly(object')
      BY <1>3, <2>4, ShiftingIsOrderly
    <3> QED
      BY <3>1, <2>4, SameDict
  <2> QED
    BY <1>2, <2>8, <2>9, <2>10 DEF JsonInv
<1>5. ASSUME ~MayMove(loop.i, k, s), object' = object,
             loop' = [loop EXCEPT !.j = k, !.x = @ + 1]
      PROVE  JsonInv' /\ ByPairs(object') = ByPairs(object)
  <2>2. /\ (loop').i = loop.i /\ (loop').j = k /\ (loop').x = loop.x + 1
        /\ (loop').at = "shifting" /\ DOMAIN loop' = {"at", "i", "j", "x"}
    BY <1>1, <1>3, <1>5, LoopTurns, Zenon
  <2>3. Shifting(hash, object, m, loop')
    <3>1. Stayed(hash, object, m, loop, y, loop')
      BY <1>1, <1>5, <2>2, Zenon DEF Stayed, k, s, y
    <3> QED
      BY <1>3, <3>1, TurnStays
  <2>4. Shifts(hash, object', loop')
    BY <1>5, <2>2, <2>3 DEF Shifts, m
  <2>5. Owned'
    BY <1>1, <1>2, <1>5, <2>2 DEF Owned
  <2> QED
    BY <1>2, <1>5, <2>4, <2>5 DEF JsonInv
<1> QED
  BY <1>1, <1>4, <1>5, Zenon

LEMMA ShiftedInv ==
  ASSUME JsonInv, hash' = hash, Shifted
  PROVE  JsonInv' /\ ByPairs(object') = ByPairs(object)
<1> DEFINE m == cell_capacity(object)
           k == (loop.j + 1) % m
<1>1. /\ loop.at = "shifting"
      /\ loop.x = m - 1 \/ object.cells[k] = 0
      /\ object' = Emptied(object, loop.i)
      /\ loop' = [at |-> "idle"]
      /\ allocated' = allocated /\ parented' = parented
  BY DEF Shifted, NextCell, OBJECT_INVALID_IX, Emptied
<1>2. Shifts(hash, object, loop) /\ Hashes /\ Owned /\ hash \in [Names -> HashCodes]
  BY <1>1, ShiftingFacts
<1>3. Shifting(hash, object, m, loop) /\ hash \in [Names -> Nat]
  BY <1>2 DEF Shifts, Hashes
<1>4. loop.x \in Nat /\ loop.x < m - 1 /\ m \in Nat
  <2> HIDE DEF m
  <2>1. Scene(object, m, loop, loop.i, (loop.j + 1) % m, Emptied(object, loop.i))
    BY <1>3, ShiftFacts
  <2> QED
    BY <2>1 DEF Scene
<1>5. object.cells[k] = 0
  BY <1>1, <1>4
<1>6. Table(hash, object', m) /\ (object').pairs = object.pairs
  <2> HIDE DEF m
  <2> QED
    BY <1>1, <1>3, <1>5, ShiftEnds
<1>7. cell_capacity(object') = m
  BY <1>6, TableFacts
<1>8. ValuesOf(object') = ValuesOf(object)
  BY <1>6 DEF ValuesOf
<1>9. Idle(hash, object', loop')
  BY <1>1, <1>6, <1>7 DEF Idle
<1>10. Owned'
  BY <1>1, <1>2, <1>8 DEF Owned
<1>11. ByPairs(object') = ByPairs(object)
  BY <1>6 DEF ByPairs
<1> QED
  BY <1>2, <1>9, <1>10, <1>11 DEF JsonInv

LEMMA SetInv ==
  ASSUME JsonInv, loop.at = "idle", hash' = hash, NEW n \in Names, NEW v \in Values,
         json_object_set_value(n, v) \/ json_object_set_string(n, v)
  PROVE  JsonInv' /\ TakenOrNot(ByPairs(object), ByPairs(object'), n, v)
<1>1. v \notin parented
  BY DEF json_object_set_value, json_object_set_string, JsonInv, Owned
<1>2. Replace(n, v) \/ Insert(n, v) \/ Grow(n, v, FALSE) \/ Grow(n, v, TRUE) \/ OutOfMemory(n)
  BY DEF json_object_set_value, json_object_set_string
<1>3. CASE OutOfMemory(n)
  BY <1>1, <1>3 DEF OutOfMemory, JsonInv, Owned, Idle, Grows, Shifts, TakenOrNot
<1>4. CASE Replace(n, v) \/ Insert(n, v)
  BY <1>1, <1>4, ReplaceInv, InsertInv
<1>5. CASE Grow(n, v, FALSE) \/ Grow(n, v, TRUE)
  BY <1>1, <1>5, GrowInv
<1> QED
  BY <1>2, <1>3, <1>4, <1>5

LEMMA JsonStep ==
  JsonInv /\ [JsonNext]_jsonVars => JsonInv' /\ Changes(ByPairs(object), ByPairs(object'))
<1> SUFFICES ASSUME JsonInv, [JsonNext]_jsonVars
             PROVE  JsonInv' /\ Changes(ByPairs(object), ByPairs(object'))
  OBVIOUS
<1>1. CASE UNCHANGED jsonVars
  BY <1>1 DEF jsonVars, JsonInv, Owned, Idle, Grows, Shifts, Changes
<1>2. CASE JsonNext
  <2>0. hash' = hash
    BY <1>2 DEF JsonNext
  <2>1. CASE Call
    <3>0. loop.at = "idle"
      BY <2>1 DEF Call
    <3>1. ASSUME NEW v \in Values, CreateValue(v) \/ json_value_free(v)
          PROVE  JsonInv' /\ Changes(ByPairs(object), ByPairs(object'))
      BY <2>0, <3>0, <3>1, CreateInv, FreeInv DEF Changes
    <3>2. ASSUME NEW n \in Names, NEW v \in Values,
                 json_object_set_value(n, v) \/ json_object_set_string(n, v)
          PROVE  JsonInv' /\ Changes(ByPairs(object), ByPairs(object'))
      BY <2>0, <3>0, <3>2, SetInv DEF TakenOrNot, Changes
    <3>3. ASSUME NEW n \in Names, json_object_remove(n)
          PROVE  JsonInv' /\ Changes(ByPairs(object), ByPairs(object'))
      BY <2>0, <3>0, <3>3, RemoveInv DEF Changes
    <3>4. CASE json_object_clear
      BY <2>0, <3>0, <3>4, ClearInv DEF Changes
    <3> QED
      BY <2>1, <3>1, <3>2, <3>3, <3>4 DEF Call
  <2>2. CASE grow_and_rehash
    BY <2>0, <2>2, RehashInv DEF Changes
  <2>3. CASE Grown
    <3>1. loop.name \in Names /\ loop.value \in Values
      BY <2>3, GrowingFacts DEF Grown, Grows, Owned
    <3> QED
      BY <2>0, <2>3, <3>1, GrownInv DEF TakenOrNot, Changes
  <2>4. CASE Shift
    BY <2>0, <2>4, ShiftInv DEF Changes
  <2>5. CASE Shifted
    BY <2>0, <2>5, ShiftedInv DEF Changes
  <2> QED
    BY <1>2, <2>1, <2>2, <2>3, <2>4, <2>5 DEF JsonNext
<1> QED
  BY <1>1, <1>2

-----------------------------------------------------------------------------
(* The theorems.                                                           *)

\* At every step of every call, of a growth and of a removal, the table is one
\* the code can go on from (parson.c:433-676, 2063-2113).
THEOREM JsonIsInvariant == JsonSpec => []JsonInv
<1>1. JsonInv /\ [JsonNext]_jsonVars => JsonInv'
  BY JsonStep
<1> QED
  BY JsonInitInv, <1>1, PTL DEF JsonSpec

LEMMA TableIsWhole ==
  ASSUME NEW h, NEW m, NEW t, Table(h, t, m)
  PROVE  Whole(t)
<1>1. /\ m \in Nat /\ DOMAIN t.cells = 0..(m - 1) /\ DOMAIN t.pairs = 1..Len(t.pairs)
      /\ cell_capacity(t) = m /\ (m > 0 => Len(t.pairs) < m)
  BY TableFacts
<1>2. TableType(t, m) /\ Indexed(t, m)
  BY DEF Table
<1>3. m > 0 => \E c \in 0..(m - 1) : t.cells[c] = 0
  BY <1>1, <1>2, HasFree
<1> QED
  BY <1>1, <1>2, <1>3 DEF Whole, Indexed, OBJECT_INVALID_IX

\* Between the calls the two indices name each other and a cell is free, so the
\* search for a missing name ends; and a table that grows never finds a pair
\* in the larger one before it is moved, nor that one full: the call of
\* json_object_add for it cannot fail for these (parson.c:503-562, 581-589).
THEOREM TablesAreWhole == JsonSpec => []TableWhole
<1>1. JsonInv => TableWhole
  <2> SUFFICES ASSUME JsonInv PROVE TableWhole
    OBVIOUS
  <2>1. CASE Idle(hash, object, loop)
    <3>1. loop.at = "idle" /\ Table(hash, object, cell_capacity(object))
      BY <2>1 DEF Idle
    <3>2. Whole(object)
      BY <3>1, TableIsWhole
    <3> QED
      BY <3>1, <3>2 DEF TableWhole
  <2>2. CASE Shifts(hash, object, loop)
    BY <2>2 DEF Shifts, TableWhole
  <2>3. CASE Grows(hash, object, loop)
    <3> DEFINE large == loop.larger
    <3>1. /\ loop.at = "growing" /\ Table(hash, object, cell_capacity(object))
          /\ Table(hash, large, cell_capacity(large))
          /\ Len(large.pairs) <= Len(object.pairs)
          /\ Len(object.pairs) < Room(cell_capacity(large))
          /\ \A x \in 1..Len(large.pairs) : large.pairs[x].name = object.pairs[x].name
      BY <2>3 DEF Grows
    <3>2. Whole(object) /\ Whole(large)
      BY <3>1, TableIsWhole
    <3>3. /\ Len(large.pairs) \in Nat /\ Len(object.pairs) \in Nat
          /\ item_capacity(large) = Room(cell_capacity(large))
          /\ Room(cell_capacity(large)) \in Nat
          /\ \A x \in 1..Len(object.pairs) : object.pairs[x].name \in Names
      BY <3>1, TableFacts
    <3>4. ~Full(large)
      BY <3>1, <3>3 DEF Full, count
    <3> HIDE DEF large
    <3>5. ASSUME NEW x \in (Len(large.pairs) + 1)..Len(object.pairs)
          PROVE  ~Found(large, object.pairs[x].name)
      <4>1. x \in 1..Len(object.pairs)
        BY <3>3
      <4>2. Hashes /\ object.pairs[x].name \in Names
        BY <3>3, <4>1, HashesType
      <4>3. ASSUME NEW y \in 1..Len(large.pairs), large.pairs[y].name = object.pairs[x].name
            PROVE  FALSE
        <5>1. y \in 1..Len(object.pairs) /\ y # x
          BY <3>1, <3>3
        <5>2. object.pairs[y].name = object.pairs[x].name
          BY <3>1, <4>3
        <5> QED
          BY <3>1, <4>1, <5>1, <5>2 DEF Table, Distinct
      <4> QED
        BY <3>1, <4>2, <4>3, FoundIs
    <3> QED
      BY <3>1, <3>2, <3>4, <3>5 DEF TableWhole, count, large
  <2> QED
    BY <2>1, <2>2, <2>3 DEF JsonInv
<1> QED
  BY JsonIsInvariant, <1>1, PTL

LEMMA ObjectIsOrderly == JsonInv => Orderly(object)
BY TableIsOrderly, ShiftingIsOrderly DEF JsonInv, Idle, Grows, Shifts

LEMMA CountOfValues ==
  ASSUME NEW t, Orderly(t)
  PROVE  Cardinality(ValuesOf(t)) = Len(t.pairs)
<1> DEFINE n == Len(t.pairs)
           f == [x \in 1..n |-> t.pairs[x].value]
           V == ValuesOf(t)
<1>1. n \in Nat /\ DOMAIN t.pairs = 1..n
  BY DEF Orderly
<1>2. f \in [1..n -> V] /\ \A v \in V : \E x \in 1..n : f[x] = v
  BY <1>1 DEF ValuesOf
<1>3. \A x, y \in 1..n : f[x] = f[y] => x = y
  BY DEF Orderly, Distinct
<1>4. f \in Bijection(1..n, V)
  BY <1>2, <1>3 DEF Bijection, Injection, Surjection, IsInjective
<1>5. ExistsBijection(1..n, V)
  BY <1>4 DEF ExistsBijection
<1> HIDE DEF n, V, f
<1>6. n \in Int /\ 1 \in Int
  BY <1>1
<1>7. IsFiniteSet(1..n) /\ Cardinality(1..n) = IF 1 > n THEN 0 ELSE n - 1 + 1
  BY <1>6, FS_Interval
<1>8. Cardinality(V) = Cardinality(1..n)
  BY <1>5, <1>7, FS_Bijection
<1> QED
  BY <1>1, <1>7, <1>8 DEF n, V

\* No value is freed twice or in two pairs: those in the object are
\* those with a parent and none has been freed, whether a value was taken,
\* replaced, removed or refused for want of memory (parson.c:618-646, 2063-2104).
THEOREM ValuesAreOwned == JsonSpec => []ValuesOwned
<1>1. JsonInv => ValuesOwned
  <2> SUFFICES ASSUME JsonInv PROVE ValuesOwned
    OBVIOUS
  <2>1. InObject = ValuesOf(object)
    BY DEF InObject, ValuesOf
  <2>2. Cardinality(ValuesOf(object)) = Len(object.pairs)
    BY ObjectIsOrderly, CountOfValues
  <2> QED
    BY <2>1, <2>2 DEF ValuesOwned, JsonInv, Owned, count
<1> QED
  BY JsonIsInvariant, <1>1, PTL

\* A lookup between calls, or while the table grows, finds what the pairs say.
Finds ==
  loop.at # "shifting" =>
    \A n \in Names :
      /\ Found(object, n) <=> \E x \in DOMAIN object.pairs : object.pairs[x].name = n
      /\ Found(object, n) => getn_value(object, n) = Stored(n)

LEMMA JsonFinds == JsonInv => Finds
<1>1. JsonInv => Finds
  <2> SUFFICES ASSUME JsonInv, loop.at # "shifting", NEW n \in Names
               PROVE  /\ Found(object, n) <=> \E x \in DOMAIN object.pairs : object.pairs[x].name = n
                      /\ Found(object, n) => getn_value(object, n) = Stored(n)
    BY DEF Finds
  <2>1. Table(hash, object, cell_capacity(object)) /\ Hashes
    BY HashesType DEF JsonInv, Idle, Grows, Shifts
  <2>2. DOMAIN object.pairs = 1..Len(object.pairs)
    BY <2>1, TableFacts
  <2> DEFINE y == object.cells[get_cell_ix(object, n)]
             z == CHOOSE x \in DOMAIN object.pairs : object.pairs[x].name = n
  <2>3. Found(object, n) => y \in 1..Len(object.pairs) /\ object.pairs[y].name = n
    BY <2>1, FoundIs
  <2>4. Found(object, n) => z \in 1..Len(object.pairs) /\ object.pairs[z].name = n
    BY <2>2, <2>3
  <2>5. Found(object, n) => y = z
    <3> HIDE DEF y, z
    <3> QED
      BY <2>1, <2>3, <2>4 DEF Table, Distinct
  <2>6. getn_value(object, n) = object.pairs[y].value /\ Stored(n) = object.pairs[z].value
    BY DEF getn_value, Stored
  <2>7. Found(object, n) => getn_value(object, n) = Stored(n)
    BY <2>5, <2>6
  <2>8. Found(object, n) <=> \E x \in DOMAIN object.pairs : object.pairs[x].name = n
    BY <2>1, <2>2, FoundIs
  <2> QED
    BY <2>7, <2>8
<1> QED
  BY <1>1

\* A lookup finds a name if and only if a pair has it, and then the value of
\* that pair: the search never stops short of it (parson.c:533-562, 600-616).
THEOREM LookupsFind == JsonSpec => []Finds
BY JsonIsInvariant, JsonFinds, PTL

\* What lookups find is what the pairs say.
Agrees == Dict = ByPairs(object)

LEMMA DictIsPairs == JsonInv => Agrees
<1> SUFFICES ASSUME JsonInv PROVE Dict = ByPairs(object)
  BY DEF Agrees
<1>1. CASE loop.at = "shifting"
  BY <1>1 DEF Dict, ByPairs, Stored
<1>2. CASE loop.at # "shifting"
  <2>1. \A n \in Names :
          /\ Found(object, n) <=> \E x \in DOMAIN object.pairs : object.pairs[x].name = n
          /\ Found(object, n) => getn_value(object, n) = Stored(n)
    BY <1>2, JsonFinds DEF Finds
  <2>2. \A x \in DOMAIN object.pairs : object.pairs[x].name \in Names
    <3>1. object.pairs \in Seq(Pair)
      BY ObjectIsOrderly DEF Orderly
    <3>2. \A x \in DOMAIN object.pairs : object.pairs[x] \in Pair
      BY <3>1
    <3> QED
      BY <3>2 DEF Pair
  <2>3. {m \in Names : Found(object, m)} = {object.pairs[x].name : x \in DOMAIN object.pairs}
    BY <2>1, <2>2
  <2>4. \A n \in {m \in Names : Found(object, m)} : getn_value(object, n) = Stored(n)
    BY <2>1
  <2>5. Dict = [n \in {m \in Names : Found(object, m)} |-> Stored(n)]
    BY <1>2, <2>4 DEF Dict
  <2> QED
    BY <2>3, <2>5 DEF ByPairs, Stored
<1> QED
  BY <1>1, <1>2

LEMMA DictPuts ==
  ASSUME Agrees, Agrees', NEW n, NEW v,
         TakenOrNot(ByPairs(object), ByPairs(object'), n, v)
  PROVE  PutOrFail(n, v)
<1>1. CASE v \in parented'
  <2>1. Puts(Dict, Dict', n, v)
    BY <1>1 DEF TakenOrNot, Agrees
  <2>2. Lookup!Put(n, v)
    BY <2>1 DEF Puts, Lookup!Put, Dict
  <2> QED
    BY <1>1, <2>2 DEF PutOrFail
<1>2. CASE v \notin parented'
  BY <1>2 DEF TakenOrNot, Agrees, PutOrFail
<1> QED
  BY <1>1, <1>2

LEMMA DictDeletes ==
  ASSUME Agrees, Agrees', NEW n, Deletes(ByPairs(object), ByPairs(object'), n)
  PROVE  Lookup!Delete(n)
<1>1. Deletes(Dict, Dict', n)
  BY DEF Agrees
<1> QED
  BY <1>1 DEF Deletes, Lookup!Delete, Restrict, Lookup!Restrict, Dict

LEMMA CallsAreTheirOwn ==
  ASSUME JsonInv, Agrees, Agrees', hash' = hash
  PROVE  EachCallItsOwn
<1>1. ASSUME loop.at = "idle", NEW v \in Values, CreateValue(v) \/ json_value_free(v)
      PROVE  Dict' = Dict
  BY <1>1, CreateInv, FreeInv DEF Agrees
<1>2. ASSUME loop.at = "idle", NEW n \in Names, NEW v \in Values,
             json_object_set_value(n, v) \/ json_object_set_string(n, v)
      PROVE  PutOrFail(n, v)
  BY <1>2, SetInv, DictPuts
<1>3. ASSUME loop.at = "idle", NEW n \in Names, json_object_remove(n)
      PROVE  Lookup!Delete(n)
  BY <1>3, RemoveInv, DictDeletes
<1>4. ASSUME loop.at = "idle", json_object_clear
      PROVE  Lookup!Clear
  BY <1>4, ClearInv DEF Agrees, Lookup!Clear, Dict
<1>5. ASSUME grow_and_rehash \/ Shift \/ Shifted
      PROVE  Dict' = Dict
  BY <1>5, RehashInv, ShiftInv, ShiftedInv DEF Agrees
<1>6. ASSUME Grown
      PROVE  PutOrFail(loop.name, loop.value)
  BY <1>6, GrownInv, DictPuts
<1> QED
  BY <1>1, <1>2, <1>3, <1>4, <1>5, <1>6 DEF EachCallItsOwn

\* json_object is a dictionary to whoever looks names up.  A value that is set
\* is what its name finds, and no other name is touched, or the call failed and
\* nothing shows; a removal deletes its own pair and no other; a clear, all of
\* them; growth and the shift behind a removal do not show
\* (parson.c:503-676, 2063-2104, 2270-2287).
THEOREM ObjectIsDictionary == JsonSpec => IsDictionary
<1>1. JsonInit => Lookup!Init
  <2> SUFFICES ASSUME JsonInit PROVE Dict = <<>>
    BY DEF Lookup!Init, Dict
  <2>1. Dict = ByPairs(object)
    BY JsonInitInv, DictIsPairs DEF Agrees
  <2>2. object.pairs = <<>>
    BY DEF JsonInit, json_object_init
  <2> QED
    BY <2>1, <2>2 DEF ByPairs
<1>2. JsonInv /\ Agrees /\ Agrees' /\ [JsonNext]_jsonVars => [Lookup!Next]_Dict
  <2> SUFFICES ASSUME JsonInv, Agrees, Agrees', [JsonNext]_jsonVars
               PROVE  Dict' = Dict \/ Lookup!Next
    OBVIOUS
  <2>1. Changes(Dict, Dict')
    BY JsonStep DEF Agrees
  <2>2. ASSUME NEW n \in Names, Deletes(Dict, Dict', n)
        PROVE  Lookup!Delete(n)
    BY <2>2 DEF Deletes, Lookup!Delete, Restrict, Lookup!Restrict, Dict
  <2>3. ASSUME NEW n \in Names, NEW v \in Values, Puts(Dict, Dict', n, v)
        PROVE  Lookup!Put(n, v)
    BY <2>3 DEF Puts, Lookup!Put, Dict
  <2>4. Dict' = <<>> => Lookup!Clear
    BY DEF Lookup!Clear, Dict
  <2> QED
    BY <2>1, <2>2, <2>3, <2>4 DEF Changes, Lookup!Next
<1>3. JsonInv /\ Agrees /\ Agrees' /\ [JsonNext]_jsonVars => [EachCallItsOwn]_jsonVars
  <2>1. JsonNext => hash' = hash
    BY DEF JsonNext
  <2> QED
    BY <2>1, CallsAreTheirOwn
<1>4. JsonSpec => Lookup!Spec
  BY <1>1, <1>2, JsonIsInvariant, DictIsPairs, PTL DEF JsonSpec, Lookup!Spec, Dict
<1>5. JsonSpec => [][EachCallItsOwn]_jsonVars
  BY <1>3, JsonIsInvariant, DictIsPairs, PTL DEF JsonSpec
<1> QED
  BY <1>4, <1>5, PTL DEF IsDictionary

-----------------------------------------------------------------------------
(* Sequences.                                                              *)

LEMMA Appended ==
  \A S : \A s \in Seq(S), e \in S :
    /\ Append(s, e) \in Seq(S) /\ Append(s, e) # <<>>
    /\ Len(s) \in Nat /\ Len(Append(s, e)) = Len(s) + 1
    /\ \A j \in 1..Len(s) : Append(s, e)[j] = s[j]
    /\ Append(s, e)[Len(s) + 1] = e
BY AppendProperties, LenProperties

LEMMA Fronted ==
  \A S : \A s \in Seq(S) : s # <<>> =>
    /\ Front(s) \in Seq(S)
    /\ Len(s) \in Nat /\ Len(s) >= 1
    /\ Len(Front(s)) = Len(s) - 1
    /\ \A j \in 1..(Len(s) - 1) : Front(s)[j] = s[j]
    /\ Last(s) = s[Len(s)] /\ Last(s) \in S
<1> TAKE S
<1> TAKE s \in Seq(S)
<1> HAVE s # <<>>
<1>1. Len(s) \in Nat /\ Len(s) >= 1
  BY EmptySeq
<1>2. \A j \in 1..(Len(s) - 1) : s[j] \in S
  BY <1>1, ElementOfSeq
<1>3. /\ SubSeq(s, 1, Len(s) - 1) \in Seq(S)
      /\ Len(SubSeq(s, 1, Len(s) - 1)) = Len(s) - 1
      /\ \A j \in 1..(Len(s) - 1) : SubSeq(s, 1, Len(s) - 1)[j] = s[j]
  <2> DEFINE n == Len(s) - 1
  <2>1. n \in Int /\ 1 \in Int /\ n - 1 + 1 = n
    BY <1>1
  <2>2. \A j \in 1..n : s[j] \in S
    BY <1>2
  <2>3. /\ SubSeq(s, 1, n) \in Seq(S)
        /\ Len(SubSeq(s, 1, n)) = IF 1 <= n THEN n - 1 + 1 ELSE 0
        /\ \A j \in 1..(n - 1 + 1) : SubSeq(s, 1, n)[j] = s[1 + j - 1]
    BY <2>1, <2>2, SubSeqProperties
  <2>4. \A j \in 1..n : 1 + j - 1 = j
    OBVIOUS
  <2> QED
    BY <1>1, <2>1, <2>3, <2>4
<1>4. s[Len(s)] \in S
  BY <1>1, ElementOfSeq
<1> QED
  BY <1>1, <1>3, <1>4 DEF Front, Last

LEMMA EmptyIs == \A S : \A s \in Seq(S) : Len(s) \in Nat /\ (s = <<>> <=> Len(s) = 0)
BY EmptySeq

\* A sequence with another innermost element.
LEMMA Exchanged ==
  \A S : \A s \in Seq(S), e \in S : s # <<>> =>
    /\ Append(Front(s), e) \in Seq(S) /\ Append(Front(s), e) # <<>>
    /\ Len(Append(Front(s), e)) = Len(s)
    /\ \A j \in 1..(Len(s) - 1) : Append(Front(s), e)[j] = s[j]
    /\ Append(Front(s), e)[Len(s)] = e
<1> TAKE S
<1> TAKE s \in Seq(S), e \in S
<1> HAVE s # <<>>
<1>1. Front(s) \in Seq(S) /\ Len(s) \in Nat /\ Len(s) >= 1 /\ Len(Front(s)) = Len(s) - 1
  BY Fronted
<1>2. \A j \in 1..(Len(s) - 1) : Front(s)[j] = s[j]
  BY Fronted
<1>3. /\ Append(Front(s), e) \in Seq(S) /\ Append(Front(s), e) # <<>>
      /\ Len(Append(Front(s), e)) = Len(Front(s)) + 1
      /\ \A j \in 1..Len(Front(s)) : Append(Front(s), e)[j] = Front(s)[j]
      /\ Append(Front(s), e)[Len(Front(s)) + 1] = e
  BY <1>1, Appended
<1> QED
  BY <1>1, <1>2, <1>3

\* s is how f begins.
Begins(s, f) == Len(s) <= Len(f) /\ \A j \in 1..Len(s) : f[j] = s[j]

LEMMA BeginsOn ==
  \A S : \A s, c, f \in Seq(S) : Begins(s \o c, f) => Begins(s, f)
<1> TAKE S
<1> TAKE s, c, f \in Seq(S)
<1>1. Len(s) \in Nat /\ Len(c) \in Nat /\ Len(f) \in Nat
  BY LenProperties
<1>2. Len(s \o c) = Len(s) + Len(c) /\ \A j \in 1..Len(s) : (s \o c)[j] = s[j]
  BY <1>1, ConcatProperties
<1> QED
  BY <1>1, <1>2 DEF Begins

LEMMA BeginsLonger ==
  \A S : \A s, f, c \in Seq(S) : Begins(s, f) => Begins(s, f \o c)
<1> TAKE S
<1> TAKE s, f, c \in Seq(S)
<1>1. Len(s) \in Nat /\ Len(c) \in Nat /\ Len(f) \in Nat
  BY LenProperties
<1>2. Len(f \o c) = Len(f) + Len(c) /\ \A j \in 1..Len(f) : (f \o c)[j] = f[j]
  BY <1>1, ConcatProperties
<1> QED
  BY <1>1, <1>2 DEF Begins

-----------------------------------------------------------------------------
(* Values and their depth.                                                 *)

LEMMA DocumentIs ==
  \A v \in Documents :
    \/ v.type = "scalar" /\ v.symbol \in Scalars /\ v = [type |-> "scalar", symbol |-> v.symbol]
    \/ v.type = "string" /\ v.chars \in Strings /\ v = [type |-> "string", chars |-> v.chars]
    \/ v.type \in Containers /\ ContainerAssumption(v)
BY TextAssumption

LEMMA ContainerIs ==
  \A v \in Documents : v.type \in Containers =>
    /\ v = [type |-> v.type, names |-> v.names, values |-> v.values]
    /\ v.values \in Seq(Documents) /\ Len(v.values) \in Nat
    /\ v.type = "array" => v.names = <<>>
    /\ v.type = "object" =>
         /\ v.names \in Seq(Strings) /\ Len(v.names) = Len(v.values)
         /\ \A j, k \in 1..Len(v.values) : v.names[j] = v.names[k] => j = k
<1> TAKE v \in Documents
<1> HAVE v.type \in Containers
<1>1. ContainerAssumption(v)
  BY DocumentIs DEF Containers
<1>2. v.values \in Seq(Documents) /\ Len(v.values) \in Nat
  BY <1>1, LenProperties DEF ContainerAssumption
<1>3. v.type = "object" => DOMAIN v.names = 1..Len(v.values)
  BY <1>1, LenProperties DEF ContainerAssumption
<1> QED
  BY <1>1, <1>2, <1>3 DEF ContainerAssumption

LEMMA Induction ==
  ASSUME NEW S, NEW i \in Nat, NEW n \in Nat, i <= n, i \in S,
         \A k \in (i + 1)..n : k - 1 \in S => k \in S
  PROVE  n \in S
<1> SUFFICES ASSUME n \notin S  PROVE FALSE
  OBVIOUS
<1> DEFINE Out == {k \in i..n : k \notin S}
<1>1. n \in Out /\ Out \subseteq Nat
  OBVIOUS
<1>2. PICK R : IsWellFoundedOn(R, Nat) /\ R = {ss \in Nat \X Nat : ss[1] < ss[2]}
  BY NatLessThanWellFounded, Zenon DEF OpToRel
<1>3. PICK k \in Out : \A j \in Out : ~(<<j, k>> \in R)
  BY <1>1, <1>2, WFMin
<1>4. k \in (i + 1)..n /\ k \notin S
  BY <1>3
<1>5. k - 1 \in i..n /\ k - 1 \in Nat /\ k \in Nat
  BY <1>4
<1>6. k - 1 \in Out
  BY <1>4, <1>5
<1>7. ~(<<k - 1, k>> \in R)
  BY <1>3, <1>6
<1> QED
  BY <1>2, <1>5, <1>7

LEMMA DeepRecursion ==
  \A N \in Nat, F \in [SUBSET Documents -> SUBSET Documents] :
    \E r \in [0..N -> SUBSET Documents] :
      r[0] = Documents /\ \A k \in 1..N : r[k] = F[r[k - 1]]
<1> TAKE N \in Nat, F \in [SUBSET Documents -> SUBSET Documents]
<1> DEFINE Follows(r, n) == r[0] = Documents /\ \A k \in 1..n : r[k] = F[r[k - 1]]
           Done == {n \in 0..N : \E r \in [0..n -> SUBSET Documents] : Follows(r, n)}
<1>1. 0 \in Done
  <2> DEFINE first == [k \in 0..0 |-> Documents]
  <2>1. first \in [0..0 -> SUBSET Documents] /\ first[0] = Documents /\ 1..0 = {} /\ 0 \in 0..N
    OBVIOUS
  <2> HIDE DEF first
  <2> QED
    BY <2>1
<1>2. ASSUME NEW n \in 1..N, n - 1 \in Done  PROVE n \in Done
  <2>1. PICK r \in [0..(n - 1) -> SUBSET Documents] : Follows(r, n - 1)
    BY <1>2
  <2> DEFINE q == [k \in 0..n |-> IF k = n THEN F[r[n - 1]] ELSE r[k]]
  <2>2. n - 1 \in 0..(n - 1) /\ n \in 0..N /\ n \in Nat
    OBVIOUS
  <2>4. F[r[n - 1]] \in SUBSET Documents
    BY <2>2
  <2>5. \A k \in 0..n : k = n \/ k \in 0..(n - 1)
    OBVIOUS
  <2>6. q \in [0..n -> SUBSET Documents]
    BY <2>4, <2>5
  <2>7. q[0] = Documents
    BY <2>1, <2>2
  <2>8. ASSUME NEW k \in 1..n  PROVE q[k] = F[q[k - 1]]
    <3>1. k \in 0..n /\ k - 1 \in 0..n /\ k - 1 # n
      OBVIOUS
    <3>2. q[k - 1] = r[k - 1]
      BY <3>1
    <3>3. CASE k = n
      BY <3>1, <3>2, <3>3
    <3>4. CASE k # n
      <4>1. k \in 1..(n - 1)
        BY <3>4
      <4>2. q[k] = r[k]
        BY <3>1, <3>4
      <4> QED
        BY <2>1, <3>2, <4>1, <4>2
    <3> QED
      BY <3>3, <3>4
  <2> QED
    BY <2>2, <2>6, <2>7, <2>8
<1> HIDE DEF Done
<1>3. N \in Done
  BY <1>1, <1>2, Induction
<1> QED
  BY <1>3 DEF Done

LEMMA DeepIs ==
  /\ Deep[0] = Documents
  /\ \A n \in 1..(MAX_NESTING + 1) : Deep[n] = Holding(Deep[n - 1])
<1> DEFINE N == MAX_NESTING + 1
           F == [vs \in SUBSET Documents |-> Holding(vs)]
           After(r) == r = [n \in 0..N |-> IF n = 0 THEN Documents ELSE Holding(r[n - 1])]
           after == CHOOSE r : After(r)
<1>1. N \in Nat /\ 0 \in 0..N
  BY TextAssumption
<1>2. F \in [SUBSET Documents -> SUBSET Documents]
  BY DEF Holding
<1>3. \A vs \in SUBSET Documents : F[vs] = Holding(vs)
  OBVIOUS
<1> HIDE DEF F
<1>4. PICK r \in [0..N -> SUBSET Documents] :
        r[0] = Documents /\ \A k \in 1..N : r[k] = F[r[k - 1]]
  BY <1>1, <1>2, DeepRecursion
<1>5. \A k \in 0..N : r[k] = IF k = 0 THEN Documents ELSE Holding(r[k - 1])
  <2> SUFFICES ASSUME NEW k \in 0..N, k # 0  PROVE r[k] = Holding(r[k - 1])
    BY <1>4
  <2>1. k \in 1..N /\ k - 1 \in 0..N
    BY <1>1
  <2> QED
    BY <1>3, <1>4, <2>1
<1>6. After(r)
  <2>1. r = [k \in 0..N |-> r[k]]
    OBVIOUS
  <2> QED
    BY <1>5, <2>1, Zenon
<1>7. After(after)
  BY <1>6, Zenon
<1>8. Deep = after
  BY DEF Deep
<1>9. after = [n \in 0..N |-> IF n = 0 THEN Documents ELSE Holding(after[n - 1])]
  BY <1>7, Zenon
<1> HIDE DEF after
<1>10. \A n \in 0..N : after[n] = IF n = 0 THEN Documents ELSE Holding(after[n - 1])
  BY <1>9
<1> QED
  BY <1>1, <1>8, <1>10

LEMMA DeepHolds ==
  \A n \in 1..(MAX_NESTING + 1), v \in Documents :
    /\ v.type \notin Containers => v \notin Deep[n]
    /\ v.type \in Containers =>
         (v \in Deep[n] <=> \E k \in 1..Len(v.values) : v.values[k] \in Deep[n - 1])
<1> TAKE n \in 1..(MAX_NESTING + 1), v \in Documents
<1>1. v \in Deep[n] <=> Children(v) \cap Deep[n - 1] # {}
  BY DeepIs DEF Holding
<1>2. v.type \in Containers => Children(v) = {v.values[k] : k \in 1..Len(v.values)}
  <2> HAVE v.type \in Containers
  <2>1. DOMAIN v.values = 1..Len(v.values)
    BY ContainerIs, LenProperties
  <2> QED
    BY <2>1 DEF Children, ToSet
<1> QED
  BY <1>1, <1>2 DEF Children

-----------------------------------------------------------------------------
(* The writer.                                                             *)

Modes == {"value", "element", "name", "string", "behind"}

Symbols ==
  Char \union Scalars \union
  {"quote", "backslash", "slash", "n", "u", "0001", "blank", "comma", "colon",
   "lbrace", "rbrace", "lbracket", "rbracket"}

WFrame == [value : Documents, i : Nat]

Writer == [mode : Modes, value : Documents, open : Seq(WFrame), i : Nat, out : Seq(Symbols)]

\* The value that a container is at, or the document.
Current(o) == IF o = <<>> THEN doc ELSE Last(o).value.values[Last(o).i]

\* The innermost container has a value where it is at.
Inside(o) == o # <<>> => Last(o).i <= Len(Last(o).value.values)

\* Each container that is open is the value that the one around it is at.
Chain(o) ==
  \A j \in 1..Len(o) :
    /\ o[j].value.type \in Containers
    /\ \/ o[j].i \in 1..Len(o[j].value.values)
       \/ j = Len(o) /\ o[j].i = 1 /\ o[j].value.values = <<>>
    /\ o[j].value = IF j = 1 THEN doc ELSE o[j - 1].value.values[o[j - 1].i]

\* What holds of the writer at any time.
WriterOk(w) ==
  /\ w \in Writer /\ Chain(w.open)
  /\ w.mode # "element" => Inside(w.open)
  /\ w.mode \in {"value", "string", "behind"} => w.value = Current(w.open)
  /\ w.mode \in {"element", "name"} => w.open # <<>>
  /\ w.mode = "value" /\ w.open # <<>> => Last(w.open).value.type = "object"
  /\ w.mode = "name" =>
       /\ Last(w.open).value.type = "object"
       /\ w.i \in 1..(Len(Last(w.open).value.names[Last(w.open).i]) + 1)
  /\ w.mode = "string" => w.value.type = "string" /\ w.i \in 1..(Len(w.value.chars) + 1)

LEMMA CurrentIs ==
  \A o \in Seq(WFrame) : doc \in Documents /\ Chain(o) /\ Inside(o) => Current(o) \in Documents
<1> TAKE o \in Seq(WFrame)
<1> HAVE doc \in Documents /\ Chain(o) /\ Inside(o)
<1>1. CASE o = <<>>
  BY <1>1 DEF Current
<1>2. CASE o # <<>>
  <2> DEFINE c == Last(o)
  <2>1. c = o[Len(o)] /\ c \in WFrame /\ Len(o) \in Nat /\ Len(o) >= 1
    BY <1>2, Fronted
  <2>2. c.value.type \in Containers /\ c.value \in Documents /\ c.i \in Nat
    BY <2>1 DEF Chain, WFrame
  <2>3. c.value.values \in Seq(Documents) /\ Len(c.value.values) \in Nat
    BY <2>2, ContainerIs
  <2>4. c.i \in 1..Len(c.value.values)
    <3>1. \/ c.i \in 1..Len(c.value.values)
          \/ c.i = 1 /\ c.value.values = <<>>
      BY <2>1 DEF Chain
    <3>2. c.i <= Len(c.value.values)
      BY <1>2 DEF Inside
    <3> QED
      BY <2>3, <3>1, <3>2, EmptyIs
  <2>5. c.value.values[c.i] \in Documents
    BY <2>3, <2>4, ElementOfSeq
  <2> QED
    BY <1>2, <2>5 DEF Current
<1> QED
  BY <1>1, <1>2

LEMMA ChainPush ==
  \A o \in Seq(WFrame), v \in Documents :
    Chain(o) /\ Inside(o) /\ v.type \in Containers /\ v = Current(o) =>
      /\ Append(o, [value |-> v, i |-> 1]) \in Seq(WFrame)
      /\ Chain(Append(o, [value |-> v, i |-> 1]))
<1> TAKE o \in Seq(WFrame), v \in Documents
<1> HAVE Chain(o) /\ Inside(o) /\ v.type \in Containers /\ v = Current(o)
<1> DEFINE c == [value |-> v, i |-> 1]
           p == Append(o, c)
<1>1. c \in WFrame /\ c.value = v /\ c.i = 1
  BY DEF WFrame
<1>2. /\ p \in Seq(WFrame) /\ Len(o) \in Nat /\ Len(p) = Len(o) + 1
      /\ \A j \in 1..Len(o) : p[j] = o[j]
      /\ p[Len(o) + 1] = c
  BY <1>1, Appended
<1>3. v.values \in Seq(Documents) /\ Len(v.values) \in Nat /\ (v.values = <<>> <=> Len(v.values) = 0)
  BY ContainerIs, EmptyIs
<1>4. o # <<>> => Last(o) = o[Len(o)] /\ Len(o) >= 1 /\ o[Len(o)].i \in Nat
  <2> HAVE o # <<>>
  <2>1. Last(o) = o[Len(o)] /\ Len(o) >= 1 /\ Last(o) \in WFrame
    BY Fronted
  <2> QED
    BY <2>1 DEF WFrame
<1>5. o = <<>> <=> Len(o) = 0
  BY EmptyIs
<1> HIDE DEF c, p
<1>6. ASSUME NEW j \in 1..Len(p)
      PROVE  /\ p[j].value.type \in Containers
             /\ \/ p[j].i \in 1..Len(p[j].value.values)
                \/ j = Len(p) /\ p[j].i = 1 /\ p[j].value.values = <<>>
             /\ p[j].value = IF j = 1 THEN doc ELSE p[j - 1].value.values[p[j - 1].i]
  <2>1. CASE j = Len(o) + 1
    <3>1. p[j] = c
      BY <1>2, <2>1
    <3>2. p[j].value.type \in Containers
      BY <1>1, <3>1
    <3>3. \/ p[j].i \in 1..Len(p[j].value.values)
          \/ j = Len(p) /\ p[j].i = 1 /\ p[j].value.values = <<>>
      BY <1>1, <1>2, <1>3, <2>1, <3>1
    <3>4. p[j].value = IF j = 1 THEN doc ELSE p[j - 1].value.values[p[j - 1].i]
      <4>1. CASE o = <<>>
        BY <1>1, <1>2, <1>5, <2>1, <3>1, <4>1 DEF Current
      <4>2. CASE o # <<>>
        <5>1. j # 1 /\ j - 1 = Len(o) /\ p[j - 1] = Last(o)
          BY <1>2, <1>4, <2>1, <4>2
        <5> QED
          BY <1>1, <3>1, <4>2, <5>1 DEF Current
      <4> QED
        BY <4>1, <4>2
    <3> QED
      BY <3>2, <3>3, <3>4
  <2>2. CASE j # Len(o) + 1
    <3>1. j \in 1..Len(o) /\ p[j] = o[j]
      BY <1>2, <2>2
    <3>2. /\ o[j].value.type \in Containers
          /\ \/ o[j].i \in 1..Len(o[j].value.values)
             \/ j = Len(o) /\ o[j].i = 1 /\ o[j].value.values = <<>>
          /\ o[j].value = IF j = 1 THEN doc ELSE o[j - 1].value.values[o[j - 1].i]
      BY <3>1 DEF Chain
    <3>3. j = Len(o) => Len(o[j].value.values) \in Nat /\ o[j].i <= Len(o[j].value.values) /\ o[j].i \in Nat
      <4> HAVE j = Len(o)
      <4>1. o # <<>>
        BY <1>5, <3>1
      <4>2. o[j] \in WFrame
        BY <3>1, ElementOfSeq
      <4> QED
        BY <1>4, <3>2, <4>1, <4>2, ContainerIs DEF Inside, WFrame
    <3>4. o[j].i \in 1..Len(o[j].value.values)
      BY <3>2, <3>3
    <3>5. j # 1 => j - 1 \in 1..Len(o) /\ p[j - 1] = o[j - 1]
      BY <1>2, <3>1
    <3> QED
      BY <3>1, <3>2, <3>4, <3>5
  <2> QED
    BY <2>1, <2>2
<1> QED
  BY <1>2, <1>6 DEF Chain, p, c

LEMMA ChainPop ==
  \A o \in Seq(WFrame) :
    Chain(o) /\ o # <<>> =>
      /\ Front(o) \in Seq(WFrame)
      /\ Chain(Front(o)) /\ Inside(Front(o)) /\ Current(Front(o)) = Last(o).value
<1> TAKE o \in Seq(WFrame)
<1> HAVE Chain(o) /\ o # <<>>
<1> DEFINE p == Front(o)
<1>1. /\ p \in Seq(WFrame) /\ Len(o) \in Nat /\ Len(o) >= 1 /\ Len(p) = Len(o) - 1
      /\ \A j \in 1..(Len(o) - 1) : p[j] = o[j]
      /\ Last(o) = o[Len(o)]
  BY Fronted
<1>2. p = <<>> <=> Len(o) = 1
  BY <1>1, EmptyIs
<1> HIDE DEF p
<1>3. p # <<>> => Last(p) = p[Len(p)] /\ Len(p) \in 1..(Len(o) - 1)
  <2> HAVE p # <<>>
  <2>1. Last(p) = p[Len(p)] /\ Len(p) >= 1
    BY <1>1, Fronted
  <2> QED
    BY <1>1, <2>1
<1>4. \A j \in 1..(Len(o) - 1) : o[j].i \in 1..Len(o[j].value.values)
  BY <1>1 DEF Chain
<1>5. Chain(p)
  <2> SUFFICES ASSUME NEW j \in 1..Len(p)
               PROVE  /\ p[j].value.type \in Containers
                      /\ p[j].i \in 1..Len(p[j].value.values)
                      /\ p[j].value = IF j = 1 THEN doc ELSE p[j - 1].value.values[p[j - 1].i]
    BY DEF Chain
  <2>1. j \in 1..(Len(o) - 1) /\ j \in 1..Len(o) /\ p[j] = o[j]
    BY <1>1
  <2>2. j # 1 => p[j - 1] = o[j - 1]
    BY <1>1
  <2> QED
    BY <1>4, <2>1, <2>2 DEF Chain
<1>6. Inside(p)
  BY <1>1, <1>3, <1>4 DEF Inside
<1>7. Current(p) = Last(o).value
  <2>1. o[Len(o)].value = IF Len(o) = 1 THEN doc ELSE o[Len(o) - 1].value.values[o[Len(o) - 1].i]
    BY <1>1 DEF Chain
  <2> QED
    BY <1>1, <1>2, <1>3, <2>1 DEF Current
<1> QED
  BY <1>1, <1>5, <1>6, <1>7 DEF p

LEMMA ChainNext ==
  \A o \in Seq(WFrame) :
    LET c == Last(o)
        p == Append(Front(o), [value |-> c.value, i |-> c.i + 1])
    IN  Chain(o) /\ o # <<>> /\ c.i < Len(c.value.values) => p \in Seq(WFrame) /\ Chain(p)
<1> TAKE o \in Seq(WFrame)
<1> DEFINE c == Last(o)
           d == [value |-> c.value, i |-> c.i + 1]
           p == Append(Front(o), d)
<1> SUFFICES ASSUME Chain(o), o # <<>>, c.i < Len(c.value.values)
             PROVE  p \in Seq(WFrame) /\ Chain(p)
  OBVIOUS
<1>1. /\ Len(o) \in Nat /\ Len(o) >= 1 /\ c = o[Len(o)] /\ c \in WFrame
  BY Fronted
<1>2. d \in WFrame /\ d.value = c.value /\ d.i = c.i + 1
  BY <1>1 DEF WFrame
<1>3. /\ p \in Seq(WFrame) /\ Len(p) = Len(o)
      /\ \A j \in 1..(Len(o) - 1) : p[j] = o[j]
      /\ p[Len(o)] = d
  BY <1>2, Exchanged
<1>4. c.i \in Nat /\ c.value.type \in Containers /\ Len(c.value.values) \in Nat
  BY <1>1, ContainerIs DEF Chain, WFrame
<1> HIDE DEF c, d, p
<1>5. ASSUME NEW j \in 1..Len(p)
      PROVE  /\ p[j].value.type \in Containers
             /\ p[j].i \in 1..Len(p[j].value.values)
             /\ p[j].value = IF j = 1 THEN doc ELSE p[j - 1].value.values[p[j - 1].i]
  <2>1. j \in 1..Len(o) /\ p[j].value = o[j].value
    BY <1>1, <1>2, <1>3
  <2>2. j # 1 => p[j - 1] = o[j - 1]
    BY <1>1, <1>3, <2>1
  <2>3. p[j].i \in 1..Len(p[j].value.values)
    <3>1. CASE j = Len(o)
      BY <1>2, <1>3, <1>4, <3>1
    <3>2. CASE j # Len(o)
      <4>1. p[j] = o[j]
        BY <1>1, <1>3, <2>1, <3>2
      <4> QED
        BY <2>1, <3>2, <4>1 DEF Chain
    <3> QED
      BY <3>1, <3>2
  <2> QED
    BY <2>1, <2>2, <2>3 DEF Chain
<1> QED
  BY <1>3, <1>5 DEF Chain

\* The kinds of steps of the writer, from w to u, and the symbols each appends.
To(m, v, o, i, c) == [mode |-> m, value |-> v, open |-> o, i |-> i, out |-> c]

Starting(w) ==
  \/ w.mode = "value"
  \/ w.mode = "element" /\ Inside(w.open) /\ Last(w.open).value.type = "array"

Ending(w) ==
  /\ w.open # <<>>
  /\ \/ w.mode = "element" /\ Last(w.open).value.values = <<>>
     \/ w.mode = "behind" /\ Last(w.open).i = Len(Last(w.open).value.values)

Chars(w) ==
  IF w.mode = "name" THEN Last(w.open).value.names[Last(w.open).i] ELSE w.value.chars

BeforeEnd(v) == IF pretty /\ v.values # <<>> THEN <<"blank">> ELSE <<>>

WritesScalar(w, u) ==
  /\ Starting(w) /\ Current(w.open).type = "scalar"
  /\ u = To("behind", Current(w.open), w.open, w.i,
            w.out \o (Indent(w) \o <<Current(w.open).symbol>>))

WritesString(w, u) ==
  /\ Starting(w) /\ Current(w.open).type = "string"
  /\ u = To("string", Current(w.open), w.open, 1, w.out \o (Indent(w) \o <<"quote">>))

WritesOpening(w, u) ==
  /\ Starting(w) /\ Current(w.open).type \in Containers
  /\ u = To("element", Current(w.open), Append(w.open, [value |-> Current(w.open), i |-> 1]), w.i,
            w.out \o (Indent(w) \o <<Opening(Current(w.open).type)>>))

WritesName(w, u) ==
  /\ w.mode = "element" /\ Inside(w.open) /\ Last(w.open).value.type = "object"
  /\ u = To("name", w.value, w.open, 1, w.out \o (Indent(w) \o <<"quote">>))

WritesEnding(w, u) ==
  /\ Ending(w)
  /\ LET v == Last(w.open).value
     IN  u = To("behind", v, Front(w.open), w.i,
                w.out \o (BeforeEnd(v) \o <<Closing(v.type)>>))

WritesChar(w, u) ==
  /\ w.mode \in {"string", "name"} /\ w.i \in 1..Len(Chars(w))
  /\ u = To(w.mode, w.value, w.open, w.i + 1, w.out \o Escapes(Chars(w)[w.i]))

WritesColon(w, u) ==
  /\ w.mode = "name" /\ w.i = Len(Chars(w)) + 1
  /\ u = To("value", Current(w.open), w.open, w.i, w.out \o <<"quote", "colon">>)

WritesQuote(w, u) ==
  /\ w.mode = "string" /\ w.i = Len(Chars(w)) + 1
  /\ u = To("behind", w.value, w.open, w.i, w.out \o <<"quote">>)

WritesComma(w, u) ==
  /\ w.mode = "behind" /\ w.open # <<>>
  /\ Last(w.open).i < Len(Last(w.open).value.values)
  /\ LET c == Last(w.open)
     IN  u = To("element", w.value, Append(Front(w.open), [value |-> c.value, i |-> c.i + 1]),
                w.i, w.out \o <<"comma">>)

WritesOn(w, u) ==
  \/ WritesScalar(w, u) \/ WritesString(w, u) \/ WritesOpening(w, u)
  \/ WritesName(w, u) \/ WritesEnding(w, u) \/ WritesChar(w, u)
  \/ WritesColon(w, u) \/ WritesQuote(w, u) \/ WritesComma(w, u)

\* What holds of the innermost container.
LEMMA InnermostIs ==
  \A o \in Seq(WFrame) : Chain(o) /\ o # <<>> =>
    /\ Len(o) \in Nat /\ Len(o) >= 1 /\ Last(o) = o[Len(o)] /\ Last(o) \in WFrame
    /\ Last(o).value \in Documents /\ Last(o).value.type \in Containers
    /\ Last(o).value.values \in Seq(Documents) /\ Len(Last(o).value.values) \in Nat
    /\ Last(o).i \in Nat /\ Last(o).i >= 1
    /\ Inside(o) => Last(o).i \in 1..Len(Last(o).value.values)
    /\ ~Inside(o) => Last(o).i = 1 /\ Last(o).value.values = <<>>
    /\ Inside(o) => Last(o).value.values # <<>>
<1> TAKE o \in Seq(WFrame)
<1> HAVE Chain(o) /\ o # <<>>
<1> DEFINE c == Last(o)
<1>1. Len(o) \in Nat /\ Len(o) >= 1 /\ c = o[Len(o)] /\ c \in WFrame
  BY Fronted
<1>2. c.value \in Documents /\ c.i \in Nat /\ c.value.type \in Containers
  BY <1>1 DEF Chain, WFrame
<1>3. c.value.values \in Seq(Documents) /\ Len(c.value.values) \in Nat
  BY <1>2, ContainerIs
<1>4. c.value.values = <<>> <=> Len(c.value.values) = 0
  BY <1>3, EmptyIs
<1>5. \/ c.i \in 1..Len(c.value.values)
      \/ c.i = 1 /\ c.value.values = <<>>
  BY <1>1 DEF Chain
<1>6. Inside(o) <=> c.i <= Len(c.value.values)
  BY DEF Inside
<1> HIDE DEF c
<1>7. /\ c.i >= 1
      /\ Inside(o) => c.i \in 1..Len(c.value.values)
      /\ ~Inside(o) => c.i = 1 /\ c.value.values = <<>>
      /\ Inside(o) => c.value.values # <<>>
  BY <1>2, <1>3, <1>4, <1>5, <1>6
<1> QED
  BY <1>1, <1>2, <1>3, <1>7 DEF c

LEMMA BeginIs ==
  \A w, v :
    LET u == json_serialize_to_buffer_r(w, v)
    IN  /\ v.type = "scalar" =>
             u = To("behind", v, w.open, w.i, w.out \o (Indent(w) \o <<v.symbol>>))
        /\ v.type = "string" =>
             u = To("string", v, w.open, 1, w.out \o (Indent(w) \o <<"quote">>))
        /\ v.type \in Containers =>
             u = To("element", v, Append(w.open, [value |-> v, i |-> 1]), w.i,
                    w.out \o (Indent(w) \o <<Opening(v.type)>>))
BY DEF json_serialize_to_buffer_r, Put, To, Containers

\* The characters of the string that the writer is at.
LEMMA CharsAre ==
  \A w : WriterOk(w) /\ w.mode \in {"string", "name"} =>
    Chars(w) \in Strings /\ Len(Chars(w)) \in Nat /\ w.i \in 1..(Len(Chars(w)) + 1)
<1> TAKE w
<1> HAVE WriterOk(w) /\ w.mode \in {"string", "name"}
<1> DEFINE o == w.open
           c == Last(o)
<1>1. w \in Writer /\ o \in Seq(WFrame) /\ Chain(o)
  BY DEF WriterOk, Writer
<1>2. CASE w.mode = "string"
  <2>1. w.value \in Documents /\ w.value.type = "string"
    BY <1>2 DEF WriterOk, Writer
  <2>2. w.value.chars \in Strings
    BY <2>1, DocumentIs DEF Containers
  <2> QED
    BY <1>2, <2>2, LenProperties DEF WriterOk, Chars, Strings
<1>3. CASE w.mode = "name"
  <2>1. o # <<>> /\ c.value.type = "object" /\ Inside(o)
    BY <1>3 DEF WriterOk
  <2>2. c.value \in Documents /\ c.i \in 1..Len(c.value.values)
    BY <1>1, <2>1, InnermostIs
  <2>3. c.value.names \in Seq(Strings) /\ Len(c.value.names) = Len(c.value.values)
    BY <2>1, <2>2, ContainerIs DEF Containers
  <2>4. c.value.names[c.i] \in Strings
    BY <2>2, <2>3, ElementOfSeq
  <2> QED
    BY <1>3, <2>4, LenProperties DEF WriterOk, Chars, Strings
<1> QED
  BY <1>2, <1>3

LEMMA WrittenIs ==
  \A w : WriterOk(w) /\ doc \in Documents /\ ~Finished(w) => WritesOn(w, Written(w))
<1> TAKE w
<1> HAVE WriterOk(w) /\ doc \in Documents /\ ~Finished(w)
<1> DEFINE o == w.open
           c == Last(o)
           v == Current(o)
           u == Written(w)
<1>1. w \in Writer /\ o \in Seq(WFrame) /\ Chain(o) /\ w.i \in Nat
  BY DEF WriterOk, Writer
<1>2. w.mode \in Modes
  BY DEF WriterOk, Writer
<1>3. Inside(o) => v \in Documents /\ (v.type \in {"scalar", "string"} \/ v.type \in Containers)
  BY <1>1, CurrentIs, DocumentIs
<1>4. ASSUME Starting(w), u = json_serialize_to_buffer_r(w, v), Inside(o)
      PROVE  WritesOn(w, u)
  <2>1. CASE v.type = "scalar"
    BY <1>1, <1>3, <1>4, <2>1, BeginIs DEF WritesOn, WritesScalar
  <2>2. CASE v.type = "string"
    BY <1>1, <1>3, <1>4, <2>2, BeginIs DEF WritesOn, WritesString
  <2>3. CASE v.type \in Containers
    BY <1>1, <1>3, <1>4, <2>3, BeginIs DEF WritesOn, WritesOpening
  <2> QED
    BY <1>3, <1>4, <2>1, <2>2, <2>3
<1>5. ASSUME Ending(w), u = WriteEnd(w)  PROVE WritesOn(w, u)
  <2>1. u = To("behind", c.value, Front(o), w.i, w.out \o (BeforeEnd(c.value) \o <<Closing(c.value.type)>>))
    BY <1>1, <1>5, Zenon DEF WriteEnd, BeforeEnd, Put, To
  <2> QED
    BY <1>5, <2>1 DEF WritesOn, WritesEnding
<1>6. CASE w.mode = "value"
  <2>1. u = json_serialize_to_buffer_r(w, v) /\ Inside(o) /\ Starting(w)
    BY <1>6 DEF Written, WriterOk, Starting
  <2> QED
    BY <1>4, <2>1
<1>7. CASE w.mode = "element"
  <2>1. u = WriteElement(w) /\ o # <<>>
    BY <1>7 DEF Written, WriterOk
  <2>2. /\ c.i \in Nat /\ Len(c.value.values) \in Nat /\ c.value.type \in Containers
        /\ Inside(o) => c.i \in 1..Len(c.value.values)
        /\ ~Inside(o) => c.i = 1 /\ c.value.values = <<>>
    BY <1>1, <2>1, InnermostIs
  <2>3. CASE ~Inside(o)
    <3>1. ~(c.i <= Len(c.value.values))
      BY <2>1, <2>3 DEF Inside
    <3>4. c.i > Len(c.value.values)
      BY <2>2, <3>1
    <3>2. u = WriteEnd(w)
      BY <2>1, <3>1, <3>4 DEF WriteElement
    <3>3. Ending(w)
      BY <1>7, <2>1, <2>2, <2>3 DEF Ending
    <3> QED
      BY <1>5, <3>2, <3>3
  <2>4. CASE Inside(o) /\ c.value.type = "object"
    <3>1. c.i <= Len(c.value.values) /\ ~(c.i > Len(c.value.values))
      BY <2>2, <2>4
    <3>2. u = Put(w, Indent(w) \o <<"quote">>, "name", w.value, o, 1)
      BY <2>1, <2>4, <3>1 DEF WriteElement
    <3>3. u = To("name", w.value, o, 1, w.out \o (Indent(w) \o <<"quote">>))
      BY <1>1, <3>2, Zenon DEF Put, To
    <3> QED
      BY <1>7, <2>4, <3>3 DEF WritesOn, WritesName
  <2>5. CASE Inside(o) /\ c.value.type = "array"
    <3>1. c.i <= Len(c.value.values) /\ ~(c.i > Len(c.value.values))
      BY <2>2, <2>5
    <3>2. u = json_serialize_to_buffer_r(w, c.value.values[c.i])
      BY <2>1, <2>5, <3>1 DEF WriteElement
    <3>3. v = c.value.values[c.i] /\ Starting(w)
      BY <1>7, <2>1, <2>5 DEF Current, Starting
    <3> QED
      BY <1>4, <2>5, <3>2, <3>3
  <2> QED
    BY <2>2, <2>3, <2>4, <2>5 DEF Containers
<1>8. CASE w.mode \in {"string", "name"}
  <2> DEFINE s == Chars(w)
  <2>1. u = json_serialize_string(w)
    BY <1>8 DEF Written
  <2>2. w.i \in 1..(Len(s) + 1) /\ Len(s) \in Nat
    BY <1>8, CharsAre
  <2>3. CASE w.i <= Len(s)
    <3>1. u = Put(w, Escapes(s[w.i]), w.mode, w.value, o, w.i + 1)
      BY <1>8, <2>1, <2>2, <2>3 DEF json_serialize_string, Chars
    <3>2. u = To(w.mode, w.value, o, w.i + 1, w.out \o Escapes(s[w.i]))
      BY <1>1, <3>1, Zenon DEF Put, To
    <3> QED
      BY <1>8, <2>2, <2>3, <3>2 DEF WritesOn, WritesChar
  <2>4. CASE ~(w.i <= Len(s)) /\ w.mode = "name"
    <3>1. w.i > Len(s) /\ w.i = Len(s) + 1
      BY <2>2, <2>4
    <3>2. u = Put(w, <<"quote", "colon">>, "value", c.value.values[c.i], o, w.i)
      BY <2>1, <2>4, <3>1 DEF json_serialize_string, Chars
    <3>3. v = c.value.values[c.i]
      BY <2>4 DEF WriterOk, Current
    <3>4. u = To("value", v, o, w.i, w.out \o <<"quote", "colon">>)
      BY <1>1, <3>2, <3>3, Zenon DEF Put, To
    <3> QED
      BY <2>4, <3>1, <3>4 DEF WritesOn, WritesColon
  <2>5. CASE ~(w.i <= Len(s)) /\ w.mode = "string"
    <3>1. w.i = Len(s) + 1
      BY <2>2, <2>5
    <3>2. u = Put(w, <<"quote">>, "behind", w.value, o, w.i)
      BY <2>1, <2>5 DEF json_serialize_string, Chars
    <3>3. u = To("behind", w.value, o, w.i, w.out \o <<"quote">>)
      BY <1>1, <3>2, Zenon DEF Put, To
    <3> QED
      BY <2>5, <3>1, <3>3 DEF WritesOn, WritesQuote
  <2> QED
    BY <1>8, <2>3, <2>4, <2>5
<1>9. CASE w.mode = "behind"
  <2>1. u = WriteBehind(w) /\ o # <<>> /\ Inside(o)
    BY <1>9 DEF Written, WriterOk, Finished
  <2>2. c.i \in 1..Len(c.value.values) /\ Len(c.value.values) \in Nat
    BY <1>1, <2>1, InnermostIs
  <2>3. CASE c.i < Len(c.value.values)
    <3>1. u = Put(w, <<"comma">>, "element", w.value,
                  Append(Front(o), [value |-> c.value, i |-> c.i + 1]), w.i)
      BY <2>1, <2>3 DEF WriteBehind
    <3>2. u = To("element", w.value, Append(Front(o), [value |-> c.value, i |-> c.i + 1]),
                 w.i, w.out \o <<"comma">>)
      BY <1>1, <3>1, Zenon DEF Put, To
    <3> QED
      BY <1>9, <2>1, <2>3, <3>2 DEF WritesOn, WritesComma
  <2>4. CASE ~(c.i < Len(c.value.values))
    <3>1. u = WriteEnd(w)
      BY <2>1, <2>4 DEF WriteBehind
    <3>2. Ending(w)
      BY <1>9, <2>1, <2>2, <2>4 DEF Ending
    <3> QED
      BY <1>5, <3>1, <3>2
  <2> QED
    BY <2>3, <2>4
<1> QED
  BY <1>2, <1>6, <1>7, <1>8, <1>9 DEF Modes

LEMMA ShortSeqs ==
  \A S : \A x, y, z \in S :
    /\ <<x>> \in Seq(S) /\ Len(<<x>>) = 1 /\ <<x>>[1] = x
    /\ <<x, y>> \in Seq(S) /\ Len(<<x, y>>) = 2 /\ <<x, y>>[1] = x /\ <<x, y>>[2] = y
    /\ <<x, y, z>> \in Seq(S) /\ Len(<<x, y, z>>) = 3
    /\ <<x, y, z>>[1] = x /\ <<x, y, z>>[2] = y /\ <<x, y, z>>[3] = z
OBVIOUS

Blanks == {<<>>, <<"blank">>}

\* Before a symbol there may be white space.
LEMMA Spaced ==
  \A b \in Blanks, x \in Symbols :
    /\ b \o <<x>> \in Seq(Symbols)
    /\ b = <<>> => b \o <<x>> = <<x>>
    /\ b = <<"blank">> => b \o <<x>> = <<"blank", x>>
<1> TAKE b \in Blanks, x \in Symbols
<1>1. <<x>> \in Seq(Symbols)
  BY ShortSeqs
<1>2. "blank" \in Symbols
  BY DEF Symbols
<1>3. <<"blank", x>> \in Seq(Symbols)
  BY <1>2, ShortSeqs
<1>4. b = <<>> => b \o <<x>> = <<x>>
  BY <1>1, ConcatEmptySeq
<1>5. b = <<"blank">> => b \o <<x>> = <<"blank", x>>
  <2> DEFINE s == <<"blank">> \o <<x>>
             t == <<"blank", x>>
  <2>1. <<"blank">> \in Seq(Symbols) /\ Len(<<"blank">>) = 1 /\ Len(<<x>>) = 1
    BY <1>2, ShortSeqs
  <2>2. s \in Seq(Symbols) /\ Len(s) = 2 /\ s[1] = "blank" /\ s[2] = x
    BY <1>1, <2>1, ConcatProperties
  <2>3. t \in Seq(Symbols) /\ Len(t) = 2 /\ t[1] = "blank" /\ t[2] = x
    BY <1>3
  <2> HIDE DEF s, t
  <2>4. s = t
    BY <2>2, <2>3, SeqEqual
  <2> QED
    BY <2>4 DEF s, t
<1> QED
  BY <1>1, <1>3, <1>4, <1>5 DEF Blanks

LEMMA EscapesAre ==
  \A c \in Char :
    /\ Escapes(c) \in Seq(Symbols)
    /\ c \in {"quote", "backslash", "slash"} => Escapes(c) = <<"backslash", c>>
    /\ c = "newline" => Escapes(c) = <<"backslash", "n">>
    /\ c = "control" => Escapes(c) = <<"backslash", "u", "0001">>
    /\ c \notin {"quote", "backslash", "slash", "newline", "control"} => Escapes(c) = <<c>>
<1> TAKE c \in Char
<1>1. /\ c \in {"quote", "backslash", "slash"} => Escapes(c) = <<"backslash", c>>
      /\ c = "newline" => Escapes(c) = <<"backslash", "n">>
      /\ c = "control" => Escapes(c) = <<"backslash", "u", "0001">>
      /\ c \notin {"quote", "backslash", "slash", "newline", "control"} => Escapes(c) = <<c>>
  BY DEF Escapes
<1>2. {c, "backslash", "n", "u", "0001"} \subseteq Symbols
  BY DEF Symbols
<1>3. /\ <<"backslash", c>> \in Seq(Symbols) /\ <<"backslash", "n">> \in Seq(Symbols)
      /\ <<"backslash", "u", "0001">> \in Seq(Symbols) /\ <<c>> \in Seq(Symbols)
  BY <1>2, ShortSeqs
<1> QED
  BY <1>1, <1>3

LEMMA IndentIs == \A w : Indent(w) \in Blanks
BY DEF Indent, Blanks

LEMMA BeforeEndIs == \A v : BeforeEnd(v) \in Blanks
BY DEF BeforeEnd, Blanks

LEMMA BracketIs == \A t : Opening(t) \in Symbols /\ Closing(t) \in Symbols
BY DEF Opening, Closing, Symbols

LEMMA StartingInside ==
  \A w : WriterOk(w) /\ Starting(w) =>
    /\ w \in Writer /\ w.open \in Seq(WFrame) /\ Chain(w.open) /\ Inside(w.open)
    /\ w.open # <<>> /\ w.mode = "value" => Last(w.open).value.type = "object"
    /\ w.open # <<>> /\ w.mode # "value" => Last(w.open).value.type = "array"
BY DEF WriterOk, Starting, Writer

\* Each step appends symbols and keeps what holds of the writer.
LEMMA WriterStep ==
  \A w, u : WriterOk(w) /\ doc \in Documents /\ WritesOn(w, u) =>
    WriterOk(u) /\ \E c \in Seq(Symbols) : u.out = w.out \o c
<1> TAKE w, u
<1> HAVE WriterOk(w) /\ doc \in Documents /\ WritesOn(w, u)
<1> DEFINE o == w.open
           c == Last(o)
           v == Current(o)
<1>1. /\ w \in Writer /\ o \in Seq(WFrame) /\ Chain(o) /\ w.i \in Nat
      /\ w.out \in Seq(Symbols) /\ w.value \in Documents
  BY DEF WriterOk, Writer
<1>2. ASSUME NEW s \in Seq(Symbols), NEW m \in Modes, NEW va \in Documents,
             NEW op \in Seq(WFrame), NEW i \in Nat, u = To(m, va, op, i, w.out \o s)
      PROVE  /\ u \in Writer /\ \E t \in Seq(Symbols) : u.out = w.out \o t
             /\ u.mode = m /\ u.value = va /\ u.open = op /\ u.i = i
  <2>1. w.out \o s \in Seq(Symbols)
    BY <1>1, ConcatProperties
  <2>2. u.mode = m /\ u.value = va /\ u.open = op /\ u.i = i /\ u.out = w.out \o s
    BY <1>2 DEF To
  <2>3. u \in Writer
    BY <1>2, <2>1 DEF To, Writer
  <2> QED
    BY <2>2, <2>3
<1>3. Starting(w) => Inside(o)
  BY StartingInside
<1>4. Inside(o) => v \in Documents
  BY <1>1, CurrentIs
<1>5. CASE WritesScalar(w, u)
  <2>1. v.symbol \in Symbols
    <3>1. v \in Documents /\ v.type = "scalar"
      BY <1>3, <1>4, <1>5 DEF WritesScalar
    <3> QED
      BY <3>1, DocumentIs DEF Symbols, Containers
  <2> DEFINE s == Indent(w) \o <<v.symbol>>
  <2>2. s \in Seq(Symbols)
    BY <2>1, IndentIs, Spaced
  <2>3. u = To("behind", v, o, w.i, w.out \o s)
    BY <1>5 DEF WritesScalar
  <2> HIDE DEF s
  <2>4. /\ u \in Writer /\ \E t \in Seq(Symbols) : u.out = w.out \o t
        /\ u.mode = "behind" /\ u.value = v /\ u.open = o
    BY <1>1, <1>2, <1>3, <1>4, <1>5, <2>2, <2>3 DEF WritesScalar, Modes
  <2> QED
    BY <1>1, <1>3, <1>5, <2>4 DEF WriterOk, WritesScalar
<1>6. CASE WritesString(w, u)
  <2> DEFINE s == Indent(w) \o <<"quote">>
  <2>1. "quote" \in Symbols /\ v \in Documents /\ v.type = "string"
    BY <1>3, <1>4, <1>6 DEF Symbols, WritesString
  <2>2. s \in Seq(Symbols)
    BY <2>1, IndentIs, Spaced
  <2>3. u = To("string", v, o, 1, w.out \o s)
    BY <1>6 DEF WritesString
  <2> HIDE DEF s
  <2>4. /\ u \in Writer /\ \E t \in Seq(Symbols) : u.out = w.out \o t
        /\ u.mode = "string" /\ u.value = v /\ u.open = o /\ u.i = 1
    BY <1>1, <1>2, <2>1, <2>2, <2>3 DEF Modes
  <2>5. 1 \in 1..(Len(v.chars) + 1)
    <3>1. v.chars \in Strings
      BY <2>1, DocumentIs DEF Containers
    <3>2. Len(v.chars) \in Nat
      BY <3>1, LenProperties DEF Strings
    <3> QED
      BY <3>2
  <2> QED
    BY <1>1, <1>3, <1>6, <2>1, <2>4, <2>5 DEF WriterOk, WritesString
<1>7. CASE WritesOpening(w, u)
  <2> DEFINE s == Indent(w) \o <<Opening(v.type)>>
             p == Append(o, [value |-> v, i |-> 1])
  <2>1. v \in Documents /\ v.type \in Containers /\ Inside(o)
    BY <1>3, <1>4, <1>7 DEF WritesOpening
  <2>2. s \in Seq(Symbols)
    BY BracketIs, IndentIs, Spaced
  <2>3. u = To("element", v, p, w.i, w.out \o s)
    BY <1>7 DEF WritesOpening
  <2>4. p \in Seq(WFrame) /\ Chain(p)
    BY <1>1, <2>1, ChainPush
  <2>5. p # <<>>
    BY <1>1, <2>1, Appended DEF WFrame
  <2> HIDE DEF s, p
  <2>6. /\ u \in Writer /\ \E t \in Seq(Symbols) : u.out = w.out \o t
        /\ u.mode = "element" /\ u.open = p
    BY <1>1, <1>2, <2>1, <2>2, <2>3, <2>4 DEF Modes
  <2> QED
    BY <2>4, <2>5, <2>6 DEF WriterOk
<1>8. CASE WritesName(w, u)
  <2> DEFINE s == Indent(w) \o <<"quote">>
  <2>1. "quote" \in Symbols
    BY DEF Symbols
  <2>2. s \in Seq(Symbols)
    BY <2>1, IndentIs, Spaced
  <2>3. u = To("name", w.value, o, 1, w.out \o s)
    BY <1>8 DEF WritesName
  <2> HIDE DEF s
  <2>4. /\ u \in Writer /\ \E t \in Seq(Symbols) : u.out = w.out \o t
        /\ u.mode = "name" /\ u.open = o /\ u.i = 1
    BY <1>1, <1>2, <2>2, <2>3 DEF Modes
  <2>5. o # <<>> /\ Inside(o) /\ c.value.type = "object"
    BY <1>8 DEF WritesName, WriterOk
  <2>6. 1 \in 1..(Len(c.value.names[c.i]) + 1)
    <3>1. c.value \in Documents /\ c.i \in 1..Len(c.value.values)
      BY <1>1, <2>5, InnermostIs
    <3>2. c.value.names \in Seq(Strings) /\ Len(c.value.names) = Len(c.value.values)
      BY <2>5, <3>1, ContainerIs DEF Containers
    <3>3. c.value.names[c.i] \in Strings
      BY <3>1, <3>2, ElementOfSeq
    <3>4. Len(c.value.names[c.i]) \in Nat
      BY <3>3, LenProperties DEF Strings
    <3> QED
      BY <3>4
  <2> QED
    BY <1>1, <2>4, <2>5, <2>6 DEF WriterOk
<1>9. CASE WritesEnding(w, u)
  <2> DEFINE s == BeforeEnd(c.value) \o <<Closing(c.value.type)>>
             p == Front(o)
  <2>1. s \in Seq(Symbols)
    BY BracketIs, BeforeEndIs, Spaced
  <2>2. u = To("behind", c.value, p, w.i, w.out \o s) /\ o # <<>>
    BY <1>9 DEF WritesEnding, Ending
  <2>3. c.value \in Documents /\ p \in Seq(WFrame)
    BY <1>1, <2>2, InnermostIs, ChainPop
  <2>4. Chain(p) /\ Inside(p) /\ Current(p) = c.value
    BY <1>1, <2>2, ChainPop
  <2> HIDE DEF s, p
  <2>5. /\ u \in Writer /\ \E t \in Seq(Symbols) : u.out = w.out \o t
        /\ u.mode = "behind" /\ u.open = p /\ u.value = c.value
    BY <1>1, <1>2, <2>1, <2>2, <2>3 DEF Modes
  <2> QED
    BY <2>4, <2>5 DEF WriterOk
<1>10. CASE WritesChar(w, u)
  <2> DEFINE s == Escapes(Chars(w)[w.i])
  <2>1. Chars(w) \in Strings /\ w.i \in 1..Len(Chars(w)) /\ w.mode \in {"string", "name"}
    BY <1>10, CharsAre DEF WritesChar
  <2>2. Chars(w)[w.i] \in Char /\ Len(Chars(w)) \in Nat
    BY <2>1, ElementOfSeq, LenProperties DEF Strings
  <2>3. s \in Seq(Symbols)
    BY <2>2, EscapesAre
  <2>4. u = To(w.mode, w.value, o, w.i + 1, w.out \o s)
    BY <1>10 DEF WritesChar
  <2> HIDE DEF s
  <2>5. w.mode \in Modes /\ w.i + 1 \in Nat
    BY <1>1, <2>1 DEF Modes
  <2>6. /\ u \in Writer /\ \E t \in Seq(Symbols) : u.out = w.out \o t
        /\ u.mode = w.mode /\ u.value = w.value /\ u.open = o /\ u.i = w.i + 1
    BY <1>1, <1>2, <2>3, <2>4, <2>5
  <2>7. u.i \in 1..(Len(Chars(w)) + 1)
    BY <2>1, <2>2, <2>6
  <2> QED
    BY <2>1, <2>6, <2>7 DEF WriterOk, Chars
<1>11. CASE WritesColon(w, u)
  <2>1. o # <<>> /\ Inside(o) /\ c.value.type = "object"
    BY <1>11 DEF WritesColon, WriterOk
  <2>2. <<"quote", "colon">> \in Seq(Symbols)
    BY ShortSeqs DEF Symbols
  <2>3. u = To("value", v, o, w.i, w.out \o <<"quote", "colon">>)
    BY <1>11 DEF WritesColon
  <2>4. /\ u \in Writer /\ \E t \in Seq(Symbols) : u.out = w.out \o t
        /\ u.mode = "value" /\ u.value = v /\ u.open = o
    BY <1>1, <1>2, <1>4, <2>1, <2>2, <2>3 DEF Modes
  <2> QED
    BY <1>1, <2>1, <2>4 DEF WriterOk
<1>12. CASE WritesQuote(w, u)
  <2>1. <<"quote">> \in Seq(Symbols)
    BY ShortSeqs DEF Symbols
  <2>2. u = To("behind", w.value, o, w.i, w.out \o <<"quote">>)
    BY <1>12 DEF WritesQuote
  <2>3. /\ u \in Writer /\ \E t \in Seq(Symbols) : u.out = w.out \o t
        /\ u.mode = "behind" /\ u.value = w.value /\ u.open = o
    BY <1>1, <1>2, <2>1, <2>2 DEF Modes
  <2> QED
    BY <1>1, <1>12, <2>3 DEF WriterOk, WritesQuote
<1>13. CASE WritesComma(w, u)
  <2> DEFINE p == Append(Front(o), [value |-> c.value, i |-> c.i + 1])
  <2>1. <<"comma">> \in Seq(Symbols)
    BY ShortSeqs DEF Symbols
  <2>2. /\ u = To("element", w.value, p, w.i, w.out \o <<"comma">>)
        /\ o # <<>> /\ c.i < Len(c.value.values)
    BY <1>13 DEF WritesComma
  <2>3. p \in Seq(WFrame) /\ Chain(p)
    BY <1>1, <2>2, ChainNext
  <2>4. p # <<>>
    <3>1. c.value \in Documents /\ c.i + 1 \in Nat
      BY <1>1, <2>2, InnermostIs
    <3>2. [value |-> c.value, i |-> c.i + 1] \in WFrame
      BY <3>1 DEF WFrame
    <3> QED
      BY <1>1, <2>2, <3>2, Exchanged
  <2> HIDE DEF p
  <2>5. /\ u \in Writer /\ \E t \in Seq(Symbols) : u.out = w.out \o t
        /\ u.mode = "element" /\ u.open = p
    BY <1>1, <1>2, <2>1, <2>2, <2>3 DEF Modes
  <2> QED
    BY <2>3, <2>4, <2>5 DEF WriterOk
<1> QED
  BY <1>5, <1>6, <1>7, <1>8, <1>9, <1>10, <1>11, <1>12, <1>13 DEF WritesOn

-----------------------------------------------------------------------------
(* What the reader sees.                                                   *)

\* The text has what was written before the symbols c, and of these as much
\* as has arrived.
Arriving(o, c) ==
  /\ text \in Seq(Symbols) /\ o \in Seq(Symbols) /\ c \in Seq(Symbols)
  /\ Len(o) <= Len(text)
  /\ \E f \in Seq(Symbols) : Begins(o \o c, f) /\ Begins(text, f)

\* Everything up to c has arrived.
Arrived(o, c) == Len(o \o c) <= Len(text)

LEMMA Seen ==
  \A o, c : Arriving(o, c) =>
    /\ Len(o) \in Nat /\ Len(c) \in Nat /\ Len(text) \in Nat /\ Len(o) <= Len(text)
    /\ Len(o \o c) = Len(o) + Len(c)
    /\ \A j \in 1..Len(c) :
         Symbol(Len(o) + j) = IF Len(o) + j <= Len(text) THEN c[j] ELSE "end"
<1> TAKE o, c
<1> HAVE Arriving(o, c)
<1>1. /\ Len(o) \in Nat /\ Len(c) \in Nat /\ Len(text) \in Nat /\ Len(o) <= Len(text)
      /\ o \in Seq(Symbols) /\ c \in Seq(Symbols)
  BY LenProperties DEF Arriving
<1>2. /\ Len(o \o c) = Len(o) + Len(c)
      /\ \A j \in 1..(Len(o) + Len(c)) : (o \o c)[j] = IF j <= Len(o) THEN o[j] ELSE c[j - Len(o)]
  BY <1>1, ConcatProperties
<1>3. PICK f \in Seq(Symbols) : Begins(o \o c, f) /\ Begins(text, f)
  BY DEF Arriving
<1>4. ASSUME NEW j \in 1..Len(c)
      PROVE  Symbol(Len(o) + j) = IF Len(o) + j <= Len(text) THEN c[j] ELSE "end"
  <2>1. Len(o) + j \in 1..(Len(o) + Len(c)) /\ ~(Len(o) + j <= Len(o)) /\ (Len(o) + j) - Len(o) = j
    BY <1>1
  <2>2. f[Len(o) + j] = c[j]
    BY <1>2, <1>3, <2>1 DEF Begins
  <2>3. Len(o) + j <= Len(text) => Len(o) + j \in 1..Len(text)
    BY <1>1, <2>1
  <2>4. Len(o) + j <= Len(text) => text[Len(o) + j] = f[Len(o) + j]
    BY <1>3, <2>3 DEF Begins
  <2> QED
    BY <2>2, <2>4 DEF Symbol
<1> QED
  BY <1>1, <1>2, <1>4

\* One, two or three symbols.
LEMMA SeenShort ==
  \A o, c : Arriving(o, c) =>
    LET At(j, x) == Symbol(Len(o) + j) = IF Len(o) + j <= Len(text) THEN x ELSE "end"
    IN  /\ Len(o) \in Nat /\ Len(text) \in Nat /\ Len(o) <= Len(text)
        /\ Len(o \o c) = Len(o) + Len(c)
        /\ \A x \in Symbols : c = <<x>> => Len(c) = 1 /\ At(1, x)
        /\ \A x, y \in Symbols : c = <<x, y>> => Len(c) = 2 /\ At(1, x) /\ At(2, y)
        /\ \A x, y, z \in Symbols : c = <<x, y, z>> =>
             Len(c) = 3 /\ At(1, x) /\ At(2, y) /\ At(3, z)
<1> TAKE o, c
<1> HAVE Arriving(o, c)
<1> DEFINE At(j, x) == Symbol(Len(o) + j) = IF Len(o) + j <= Len(text) THEN x ELSE "end"
<1>1. /\ Len(o) \in Nat /\ Len(text) \in Nat /\ Len(o) <= Len(text)
      /\ Len(o \o c) = Len(o) + Len(c)
      /\ \A j \in 1..Len(c) : At(j, c[j])
  BY Seen
<1> HIDE DEF At
<1>2. ASSUME NEW x \in Symbols, c = <<x>>  PROVE Len(c) = 1 /\ At(1, x)
  <2>1. Len(c) = 1 /\ c[1] = x /\ 1 \in 1..Len(c)
    BY <1>2
  <2> QED
    BY <1>1, <2>1
<1>3. ASSUME NEW x \in Symbols, NEW y \in Symbols, c = <<x, y>>
      PROVE  Len(c) = 2 /\ At(1, x) /\ At(2, y)
  <2>1. Len(c) = 2 /\ c[1] = x /\ c[2] = y /\ 1 \in 1..Len(c) /\ 2 \in 1..Len(c)
    BY <1>3
  <2> QED
    BY <1>1, <2>1
<1>4. ASSUME NEW x \in Symbols, NEW y \in Symbols, NEW z \in Symbols, c = <<x, y, z>>
      PROVE  Len(c) = 3 /\ At(1, x) /\ At(2, y) /\ At(3, z)
  <2>1. /\ Len(c) = 3 /\ c[1] = x /\ c[2] = y /\ c[3] = z
        /\ 1 \in 1..Len(c) /\ 2 \in 1..Len(c) /\ 3 \in 1..Len(c)
    BY <1>4
  <2> QED
    BY <1>1, <2>1
<1>5. /\ Len(o) \in Nat /\ Len(text) \in Nat /\ Len(o) <= Len(text)
      /\ Len(o \o c) = Len(o) + Len(c)
  BY <1>1
<1> QED
  BY <1>2, <1>3, <1>4, <1>5 DEF At

\* A symbol that may have white space before it.
LEMMA SeenSpaced ==
  \A o : \A b \in Blanks, x \in Symbols :
    Arriving(o, b \o <<x>>) /\ x # "blank" =>
      LET s == SKIP_WHITESPACES(Len(o) + 1)
      IN  /\ Arrived(o, b \o <<x>>) => Symbol(s) = x /\ s = Len(o \o (b \o <<x>>))
          /\ ~Arrived(o, b \o <<x>>) => Symbol(s) = "end"
<1> TAKE o
<1> TAKE b \in Blanks, x \in Symbols
<1> DEFINE c == b \o <<x>>
           s == SKIP_WHITESPACES(Len(o) + 1)
<1> SUFFICES ASSUME Arriving(o, c), x # "blank"
             PROVE  /\ Arrived(o, c) => Symbol(s) = x /\ s = Len(o \o c)
                    /\ ~Arrived(o, c) => Symbol(s) = "end"
  OBVIOUS
<1>1. /\ c \in Seq(Symbols)
      /\ b = <<>> => c = <<x>>
      /\ b = <<"blank">> => c = <<"blank", x>>
  BY Spaced
<1> HIDE DEF c
<1>2. /\ Len(o) \in Nat /\ Len(c) \in Nat /\ Len(text) \in Nat /\ Len(o) <= Len(text)
      /\ Len(o \o c) = Len(o) + Len(c)
      /\ \A j \in 1..Len(c) :
           Symbol(Len(o) + j) = IF Len(o) + j <= Len(text) THEN c[j] ELSE "end"
  BY Seen
<1>3. CASE b = <<>>
  <2>1. Len(c) = 1 /\ c[1] = x /\ 1 \in 1..Len(c)
    BY <1>1, <1>3
  <2>2. Symbol(Len(o) + 1) = IF Len(o) + 1 <= Len(text) THEN x ELSE "end"
    BY <1>2, <2>1
  <2>3. s = Len(o) + 1
    BY <2>2 DEF SKIP_WHITESPACES
  <2> QED
    BY <1>2, <2>1, <2>2, <2>3 DEF Arrived
<1>4. CASE b = <<"blank">>
  <2>0. c = <<"blank", x>>
    BY <1>1, <1>4
  <2>1. Len(c) = 2 /\ c[1] = "blank" /\ c[2] = x /\ 1 \in 1..Len(c) /\ 2 \in 1..Len(c)
    BY <2>0
  <2>2. /\ Symbol(Len(o) + 1) = IF Len(o) + 1 <= Len(text) THEN "blank" ELSE "end"
        /\ Symbol(Len(o) + 2) = IF Len(o) + 2 <= Len(text) THEN x ELSE "end"
    BY <1>2, <2>1
  <2>3. CASE Len(o) + 1 <= Len(text)
    <3>1. s = Len(o) + 1 + 1
      BY <2>2, <2>3 DEF SKIP_WHITESPACES
    <3>2. s = Len(o) + 2
      BY <1>2, <3>1
    <3> QED
      BY <1>2, <2>1, <2>2, <3>2 DEF Arrived
  <2>4. CASE ~(Len(o) + 1 <= Len(text))
    <3>1. s = Len(o) + 1 /\ Symbol(s) = "end"
      BY <2>2, <2>4 DEF SKIP_WHITESPACES
    <3>2. ~Arrived(o, c)
      BY <1>2, <2>1, <2>4 DEF Arrived
    <3> QED
      BY <3>1, <3>2
  <2> QED
    BY <2>3, <2>4
<1> QED
  BY <1>3, <1>4 DEF Blanks

\* The path to the value that the writer is at is as long as there are
\* containers open.
LEMMA PathIsDeep ==
  \A o \in Seq(WFrame) :
    /\ doc \in Documents /\ Chain(o) /\ Inside(o) /\ Len(o) = MAX_NESTING + 1
    => doc \in Deep[MAX_NESTING + 1]
<1> TAKE o \in Seq(WFrame)
<1> HAVE doc \in Documents /\ Chain(o) /\ Inside(o) /\ Len(o) = MAX_NESTING + 1
<1> DEFINE N == Len(o)
           val(j) == IF j = 0 THEN Current(o) ELSE o[N + 1 - j].value
           S == {j \in 0..N : val(j) \in Deep[j]}
<1>1. N \in Nat /\ N = MAX_NESTING + 1 /\ MAX_NESTING \in Nat
  BY TextAssumption
<1>2. o # <<>> /\ Last(o) = o[N]
  <2>1. o # <<>>
    BY <1>1, EmptyIs
  <2> QED
    BY <2>1, Fronted
<1>3. 0 \in S
  BY <1>1, CurrentIs, DeepIs
<1>4. ASSUME NEW j \in 1..N, j - 1 \in S  PROVE j \in S
  <2> DEFINE k == N + 1 - j
  <2>1. k \in 1..N /\ j # 0 /\ j \in 1..(MAX_NESTING + 1) /\ N + 1 - (j - 1) = k + 1
    BY <1>1
  <2>2. o[k] \in WFrame
    BY <2>1, ElementOfSeq
  <2>3. o[k].value \in Documents /\ o[k].value.type \in Containers
    BY <2>1, <2>2 DEF Chain, WFrame
  <2>4. o[k].i \in 1..Len(o[k].value.values) /\ val(j - 1) = o[k].value.values[o[k].i]
    <3>1. CASE j = 1
      <4>1. k = N
        BY <1>1, <3>1
      <4>2. Last(o).i \in 1..Len(Last(o).value.values)
        BY <1>2, InnermostIs
      <4> QED
        BY <1>2, <3>1, <4>1, <4>2 DEF Current
    <3>2. CASE j # 1
      <4>1. k + 1 \in 1..N /\ k # N /\ k + 1 # 1 /\ j - 1 # 0 /\ (k + 1) - 1 = k
        BY <1>1, <2>1, <3>2
      <4>2. o[k + 1].value = o[k].value.values[o[k].i]
        <5>1. o[k + 1].value = o[(k + 1) - 1].value.values[o[(k + 1) - 1].i]
          BY <4>1 DEF Chain
        <5> QED
          BY <4>1, <5>1
      <4>3. o[k].i \in 1..Len(o[k].value.values)
        BY <2>1, <4>1 DEF Chain
      <4> QED
        BY <2>1, <4>1, <4>2, <4>3
    <3> QED
      BY <3>1, <3>2
  <2>5. val(j - 1) \in Deep[j - 1]
    BY <1>4
  <2>6. o[k].value \in Deep[j]
    BY <2>1, <2>3, <2>4, <2>5, DeepHolds
  <2> QED
    BY <1>1, <2>1, <2>6
<1> HIDE DEF S
<1>5. N \in S
  <2>1. \A j \in (0 + 1)..N : j - 1 \in S => j \in S
    BY <1>4
  <2> QED
    BY <1>1, <1>3, <2>1, Induction
<1>6. o[N + 1 - N].value = doc
  <2>1. N + 1 - N = 1 /\ 1 \in 1..N
    BY <1>1
  <2> QED
    BY <2>1 DEF Chain
<1> QED
  BY <1>1, <1>5, <1>6 DEF S

-----------------------------------------------------------------------------
(* The containers that the reader has begun.                               *)

RFrame == [type : Containers, names : Seq(Strings), values : Seq(Documents), key : Strings]

\* f is as much of the container c.value as has been read; if keyed, new_key
\* is the name of the value that is being read.
FrameOf(c, f, keyed) ==
  /\ f.type = c.value.type
  /\ Len(f.values) = c.i - 1
  /\ \A k \in 1..(c.i - 1) : f.values[k] = c.value.values[k]
  /\ f.type = "array" => f.names = <<>>
  /\ f.type = "object" =>
       /\ Len(f.names) = c.i - 1
       /\ \A k \in 1..(c.i - 1) : f.names[k] = c.value.names[k]
  /\ f.type = "object" /\ keyed => f.key = c.value.names[c.i]

Frames(o, p, keyed) ==
  Len(p) = Len(o) /\ \A j \in 1..Len(o) : FrameOf(o[j], p[j], keyed \/ j < Len(o))

LEMMA FramesLast ==
  \A o \in Seq(WFrame), p \in Seq(RFrame), keyed \in BOOLEAN :
    Frames(o, p, keyed) =>
      /\ Len(o) \in Nat /\ Len(p) = Len(o)
      /\ p = <<>> <=> o = <<>>
      /\ o # <<>> => /\ Len(o) >= 1 /\ Last(p) = p[Len(o)] /\ Last(p) \in RFrame
                     /\ Last(o) = o[Len(o)] /\ FrameOf(Last(o), Last(p), keyed)
<1> TAKE o \in Seq(WFrame), p \in Seq(RFrame), keyed \in BOOLEAN
<1> HAVE Frames(o, p, keyed)
<1>1. Len(o) \in Nat /\ Len(p) = Len(o) /\ (p = <<>> <=> o = <<>>)
  BY EmptyIs DEF Frames
<1>2. ASSUME o # <<>>
      PROVE  /\ Len(o) >= 1 /\ Last(p) = p[Len(o)] /\ Last(p) \in RFrame
             /\ Last(o) = o[Len(o)] /\ FrameOf(Last(o), Last(p), keyed)
  <2>1. Len(o) >= 1 /\ Last(o) = o[Len(o)]
    BY <1>2, Fronted
  <2>2. Last(p) = p[Len(o)] /\ Last(p) \in RFrame
    BY <1>1, <1>2, Fronted
  <2>3. (keyed \/ Len(o) < Len(o)) = keyed
    BY <1>1
  <2>4. FrameOf(o[Len(o)], p[Len(o)], keyed \/ Len(o) < Len(o))
    BY <1>1, <2>1 DEF Frames
  <2>5. FrameOf(o[Len(o)], p[Len(o)], keyed)
    BY <2>3, <2>4
  <2> QED
    BY <2>1, <2>2, <2>5
<1> QED
  BY <1>1, <1>2

\* Arrays have no names.
LEMMA FramesOfArray ==
  \A o \in Seq(WFrame), p \in Seq(RFrame) :
    Frames(o, p, FALSE) /\ (o # <<>> => Last(o).value.type = "array") => Frames(o, p, TRUE)
<1> TAKE o \in Seq(WFrame), p \in Seq(RFrame)
<1> HAVE Frames(o, p, FALSE) /\ (o # <<>> => Last(o).value.type = "array")
<1>1. Len(p) = Len(o) /\ Len(o) \in Nat
  BY FramesLast
<1>2. ASSUME NEW j \in 1..Len(o)  PROVE FrameOf(o[j], p[j], TRUE)
  <2>1. FrameOf(o[j], p[j], FALSE \/ j < Len(o))
    BY DEF Frames
  <2>2. CASE j < Len(o)
    BY <2>1, <2>2 DEF FrameOf
  <2>3. CASE ~(j < Len(o))
    <3>1. o # <<>> /\ j = Len(o)
      BY <1>1, <2>3, EmptyIs
    <3>2. o[j].value.type = "array"
      BY <3>1, Fronted
    <3> QED
      BY <2>1, <3>2 DEF FrameOf
  <2> QED
    BY <2>2, <2>3
<1> QED
  BY <1>1, <1>2 DEF Frames, FrameOf

LEMMA FramesPush ==
  \A o \in Seq(WFrame), p \in Seq(RFrame), v \in Documents :
    Frames(o, p, TRUE) /\ v.type \in Containers =>
      /\ Append(p, json_value_init(v.type)) \in Seq(RFrame)
      /\ Frames(Append(o, [value |-> v, i |-> 1]), Append(p, json_value_init(v.type)), FALSE)
<1> TAKE o \in Seq(WFrame), p \in Seq(RFrame), v \in Documents
<1> HAVE Frames(o, p, TRUE) /\ v.type \in Containers
<1> DEFINE c == [value |-> v, i |-> 1]
           f == json_value_init(v.type)
           o2 == Append(o, c)
           p2 == Append(p, f)
<1>1. c \in WFrame /\ c.value = v /\ c.i = 1
  BY DEF WFrame
<1>2. f \in RFrame /\ f.type = v.type /\ f.names = <<>> /\ f.values = <<>>
  BY EmptySeq DEF RFrame, json_value_init, Strings
<1>3. Len(<<>>) = 0
  BY EmptySeq
<1>4. FrameOf(c, f, FALSE)
  BY <1>1, <1>2, <1>3 DEF FrameOf
<1> HIDE DEF c, f
<1>5. /\ Len(o) \in Nat /\ Len(o2) = Len(o) + 1 /\ o2[Len(o) + 1] = c
      /\ \A j \in 1..Len(o) : o2[j] = o[j]
  BY <1>1, Appended
<1>6. /\ p2 \in Seq(RFrame) /\ Len(p2) = Len(p) + 1 /\ p2[Len(p) + 1] = f
      /\ \A j \in 1..Len(p) : p2[j] = p[j]
  BY <1>2, Appended
<1>7. Len(p) = Len(o)
  BY DEF Frames
<1> HIDE DEF o2, p2
<1>8. ASSUME NEW j \in 1..Len(o2)  PROVE FrameOf(o2[j], p2[j], FALSE \/ j < Len(o2))
  <2>1. CASE j = Len(o) + 1
    <3>1. ~(j < Len(o2)) /\ o2[j] = c /\ p2[j] = f
      BY <1>5, <1>6, <1>7, <2>1
    <3> QED
      BY <1>4, <3>1
  <2>2. CASE j # Len(o) + 1
    <3>1. j \in 1..Len(o) /\ j < Len(o2) /\ o2[j] = o[j] /\ p2[j] = p[j]
      BY <1>5, <1>6, <1>7, <2>2
    <3>2. FrameOf(o[j], p[j], TRUE \/ j < Len(o))
      BY <3>1 DEF Frames
    <3> QED
      BY <3>1, <3>2 DEF FrameOf
  <2> QED
    BY <2>1, <2>2
<1> QED
  BY <1>5, <1>6, <1>7, <1>8 DEF Frames, o2, p2, c, f

LEMMA FramesPop ==
  \A o \in Seq(WFrame), p \in Seq(RFrame), keyed \in BOOLEAN :
    Frames(o, p, keyed) /\ o # <<>> =>
      Front(p) \in Seq(RFrame) /\ Frames(Front(o), Front(p), TRUE)
<1> TAKE o \in Seq(WFrame), p \in Seq(RFrame), keyed \in BOOLEAN
<1> HAVE Frames(o, p, keyed) /\ o # <<>>
<1>1. Len(p) = Len(o) /\ Len(o) \in Nat /\ Len(o) >= 1 /\ p # <<>>
  BY FramesLast
<1>2. Len(Front(o)) = Len(o) - 1 /\ \A j \in 1..(Len(o) - 1) : Front(o)[j] = o[j]
  BY Fronted
<1>3. /\ Front(p) \in Seq(RFrame) /\ Len(Front(p)) = Len(o) - 1
      /\ \A j \in 1..(Len(o) - 1) : Front(p)[j] = p[j]
  BY <1>1, Fronted
<1>4. ASSUME NEW j \in 1..Len(Front(o))
      PROVE  FrameOf(Front(o)[j], Front(p)[j], TRUE \/ j < Len(Front(o)))
  <2>1. /\ j \in 1..Len(o) /\ j < Len(o)
        /\ Front(o)[j] = o[j] /\ Front(p)[j] = p[j]
    BY <1>1, <1>2, <1>3
  <2>2. FrameOf(o[j], p[j], keyed \/ j < Len(o))
    BY <2>1 DEF Frames
  <2> QED
    BY <2>1, <2>2 DEF FrameOf
<1> QED
  BY <1>2, <1>3, <1>4 DEF Frames

\* Another innermost container.
LEMMA FramesReplaced ==
  \A o \in Seq(WFrame), p \in Seq(RFrame), c \in WFrame, f \in RFrame, k1, k2 \in BOOLEAN :
    Frames(o, p, k1) /\ o # <<>> /\ FrameOf(c, f, k2) =>
      /\ Append(Front(p), f) \in Seq(RFrame)
      /\ Frames(Append(Front(o), c), Append(Front(p), f), k2)
<1> TAKE o \in Seq(WFrame), p \in Seq(RFrame), c \in WFrame, f \in RFrame, k1, k2 \in BOOLEAN
<1> HAVE Frames(o, p, k1) /\ o # <<>> /\ FrameOf(c, f, k2)
<1> DEFINE o2 == Append(Front(o), c)
           p2 == Append(Front(p), f)
<1>1. Len(p) = Len(o) /\ Len(o) \in Nat /\ Len(o) >= 1 /\ p # <<>>
  BY FramesLast
<1>2. Len(o2) = Len(o) /\ o2[Len(o)] = c /\ \A j \in 1..(Len(o) - 1) : o2[j] = o[j]
  BY Exchanged
<1>3. /\ p2 \in Seq(RFrame) /\ Len(p2) = Len(o) /\ p2[Len(o)] = f
      /\ \A j \in 1..(Len(o) - 1) : p2[j] = p[j]
  BY <1>1, Exchanged
<1> HIDE DEF o2, p2
<1>4. ASSUME NEW j \in 1..Len(o2)  PROVE FrameOf(o2[j], p2[j], k2 \/ j < Len(o2))
  <2>1. CASE j = Len(o)
    <3>1. o2[j] = c /\ p2[j] = f /\ ~(j < Len(o2))
      BY <1>1, <1>2, <1>3, <2>1
    <3> QED
      BY <3>1 DEF FrameOf
  <2>2. CASE j # Len(o)
    <3>1. j \in 1..Len(o) /\ j < Len(o) /\ o2[j] = o[j] /\ p2[j] = p[j]
      BY <1>1, <1>2, <1>3, <2>2
    <3>2. FrameOf(o[j], p[j], k1 \/ j < Len(o))
      BY <3>1 DEF Frames
    <3> QED
      BY <1>2, <3>1, <3>2 DEF FrameOf
  <2> QED
    BY <2>1, <2>2
<1> QED
  BY <1>2, <1>3, <1>4 DEF Frames, o2, p2

LEMMA FramesKeyed ==
  \A o \in Seq(WFrame), p \in Seq(RFrame), k \in Strings :
    /\ Frames(o, p, FALSE) /\ o # <<>>
    /\ k = Last(o).value.names[Last(o).i]
    => /\ Append(Front(p), [Last(p) EXCEPT !.key = k]) \in Seq(RFrame)
       /\ Frames(o, Append(Front(p), [Last(p) EXCEPT !.key = k]), TRUE)
<1> TAKE o \in Seq(WFrame), p \in Seq(RFrame), k \in Strings
<1> HAVE /\ Frames(o, p, FALSE) /\ o # <<>>
         /\ k = Last(o).value.names[Last(o).i]
<1> DEFINE c == Last(o)
           f == [Last(p) EXCEPT !.key = k]
<1>1. Last(p) \in RFrame /\ FrameOf(c, Last(p), FALSE) /\ Len(o) >= 1 /\ Len(o) \in Nat
  BY FramesLast
<1>2. /\ f \in RFrame /\ f.key = k
      /\ f.type = Last(p).type /\ f.names = Last(p).names /\ f.values = Last(p).values
  BY <1>1 DEF RFrame
<1> HIDE DEF f
<1>3. FrameOf(c, f, TRUE)
  BY <1>1, <1>2 DEF FrameOf
<1>4. c \in WFrame
  BY Fronted
<1>5. Append(Front(p), f) \in Seq(RFrame) /\ Frames(Append(Front(o), c), Append(Front(p), f), TRUE)
  BY <1>2, <1>3, <1>4, FramesReplaced
<1>6. Append(Front(o), c) = o
  <2> DEFINE o2 == Append(Front(o), c)
  <2>1. /\ o2 \in Seq(WFrame) /\ Len(o2) = Len(o) /\ o2[Len(o)] = c
        /\ \A j \in 1..(Len(o) - 1) : o2[j] = o[j]
    BY <1>4, Exchanged
  <2>2. c = o[Len(o)]
    BY Fronted
  <2>3. \A j \in 1..Len(o) : j = Len(o) \/ j \in 1..(Len(o) - 1)
    BY <1>1
  <2> HIDE DEF o2
  <2>4. \A j \in 1..Len(o2) : o2[j] = o[j]
    BY <2>1, <2>2, <2>3
  <2>5. o2 = o
    BY <2>1, <2>4, SeqEqual
  <2> QED
    BY <2>5 DEF o2
<1> QED
  BY <1>5, <1>6 DEF f

\* A value is added.
LEMMA AddIs ==
  \A c \in WFrame, f \in RFrame, v \in Documents :
    /\ FrameOf(c, f, TRUE) /\ c.value.type \in Containers
    /\ c.i \in 1..Len(c.value.values) /\ v = c.value.values[c.i]
    => /\ Add(f, v) \in RFrame
       /\ FrameOf([value |-> c.value, i |-> c.i + 1], Add(f, v), FALSE)
<1> TAKE c \in WFrame, f \in RFrame, v \in Documents
<1> HAVE /\ FrameOf(c, f, TRUE) /\ c.value.type \in Containers
         /\ c.i \in 1..Len(c.value.values) /\ v = c.value.values[c.i]
<1> DEFINE d == [value |-> c.value, i |-> c.i + 1]
           g == Add(f, v)
           vs == Append(f.values, v)
           ns == Append(f.names, f.key)
<1>1. /\ f.values \in Seq(Documents) /\ f.names \in Seq(Strings) /\ f.key \in Strings
      /\ f.type \in Containers /\ f.type = c.value.type /\ c.i \in Nat /\ c.i >= 1
  BY DEF RFrame, FrameOf, WFrame
<1>2. d.value = c.value /\ d.i = c.i + 1 /\ (c.i + 1) - 1 = c.i
  BY <1>1
<1>3. g = [type |-> f.type, names |-> IF f.type = "object" THEN ns ELSE f.names,
           values |-> vs, key |-> f.key]
  BY DEF Add
<1>4. vs \in Seq(Documents) /\ Len(vs) = c.i /\ \A k \in 1..c.i : vs[k] = c.value.values[k]
  <2>1. Len(f.values) = c.i - 1 /\ \A k \in 1..(c.i - 1) : f.values[k] = c.value.values[k]
    BY DEF FrameOf
  <2>2. /\ vs \in Seq(Documents) /\ Len(vs) = (c.i - 1) + 1 /\ vs[(c.i - 1) + 1] = v
        /\ \A k \in 1..(c.i - 1) : vs[k] = f.values[k]
    BY <1>1, <2>1, Appended
  <2>3. (c.i - 1) + 1 = c.i /\ \A k \in 1..c.i : k = c.i \/ k \in 1..(c.i - 1)
    BY <1>1
  <2> HIDE DEF vs
  <2> QED
    BY <2>1, <2>2, <2>3
<1>5. f.type = "object" =>
        ns \in Seq(Strings) /\ Len(ns) = c.i /\ \A k \in 1..c.i : ns[k] = c.value.names[k]
  <2> HAVE f.type = "object"
  <2>1. /\ Len(f.names) = c.i - 1 /\ f.key = c.value.names[c.i]
        /\ \A k \in 1..(c.i - 1) : f.names[k] = c.value.names[k]
    BY DEF FrameOf
  <2>2. /\ ns \in Seq(Strings) /\ Len(ns) = (c.i - 1) + 1 /\ ns[(c.i - 1) + 1] = f.key
        /\ \A k \in 1..(c.i - 1) : ns[k] = f.names[k]
    BY <1>1, <2>1, Appended
  <2>3. (c.i - 1) + 1 = c.i /\ \A k \in 1..c.i : k = c.i \/ k \in 1..(c.i - 1)
    BY <1>1
  <2> HIDE DEF ns
  <2> QED
    BY <2>1, <2>2, <2>3
<1> HIDE DEF vs, ns
<1>6. /\ g.type = f.type /\ g.values = vs /\ g.key = f.key
      /\ f.type = "object" => g.names = ns
      /\ f.type # "object" => g.names = f.names
  BY <1>3
<1>7. g \in RFrame
  BY <1>1, <1>3, <1>4, <1>5 DEF RFrame
<1>8. f.type = "array" => f.names = <<>>
  BY DEF FrameOf
<1> HIDE DEF g, d
<1>9. FrameOf(d, g, FALSE)
  BY <1>1, <1>2, <1>4, <1>5, <1>6, <1>8 DEF FrameOf, Containers
<1> QED
  BY <1>7, <1>9 DEF g, d

\* A container that has been read to its end is the one that was written.
LEMMA ValueIs ==
  \A f \in RFrame : \A c, keyed :
    /\ FrameOf(c, f, keyed) /\ c.value \in Documents /\ c.i = Len(c.value.values) + 1
    => Value(f) = c.value
<1> TAKE f \in RFrame
<1> TAKE c, keyed
<1> HAVE FrameOf(c, f, keyed) /\ c.value \in Documents /\ c.i = Len(c.value.values) + 1
<1> DEFINE v == c.value
<1>1. /\ f.type = v.type /\ f.type \in Containers
      /\ f.values \in Seq(Documents) /\ f.names \in Seq(Strings)
  BY DEF FrameOf, RFrame
<1>2. /\ v = [type |-> v.type, names |-> v.names, values |-> v.values]
      /\ v.values \in Seq(Documents) /\ Len(v.values) \in Nat
      /\ v.type = "array" => v.names = <<>>
      /\ v.type = "object" => v.names \in Seq(Strings) /\ Len(v.names) = Len(v.values)
  BY <1>1, ContainerIs
<1>3. c.i - 1 = Len(v.values)
  BY <1>2
<1>4. f.values = v.values
  <2>1. Len(f.values) = Len(v.values) /\ \A k \in 1..Len(v.values) : f.values[k] = v.values[k]
    BY <1>3 DEF FrameOf
  <2> QED
    BY <1>1, <1>2, <2>1, SeqEqual
<1>5. f.names = v.names
  <2>1. CASE v.type = "array"
    BY <1>1, <1>2, <2>1 DEF FrameOf
  <2>2. CASE v.type = "object"
    <3>1. Len(f.names) = Len(v.names) /\ \A k \in 1..Len(v.names) : f.names[k] = v.names[k]
      BY <1>1, <1>2, <1>3, <2>2 DEF FrameOf
    <3> QED
      BY <1>1, <1>2, <2>2, <3>1, SeqEqual
  <2> QED
    BY <1>1, <2>1, <2>2 DEF Containers
<1> QED
  BY <1>1, <1>2, <1>4, <1>5 DEF Value

\* The names of an object that is written are different.
LEMMA NoDuplicate ==
  \A c \in WFrame, f \in RFrame :
    FrameOf(c, f, TRUE) /\ c.i \in 1..Len(c.value.values) => ~Duplicate(f)
<1> TAKE c \in WFrame, f \in RFrame
<1> HAVE FrameOf(c, f, TRUE) /\ c.i \in 1..Len(c.value.values)
<1> SUFFICES ASSUME f.type = "object", NEW k \in DOMAIN f.names, f.names[k] = f.key  PROVE FALSE
  BY DEF Duplicate
<1>1. c.value \in Documents /\ c.value.type = "object" /\ f.names \in Seq(Strings) /\ c.i \in Nat
  BY DEF WFrame, FrameOf, RFrame
<1>2. Len(f.names) = c.i - 1 /\ f.key = c.value.names[c.i]
  BY DEF FrameOf
<1>3. k \in 1..(c.i - 1)
  BY <1>1, <1>2, LenProperties
<1>4. f.names[k] = c.value.names[k]
  BY <1>3 DEF FrameOf
<1>5. k \in 1..Len(c.value.values) /\ k # c.i
  BY <1>1, <1>3, ContainerIs DEF Containers
<1>6. \A i, j \in 1..Len(c.value.values) : c.value.names[i] = c.value.names[j] => i = j
  BY <1>1, ContainerIs DEF Containers
<1> QED
  BY <1>2, <1>4, <1>5, <1>6

\* What has been read of the containers has no more below it than may be.
Shallow(o) ==
  \A j \in 1..Len(o) :
    /\ j <= MAX_NESTING + 1
    /\ \A k \in 1..(o[j].i - 1) : o[j].value.values[k] \notin Deep[MAX_NESTING + 1 - j]

\* A value below n containers that has been read.
Fits(v, n) == n <= MAX_NESTING /\ v \notin Deep[MAX_NESTING + 1 - n]

LEMMA LeafFits ==
  \A v \in Documents, n \in Nat : v.type \notin Containers /\ n <= MAX_NESTING => Fits(v, n)
<1> TAKE v \in Documents, n \in Nat
<1> HAVE v.type \notin Containers /\ n <= MAX_NESTING
<1>1. MAX_NESTING + 1 - n \in 1..(MAX_NESTING + 1)
  BY TextAssumption
<1> QED
  BY <1>1, DeepHolds DEF Fits

LEMMA ShallowPush ==
  \A o \in Seq(WFrame), v \in Documents :
    Shallow(o) /\ Len(o) <= MAX_NESTING => Shallow(Append(o, [value |-> v, i |-> 1]))
<1> TAKE o \in Seq(WFrame), v \in Documents
<1> HAVE Shallow(o) /\ Len(o) <= MAX_NESTING
<1> DEFINE c == [value |-> v, i |-> 1]
           p == Append(o, c)
<1>1. c \in WFrame /\ c.i = 1
  BY DEF WFrame
<1>2. /\ Len(o) \in Nat /\ Len(p) = Len(o) + 1 /\ p[Len(o) + 1] = c
      /\ \A j \in 1..Len(o) : p[j] = o[j]
  BY <1>1, Appended
<1>3. MAX_NESTING \in Nat
  BY TextAssumption
<1> HIDE DEF c, p
<1>4. ASSUME NEW j \in 1..Len(p)
      PROVE  /\ j <= MAX_NESTING + 1
             /\ \A k \in 1..(p[j].i - 1) : p[j].value.values[k] \notin Deep[MAX_NESTING + 1 - j]
  <2>1. CASE j = Len(o) + 1
    <3>1. p[j].i - 1 = 0 /\ 1..0 = {}
      BY <1>1, <1>2, <2>1
    <3> QED
      BY <1>2, <1>3, <2>1, <3>1
  <2>2. CASE j # Len(o) + 1
    <3>1. j \in 1..Len(o) /\ p[j] = o[j]
      BY <1>2, <2>2
    <3> QED
      BY <3>1 DEF Shallow
  <2> QED
    BY <2>1, <2>2
<1> QED
  BY <1>4 DEF Shallow, p, c

LEMMA ShallowNext ==
  \A o \in Seq(WFrame) :
    LET c == Last(o)
        p == Append(Front(o), [value |-> c.value, i |-> c.i + 1])
    IN  o # <<>> /\ Shallow(o) /\ Fits(c.value.values[c.i], Len(o)) => Shallow(p)
<1> TAKE o \in Seq(WFrame)
<1> DEFINE c == Last(o)
           d == [value |-> c.value, i |-> c.i + 1]
           p == Append(Front(o), d)
<1> SUFFICES ASSUME o # <<>>, Shallow(o), Fits(c.value.values[c.i], Len(o))  PROVE Shallow(p)
  OBVIOUS
<1>1. Len(o) \in Nat /\ Len(o) >= 1 /\ c = o[Len(o)] /\ c \in WFrame
  BY Fronted
<1>2. c.value \in Documents /\ c.i \in Nat
  BY <1>1 DEF WFrame
<1>3. d \in WFrame /\ d.value = c.value /\ d.i = c.i + 1
  BY <1>2 DEF WFrame
<1>4. Len(p) = Len(o) /\ p[Len(o)] = d /\ \A j \in 1..(Len(o) - 1) : p[j] = o[j]
  BY <1>3, Exchanged
<1> HIDE DEF c, d, p
<1>5. ASSUME NEW j \in 1..Len(p)
      PROVE  /\ j <= MAX_NESTING + 1
             /\ \A k \in 1..(p[j].i - 1) : p[j].value.values[k] \notin Deep[MAX_NESTING + 1 - j]
  <2>1. CASE j = Len(o)
    <3>1. (c.i + 1) - 1 = c.i /\ \A k \in 1..c.i : k = c.i \/ k \in 1..(c.i - 1)
      BY <1>2
    <3>2. /\ j <= MAX_NESTING + 1
          /\ \A k \in 1..(c.i - 1) : c.value.values[k] \notin Deep[MAX_NESTING + 1 - j]
      BY <1>1, <2>1 DEF Shallow
    <3>3. c.value.values[c.i] \notin Deep[MAX_NESTING + 1 - j]
      BY <2>1 DEF Fits
    <3> QED
      BY <1>3, <1>4, <2>1, <3>1, <3>2, <3>3
  <2>2. CASE j # Len(o)
    <3>1. j \in 1..(Len(o) - 1) /\ j \in 1..Len(o) /\ p[j] = o[j]
      BY <1>1, <1>4, <2>2
    <3> QED
      BY <3>1 DEF Shallow
  <2> QED
    BY <2>1, <2>2
<1> QED
  BY <1>5 DEF Shallow, p, d, c

\* A container all of whose values have been read fits.
LEMMA ShallowPop ==
  \A o \in Seq(WFrame) :
    LET c == Last(o)
    IN  /\ o # <<>> /\ Shallow(o) /\ Chain(o)
        /\ \A k \in 1..Len(c.value.values) :
             k \in 1..(c.i - 1) \/ Fits(c.value.values[k], Len(o))
        => Shallow(Front(o)) /\ Fits(c.value, Len(Front(o)))
<1> TAKE o \in Seq(WFrame)
<1> DEFINE c == Last(o)
<1> SUFFICES ASSUME o # <<>>, Shallow(o), Chain(o),
                    \A k \in 1..Len(c.value.values) :
                      k \in 1..(c.i - 1) \/ Fits(c.value.values[k], Len(o))
             PROVE  Shallow(Front(o)) /\ Fits(c.value, Len(Front(o)))
  OBVIOUS
<1>1. Len(o) \in Nat /\ Len(o) >= 1 /\ c = o[Len(o)] /\ c \in WFrame
  BY Fronted
<1>2. Len(Front(o)) = Len(o) - 1 /\ \A j \in 1..(Len(o) - 1) : Front(o)[j] = o[j]
  BY Fronted
<1>3. c.value \in Documents /\ c.value.type \in Containers
  BY <1>1 DEF WFrame, Chain
<1> HIDE DEF c
<1>4. Len(o) <= MAX_NESTING + 1 /\ MAX_NESTING \in Nat
  BY <1>1, TextAssumption DEF Shallow
<1>5. \A k \in 1..(c.i - 1) : c.value.values[k] \notin Deep[MAX_NESTING + 1 - Len(o)]
  BY <1>1 DEF Shallow
<1>6. \A k \in 1..Len(c.value.values) : c.value.values[k] \notin Deep[MAX_NESTING + 1 - Len(o)]
  BY <1>5 DEF Fits
<1> DEFINE n == MAX_NESTING + 1 - (Len(o) - 1)
<1>7. n \in 1..(MAX_NESTING + 1) /\ n - 1 = MAX_NESTING + 1 - Len(o) /\ Len(o) - 1 <= MAX_NESTING
  BY <1>1, <1>4
<1> HIDE DEF n
<1>8. c.value \notin Deep[n]
  BY <1>3, <1>6, <1>7, DeepHolds
<1>9. Shallow(Front(o))
  <2> SUFFICES ASSUME NEW j \in 1..Len(Front(o))
               PROVE  /\ j <= MAX_NESTING + 1
                      /\ \A k \in 1..(Front(o)[j].i - 1) :
                           Front(o)[j].value.values[k] \notin Deep[MAX_NESTING + 1 - j]
    BY DEF Shallow
  <2>1. j \in 1..Len(o) /\ Front(o)[j] = o[j]
    BY <1>1, <1>2
  <2> QED
    BY <2>1 DEF Shallow
<1> QED
  BY <1>2, <1>7, <1>8, <1>9 DEF Fits, n

-----------------------------------------------------------------------------
(* The reader follows the writer.                                          *)

\* The reader r has read what the writer had written at w, and nothing else.
Match(w, r) ==
  /\ r = Go(w.mode, Len(w.out) + 1, r.open, r.chars, r.value)
  /\ r.open \in Seq(RFrame) /\ r.chars \in Strings
  /\ Frames(w.open, r.open, w.mode \notin {"element", "name"})
  /\ w.mode \in {"string", "name"} =>
       Len(r.chars) = w.i - 1 /\ \A k \in 1..(w.i - 1) : r.chars[k] = Chars(w)[k]
  /\ w.mode = "behind" => r.value = w.value

\* What has been read is not too deep.
Low(w) ==
  /\ Shallow(w.open)
  /\ w.mode = "string" => Len(w.open) <= MAX_NESTING
  /\ w.mode = "behind" => Fits(w.value, Len(w.open))

\* The text has what had been written at w, and as it goes on to u.
Follows(w, u) ==
  /\ text \in Seq(Symbols) /\ Len(w.out) <= Len(text)
  /\ \E f \in Seq(Symbols) : Begins(u.out, f) /\ Begins(text, f)

Ready(w, u, r) == WriterOk(w) /\ doc \in Documents /\ Match(w, r) /\ Low(w) /\ Follows(w, u)

\* The reader, at r, goes the step of the writer from w to u.
Reads(u, r) ==
  IF Len(u.out) <= Len(text)
  THEN \/ Match(u, Parsed(r)) /\ Low(u)
       \/ Parsed(r).mode = "failed" /\ doc \in Deep[MAX_NESTING + 1]
  ELSE Parsed(r).mode = "failed"

LEMMA ReadyIs ==
  \A w, u, r : Ready(w, u, r) =>
    /\ w \in Writer /\ w.open \in Seq(WFrame) /\ Chain(w.open) /\ w.i \in Nat
    /\ w.out \in Seq(Symbols) /\ Len(w.out) \in Nat /\ w.value \in Documents
    /\ r.mode = w.mode /\ r.at = Len(w.out) + 1
    /\ Len(r.open) = Len(w.open) /\ (r.open = <<>> <=> w.open = <<>>)
    /\ Len(w.open) \in Nat
    /\ \A c \in Seq(Symbols) : u.out = w.out \o c =>
         /\ Arriving(w.out, c)
         /\ Arrived(w.out, c) <=> Len(u.out) <= Len(text)
<1> TAKE w, u, r
<1> HAVE Ready(w, u, r)
<1>1. /\ w \in Writer /\ w.open \in Seq(WFrame) /\ Chain(w.open) /\ w.i \in Nat
      /\ w.out \in Seq(Symbols) /\ w.value \in Documents
  BY DEF Ready, WriterOk, Writer
<1>2. Len(w.out) \in Nat
  BY <1>1, LenProperties
<1>3. r.mode = w.mode /\ r.at = Len(w.out) + 1
  <2>1. r = Go(w.mode, Len(w.out) + 1, r.open, r.chars, r.value)
    BY DEF Ready, Match
  <2> DEFINE n == Len(w.out) + 1
  <2> HIDE DEF n
  <2>2. r = Go(w.mode, n, r.open, r.chars, r.value)
    BY <2>1 DEF n
  <2>3. r.mode = w.mode /\ r.at = n
    BY <2>2 DEF Go
  <2> QED
    BY <2>3 DEF n
<1>4. Len(r.open) = Len(w.open) /\ (r.open = <<>> <=> w.open = <<>>) /\ Len(w.open) \in Nat
  <2>1. r.open \in Seq(RFrame) /\ Frames(w.open, r.open, w.mode \notin {"element", "name"})
    BY DEF Ready, Match
  <2>2. (w.mode \notin {"element", "name"}) \in BOOLEAN
    OBVIOUS
  <2> QED
    BY <1>1, <2>1, <2>2, FramesLast
<1>5. ASSUME NEW c \in Seq(Symbols), u.out = w.out \o c
      PROVE  /\ Arriving(w.out, c)
             /\ Arrived(w.out, c) <=> Len(u.out) <= Len(text)
  BY <1>1, <1>5 DEF Ready, Follows, Arriving, Arrived
<1> QED
  BY <1>1, <1>2, <1>3, <1>4, <1>5

\* The beginning of a value, in an array or behind a name.
LEMMA StartIs ==
  \A w, u, r :
    /\ Ready(w, u, r) /\ Starting(w)
    /\ Symbol(SKIP_WHITESPACES(Len(w.out) + 1)) # "rbracket"
    => /\ Parsed(r) = parse_value(r)
       /\ r.open \in Seq(RFrame) /\ r.chars \in Strings /\ Frames(w.open, r.open, TRUE)
<1> TAKE w, u, r
<1> HAVE /\ Ready(w, u, r) /\ Starting(w)
         /\ Symbol(SKIP_WHITESPACES(Len(w.out) + 1)) # "rbracket"
<1>1. /\ w.open \in Seq(WFrame) /\ r.mode = w.mode /\ r.at = Len(w.out) + 1
  BY ReadyIs
<1>2. r.open \in Seq(RFrame) /\ r.chars \in Strings
  BY DEF Ready, Match
<1>3. CASE w.mode = "value"
  <2>1. Frames(w.open, r.open, TRUE)
    BY <1>3 DEF Ready, Match
  <2> QED
    BY <1>1, <1>2, <1>3, <2>1 DEF Parsed
<1>4. CASE w.mode # "value"
  <2>1. w.mode = "element" /\ Last(w.open).value.type = "array"
    BY <1>4 DEF Starting
  <2>2. w.open # <<>>
    BY <2>1 DEF Ready, WriterOk
  <2>3. Frames(w.open, r.open, FALSE)
    BY <2>1 DEF Ready, Match
  <2>4. Frames(w.open, r.open, TRUE)
    BY <1>1, <1>2, <2>1, <2>3, FramesOfArray
  <2>5. FrameOf(Last(w.open), Last(r.open), FALSE)
    BY <1>1, <1>2, <2>2, <2>3, FramesLast
  <2>6. Last(r.open).type = "array"
    BY <2>1, <2>5 DEF FrameOf
  <2>7. Closing(Last(r.open).type) = "rbracket"
    BY <2>6 DEF Closing
  <2>8. ReadElement(r) = parse_value(r)
    BY <1>1, <2>6, <2>7 DEF ReadElement
  <2> QED
    BY <1>1, <1>2, <2>1, <2>4, <2>8 DEF Parsed
<1> QED
  BY <1>3, <1>4

\* It is refused only where the path is too long.
LEMMA StartIsLow ==
  \A w, u, r : Ready(w, u, r) /\ Starting(w) =>
    /\ ~TooDeep(Len(r.open)) => Len(w.open) <= MAX_NESTING
    /\ TooDeep(Len(r.open)) => doc \in Deep[MAX_NESTING + 1]
<1> TAKE w, u, r
<1> HAVE Ready(w, u, r) /\ Starting(w)
<1> DEFINE o == w.open
<1>1. o \in Seq(WFrame) /\ Chain(o) /\ Len(r.open) = Len(o) /\ Len(o) \in Nat
  BY ReadyIs
<1>2. MAX_NESTING \in Nat
  BY TextAssumption
<1>3. Len(o) <= MAX_NESTING + 1
  <2>1. CASE Len(o) = 0
    BY <1>2, <2>1
  <2>2. CASE Len(o) # 0
    <3>1. Len(o) \in 1..Len(o)
      BY <1>1, <2>2
    <3> QED
      BY <3>1 DEF Ready, Low, Shallow
  <2> QED
    BY <2>1, <2>2
<1>4. Inside(o)
  BY StartingInside DEF Ready
<1>5. TooDeep(Len(r.open)) <=> Len(o) = MAX_NESTING + 1
  BY <1>1, <1>2, <1>3 DEF TooDeep
<1>6. Len(o) = MAX_NESTING + 1 => doc \in Deep[MAX_NESTING + 1]
  BY <1>1, <1>4, PathIsDeep DEF Ready
<1>7. ~TooDeep(Len(r.open)) => Len(o) <= MAX_NESTING
  BY <1>1, <1>2, <1>3, <1>5
<1> QED
  BY <1>5, <1>6, <1>7

\* The reader that goes on as the writer does.
LEMMA Matches ==
  \A u, m, p, s, v :
    /\ u.mode = m /\ p \in Seq(RFrame) /\ s \in Strings
    /\ Frames(u.open, p, m \notin {"element", "name"})
    /\ m \in {"string", "name"} =>
         Len(s) = u.i - 1 /\ \A k \in 1..(u.i - 1) : s[k] = Chars(u)[k]
    /\ m = "behind" => v = u.value
    => Match(u, Go(m, Len(u.out) + 1, p, s, v))
<1> TAKE u, m, p, s, v
<1> DEFINE n == Len(u.out) + 1
           q == Go(m, n, p, s, v)
<1> SUFFICES ASSUME u.mode = m, p \in Seq(RFrame), s \in Strings,
                    Frames(u.open, p, m \notin {"element", "name"}),
                    m \in {"string", "name"} =>
                      Len(s) = u.i - 1 /\ \A k \in 1..(u.i - 1) : s[k] = Chars(u)[k],
                    m = "behind" => v = u.value
             PROVE  Match(u, q)
  OBVIOUS
<1> HIDE DEF n
<1>1. q.open = p /\ q.chars = s /\ q.value = v
  BY DEF Go
<1>2. q = Go(u.mode, n, q.open, q.chars, q.value)
  BY <1>1
<1> HIDE DEF q
<1> QED
  BY <1>1, <1>2 DEF Match, n

LEMMA RefusedIs == \A w, u, r : Ready(w, u, r) => Refused(r).mode = "failed"
<1> TAKE w, u, r
<1> HAVE Ready(w, u, r)
<1> DEFINE n == Len(w.out) + 1
<1>1. r = Go(w.mode, n, r.open, r.chars, r.value)
  BY DEF Ready, Match
<1> HIDE DEF n
<1>2. \A m, p, s, v : Refused(Go(m, n, p, s, v)).mode = "failed"
  BY DEF Refused, Go
<1> QED
  BY <1>1, <1>2

\* The symbol x begins a value: either it is refused as it should be, or it is
\* there and the next place to read is behind it.
LEMMA StartReads ==
  \A w, u, r, x :
    /\ Ready(w, u, r) /\ Starting(w)
    /\ x \in Symbols /\ x # "blank" /\ x # "rbracket"
    /\ u.out = w.out \o (Indent(w) \o <<x>>)
    => \/ Reads(u, r)
       \/ /\ r.open \in Seq(RFrame) /\ r.chars \in Strings /\ Frames(w.open, r.open, TRUE)
          /\ ~TooDeep(Len(r.open)) /\ Len(w.open) <= MAX_NESTING /\ Len(w.open) \in Nat
          /\ Symbol(SKIP_WHITESPACES(r.at)) = x
          /\ SKIP_WHITESPACES(r.at) + 1 = Len(u.out) + 1
          /\ Len(u.out) <= Len(text)
          /\ Parsed(r) = parse_value(r)
<1> TAKE w, u, r, x
<1> DEFINE c == Indent(w) \o <<x>>
           s == SKIP_WHITESPACES(Len(w.out) + 1)
<1> SUFFICES ASSUME Ready(w, u, r), Starting(w),
                    x \in Symbols, x # "blank", x # "rbracket", u.out = w.out \o c
             PROVE  \/ Reads(u, r)
                    \/ /\ r.open \in Seq(RFrame) /\ r.chars \in Strings
                       /\ Frames(w.open, r.open, TRUE)
                       /\ ~TooDeep(Len(r.open)) /\ Len(w.open) <= MAX_NESTING
                       /\ Len(w.open) \in Nat
                       /\ Symbol(SKIP_WHITESPACES(r.at)) = x
                       /\ SKIP_WHITESPACES(r.at) + 1 = Len(u.out) + 1
                       /\ Len(u.out) <= Len(text)
                       /\ Parsed(r) = parse_value(r)
  OBVIOUS
<1>1. c \in Seq(Symbols)
  BY IndentIs, Spaced
<1>2. Arriving(w.out, c) /\ (Arrived(w.out, c) <=> Len(u.out) <= Len(text))
  BY <1>1, ReadyIs
<1>3. /\ Arrived(w.out, c) => Symbol(s) = x /\ s = Len(u.out)
      /\ ~Arrived(w.out, c) => Symbol(s) = "end"
  BY <1>2, IndentIs, SeenSpaced
<1> HIDE DEF c
<1>4. /\ Parsed(r) = parse_value(r)
      /\ r.open \in Seq(RFrame) /\ r.chars \in Strings /\ Frames(w.open, r.open, TRUE)
  BY <1>3, StartIs
<1>5. r.at = Len(w.out) + 1 /\ Len(w.open) \in Nat
  BY ReadyIs
<1>6. CASE TooDeep(Len(r.open))
  <2>1. parse_value(r) = Refused(r)
    BY <1>6 DEF parse_value
  <2> QED
    BY <1>4, <1>6, <2>1, RefusedIs, StartIsLow DEF Reads
<1>7. CASE ~TooDeep(Len(r.open)) /\ ~Arrived(w.out, c)
  <2>1. parse_value(r) = Refused(r)
    BY <1>3, <1>5, <1>7 DEF parse_value, Scalars
  <2> QED
    BY <1>2, <1>4, <1>7, <2>1, RefusedIs DEF Reads
<1>8. CASE ~TooDeep(Len(r.open)) /\ Arrived(w.out, c)
  <2>1. Symbol(SKIP_WHITESPACES(r.at)) = x /\ SKIP_WHITESPACES(r.at) + 1 = Len(u.out) + 1
    BY <1>3, <1>5, <1>8
  <2>2. Len(w.open) <= MAX_NESTING
    BY <1>8, StartIsLow
  <2> QED
    BY <1>2, <1>4, <1>5, <1>8, <2>1, <2>2
<1> QED
  BY <1>6, <1>7, <1>8

LEMMA ReadsScalar ==
  \A w, u, r : Ready(w, u, r) /\ WritesScalar(w, u) => Reads(u, r)
<1> TAKE w, u, r
<1> HAVE Ready(w, u, r) /\ WritesScalar(w, u)
<1> DEFINE v == Current(w.open)
           x == v.symbol
           o == w.out \o (Indent(w) \o <<x>>)
           s == SKIP_WHITESPACES(r.at)
           n == Len(u.out) + 1
<1>1. Starting(w) /\ v.type = "scalar" /\ u = To("behind", v, w.open, w.i, o)
  BY DEF WritesScalar
<1>2. v \in Documents
  BY <1>1, StartingInside, CurrentIs DEF Ready
<1>3. x \in Scalars /\ v = [type |-> "scalar", symbol |-> x]
  BY <1>1, <1>2, DocumentIs DEF Containers
<1>4. x \in Symbols /\ x \notin {"blank", "rbracket", "lbrace", "lbracket", "quote"}
  BY <1>3 DEF Scalars, Symbols
<1>5. u.mode = "behind" /\ u.value = v /\ u.open = w.open /\ u.out = o
  <2> HIDE DEF o, v
  <2> QED
    BY <1>1 DEF To
<1> SUFFICES ASSUME ~Reads(u, r)  PROVE Reads(u, r)
  OBVIOUS
<1>6. /\ r.open \in Seq(RFrame) /\ r.chars \in Strings /\ Frames(w.open, r.open, TRUE)
      /\ ~TooDeep(Len(r.open)) /\ Len(w.open) <= MAX_NESTING /\ Len(w.open) \in Nat
      /\ Symbol(s) = x /\ s + 1 = n /\ Len(u.out) <= Len(text) /\ Parsed(r) = parse_value(r)
  BY <1>1, <1>4, <1>5, StartReads
<1> HIDE DEF x, s, n
<1>7. parse_value(r) = Go("behind", n, r.open, r.chars, v)
  BY <1>3, <1>4, <1>6 DEF parse_value, parse_scalar, s
<1>8. Match(u, parse_value(r))
  BY <1>5, <1>6, <1>7, Matches DEF n
<1>9. Fits(v, Len(w.open))
  BY <1>1, <1>2, <1>6, LeafFits DEF Containers
<1>10. Low(u)
  BY <1>5, <1>9 DEF Low, Ready
<1> QED
  BY <1>6, <1>8, <1>10 DEF Reads

LEMMA ReadsString ==
  \A w, u, r : Ready(w, u, r) /\ WritesString(w, u) => Reads(u, r)
<1> TAKE w, u, r
<1> HAVE Ready(w, u, r) /\ WritesString(w, u)
<1> DEFINE v == Current(w.open)
           o == w.out \o (Indent(w) \o <<"quote">>)
           s == SKIP_WHITESPACES(r.at)
           n == Len(u.out) + 1
<1>1. Starting(w) /\ v.type = "string" /\ u = To("string", v, w.open, 1, o)
  BY DEF WritesString
<1>2. "quote" \in Symbols
  BY DEF Symbols
<1>3. u.mode = "string" /\ u.open = w.open /\ u.i = 1 /\ u.out = o
  <2> HIDE DEF o, v
  <2> QED
    BY <1>1 DEF To
<1> SUFFICES ASSUME ~Reads(u, r)  PROVE Reads(u, r)
  OBVIOUS
<1>4. /\ r.open \in Seq(RFrame) /\ Frames(w.open, r.open, TRUE)
      /\ ~TooDeep(Len(r.open)) /\ Len(w.open) <= MAX_NESTING
      /\ Symbol(s) = "quote" /\ s + 1 = n /\ Len(u.out) <= Len(text)
      /\ Parsed(r) = parse_value(r)
  BY <1>1, <1>2, <1>3, StartReads
<1> HIDE DEF s, n
<1>5. parse_value(r) = Go("string", n, r.open, <<>>, r.value)
  BY <1>4 DEF parse_value, Scalars, s
<1>6. <<>> \in Strings /\ Len(<<>>) = 1 - 1 /\ 1..(1 - 1) = {}
  BY EmptySeq DEF Strings
<1>7. Match(u, Go("string", Len(u.out) + 1, r.open, <<>>, r.value))
  BY <1>3, <1>4, <1>6, Matches
<1>8. Low(u)
  BY <1>3, <1>4 DEF Low, Ready
<1> QED
  BY <1>4, <1>5, <1>7, <1>8 DEF Reads, n

LEMMA ReadsOpening ==
  \A w, u, r : Ready(w, u, r) /\ WritesOpening(w, u) => Reads(u, r)
<1> TAKE w, u, r
<1> HAVE Ready(w, u, r) /\ WritesOpening(w, u)
<1> DEFINE v == Current(w.open)
           x == Opening(v.type)
           o == w.out \o (Indent(w) \o <<x>>)
           p == Append(w.open, [value |-> v, i |-> 1])
           q == Append(r.open, json_value_init(v.type))
           s == SKIP_WHITESPACES(r.at)
           n == Len(u.out) + 1
<1>1. Starting(w) /\ v.type \in Containers /\ u = To("element", v, p, w.i, o)
  BY DEF WritesOpening
<1>2. v \in Documents /\ w.open \in Seq(WFrame)
  BY <1>1, StartingInside, CurrentIs DEF Ready
<1>3. /\ x \in Symbols /\ x \in {"lbrace", "lbracket"}
      /\ v.type = IF x = "lbrace" THEN "object" ELSE "array"
  BY <1>1, BracketIs DEF Opening, Containers
<1>4. u.mode = "element" /\ u.open = p /\ u.out = o
  <2> HIDE DEF o, v, p
  <2> QED
    BY <1>1 DEF To
<1> SUFFICES ASSUME ~Reads(u, r)  PROVE Reads(u, r)
  OBVIOUS
<1>5. /\ r.open \in Seq(RFrame) /\ r.chars \in Strings /\ Frames(w.open, r.open, TRUE)
      /\ ~TooDeep(Len(r.open)) /\ Len(w.open) <= MAX_NESTING
      /\ Symbol(s) = x /\ s + 1 = n /\ Len(u.out) <= Len(text) /\ Parsed(r) = parse_value(r)
  BY <1>1, <1>3, <1>4, StartReads
<1>6. q \in Seq(RFrame) /\ Frames(p, q, FALSE)
  BY <1>1, <1>2, <1>5, FramesPush
<1>7. Shallow(p)
  BY <1>2, <1>5, ShallowPush DEF Ready, Low
<1> HIDE DEF x, s, n, p
<1>8. parse_value(r) = Go("element", n, q, r.chars, r.value)
  BY <1>3, <1>5 DEF parse_value, Scalars, s
<1> HIDE DEF q
<1>9. Match(u, Go("element", Len(u.out) + 1, q, r.chars, r.value))
  BY <1>4, <1>5, <1>6, Matches
<1>10. Low(u)
  BY <1>4, <1>7 DEF Low
<1> QED
  BY <1>5, <1>8, <1>9, <1>10 DEF Reads, n

LEMMA ReadsName ==
  \A w, u, r : Ready(w, u, r) /\ WritesName(w, u) => Reads(u, r)
<1> TAKE w, u, r
<1> HAVE Ready(w, u, r) /\ WritesName(w, u)
<1> DEFINE c == Indent(w) \o <<"quote">>
           o == w.out \o c
           s == SKIP_WHITESPACES(Len(w.out) + 1)
           n == Len(u.out) + 1
           f == Last(r.open)
<1>1. /\ w.mode = "element" /\ Last(w.open).value.type = "object"
      /\ u = To("name", w.value, w.open, 1, o)
  BY DEF WritesName
<1>2. u.mode = "name" /\ u.open = w.open /\ u.i = 1 /\ u.out = o
  <2> HIDE DEF o
  <2> QED
    BY <1>1 DEF To
<1>3. "quote" \in Symbols
  BY DEF Symbols
<1>4. c \in Seq(Symbols)
  BY <1>3, IndentIs, Spaced
<1>5. Arriving(w.out, c) /\ (Arrived(w.out, c) <=> Len(u.out) <= Len(text))
  BY <1>2, <1>4, ReadyIs
<1>6. /\ Arrived(w.out, c) => Symbol(s) = "quote" /\ s = Len(u.out)
      /\ ~Arrived(w.out, c) => Symbol(s) = "end"
  BY <1>2, <1>3, <1>5, IndentIs, SeenSpaced, Zenon
<1> HIDE DEF c, o
<1>7. /\ r.mode = "element" /\ r.at = Len(w.out) + 1 /\ w.open \in Seq(WFrame)
      /\ r.open \in Seq(RFrame) /\ Frames(w.open, r.open, FALSE)
  BY <1>1, ReadyIs DEF Ready, Match
<1>8. w.open # <<>>
  BY <1>1 DEF Ready, WriterOk
<1>9. f.type = "object"
  <2>1. FrameOf(Last(w.open), f, FALSE)
    BY <1>7, <1>8, FramesLast
  <2> QED
    BY <1>1, <2>1 DEF FrameOf
<1>10. Closing(f.type) = "rbrace" /\ s = SKIP_WHITESPACES(r.at) /\ Parsed(r) = ReadElement(r)
  BY <1>7, <1>9 DEF Closing, Parsed
<1> HIDE DEF s, f
<1>11. CASE ~Arrived(w.out, c)
  <2>1. ReadElement(r) = Refused(r)
    BY <1>6, <1>9, <1>10, <1>11 DEF ReadElement, f
  <2> QED
    BY <1>5, <1>10, <1>11, <2>1, RefusedIs DEF Reads
<1>12. CASE Arrived(w.out, c)
  <2>1. ReadElement(r) = Go("name", s + 1, r.open, <<>>, r.value)
    BY <1>6, <1>9, <1>10, <1>12 DEF ReadElement, f
  <2>2. <<>> \in Strings /\ Len(<<>>) = 1 - 1 /\ 1..(1 - 1) = {}
    BY EmptySeq DEF Strings
  <2>3. Match(u, Go("name", Len(u.out) + 1, r.open, <<>>, r.value))
    BY <1>2, <1>7, <2>2, Matches
  <2>4. Low(u)
    BY <1>2 DEF Low, Ready
  <2> QED
    BY <1>5, <1>6, <1>10, <1>12, <2>1, <2>3, <2>4 DEF Reads
<1> QED
  BY <1>11, <1>12

\* The end of the innermost container: f is all of it.
LEMMA ClosedIs ==
  \A w, u, r : \A d \in WFrame, f \in RFrame :
    /\ Ready(w, u, r) /\ WritesEnding(w, u)
    /\ FrameOf(d, f, FALSE) /\ d.value = Last(w.open).value /\ d.i = Len(d.value.values) + 1
    /\ Shallow(Front(w.open)) /\ Fits(d.value, Len(Front(w.open)))
    => IF Len(u.out) <= Len(text)
       THEN /\ Symbol(SKIP_WHITESPACES(r.at)) = Closing(f.type)
            /\ Match(u, Closed(f, r, SKIP_WHITESPACES(r.at))) /\ Low(u)
       ELSE /\ Symbol(SKIP_WHITESPACES(r.at)) = "end"
            /\ Closed(f, r, SKIP_WHITESPACES(r.at)).mode = "failed"
<1> TAKE w, u, r
<1> TAKE d \in WFrame, f \in RFrame
<1> HAVE /\ Ready(w, u, r) /\ WritesEnding(w, u)
         /\ FrameOf(d, f, FALSE) /\ d.value = Last(w.open).value /\ d.i = Len(d.value.values) + 1
         /\ Shallow(Front(w.open)) /\ Fits(d.value, Len(Front(w.open)))
<1> DEFINE v == Last(w.open).value
           x == Closing(v.type)
           c == BeforeEnd(v) \o <<x>>
           o == w.out \o c
           s == SKIP_WHITESPACES(Len(w.out) + 1)
           p == Front(r.open)
<1>1. w.open # <<>> /\ u = To("behind", v, Front(w.open), w.i, o)
  BY DEF WritesEnding, Ending
<1>2. u.mode = "behind" /\ u.value = v /\ u.open = Front(w.open) /\ u.out = o
  <2> HIDE DEF o, v
  <2> QED
    BY <1>1 DEF To
<1>3. x \in Symbols /\ x \notin {"blank", "end"}
  BY BracketIs DEF Closing
<1>4. c \in Seq(Symbols)
  BY <1>3, BeforeEndIs, Spaced
<1>5. Arriving(w.out, c) /\ (Arrived(w.out, c) <=> Len(u.out) <= Len(text))
  BY <1>2, <1>4, ReadyIs
<1>6. /\ Arrived(w.out, c) => Symbol(s) = x /\ s = Len(u.out)
      /\ ~Arrived(w.out, c) => Symbol(s) = "end"
  <2> DEFINE b == BeforeEnd(v)
  <2>1. b \in Blanks
    BY BeforeEndIs
  <2>2. c = b \o <<x>> /\ u.out = w.out \o (b \o <<x>>)
    BY <1>2
  <2> HIDE DEF b, c, s, x
  <2>3. LET q == SKIP_WHITESPACES(Len(w.out) + 1)
        IN  /\ Arrived(w.out, b \o <<x>>) => Symbol(q) = x /\ q = Len(w.out \o (b \o <<x>>))
            /\ ~Arrived(w.out, b \o <<x>>) => Symbol(q) = "end"
    BY <1>3, <1>5, <2>1, <2>2, SeenSpaced
  <2> QED
    BY <2>2, <2>3 DEF s
<1> HIDE DEF c, o
<1>7. /\ r.at = Len(w.out) + 1 /\ w.open \in Seq(WFrame)
      /\ r.open \in Seq(RFrame) /\ r.chars \in Strings
      /\ Frames(w.open, r.open, w.mode \notin {"element", "name"})
  BY ReadyIs DEF Ready, Match
<1>8. p \in Seq(RFrame) /\ Frames(Front(w.open), p, TRUE)
  <2>1. (w.mode \notin {"element", "name"}) \in BOOLEAN
    OBVIOUS
  <2> QED
    BY <1>1, <1>7, <2>1, FramesPop
<1>9. d.value \in Documents /\ Value(f) = v
  BY ValueIs DEF WFrame
<1>10. Closing(f.type) = x
  BY DEF FrameOf
<1> HIDE DEF s, v, x, p
<1>11. s = SKIP_WHITESPACES(r.at)
  BY <1>7 DEF s
<1>12. CASE ~Arrived(w.out, c)
  <2>1. Closed(f, r, s) = Refused(r)
    BY <1>3, <1>6, <1>10, <1>12 DEF Closed
  <2>2. Closed(f, r, s).mode = "failed"
    BY <2>1, RefusedIs
  <2> QED
    BY <1>5, <1>6, <1>11, <1>12, <2>2
<1>13. CASE Arrived(w.out, c)
  <2>1. Closed(f, r, s) = Go("behind", s + 1, p, r.chars, v)
    BY <1>6, <1>9, <1>10, <1>13 DEF Closed, p
  <2>2. Match(u, Go("behind", Len(u.out) + 1, p, r.chars, v))
    BY <1>2, <1>7, <1>8, Matches
  <2>3. Low(u)
    BY <1>2 DEF Low, v
  <2>4. Match(u, Closed(f, r, s))
    BY <1>6, <1>13, <2>1, <2>2
  <2> QED
    BY <1>5, <1>6, <1>10, <1>11, <1>13, <2>3, <2>4
<1> QED
  BY <1>12, <1>13

\* Behind a value the innermost container has one more.
LEMMA BehindIs ==
  \A w, u, r : Ready(w, u, r) /\ w.mode = "behind" /\ w.open # <<>> =>
    LET c  == Last(w.open)
        d  == [value |-> c.value, i |-> c.i + 1]
        f  == Add(Last(r.open), r.value)
        at == SKIP_WHITESPACES(r.at)
    IN  /\ d \in WFrame /\ f \in RFrame /\ FrameOf(d, f, FALSE)
        /\ c.i \in 1..Len(c.value.values) /\ Len(c.value.values) \in Nat
        /\ Fits(c.value.values[c.i], Len(w.open))
        /\ Parsed(r) = IF Symbol(at) = "comma"
                       THEN Go("element", at + 1, Append(Front(r.open), f), r.chars, r.value)
                       ELSE Closed(f, r, at)
<1> TAKE w, u, r
<1> HAVE Ready(w, u, r) /\ w.mode = "behind" /\ w.open # <<>>
<1> DEFINE c  == Last(w.open)
           d  == [value |-> c.value, i |-> c.i + 1]
           l  == Last(r.open)
           f  == Add(l, r.value)
           at == SKIP_WHITESPACES(r.at)
<1>1. /\ r.mode = "behind" /\ w.open \in Seq(WFrame) /\ Chain(w.open)
      /\ r.open \in Seq(RFrame) /\ Frames(w.open, r.open, TRUE) /\ r.open # <<>>
      /\ r.value = w.value
  BY ReadyIs DEF Ready, Match
<1>2. Inside(w.open) /\ w.value = Current(w.open)
  BY DEF Ready, WriterOk
<1>3. /\ c \in WFrame /\ c.value \in Documents /\ c.value.type \in Containers
      /\ c.i \in 1..Len(c.value.values) /\ Len(c.value.values) \in Nat /\ c.i + 1 \in Nat
  BY <1>1, <1>2, InnermostIs
<1>4. l \in RFrame /\ FrameOf(c, l, TRUE)
  BY <1>1, FramesLast
<1>5. r.value = c.value.values[c.i] /\ r.value \in Documents
  <2>1. r.value = c.value.values[c.i]
    BY <1>1, <1>2 DEF Current
  <2> QED
    BY <1>3, <2>1, ContainerIs, ElementOfSeq
<1>6. d \in WFrame
  BY <1>3 DEF WFrame
<1>7. f \in RFrame /\ FrameOf(d, f, FALSE)
  BY <1>3, <1>4, <1>5, AddIs
<1>8. ~Duplicate(l)
  BY <1>3, <1>4, NoDuplicate
<1>9. Fits(c.value.values[c.i], Len(w.open))
  BY <1>1, <1>5 DEF Ready, Low
<1> HIDE DEF f
<1>10. Parsed(r) = IF Symbol(at) = "comma"
                   THEN Go("element", at + 1, Append(Front(r.open), f), r.chars, r.value)
                   ELSE Closed(f, r, at)
  BY <1>1, <1>8 DEF Parsed, ReadBehind, f
<1> HIDE DEF c, d, l, at
<1> QED
  BY <1>3, <1>6, <1>7, <1>9, <1>10 DEF c, d, l, at, f

LEMMA ReadsEnding ==
  \A w, u, r : Ready(w, u, r) /\ WritesEnding(w, u) => Reads(u, r)
<1> TAKE w, u, r
<1> HAVE Ready(w, u, r) /\ WritesEnding(w, u)
<1> DEFINE c == Last(w.open)
           at == SKIP_WHITESPACES(r.at)
<1>1. /\ w.open # <<>>
      /\ \/ w.mode = "element" /\ c.value.values = <<>>
         \/ w.mode = "behind" /\ c.i = Len(c.value.values)
  BY DEF WritesEnding, Ending
<1>2. w.open \in Seq(WFrame) /\ Chain(w.open) /\ r.mode = w.mode /\ Shallow(w.open)
  BY ReadyIs DEF Ready, Low
<1>3. /\ c \in WFrame /\ c.value.type \in Containers /\ c.i \in Nat
      /\ Inside(w.open) => c.value.values # <<>>
      /\ ~Inside(w.open) => c.i = 1
  BY <1>1, <1>2, InnermostIs
<1>4. CASE w.mode = "element" /\ c.value.values = <<>>
  <2> DEFINE f == Last(r.open)
  <2>1. r.open \in Seq(RFrame) /\ Frames(w.open, r.open, FALSE)
    BY <1>4 DEF Ready, Match
  <2>2. f \in RFrame /\ FrameOf(c, f, FALSE)
    BY <1>1, <1>2, <2>1, FramesLast
  <2>3. Len(c.value.values) = 0 /\ c.i = 1
    BY <1>3, <1>4, EmptySeq
  <2>4. \A k \in 1..Len(c.value.values) :
          k \in 1..(c.i - 1) \/ Fits(c.value.values[k], Len(w.open))
    BY <2>3
  <2>5. Shallow(Front(w.open)) /\ Fits(c.value, Len(Front(w.open)))
    BY <1>1, <1>2, <2>4, ShallowPop
  <2>6. c.i = Len(c.value.values) + 1
    BY <2>3
  <2>7. IF Len(u.out) <= Len(text)
        THEN /\ Symbol(at) = Closing(f.type)
             /\ Match(u, Closed(f, r, at)) /\ Low(u)
        ELSE /\ Symbol(at) = "end"
             /\ Closed(f, r, at).mode = "failed"
    BY <1>3, <2>2, <2>5, <2>6, ClosedIs
  <2>8. Parsed(r) = ReadElement(r)
    BY <1>2, <1>4 DEF Parsed
  <2>9. f.type = "array" \/ f.type = "object"
    BY <2>2 DEF RFrame, Containers
  <2> HIDE DEF f
  <2>10. CASE Len(u.out) <= Len(text)
    <3>1. Symbol(at) = Closing(f.type) /\ Match(u, Closed(f, r, at)) /\ Low(u)
      BY <2>7, <2>10
    <3>2. ReadElement(r) = Closed(f, r, at)
      BY <2>9, <3>1 DEF ReadElement, Closing, f
    <3> QED
      BY <2>8, <2>10, <3>1, <3>2 DEF Reads
  <2>11. CASE ~(Len(u.out) <= Len(text))
    <3>1. Symbol(at) = "end"
      BY <2>7, <2>11
    <3>2. CASE f.type = "object"
      <4>1. ReadElement(r) = Refused(r)
        BY <3>1, <3>2 DEF ReadElement, Closing, f
      <4> QED
        BY <2>8, <2>11, <4>1, RefusedIs DEF Reads
    <3>3. CASE f.type = "array"
      <4>1. ReadElement(r) = parse_value(r)
        BY <3>1, <3>3 DEF ReadElement, Closing, f
      <4>2. parse_value(r) = Refused(r)
        BY <3>1 DEF parse_value, Scalars
      <4> QED
        BY <2>8, <2>11, <4>1, <4>2, RefusedIs DEF Reads
    <3> QED
      BY <2>9, <3>2, <3>3
  <2> QED
    BY <2>10, <2>11
<1>5. CASE w.mode = "behind" /\ c.i = Len(c.value.values)
  <2> DEFINE d == [value |-> c.value, i |-> c.i + 1]
             f == Add(Last(r.open), r.value)
  <2>1. /\ d \in WFrame /\ f \in RFrame /\ FrameOf(d, f, FALSE)
        /\ c.i \in 1..Len(c.value.values) /\ Len(c.value.values) \in Nat
        /\ Fits(c.value.values[c.i], Len(w.open))
        /\ Parsed(r) = IF Symbol(at) = "comma"
                       THEN Go("element", at + 1, Append(Front(r.open), f), r.chars, r.value)
                       ELSE Closed(f, r, at)
    BY <1>1, <1>5, BehindIs
  <2>2. d.value = c.value /\ d.i = Len(d.value.values) + 1
    BY <1>5
  <2> HIDE DEF d, f
  <2>3. \A k \in 1..Len(c.value.values) : k \in 1..(c.i - 1) \/ k = c.i
    BY <1>5, <2>1
  <2>4. \A k \in 1..Len(c.value.values) :
          k \in 1..(c.i - 1) \/ Fits(c.value.values[k], Len(w.open))
    BY <2>1, <2>3
  <2>5. Shallow(Front(w.open)) /\ Fits(c.value, Len(Front(w.open)))
    BY <1>1, <1>2, <2>4, ShallowPop
  <2>6. IF Len(u.out) <= Len(text)
        THEN /\ Symbol(at) = Closing(f.type)
             /\ Match(u, Closed(f, r, at)) /\ Low(u)
        ELSE /\ Symbol(at) = "end"
             /\ Closed(f, r, at).mode = "failed"
    BY <2>1, <2>2, <2>5, ClosedIs
  <2>7. Symbol(at) # "comma"
    BY <2>6 DEF Closing
  <2>8. Parsed(r) = Closed(f, r, at)
    BY <2>1, <2>7
  <2> QED
    BY <2>6, <2>8 DEF Reads
<1> QED
  BY <1>1, <1>4, <1>5

LEMMA ReadsComma ==
  \A w, u, r : Ready(w, u, r) /\ WritesComma(w, u) => Reads(u, r)
<1> TAKE w, u, r
<1> HAVE Ready(w, u, r) /\ WritesComma(w, u)
<1> DEFINE c == Last(w.open)
           d == [value |-> c.value, i |-> c.i + 1]
           f == Add(Last(r.open), r.value)
           p == Append(Front(w.open), d)
           q == Append(Front(r.open), f)
           o == w.out \o <<"comma">>
           at == SKIP_WHITESPACES(r.at)
<1>1. /\ w.mode = "behind" /\ w.open # <<>> /\ c.i < Len(c.value.values)
      /\ u = To("element", w.value, p, w.i, o)
  BY DEF WritesComma
<1>2. u.mode = "element" /\ u.open = p /\ u.out = o
  <2> HIDE DEF o, p
  <2> QED
    BY <1>1 DEF To
<1>3. /\ d \in WFrame /\ f \in RFrame /\ FrameOf(d, f, FALSE)
      /\ Fits(c.value.values[c.i], Len(w.open))
      /\ Parsed(r) = IF Symbol(at) = "comma"
                     THEN Go("element", at + 1, q, r.chars, r.value)
                     ELSE Closed(f, r, at)
  BY <1>1, BehindIs
<1>4. /\ w.open \in Seq(WFrame) /\ r.at = Len(w.out) + 1 /\ Shallow(w.open)
      /\ r.open \in Seq(RFrame) /\ r.chars \in Strings /\ Frames(w.open, r.open, TRUE)
  BY <1>1, ReadyIs DEF Ready, Match, Low
<1>5. q \in Seq(RFrame) /\ Frames(p, q, FALSE)
  <2> HIDE DEF d, f
  <2> QED
    BY <1>1, <1>3, <1>4, FramesReplaced
<1>6. Shallow(p)
  BY <1>1, <1>3, <1>4, ShallowNext
<1>7. <<"comma">> \in Seq(Symbols) /\ Len(<<"comma">>) = 1 /\ <<"comma">>[1] = "comma"
  BY ShortSeqs DEF Symbols
<1>8. Arriving(w.out, <<"comma">>)
  BY <1>2, <1>7, ReadyIs
<1>9. /\ Len(w.out) \in Nat /\ Len(text) \in Nat /\ Len(u.out) = Len(w.out) + 1
      /\ Symbol(Len(w.out) + 1) = IF Len(w.out) + 1 <= Len(text) THEN "comma" ELSE "end"
  <2>1. "comma" \in Symbols
    BY DEF Symbols
  <2> QED
    BY <1>2, <1>7, <1>8, <2>1, SeenShort
<1>10. at = Len(w.out) + 1
  BY <1>4, <1>9 DEF SKIP_WHITESPACES
<1> HIDE DEF at, o, p, q, d, f
<1>11. CASE Len(u.out) <= Len(text)
  <2>1. Parsed(r) = Go("element", Len(u.out) + 1, q, r.chars, r.value)
    BY <1>3, <1>9, <1>10, <1>11
  <2>2. Match(u, Go("element", Len(u.out) + 1, q, r.chars, r.value))
    BY <1>2, <1>4, <1>5, Matches
  <2>3. Low(u)
    BY <1>2, <1>6 DEF Low
  <2> QED
    BY <1>11, <2>1, <2>2, <2>3 DEF Reads
<1>12. CASE ~(Len(u.out) <= Len(text))
  <2>1. Symbol(at) = "end"
    BY <1>9, <1>10, <1>12
  <2>2. Parsed(r) = Refused(r)
    BY <1>3, <2>1 DEF Closed, Closing
  <2> QED
    BY <1>12, <2>2, RefusedIs DEF Reads
<1> QED
  BY <1>11, <1>12

LEMMA ReadsQuote ==
  \A w, u, r : Ready(w, u, r) /\ WritesQuote(w, u) => Reads(u, r)
<1> TAKE w, u, r
<1> HAVE Ready(w, u, r) /\ WritesQuote(w, u)
<1> DEFINE o == w.out \o <<"quote">>
           v == w.value
<1>1. /\ w.mode = "string" /\ w.i = Len(Chars(w)) + 1
      /\ u = To("behind", v, w.open, w.i, o)
  BY DEF WritesQuote
<1>2. u.mode = "behind" /\ u.value = v /\ u.open = w.open /\ u.out = o
  <2> HIDE DEF o
  <2> QED
    BY <1>1 DEF To
<1>3. /\ r.mode = "string" /\ r.at = Len(w.out) + 1 /\ v \in Documents
      /\ r.open \in Seq(RFrame) /\ r.chars \in Strings /\ Frames(w.open, r.open, TRUE)
      /\ Len(r.chars) = w.i - 1 /\ \A k \in 1..(w.i - 1) : r.chars[k] = Chars(w)[k]
  BY <1>1, ReadyIs DEF Ready, Match
<1>4. Chars(w) \in Strings /\ Len(Chars(w)) \in Nat
  BY <1>1, CharsAre DEF Ready
<1>5. r.chars = Chars(w)
  <2>1. w.i - 1 = Len(Chars(w))
    BY <1>1, <1>4
  <2> QED
    BY <1>3, <1>4, <2>1, SeqEqual DEF Strings
<1>6. v = [type |-> "string", chars |-> r.chars]
  <2>1. v.type = "string" /\ Chars(w) = v.chars
    BY <1>1 DEF Ready, WriterOk, Chars
  <2> QED
    BY <1>3, <1>5, <2>1, DocumentIs DEF Containers
<1>7. <<"quote">> \in Seq(Symbols) /\ Len(<<"quote">>) = 1 /\ <<"quote">>[1] = "quote"
  BY ShortSeqs DEF Symbols
<1>8. Arriving(w.out, <<"quote">>)
  BY <1>2, <1>7, ReadyIs
<1>9. /\ Len(w.out) \in Nat /\ Len(text) \in Nat /\ Len(u.out) = Len(w.out) + 1
      /\ Symbol(Len(w.out) + 1) = IF Len(w.out) + 1 <= Len(text) THEN "quote" ELSE "end"
  <2>1. "quote" \in Symbols
    BY DEF Symbols
  <2> QED
    BY <1>2, <1>7, <1>8, <2>1, SeenShort
<1>10. Parsed(r) = get_quoted_string(r)
  BY <1>3 DEF Parsed
<1> HIDE DEF o, v
<1>11. CASE Len(u.out) <= Len(text)
  <2> DEFINE n == Len(u.out) + 1
  <2>1. Symbol(r.at) = "quote" /\ r.at + 1 = n
    BY <1>3, <1>9, <1>11
  <2> HIDE DEF n
  <2>2. get_quoted_string(r) = Go("behind", n, r.open, r.chars, v)
    BY <1>3, <1>6, <2>1 DEF get_quoted_string
  <2>3. Match(u, Go("behind", Len(u.out) + 1, r.open, r.chars, v))
    BY <1>2, <1>3, Matches
  <2>4. Fits(v, Len(w.open))
    <3>1. v.type \notin Containers
      BY <1>6 DEF Containers
    <3>2. Len(w.open) <= MAX_NESTING /\ Len(w.open) \in Nat
      BY <1>1, ReadyIs DEF Ready, Low
    <3> QED
      BY <1>3, <3>1, <3>2, LeafFits
  <2>5. Low(u)
    BY <1>2, <2>4 DEF Low, Ready
  <2> QED
    BY <1>10, <1>11, <2>2, <2>3, <2>5 DEF Reads, n
<1>12. CASE ~(Len(u.out) <= Len(text))
  <2>1. Symbol(r.at) = "end"
    BY <1>3, <1>9, <1>12
  <2>2. get_quoted_string(r) = Refused(r)
    BY <2>1 DEF get_quoted_string
  <2> QED
    BY <1>10, <1>12, <2>2, RefusedIs DEF Reads
<1> QED
  BY <1>11, <1>12

LEMMA ReadsColon ==
  \A w, u, r : Ready(w, u, r) /\ WritesColon(w, u) => Reads(u, r)
<1> TAKE w, u, r
<1> HAVE Ready(w, u, r) /\ WritesColon(w, u)
<1> DEFINE c == <<"quote", "colon">>
           o == w.out \o c
           q == Append(Front(r.open), [Last(r.open) EXCEPT !.key = r.chars])
           n == Len(u.out) + 1
<1>1. /\ w.mode = "name" /\ w.i = Len(Chars(w)) + 1
      /\ u = To("value", Current(w.open), w.open, w.i, o)
  BY DEF WritesColon
<1>2. u.mode = "value" /\ u.open = w.open /\ u.out = o
  <2> HIDE DEF o
  <2> QED
    BY <1>1 DEF To
<1>3. /\ r.mode = "name" /\ r.at = Len(w.out) + 1 /\ w.open \in Seq(WFrame)
      /\ r.open \in Seq(RFrame) /\ r.chars \in Strings /\ Frames(w.open, r.open, FALSE)
      /\ Len(r.chars) = w.i - 1 /\ \A k \in 1..(w.i - 1) : r.chars[k] = Chars(w)[k]
  BY <1>1, ReadyIs DEF Ready, Match
<1>4. Chars(w) \in Strings /\ Len(Chars(w)) \in Nat
  BY <1>1, CharsAre DEF Ready
<1>5. r.chars = Chars(w)
  <2>1. w.i - 1 = Len(Chars(w))
    BY <1>1, <1>4
  <2> QED
    BY <1>3, <1>4, <2>1, SeqEqual DEF Strings
<1>6. q \in Seq(RFrame) /\ Frames(w.open, q, TRUE)
  <2>1. w.open # <<>> /\ r.chars = Last(w.open).value.names[Last(w.open).i]
    BY <1>1, <1>5 DEF Ready, WriterOk, Chars
  <2> QED
    BY <1>3, <2>1, FramesKeyed
<1>7. {"quote", "colon"} \subseteq Symbols /\ c \in Seq(Symbols)
  BY ShortSeqs DEF Symbols
<1>8. Arriving(w.out, c)
  BY <1>2, <1>7, ReadyIs
<1>9. /\ Len(w.out) \in Nat /\ Len(text) \in Nat /\ Len(u.out) = Len(w.out) + 2
      /\ Symbol(Len(w.out) + 1) = IF Len(w.out) + 1 <= Len(text) THEN "quote" ELSE "end"
      /\ Symbol(Len(w.out) + 2) = IF Len(w.out) + 2 <= Len(text) THEN "colon" ELSE "end"
  BY <1>2, <1>7, <1>8, SeenShort
<1>10. Parsed(r) = get_quoted_string(r)
  BY <1>3 DEF Parsed
<1>11. r.at + 1 = Len(w.out) + 2
  BY <1>3, <1>9
<1>12. SKIP_WHITESPACES(r.at + 1) = r.at + 1
  BY <1>9, <1>11 DEF SKIP_WHITESPACES
<1> HIDE DEF o, q, c
<1>13. CASE Len(u.out) <= Len(text)
  <2>1. Symbol(r.at) = "quote" /\ Symbol(r.at + 1) = "colon" /\ (r.at + 1) + 1 = n
    BY <1>3, <1>9, <1>11, <1>13
  <2> HIDE DEF n
  <2>2. get_quoted_string(r) = Go("value", n, q, r.chars, r.value)
    BY <1>3, <1>12, <2>1 DEF get_quoted_string, q
  <2>3. Match(u, Go("value", Len(u.out) + 1, q, r.chars, r.value))
    BY <1>2, <1>3, <1>6, Matches
  <2>4. Low(u)
    BY <1>2 DEF Low, Ready
  <2> QED
    BY <1>10, <1>13, <2>2, <2>3, <2>4 DEF Reads, n
<1>14. CASE ~(Len(u.out) <= Len(text))
  <2>1. Symbol(r.at + 1) = "end" /\ Symbol(r.at) \in {"quote", "end"}
    BY <1>3, <1>9, <1>11, <1>14
  <2>2. get_quoted_string(r) = Refused(r)
    BY <1>3, <1>12, <2>1 DEF get_quoted_string
  <2> QED
    BY <1>10, <1>14, <2>2, RefusedIs DEF Reads
<1> QED
  BY <1>13, <1>14

\* What the escapes of a character are read as, if all of them have arrived.
LEMMA EscapesAreRead ==
  \A w, u, r : \A x \in Char :
    /\ Ready(w, u, r) /\ w.mode \in {"string", "name"} /\ u.out = w.out \o Escapes(x)
    => get_quoted_string(r) =
         IF Len(u.out) <= Len(text)
         THEN Go(r.mode, Len(u.out) + 1, r.open, Append(r.chars, x), r.value)
         ELSE Refused(r)
<1> TAKE w, u, r
<1> TAKE x \in Char
<1> HAVE /\ Ready(w, u, r) /\ w.mode \in {"string", "name"} /\ u.out = w.out \o Escapes(x)
<1> DEFINE e == Escapes(x)
           n == Len(u.out) + 1
<1>1. r.mode \in {"string", "name"} /\ r.at = Len(w.out) + 1
  BY ReadyIs
<1>2. /\ e \in Seq(Symbols)
      /\ x \in {"quote", "backslash", "slash"} => e = <<"backslash", x>>
      /\ x = "newline" => e = <<"backslash", "n">>
      /\ x = "control" => e = <<"backslash", "u", "0001">>
      /\ x \notin {"quote", "backslash", "slash", "newline", "control"} => e = <<x>>
  BY EscapesAre
<1> HIDE DEF e
<1>3. Arriving(w.out, e)
  BY <1>2, ReadyIs DEF e
<1>4. u.out = w.out \o e /\ x # "end"
  BY TextAssumption DEF e
<1>5. {x, "backslash", "n", "u", "0001"} \subseteq Symbols
  BY DEF Symbols
<1>6. CASE x \in {"quote", "backslash", "slash", "newline"}
  <2> DEFINE y == IF x = "newline" THEN "n" ELSE x
  <2>1. e = <<"backslash", y>> /\ y \in Symbols /\ "backslash" \in Symbols
    BY <1>2, <1>5, <1>6
  <2>2. y \in {"quote", "backslash", "slash", "n"} /\ Unescaped(y) = x
    BY <1>6 DEF Unescaped
  <2> HIDE DEF y
  <2>3. /\ Len(w.out) \in Nat /\ Len(text) \in Nat /\ Len(u.out) = Len(w.out) + 2
        /\ Symbol(Len(w.out) + 1) = IF Len(w.out) + 1 <= Len(text) THEN "backslash" ELSE "end"
        /\ Symbol(Len(w.out) + 2) = IF Len(w.out) + 2 <= Len(text) THEN y ELSE "end"
    BY <1>3, <1>4, <2>1, SeenShort
  <2>4. r.at + 1 = Len(w.out) + 2 /\ r.at + 2 = n
    BY <1>1, <2>3
  <2>5. CASE Len(u.out) <= Len(text)
    <3>1. Symbol(r.at) = "backslash" /\ Symbol(r.at + 1) = y
      BY <1>1, <2>3, <2>4, <2>5
    <3> HIDE DEF n
    <3>2. get_quoted_string(r) = Go(r.mode, n, r.open, Append(r.chars, x), r.value)
      BY <2>2, <2>4, <3>1 DEF get_quoted_string
    <3> QED
      BY <2>5, <3>2 DEF n
  <2>6. CASE ~(Len(u.out) <= Len(text))
    <3>1. Symbol(r.at) \in {"backslash", "end"} /\ Symbol(r.at + 1) = "end"
      BY <1>1, <2>3, <2>4, <2>6
    <3>2. get_quoted_string(r) = Refused(r)
      BY <3>1 DEF get_quoted_string
    <3> QED
      BY <2>6, <3>2
  <2> QED
    BY <2>5, <2>6
<1>7. CASE x = "control"
  <2>1. e = <<"backslash", "u", "0001">> /\ {"backslash", "u", "0001"} \subseteq Symbols
    BY <1>2, <1>5, <1>7
  <2>3. /\ Len(w.out) \in Nat /\ Len(text) \in Nat /\ Len(u.out) = Len(w.out) + 3
        /\ Symbol(Len(w.out) + 1) = IF Len(w.out) + 1 <= Len(text) THEN "backslash" ELSE "end"
        /\ Symbol(Len(w.out) + 2) = IF Len(w.out) + 2 <= Len(text) THEN "u" ELSE "end"
        /\ Symbol(Len(w.out) + 3) = IF Len(w.out) + 3 <= Len(text) THEN "0001" ELSE "end"
    BY <1>3, <1>4, <2>1, SeenShort
  <2>4. r.at + 1 = Len(w.out) + 2 /\ r.at + 2 = Len(w.out) + 3 /\ r.at + 3 = n
    BY <1>1, <2>3
  <2>5. CASE Len(u.out) <= Len(text)
    <3>1. Symbol(r.at) = "backslash" /\ Symbol(r.at + 1) = "u" /\ Symbol(r.at + 2) = "0001"
      BY <1>1, <2>3, <2>4, <2>5
    <3> HIDE DEF n
    <3>2. get_quoted_string(r) = Go(r.mode, n, r.open, Append(r.chars, x), r.value)
      BY <1>7, <2>4, <3>1 DEF get_quoted_string
    <3> QED
      BY <2>5, <3>2 DEF n
  <2>6. CASE ~(Len(u.out) <= Len(text))
    <3>1. /\ Symbol(r.at) \in {"backslash", "end"} /\ Symbol(r.at + 1) \in {"u", "end"}
          /\ Symbol(r.at + 2) = "end"
      BY <1>1, <2>3, <2>4, <2>6
    <3>2. get_quoted_string(r) = Refused(r)
      BY <3>1 DEF get_quoted_string
    <3> QED
      BY <2>6, <3>2
  <2> QED
    BY <2>5, <2>6
<1>8. CASE x \notin {"quote", "backslash", "slash", "newline", "control"}
  <2>1. e = <<x>> /\ x \in Symbols
    BY <1>2, <1>5, <1>8
  <2>3. /\ Len(w.out) \in Nat /\ Len(text) \in Nat /\ Len(u.out) = Len(w.out) + 1
        /\ Symbol(Len(w.out) + 1) = IF Len(w.out) + 1 <= Len(text) THEN x ELSE "end"
    BY <1>3, <1>4, <2>1, SeenShort
  <2>4. r.at + 1 = n
    BY <1>1, <2>3
  <2>5. CASE Len(u.out) <= Len(text)
    <3>1. Symbol(r.at) = x
      BY <1>1, <2>3, <2>5
    <3> HIDE DEF n
    <3>2. get_quoted_string(r) = Go(r.mode, n, r.open, Append(r.chars, x), r.value)
      BY <1>4, <1>8, <2>4, <3>1 DEF get_quoted_string
    <3> QED
      BY <2>5, <3>2 DEF n
  <2>6. CASE ~(Len(u.out) <= Len(text))
    <3>1. Symbol(r.at) = "end"
      BY <1>1, <2>3, <2>6
    <3>2. get_quoted_string(r) = Refused(r)
      BY <3>1 DEF get_quoted_string
    <3> QED
      BY <2>6, <3>2
  <2> QED
    BY <2>5, <2>6
<1> QED
  BY <1>6, <1>7, <1>8

LEMMA ReadsChar ==
  \A w, u, r : Ready(w, u, r) /\ WritesChar(w, u) => Reads(u, r)
<1> TAKE w, u, r
<1> HAVE Ready(w, u, r) /\ WritesChar(w, u)
<1> DEFINE s == Chars(w)
           x == s[w.i]
           o == w.out \o Escapes(x)
           t == Append(r.chars, x)
<1>1. /\ w.mode \in {"string", "name"} /\ w.i \in 1..Len(s)
      /\ u = To(w.mode, w.value, w.open, w.i + 1, o)
  BY DEF WritesChar
<1>2. u.mode = w.mode /\ u.value = w.value /\ u.open = w.open /\ u.i = w.i + 1 /\ u.out = o
  <2> HIDE DEF o
  <2> QED
    BY <1>1 DEF To
<1>3. s \in Strings /\ Len(s) \in Nat /\ x \in Char /\ w.i \in Nat
  <2>1. s \in Strings /\ Len(s) \in Nat
    BY <1>1, CharsAre DEF Ready
  <2> QED
    BY <1>1, <2>1, ElementOfSeq DEF Strings
<1>4. /\ r.mode = w.mode /\ r.open \in Seq(RFrame) /\ r.chars \in Strings
      /\ Frames(w.open, r.open, w.mode \notin {"element", "name"})
      /\ Len(r.chars) = w.i - 1 /\ \A k \in 1..(w.i - 1) : r.chars[k] = s[k]
  BY <1>1, ReadyIs DEF Ready, Match
<1>5. Chars(u) = s
  BY <1>2 DEF Chars
<1> HIDE DEF s, o
<1>6. t \in Strings /\ Len(t) = u.i - 1 /\ \A k \in 1..(u.i - 1) : t[k] = s[k]
  <2>1. /\ t \in Strings /\ Len(t) = Len(r.chars) + 1 /\ t[Len(r.chars) + 1] = x
        /\ \A k \in 1..Len(r.chars) : t[k] = r.chars[k]
    BY <1>3, <1>4, Appended DEF Strings
  <2>2. /\ Len(r.chars) + 1 = w.i /\ u.i - 1 = w.i
        /\ \A k \in 1..w.i : k = w.i \/ k \in 1..(w.i - 1)
    BY <1>2, <1>3, <1>4
  <2> HIDE DEF t
  <2> QED
    BY <1>4, <2>1, <2>2
<1>7. get_quoted_string(r) =
        IF Len(u.out) <= Len(text)
        THEN Go(r.mode, Len(u.out) + 1, r.open, t, r.value)
        ELSE Refused(r)
  BY <1>1, <1>2, <1>3, EscapesAreRead DEF o
<1>8. Parsed(r) = get_quoted_string(r)
  BY <1>1, <1>4 DEF Parsed
<1> HIDE DEF t
<1>9. CASE Len(u.out) <= Len(text)
  <2>1. r.mode # "behind" /\ u.mode = r.mode
    BY <1>1, <1>2, <1>4
  <2>2. Match(u, Go(r.mode, Len(u.out) + 1, r.open, t, r.value))
    BY <1>2, <1>4, <1>5, <1>6, <2>1, Matches
  <2>3. Low(u)
    BY <1>2, <1>4, <2>1 DEF Low, Ready
  <2> QED
    BY <1>7, <1>8, <1>9, <2>2, <2>3 DEF Reads
<1>10. CASE ~(Len(u.out) <= Len(text))
  BY <1>7, <1>8, <1>10, RefusedIs DEF Reads
<1> QED
  BY <1>9, <1>10

\* Whatever the writer does, the reader follows it or refuses the text: only
\* a text that is not complete, or one that is too deep.
LEMMA ReaderStep ==
  \A w, u, r : Ready(w, u, r) /\ WritesOn(w, u) => Reads(u, r)
BY ReadsScalar, ReadsString, ReadsOpening, ReadsName, ReadsEnding, ReadsChar, ReadsColon,
   ReadsQuote, ReadsComma DEF WritesOn

-----------------------------------------------------------------------------
(* The inductive invariant.                                                *)

Start == [mode |-> "value", value |-> doc, open |-> <<>>, i |-> 1, out |-> <<>>]

\* How the writer came to where it is.
History(h, N) ==
  /\ h \in [0..N -> Writer] /\ h[0] = Start /\ h[N] = writer
  /\ \A k \in 1..N : ~Finished(h[k - 1]) /\ h[k] = Written(h[k - 1])

\* The reader is where the writer has once been, and all of that has arrived.
Reading(h, N) ==
  \E k \in 0..N : Len(h[k].out) <= Len(text) /\ Match(h[k], reader) /\ Low(h[k])

NotStarted == [mode |-> "idle", at |-> 1, open |-> <<>>, chars |-> <<>>, value |-> <<>>]

Sent == Finished(writer) /\ text \in Seq(Symbols) /\ Begins(text, writer.out)

\* What the reader has made of the text so far.
Read(h, N) ==
  \/ reader = NotStarted /\ text = <<>>
  \/ /\ Sent
     /\ \/ Accepted /\ text = writer.out /\ reader.value = doc /\ Fits(doc, 0)
        \/ Failed /\ (text # writer.out \/ doc \in Deep[MAX_NESTING + 1])
        \/ Reading(h, N)

\* What holds of a value at any time on the way to its text and back.
TextInv ==
  /\ doc \in Documents /\ pretty \in BOOLEAN
  /\ \E N \in Nat : \E h \in [0..N -> Writer] :
       History(h, N) /\ Read(h, N)

LEMMA IsStarted ==
  \A N \in Nat : \A h \in [0..N -> Writer] : Reading(h, N) => reader.mode \in Modes
<1> TAKE N \in Nat
<1> TAKE h \in [0..N -> Writer]
<1> HAVE Reading(h, N)
<1>1. PICK k \in 0..N : Match(h[k], reader)
  BY DEF Reading
<1> DEFINE n == Len(h[k].out) + 1
<1>2. reader = Go(h[k].mode, n, reader.open, reader.chars, reader.value)
  BY <1>1 DEF Match
<1> HIDE DEF n
<1>3. reader.mode = h[k].mode
  BY <1>2 DEF Go
<1> QED
  BY <1>3 DEF Writer

LEMMA StartOk == doc \in Documents => Start \in Writer /\ WriterOk(Start)
<1> HAVE doc \in Documents
<1> DEFINE o == <<>>
<1>1. o \in Seq(WFrame) /\ o \in Seq(Symbols) /\ Len(o) = 0
  BY EmptySeq
<1>2. Start \in Writer
  BY <1>1 DEF Start, Writer, Modes
<1>3. Start.mode = "value" /\ Start.value = doc /\ Start.open = o
  BY DEF Start
<1>4. Chain(o) /\ Inside(o) /\ Current(o) = doc
  BY <1>1 DEF Chain, Inside, Current
<1> HIDE DEF o
<1> QED
  BY <1>2, <1>3, <1>4 DEF WriterOk, Inside, o

LEMMA HistoryIs ==
  \A N \in Nat : \A h : doc \in Documents /\ History(h, N) =>
    /\ \A k \in 0..N : WriterOk(h[k]) /\ h[k].out \in Seq(Symbols)
    /\ \A k \in 1..N : WritesOn(h[k - 1], h[k])
    /\ \A k \in 0..N : Begins(h[k].out, writer.out)
<1> TAKE N \in Nat
<1> TAKE h
<1> HAVE doc \in Documents /\ History(h, N)
<1>1. /\ h \in [0..N -> Writer] /\ h[0] = Start /\ h[N] = writer
      /\ \A k \in 1..N : ~Finished(h[k - 1]) /\ h[k] = Written(h[k - 1])
  BY DEF History
<1>2. ASSUME NEW n \in 0..N  PROVE WriterOk(h[n])
  <2> DEFINE S == {k \in 0..N : WriterOk(h[k])}
  <2>1. 0 \in S
    BY <1>1, StartOk
  <2>2. ASSUME NEW k \in (0 + 1)..n, k - 1 \in S  PROVE k \in S
    <3>1. k \in 1..N /\ k \in 0..N
      OBVIOUS
    <3>2. WritesOn(h[k - 1], h[k])
      BY <1>1, <2>2, <3>1, WrittenIs
    <3> QED
      BY <2>2, <3>1, <3>2, WriterStep
  <2> HIDE DEF S
  <2>3. n \in S
    BY <2>1, <2>2, Induction
  <2> QED
    BY <2>3 DEF S
<1>3. ASSUME NEW k \in 1..N  PROVE WritesOn(h[k - 1], h[k])
  <2>1. k - 1 \in 0..N
    OBVIOUS
  <2> QED
    BY <1>1, <1>2, <2>1, WrittenIs
<1>4. ASSUME NEW k \in 0..N  PROVE h[k].out \in Seq(Symbols)
  BY <1>1 DEF Writer
<1>5. ASSUME NEW n \in 0..N  PROVE Begins(h[N - n].out, writer.out)
  <2> DEFINE S == {j \in 0..N : Begins(h[N - j].out, writer.out)}
  <2>1. 0 \in S
    <3>1. N - 0 = N /\ 0 \in 0..N /\ Len(writer.out) \in Nat
      BY <1>1, <1>4, LenProperties
    <3> QED
      BY <1>1, <3>1 DEF Begins
  <2>2. ASSUME NEW j \in (0 + 1)..n, j - 1 \in S  PROVE j \in S
    <3> DEFINE k == N - (j - 1)
    <3>1. k \in 1..N /\ k \in 0..N /\ k - 1 = N - j /\ k - 1 \in 0..N /\ j \in 0..N /\ N \in 0..N
      OBVIOUS
    <3>2. PICK c \in Seq(Symbols) : h[k].out = h[k - 1].out \o c
      BY <1>2, <1>3, <3>1, WriterStep
    <3>3. Begins(h[k].out, writer.out)
      BY <2>2
    <3>4. h[k - 1].out \in Seq(Symbols) /\ writer.out \in Seq(Symbols)
      BY <1>1, <1>4, <3>1
    <3>5. Begins(h[k - 1].out, writer.out)
      BY <3>2, <3>3, <3>4, BeginsOn
    <3> QED
      BY <3>1, <3>5
  <2> HIDE DEF S
  <2>3. n \in S
    BY <2>1, <2>2, Induction
  <2> QED
    BY <2>3 DEF S
<1>6. ASSUME NEW k \in 0..N  PROVE Begins(h[k].out, writer.out)
  <2>1. N - k \in 0..N /\ N - (N - k) = k
    OBVIOUS
  <2> QED
    BY <1>5, <2>1
<1> QED
  BY <1>2, <1>3, <1>4, <1>6

\* The history of a writer is the same in every state of the document.
LEMMA HistoryStays ==
  UNCHANGED <<doc, pretty>> =>
    /\ \A w : Written(w)' = Written(w)
    /\ Start' = Start
<1> SUFFICES ASSUME UNCHANGED <<doc, pretty>>, NEW w  PROVE Written(w)' = Written(w)
  BY DEF Start
<1>1. Indent(w)' = Indent(w)
  BY DEF Indent
<1>2. \A v : json_serialize_to_buffer_r(w, v)' = json_serialize_to_buffer_r(w, v)
  BY <1>1 DEF json_serialize_to_buffer_r
<1>3. WriteEnd(w)' = WriteEnd(w)
  BY DEF WriteEnd
<1>4. WriteElement(w)' = WriteElement(w)
  BY <1>1, <1>2, <1>3 DEF WriteElement
<1>5. WriteBehind(w)' = WriteBehind(w)
  BY <1>3 DEF WriteBehind
<1> QED
  BY <1>2, <1>4, <1>5 DEF Written

LEMMA TextInvHolds == TextInit => TextInv
<1> HAVE TextInit
<1> DEFINE h == [k \in 0..0 |-> Start]
<1>1. doc \in Documents /\ pretty \in BOOLEAN /\ writer = Start /\ reader = NotStarted /\ text = <<>>
  BY DEF TextInit, Start, NotStarted
<1>2. Start \in Writer
  BY <1>1, StartOk
<1>3. h \in [0..0 -> Writer] /\ h[0] = Start /\ 1..0 = {} /\ 0 \in Nat
  BY <1>2
<1> HIDE DEF h
<1>4. History(h, 0)
  BY <1>1, <1>3 DEF History
<1>5. Read(h, 0)
  BY <1>1 DEF Read
<1> QED
  BY <1>1, <1>3, <1>4, <1>5 DEF TextInv

\* The writer goes on.
LEMMA WriteKeeps == TextInv /\ json_serialize_to_string => TextInv'
<1> HAVE TextInv /\ json_serialize_to_string
<1>1. /\ doc \in Documents /\ pretty \in BOOLEAN
      /\ reader.mode = "idle" /\ ~Finished(writer) /\ writer' = Written(writer)
      /\ doc' = doc /\ pretty' = pretty /\ text' = text /\ reader' = reader
  BY DEF TextInv, json_serialize_to_string
<1> PICK N \in Nat : \E h \in [0..N -> Writer] :
        History(h, N) /\ Read(h, N)
  BY DEF TextInv
<1>2. PICK h \in [0..N -> Writer] :
        History(h, N) /\ Read(h, N)
  OBVIOUS
<1>3. reader = NotStarted /\ text = <<>>
  BY <1>1, <1>2, IsStarted DEF Modes, Read, Accepted, Failed
<1>4. h[0] = Start /\ h[N] = writer /\ \A k \in 1..N : ~Finished(h[k - 1]) /\ h[k] = Written(h[k - 1])
  BY <1>2 DEF History
<1>5. Written(writer) \in Writer
  <2>1. N \in 0..N
    OBVIOUS
  <2>2. WriterOk(writer)
    BY <1>1, <1>2, <1>4, <2>1, HistoryIs
  <2> QED
    BY <1>1, <2>2, WrittenIs, WriterStep DEF WriterOk
<1> DEFINE M == N + 1
           longer == [k \in 0..M |-> IF k = M THEN Written(writer) ELSE h[k]]
<1>6. \A k \in 0..M : k = M \/ k \in 0..N
  OBVIOUS
<1>7. longer \in [0..M -> Writer] /\ M \in Nat
  BY <1>5, <1>6
<1>8. /\ longer[0] = Start /\ longer[M] = Written(writer)
      /\ \A k \in 0..N : longer[k] = h[k]
  BY <1>4
<1> HIDE DEF longer
<1>9. PICK g \in [0..M -> Writer] :
        /\ g[0] = Start /\ g[M] = Written(writer)
        /\ \A k \in 0..N : g[k] = h[k]
  BY <1>7, <1>8
<1>10. ASSUME NEW k \in 1..M  PROVE ~Finished(g[k - 1]) /\ g[k] = Written(g[k - 1])
  <2>1. k - 1 \in 0..N /\ (k = M => k - 1 = N) /\ (k # M => k \in 1..N /\ k \in 0..N)
    OBVIOUS
  <2>2. g[k - 1] = h[k - 1]
    BY <1>9, <2>1
  <2> HIDE DEF M
  <2>3. CASE k = M
    BY <1>1, <1>4, <1>9, <2>1, <2>2, <2>3
  <2>4. CASE k # M
    BY <1>4, <1>9, <2>1, <2>2, <2>4
  <2> QED
    BY <2>3, <2>4
<1> HIDE DEF M
<1>11. History(g, M)'
  <2>1. Start' = Start /\ \A w : Written(w)' = Written(w)
    BY <1>1, HistoryStays
  <2>2. \A k \in 1..M : ~Finished(g[k - 1]) /\ g[k] = Written(g[k - 1])'
    BY <1>10, <2>1
  <2> QED
    BY <1>1, <1>9, <2>1, <2>2 DEF History
<1>12. Read(g, M)'
  BY <1>1, <1>3 DEF Read
<1> QED
  BY <1>1, <1>7, <1>9, <1>11, <1>12 DEF TextInv

\* A history that was, is.
LEMMA KeptHistory ==
  ASSUME UNCHANGED <<doc, pretty, writer>>, NEW N \in Nat, NEW h, History(h, N)
  PROVE  History(h, N)'
<1>1. Start' = Start /\ \A w : Written(w)' = Written(w)
  BY HistoryStays
<1> QED
  BY <1>1 DEF History

LEMMA SendKeeps == TextInv /\ Send => TextInv'
<1> HAVE TextInv /\ Send
<1>1. /\ doc \in Documents /\ pretty \in BOOLEAN
      /\ reader.mode = "idle" /\ Finished(writer)
      /\ reader' = [reader EXCEPT !.mode = "value"]
      /\ doc' = doc /\ pretty' = pretty /\ writer' = writer
  BY DEF TextInv, Send
<1> PICK N \in Nat : \E h \in [0..N -> Writer] :
        History(h, N) /\ Read(h, N)
  BY DEF TextInv
<1>2. PICK h \in [0..N -> Writer] :
        History(h, N) /\ Read(h, N)
  OBVIOUS
<1>3. PICK n \in 0..Len(writer.out) : text' = SubSeq(writer.out, 1, n)
  BY DEF Send
<1>4. /\ \A k \in 0..N : WriterOk(h[k]) /\ h[k].out \in Seq(Symbols)
      /\ h[0] = Start /\ h[N] = writer /\ 0 \in 0..N /\ N \in 0..N
  <2>1. \A k \in 0..N : WriterOk(h[k]) /\ h[k].out \in Seq(Symbols)
    BY <1>1, <1>2, HistoryIs
  <2> QED
    BY <1>2, <2>1 DEF History
<1>5. Len(writer.out) \in Nat /\ writer.out \in Seq(Symbols)
  BY <1>4, LenProperties
<1>6. /\ text' \in Seq(Symbols) /\ Len(text') = n
      /\ \A j \in 1..n : text'[j] = writer.out[j]
  <2> DEFINE s == SubSeq(writer.out, 1, n)
  <2>1. n \in Int /\ 1 \in Int /\ n - 1 + 1 = n /\ n \in Nat
    BY <1>5
  <2>2. \A j \in 1..n : writer.out[j] \in Symbols
    BY <1>5, ElementOfSeq
  <2>3. /\ s \in Seq(Symbols)
        /\ Len(s) = IF 1 <= n THEN n - 1 + 1 ELSE 0
        /\ \A j \in 1..(n - 1 + 1) : s[j] = writer.out[1 + j - 1]
    BY <2>1, <2>2, SubSeqProperties
  <2>4. \A j \in 1..n : 1 + j - 1 = j
    OBVIOUS
  <2> HIDE DEF s
  <2>5. Len(s) = n /\ \A j \in 1..n : s[j] = writer.out[j]
    BY <2>1, <2>3, <2>4
  <2> QED
    BY <1>3, <2>3, <2>5 DEF s
<1>7. Sent'
  <2>1. n <= Len(writer.out)
    BY <1>5
  <2>2. Finished(writer)'
    BY <1>1 DEF Finished
  <2>3. Begins(text', writer.out)
    BY <1>6, <2>1 DEF Begins
  <2> QED
    BY <1>1, <1>6, <2>2, <2>3 DEF Sent
<1>8. reader' = Go("value", 1, <<>>, <<>>, <<>>)
  <2>1. reader = NotStarted
    BY <1>1, <1>2, IsStarted DEF Modes, Read, Accepted, Failed
  <2> QED
    BY <1>1, <2>1 DEF NotStarted, Go
<1>9. Match(Start, reader') /\ Len(Start.out) <= n /\ Low(Start)
  <2> DEFINE o == <<>>
  <2>1. o \in Seq(RFrame) /\ o \in Strings /\ Len(o) = 0
    BY EmptySeq DEF Strings
  <2>2. Start.mode = "value" /\ Start.open = o /\ Start.out = o
    BY DEF Start
  <2> HIDE DEF o
  <2>3. Frames(o, o, TRUE) /\ Shallow(o)
    BY <2>1 DEF Frames, Shallow
  <2>4. Match(Start, Go("value", Len(Start.out) + 1, o, o, o))
    BY <2>1, <2>2, <2>3, Matches
  <2>5. Len(Start.out) + 1 = 1 /\ Len(Start.out) <= n
    BY <1>5, <2>1, <2>2
  <2> QED
    BY <1>8, <2>2, <2>3, <2>4, <2>5 DEF Low, o
<1>10. Reading(h, N)'
  BY <1>4, <1>6, <1>9 DEF Reading
<1>11. Read(h, N)'
  BY <1>1, <1>7, <1>10 DEF Read
<1>12. History(h, N)'
  BY <1>1, <1>2, KeptHistory
<1> QED
  BY <1>1, <1>2, <1>11, <1>12 DEF TextInv

LEMMA ParseKeeps == TextInv /\ json_parse_string => TextInv'
<1> HAVE TextInv /\ json_parse_string
<1>1. /\ doc \in Documents /\ pretty \in BOOLEAN
      /\ reader.mode \notin {"idle", "accepted", "failed"} /\ reader' = Parsed(reader)
      /\ doc' = doc /\ pretty' = pretty /\ writer' = writer /\ text' = text
  BY DEF TextInv, json_parse_string
<1> PICK N \in Nat : \E h \in [0..N -> Writer] : History(h, N) /\ Read(h, N)
  BY DEF TextInv
<1>2. PICK h \in [0..N -> Writer] : History(h, N) /\ Read(h, N)
  OBVIOUS
<1>3. Sent /\ Reading(h, N)
  BY <1>1, <1>2 DEF Read, NotStarted, Accepted, Failed
<1>4. PICK k \in 0..N : Len(h[k].out) <= Len(text) /\ Match(h[k], reader) /\ Low(h[k])
  BY <1>3 DEF Reading
<1>5. /\ \A j \in 0..N : WriterOk(h[j]) /\ h[j].out \in Seq(Symbols) /\ Begins(h[j].out, writer.out)
      /\ \A j \in 1..N : WritesOn(h[j - 1], h[j])
  BY <1>1, <1>2, HistoryIs
<1>6. h[N] = writer /\ N \in 0..N
  BY <1>2 DEF History
<1>7. text \in Seq(Symbols) /\ Begins(text, writer.out) /\ Len(text) \in Nat
  BY <1>3, LenProperties DEF Sent
<1>8. Sent'
  BY <1>1, <1>3 DEF Sent, Finished
<1>9. Read(h, N)'
  <2>1. CASE k = N
    <3>1. h[k] = writer /\ writer.mode = "behind" /\ writer.open = <<>>
      BY <1>3, <1>6, <2>1 DEF Sent, Finished
    <3>2. reader.value = writer.value /\ Fits(writer.value, Len(writer.open))
      BY <1>4, <3>1 DEF Match, Low
    <3>3. writer.value = doc
      BY <1>5, <3>1 DEF WriterOk, Current
    <3>4. Fits(doc, 0)
      <4>1. Len(<<>>) = 0
        BY EmptySeq
      <4> QED
        BY <3>1, <3>2, <3>3, <4>1
    <3>5. text = writer.out
      <4>1. writer.out \in Seq(Symbols) /\ Len(writer.out) \in Nat
        BY <1>5, <3>1, LenProperties
      <4>2. Len(text) = Len(writer.out) /\ \A j \in 1..Len(text) : text[j] = writer.out[j]
        BY <1>4, <1>7, <3>1, <4>1 DEF Begins
      <4> QED
        BY <1>7, <4>1, <4>2, SeqEqual
    <3> DEFINE n == Len(writer.out) + 1
    <3>6. reader = Go("behind", n, reader.open, reader.chars, reader.value) /\ reader.open = <<>>
      <4>1. /\ reader = Go("behind", n, reader.open, reader.chars, reader.value)
            /\ reader.open \in Seq(RFrame) /\ Frames(<<>>, reader.open, TRUE)
        BY <1>4, <3>1 DEF Match
      <4>2. <<>> \in Seq(WFrame)
        BY EmptySeq
      <4> QED
        BY <4>1, <4>2, FramesLast
    <3> HIDE DEF n
    <3>7. reader.mode = "behind"
      BY <3>6 DEF Go
    <3>8. Parsed(reader) = [reader EXCEPT !.mode = "accepted"]
      BY <3>6, <3>7 DEF Parsed, ReadBehind
    <3>9. Parsed(reader).mode = "accepted" /\ Parsed(reader).value = reader.value
      <4>1. \A p, s, v : LET r == [Go("behind", n, p, s, v) EXCEPT !.mode = "accepted"]
                         IN  r.mode = "accepted" /\ r.value = v
        BY DEF Go
      <4> QED
        BY <3>6, <3>8, <4>1
    <3>10. Accepted' /\ text' = writer'.out /\ reader'.value = doc'
      BY <1>1, <3>2, <3>3, <3>5, <3>9 DEF Accepted
    <3> QED
      BY <1>1, <1>8, <3>4, <3>10 DEF Read
  <2>2. CASE k # N
    <3> DEFINE u == h[k + 1]
    <3>1. k + 1 \in 1..N /\ k + 1 \in 0..N /\ (k + 1) - 1 = k
      BY <2>2
    <3>2. WritesOn(h[k], u) /\ WriterOk(h[k]) /\ Begins(u.out, writer.out) /\ u.out \in Seq(Symbols)
      BY <1>5, <3>1
    <3>3. writer.out \in Seq(Symbols) /\ Len(writer.out) \in Nat
      BY <1>5, <1>6, LenProperties
    <3> HIDE DEF u
    <3>4. Ready(h[k], u, reader)
      BY <1>1, <1>4, <1>7, <3>2, <3>3 DEF Ready, Follows
    <3>5. Reads(u, reader)
      BY <3>2, <3>4, ReaderStep
    <3>6. CASE Len(u.out) <= Len(text) /\ Match(u, Parsed(reader)) /\ Low(u)
      <4>1. Reading(h, N)'
        BY <1>1, <3>1, <3>6 DEF Reading, u
      <4> QED
        BY <1>8, <4>1 DEF Read
    <3>7. CASE Parsed(reader).mode = "failed" /\ doc \in Deep[MAX_NESTING + 1]
      <4>1. Failed' /\ doc' \in Deep[MAX_NESTING + 1]
        BY <1>1, <3>7 DEF Failed
      <4> QED
        BY <1>8, <4>1 DEF Read
    <3>8. CASE ~(Len(u.out) <= Len(text)) /\ Parsed(reader).mode = "failed"
      <4>1. Failed'
        BY <1>1, <3>8 DEF Failed
      <4>2. text # writer.out
        BY <3>2, <3>8 DEF Begins
      <4>3. text' # writer'.out
        BY <1>1, <4>2
      <4> QED
        BY <1>8, <4>1, <4>3 DEF Read
    <3> QED
      BY <3>5, <3>6, <3>7, <3>8 DEF Reads
  <2> QED
    BY <2>1, <2>2
<1>10. History(h, N)'
  BY <1>1, <1>2, KeptHistory
<1> QED
  BY <1>1, <1>9, <1>10 DEF TextInv

LEMMA StutterKeeps == TextInv /\ UNCHANGED textVars => TextInv'
<1> HAVE TextInv /\ UNCHANGED textVars
<1>1. /\ doc' = doc /\ pretty' = pretty /\ writer' = writer /\ text' = text /\ reader' = reader
      /\ doc \in Documents /\ pretty \in BOOLEAN
  BY DEF TextInv, textVars
<1> PICK N \in Nat : \E h \in [0..N -> Writer] : History(h, N) /\ Read(h, N)
  BY DEF TextInv
<1>2. PICK h \in [0..N -> Writer] : History(h, N) /\ Read(h, N)
  OBVIOUS
<1>3. Read(h, N)'
  BY <1>1, <1>2 DEF Read, Sent, Finished, Reading, Accepted, Failed
<1>4. History(h, N)'
  BY <1>1, <1>2, KeptHistory
<1> QED
  BY <1>1, <1>3, <1>4 DEF TextInv

\* At any time the writer is on its way through the value, and the reader has
\* got to a place where the writer has been, with as much of the value.
THEOREM TextIsInvariant == TextSpec => []TextInv
<1>1. TextInv /\ [TextNext]_textVars => TextInv'
  BY WriteKeeps, SendKeeps, ParseKeeps, StutterKeeps DEF TextNext
<1> QED
  BY <1>1, TextInvHolds, PTL DEF TextSpec

LEMMA TextInvIsEnough == TextInv => RoundTrip /\ CutIsRefused
<1> HAVE TextInv
<1> PICK N \in Nat : \E h \in [0..N -> Writer] : History(h, N) /\ Read(h, N)
  BY DEF TextInv
<1>1. PICK h \in [0..N -> Writer] : History(h, N) /\ Read(h, N)
  OBVIOUS
<1>2. reader = NotStarted => ~Accepted /\ ~Failed
  BY DEF NotStarted, Accepted, Failed
<1>3. Reading(h, N) => ~Accepted /\ ~Failed
  BY IsStarted DEF Modes, Accepted, Failed
<1>4. ~(Accepted /\ Failed)
  BY DEF Accepted, Failed
<1>5. Fits(doc, 0) => doc \notin Deep[MAX_NESTING + 1]
  <2>1. MAX_NESTING + 1 - 0 = MAX_NESTING + 1
    BY TextAssumption
  <2> QED
    BY <2>1 DEF Fits
<1>6. RoundTrip
  BY <1>1, <1>2, <1>3, <1>4, <1>5 DEF RoundTrip, Read
<1>7. CutIsRefused
  BY <1>1, <1>2, <1>3, <1>4 DEF CutIsRefused, Read
<1> QED
  BY <1>6, <1>7

\* What json_serialize_to_string writes of any value, plain or pretty, is read
\* by json_parse_string as that very value; only one that is deeper than
\* MAX_NESTING is refused.
THEOREM TextsAreReadBack == TextSpec => []RoundTrip
BY TextIsInvariant, TextInvIsEnough, PTL

\* A text that has been cut off anywhere is refused.
THEOREM CutTextsAreRefused == TextSpec => []CutIsRefused
BY TextIsInvariant, TextInvIsEnough, PTL

=============================================================================
