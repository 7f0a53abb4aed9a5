----------------------------- MODULE JsonObject -----------------------------
(***************************************************************************)
(* JSON_Object of parson.c, which the library client fills with the fields *)
(* of a request: name-value pairs in the order of their insertion, indexed *)
(* by a hash table with linear probing.  Every allocation may fail.        *)
(*                                                                         *)
(* names, values and cell_ixs are one sequence of pairs; a cell holds the  *)
(* index of a pair, from 1, or OBJECT_INVALID_IX.  The two loops that      *)
(* change a table, that of growth and that of removal, go one turn a step; *)
(* between calls the object is idle.                                       *)
(***************************************************************************)
EXTENDS Integers, FiniteSets, Sequences, FiniteSetsExt

CONSTANTS
  Names,
  Values,               \* JSON_Values, each at its own address
  HashCodes,            \* bound: the results of hash_string
  STARTING_CAPACITY,
  MaxCapacity           \* bound: the table grows no further

\* The smallest table has room for a pair; 16 in the code.
ASSUME JsonAssumption ==
  /\ HashCodes \subseteq Nat
  /\ STARTING_CAPACITY \in Nat /\ STARTING_CAPACITY >= 2

VARIABLES
  hash,                 \* any function
  object,               \* [pairs, cells]
  allocated,            \* the values that are not freed
  parented,             \* the values with a parent
  loop                  \* the loop under way, with its variables

jsonVars == <<hash, object, allocated, parented, loop>>

-----------------------------------------------------------------------------

OBJECT_INVALID_IX == 0

json_object_init(capacity) ==
  [pairs |-> <<>>, cells |-> [c \in 0..(capacity - 1) |-> OBJECT_INVALID_IX]]

count(t) == Len(t.pairs)

cell_capacity(t) == Cardinality(DOMAIN t.cells)

FillsEveryCell(t) == cell_capacity(t)       \* mutant: no cell is left free

item_capacity(t) == (cell_capacity(t) * 7) \div 10

hash_string(n) == hash[n]

\* Capacities are powers of two in the code, so & (cell_capacity - 1) is %.
Home(t, n)     == hash_string(n) % cell_capacity(t)
Probe(t, n, i) == (hash_string(n) + i) % cell_capacity(t)
Holds(t, c, n) == t.cells[c] # OBJECT_INVALID_IX /\ t.pairs[t.cells[c]].name = n

\* The first cell along the probes that is free or holds the name.
get_cell_ix(t, n) ==
  LET stops == {i \in 0..(cell_capacity(t) - 1) :
                  \/ t.cells[Probe(t, n, i)] = OBJECT_INVALID_IX
                  \/ Holds(t, Probe(t, n, i), n)}
  IN  Probe(t, n, Min(stops))

Found(t, n) ==
  /\ \E c \in DOMAIN t.cells : t.cells[c] = OBJECT_INVALID_IX \/ Holds(t, c, n)
  /\ Holds(t, get_cell_ix(t, n), n)

getn_value(t, n) == t.pairs[t.cells[get_cell_ix(t, n)]].value

Place(t, n, v) ==
  LET c == get_cell_ix(t, n)
  IN  [pairs |-> Append(t.pairs, [name |-> n, value |-> v, cell_ix |-> c]),
       cells |-> [t.cells EXCEPT ![c] = count(t) + 1]]

Full(t) == count(t) >= item_capacity(t)

NewCapacity(t) ==
  IF 2 * cell_capacity(t) > STARTING_CAPACITY
  THEN 2 * cell_capacity(t) ELSE STARTING_CAPACITY

\* The last pair takes the place of the one removed.
FillGap(t, x) ==
  LET last == count(t)
      p    == t.pairs[last]
  IN  [pairs |-> SubSeq([t.pairs EXCEPT ![x] = p], 1, last - 1),
       cells |-> IF x < last THEN [t.cells EXCEPT ![p.cell_ix] = x] ELSE t.cells]

ShiftsWithoutWrap(i, j, k) == j > i /\ (k <= i \/ k > j)    \* mutant

\* The pair in cell j, whose home is k, may move to the free cell i.
MayMove(i, j, k) ==
  \/ j > i /\ (k <= i \/ k > j)
  \/ j < i /\ (k <= i /\ k > j)

-----------------------------------------------------------------------------
(* The operations.                                                         *)

JsonInit ==
  /\ hash \in [Names -> HashCodes]
  /\ object = json_object_init(0)
  /\ allocated = {}
  /\ parented = {}
  /\ loop = [at |-> "idle"]

\* json_value_init_...
CreateValue(v) ==
  /\ v \notin allocated
  /\ allocated' = allocated \union {v}
  /\ UNCHANGED <<object, parented, loop>>

\* The caller may free what is his.
json_value_free(v) ==
  /\ v \in allocated \ parented
  /\ allocated' = allocated \ {v}
  /\ UNCHANGED <<object, parented, loop>>

Replace(n, v) ==
  LET x   == object.cells[get_cell_ix(object, n)]
      old == object.pairs[x].value
  IN  /\ Found(object, n)
      /\ object' = [object EXCEPT !.pairs[x].value = v]
      /\ allocated' = (allocated \union {v}) \ {old}
      /\ parented' = (parented \union {v}) \ {old}
      /\ UNCHANGED loop

InsertOrphan(n, v) ==       \* mutant: the parent of the value is not set
  /\ ~Found(object, n) /\ ~Full(object)
  /\ object' = Place(object, n, v)
  /\ allocated' = allocated \union {v}
  /\ UNCHANGED <<parented, loop>>

Insert(n, v) ==
  /\ ~Found(object, n) /\ ~Full(object)
  /\ object' = Place(object, n, v)
  /\ allocated' = allocated \union {v}
  /\ parented' = parented \union {v}
  /\ UNCHANGED loop

\* A larger table, empty yet; made says who has the value if this fails.
Grow(n, v, made) ==
  /\ ~Found(object, n) /\ Full(object)
  /\ 2 * cell_capacity(object) <= MaxCapacity
  /\ loop' = [at |-> "growing", larger |-> json_object_init(NewCapacity(object)),
              name |-> n, value |-> v, made |-> made]
  /\ allocated' = allocated \union {v}
  /\ UNCHANGED <<object, parented>>

\* No memory for the larger table, or for the name.
OutOfMemory(n) ==
  /\ ~Found(object, n)
  /\ UNCHANGED <<object, allocated, parented, loop>>

\* A value that has a parent is refused; else it now belongs to the object.
json_object_set_value(n, v) ==
  /\ v \in allocated \ parented
  /\ Replace(n, v) \/ Insert(n, v) \/ Grow(n, v, FALSE) \/ OutOfMemory(n)

\* A value is made for the call and freed if it was not taken.
json_object_set_string(n, v) ==
  /\ v \notin allocated
  /\ Replace(n, v) \/ Insert(n, v) \/ Grow(n, v, TRUE) \/ OutOfMemory(n)

\* A turn of json_object_grow_and_rehash, that is json_object_add, which
\* neither finds the name nor has to grow again (TableWhole).
grow_and_rehash ==
  /\ loop.at = "growing" /\ count(loop.larger) < count(object)
  /\ LET p == object.pairs[count(loop.larger) + 1]
     IN loop' = [loop EXCEPT !.larger = Place(loop.larger, p.name, p.value)]
  /\ UNCHANGED <<object, allocated, parented>>

\* The larger table takes over and, if there is memory for the name, the pair
\* goes into it.
Grown ==
  /\ loop.at = "growing" /\ count(loop.larger) = count(object)
  /\ loop' = [at |-> "idle"]
  /\ \/ /\ object' = Place(loop.larger, loop.name, loop.value)
        /\ parented' = parented \union {loop.value}
        /\ UNCHANGED allocated
     \/ /\ object' = loop.larger
        /\ allocated' = IF loop.made THEN allocated \ {loop.value} ELSE allocated
        /\ UNCHANGED parented

\* Up to the loop: i is the cell that is free, j the last one looked at.
json_object_remove(n) ==
  LET cell == get_cell_ix(object, n)
  IN  /\ Found(object, n)
      /\ object' = FillGap(object, object.cells[cell])
      /\ allocated' = allocated \ {getn_value(object, n)}
      /\ parented' = parented \ {getn_value(object, n)}
      /\ loop' = [at |-> "shifting", i |-> cell, j |-> cell, x |-> 0]

NextCell == (loop.j + 1) % cell_capacity(object)

\* A turn of the loop, until a free cell or where it started.
Shift ==
  LET y == object.cells[NextCell]
  IN  /\ loop.at = "shifting" /\ loop.x < cell_capacity(object) - 1
      /\ y # OBJECT_INVALID_IX
      /\ \/ /\ MayMove(loop.i, NextCell, Home(object, object.pairs[y].name))
            /\ object' = [object EXCEPT !.pairs[y].cell_ix = loop.i, !.cells[loop.i] = y]
            /\ loop' = [loop EXCEPT !.i = NextCell, !.j = NextCell, !.x = @ + 1]
         \/ /\ ~MayMove(loop.i, NextCell, Home(object, object.pairs[y].name))
            /\ loop' = [loop EXCEPT !.j = NextCell, !.x = @ + 1]
            /\ UNCHANGED object
      /\ UNCHANGED <<allocated, parented>>

Shifted ==
  /\ loop.at = "shifting"
  /\ \/ loop.x = cell_capacity(object) - 1
     \/ object.cells[NextCell] = OBJECT_INVALID_IX
  /\ object' = [object EXCEPT !.cells[loop.i] = OBJECT_INVALID_IX]
  /\ loop' = [at |-> "idle"]
  /\ UNCHANGED <<allocated, parented>>

InObject == {object.pairs[x].value : x \in DOMAIN object.pairs}

json_object_clear ==
  /\ object' = json_object_init(cell_capacity(object))
  /\ allocated' = allocated \ InObject
  /\ parented' = parented \ InObject
  /\ UNCHANGED loop

Call ==
  /\ loop.at = "idle"
  /\ \/ \E v \in Values : CreateValue(v) \/ json_value_free(v)
     \/ \E n \in Names, v \in Values :
          json_object_set_value(n, v) \/ json_object_set_string(n, v)
     \/ \E n \in Names : json_object_remove(n)
     \/ json_object_clear

JsonNext ==
  /\ UNCHANGED hash
  /\ Call \/ grow_and_rehash \/ Grown \/ Shift \/ Shifted

JsonSpec == JsonInit /\ [][JsonNext]_jsonVars

-----------------------------------------------------------------------------

\* The two indices name each other, and a cell stays free, where the search
\* for a name that is missing ends.
Whole(t) ==
  /\ \A x \in DOMAIN t.pairs : t.cells[t.pairs[x].cell_ix] = x
  /\ \A c \in DOMAIN t.cells :
       t.cells[c] # OBJECT_INVALID_IX
         => t.cells[c] \in DOMAIN t.pairs /\ t.pairs[t.cells[c]].cell_ix = c
  /\ cell_capacity(t) > 0
       => \E c \in DOMAIN t.cells : t.cells[c] = OBJECT_INVALID_IX

\* So it is between calls; and while the table grows, each pair that is still
\* to be moved is new to the larger one, which has room for it.
TableWhole ==
  /\ loop.at # "shifting" => Whole(object)
  /\ loop.at = "growing" =>
       /\ Whole(loop.larger)
       /\ \A x \in (count(loop.larger) + 1)..count(object) :
            ~Found(loop.larger, object.pairs[x].name) /\ ~Full(loop.larger)

\* The values with a parent are those in the object, each once, and none of
\* them has been freed: nobody else frees them, and the object does so once.
ValuesOwned ==
  /\ InObject = parented
  /\ parented \subseteq allocated
  /\ Cardinality(InObject) = count(object)

\* The value that a name is stored with, found or not.
Stored(n) == object.pairs[CHOOSE x \in DOMAIN object.pairs : object.pairs[x].name = n].value

\* What the object holds: what lookups find, or, while cells are shifted and
\* nobody looks, what the pairs say.
Dict ==
  IF loop.at = "shifting"
  THEN [n \in {object.pairs[x].name : x \in DOMAIN object.pairs} |-> Stored(n)]
  ELSE [n \in {m \in Names : Found(object, m)} |-> getn_value(object, n)]

Lookup == INSTANCE Dictionary WITH dict <- Dict

\* A value that is set belongs to the object from then on and is what its name
\* finds, or the call has failed and nothing shows.
PutOrFail(n, v) == IF v \in parented' THEN Lookup!Put(n, v) ELSE UNCHANGED Dict

EachCallItsOwn ==
  /\ loop.at = "idle" =>
       /\ \A v \in Values : CreateValue(v) \/ json_value_free(v) => UNCHANGED Dict
       /\ \A n \in Names, v \in Values :
            json_object_set_value(n, v) \/ json_object_set_string(n, v) => PutOrFail(n, v)
       /\ \A n \in Names : json_object_remove(n) => Lookup!Delete(n)
       /\ json_object_clear => Lookup!Clear
  /\ grow_and_rehash \/ Shift \/ Shifted => UNCHANGED Dict
  /\ Grown => PutOrFail(loop.name, loop.value)

\* What a lookup finds is what a dictionary would hold, through growth,
\* collisions, removals that move pairs and cells, and failures: a call puts or
\* deletes the pair it was asked to and no other, and the turns of the loops of
\* growth and removal do not show.
IsDictionary == Lookup!Spec /\ [][EachCallItsOwn]_jsonVars

=============================================================================
