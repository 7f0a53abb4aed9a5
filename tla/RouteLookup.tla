---------------------------- MODULE RouteLookup ----------------------------
(***************************************************************************)
(* get_best_route of the two routers: the binary search of Tema1_pcom over *)
(* a table that qsort has ordered with compare_entries, and the scan of    *)
(* lab 4 over the table in the order of its file.                          *)
(*                                                                         *)
(* Addresses, prefixes and masks are four octets in network order.  The    *)
(* routers run on little-endian machines and compare them as they lie in   *)
(* memory (host), except where the code calls ntohl.                       *)
(***************************************************************************)
EXTENDS Integers, Functions

CONSTANTS
  OCTET,        \* number of values of an octet: 2^8
  Routes,       \* bound: the routes a table may hold
  MaxRoutes,    \* bound: the longest table
  Modes         \* which of the two lookups

Octet   == 0..(OCTET - 1)
Address == [1..4 -> Octet]

\* The octets of a mask: an octet m keeps the bits of an octet x that
\* x - x % (OCTET - m) keeps, when m is one of 0, 128, 192 ... 254, 255.
MaskOctet == {m \in Octet : OCTET % (OCTET - m) = 0}

\* Full octets, then at most one that is not, then zeros.
Mask == {m \in [1..4 -> MaskOctet] :
           \A k \in 1..3 : m[k + 1] # 0 => m[k] = OCTET - 1}

route_table_entry == [prefix: Address, mask: Mask]

ASSUME ConstantsAssumption ==
  /\ OCTET \in Nat \ {0, 1}
  /\ Routes \subseteq route_table_entry
  /\ MaxRoutes \in Nat
  /\ Modes \subseteq {"search", "scan"}

\* What & leaves of an address.
Masked(a, m) == [k \in 1..4 |-> a[k] - (a[k] % (OCTET - m[k]))]

host(a)  == a[1] + OCTET * (a[2] + OCTET * (a[3] + OCTET * a[4]))
ntohl(a) == a[4] + OCTET * (a[3] + OCTET * (a[2] + OCTET * a[1]))

-----------------------------------------------------------------------------
(* compare_entries and qsort.                                              *)

WORD == OCTET * OCTET * OCTET * OCTET

\* The difference of two uint32_t, returned as an int.
Difference(a, b) ==
  LET d == (host(a) - host(b)) % WORD
  IN  IF d < WORD \div 2 THEN d ELSE d - WORD

PrefixOrder(a, b) == Difference(a.prefix, b.prefix)

compare_entries(a, b) ==
  IF a.mask # b.mask THEN Difference(b.mask, a.mask) ELSE PrefixOrder(a, b)

Sorted(t) ==
  \A j, k \in DOMAIN t : j < k => compare_entries(t[j], t[k]) <= 0

\* What qsort makes of the file's routes.  If the comparison contradicts
\* itself on them their order is undefined.
AfterQsort(t) ==
  \/ Sorted(t)
  \/ \A p \in Bijection(DOMAIN t, DOMAIN t) : ~Sorted([k \in DOMAIN t |-> t[p[k]]])

-----------------------------------------------------------------------------
(* One lookup after another in a table that never changes.                 *)

VARIABLES
  mode,
  rtable_len,
  rtable,       \* indexed from 0, as in C
  pc,           \* "idle", in the loop of the lookup ("search", "scan"), "done"
  ip_dest,
  left, right,  \* the binary search
  i,            \* the scan
  route         \* index of the route found so far, or NULL

tableVars == <<mode, rtable_len, rtable>>
vars      == <<tableVars, pc, ip_dest, left, right, i, route>>

NULL == -1

Indices == 0..(rtable_len - 1)

NoAddress == [k \in 1..4 |-> 0]

TypeOK ==
  /\ mode \in Modes
  /\ rtable_len \in 0..MaxRoutes
  /\ rtable \in [Indices -> Routes]
  /\ pc \in {"idle", mode, "done"}
  /\ ip_dest \in Address
  /\ left \in 0..rtable_len
  /\ right \in -1..(rtable_len - 1)
  /\ i \in 0..rtable_len
  /\ route \in Indices \union {NULL}

Init ==
  /\ mode \in Modes
  /\ rtable_len \in 0..MaxRoutes
  /\ rtable \in [Indices -> Routes]
  /\ mode = "search" => AfterQsort(rtable)
  /\ pc = "idle"
  /\ ip_dest = NoAddress
  /\ left = 0
  /\ right = rtable_len - 1
  /\ i = 0
  /\ route = NULL

Call ==
  /\ pc = "idle"
  /\ ip_dest' \in Address
  /\ pc' = mode
  /\ UNCHANGED <<tableVars, left, right, i, route>>

\* A lookup leaves nothing behind: its variables are local ones.
Return ==
  /\ pc = "done"
  /\ pc' = "idle"
  /\ ip_dest' = NoAddress
  /\ left' = 0
  /\ right' = rtable_len - 1
  /\ i' = 0
  /\ route' = NULL
  /\ UNCHANGED tableVars

-----------------------------------------------------------------------------

Matches(r, a) == Masked(a, r.mask) = Masked(r.prefix, r.mask)

(* The binary search of Tema1_pcom/router.c.                               *)

mid == left + (right - left) \div 2

masked_ip     == host(Masked(ip_dest, rtable[mid].mask))
masked_prefix == host(Masked(rtable[mid].prefix, rtable[mid].mask))

Found ==
  /\ pc = "search" /\ left <= right
  /\ masked_ip = masked_prefix
  /\ route' = mid
  /\ pc' = "done"
  /\ UNCHANGED <<tableVars, ip_dest, left, right, i>>

GoNowhere ==        \* mutant: left = mid
  /\ pc = "search" /\ left <= right
  /\ masked_ip > masked_prefix
  /\ left' = mid
  /\ UNCHANGED <<tableVars, pc, ip_dest, right, i, route>>

GoRight ==
  /\ pc = "search" /\ left <= right
  /\ masked_ip > masked_prefix
  /\ left' = mid + 1
  /\ UNCHANGED <<tableVars, pc, ip_dest, right, i, route>>

GoLeftTooFar ==     \* mutant: right = mid - 2
  /\ pc = "search" /\ left <= right
  /\ masked_ip < masked_prefix
  /\ right' = mid - 2
  /\ UNCHANGED <<tableVars, pc, ip_dest, left, i, route>>

GoLeft ==
  /\ pc = "search" /\ left <= right
  /\ masked_ip < masked_prefix
  /\ right' = mid - 1
  /\ UNCHANGED <<tableVars, pc, ip_dest, left, i, route>>

NotFound ==
  /\ pc = "search" /\ left > right
  /\ pc' = "done"
  /\ UNCHANGED <<tableVars, ip_dest, left, right, i, route>>

(* The scan of lab4/router.c.                                              *)

FirstMatch(r) == route = NULL       \* mutant: the first match is kept

Better(r) == route = NULL \/ ntohl(r.mask) > ntohl(rtable[route].mask)

ScanEntry ==
  /\ pc = "scan" /\ i < rtable_len
  /\ route' = IF Matches(rtable[i], ip_dest) /\ Better(rtable[i]) THEN i ELSE route
  /\ i' = i + 1
  /\ UNCHANGED <<tableVars, pc, ip_dest, left, right>>

ScanDone ==
  /\ pc = "scan" /\ i = rtable_len
  /\ pc' = "done"
  /\ UNCHANGED <<tableVars, ip_dest, left, right, i, route>>

-----------------------------------------------------------------------------

Search == Found \/ GoRight \/ GoLeft \/ NotFound

Scan == ScanEntry \/ ScanDone

Next == Call \/ Search \/ Scan \/ Return

Spec == Init /\ [][Next]_vars

\* A loop that has been entered is executed.
FairSpec == Spec /\ WF_vars(Search \/ Scan)

-----------------------------------------------------------------------------
(* What a lookup is for.                                                   *)

AtLeastAsLong(m, n) == \A k \in 1..4 : m[k] >= n[k]

\* Longest prefix match, on the bits that the masks keep and whatever the
\* order of the table and of the bytes.
LongestMatch(j) ==
  /\ Matches(rtable[j], ip_dest)
  /\ \A k \in Indices :
       Matches(rtable[k], ip_dest) => AtLeastAsLong(rtable[j].mask, rtable[k].mask)

Best == IF route = NULL
        THEN \A k \in Indices : ~Matches(rtable[k], ip_dest)
        ELSE LongestMatch(route)

\* Lab 4 finds the longest match in every table, in whatever order, and NULL
\* only when nothing matches.
ScanIsBest == mode = "scan" /\ pc = "done" => Best

\* What the binary search finds does match, in every table ...
FoundMatches == mode = "search" /\ route # NULL => Matches(rtable[route], ip_dest)

OneMask == \A j, k \in Indices : rtable[j].mask = rtable[k].mask

Ascending ==
  \A j, k \in Indices :
    j < k => host(Masked(rtable[j].prefix, rtable[j].mask))
             <= host(Masked(rtable[k].prefix, rtable[k].mask))

\* ... and it misses none if all masks are the same and the table is in the
\* order the search goes by.
SearchIsBest == mode = "search" /\ pc = "done" /\ OneMask /\ Ascending => Best

\* Every lookup ends.
LookupEnds == (pc \in {"search", "scan"}) ~> (pc = "done")

=============================================================================
