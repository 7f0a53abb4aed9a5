------------------------- MODULE RouteLookupProofs -------------------------
(***************************************************************************)
(* Proofs about RouteLookup, for every table, address and width of an      *)
(* octet.                                                                  *)
(***************************************************************************)
EXTENDS RouteLookup, TLAPS

(* Octets, and the words made of four of them.                             *)

LEMMA Times ==
  \A p, q \in Nat : /\ OCTET * p \in Nat
                    /\ p <= q => OCTET * p <= OCTET * q
                    /\ p < q => OCTET * p + OCTET <= OCTET * q
  <1> TAKE p, q \in Nat
  <1>1. OCTET \in Nat
    BY ConstantsAssumption
  <1>2. OCTET * p \in Nat /\ OCTET * q \in Nat
    BY <1>1
  <1>3. ASSUME p < q  PROVE OCTET * p + OCTET <= OCTET * q
    <2>1. PICK d \in Nat : q = p + 1 + d
      <3>1. q - p - 1 \in Nat /\ q = p + 1 + (q - p - 1)
        BY <1>3
      <3> QED
        BY <3>1
    <2>2. OCTET * q = OCTET * p + OCTET + OCTET * d /\ OCTET * d \in Nat
      BY <1>1, <2>1
    <2> QED
      BY <1>1, <1>2, <2>2
  <1> QED
    BY <1>1, <1>2, <1>3

\* How x + OCTET * p depends on its two digits.
LEMMA Digits ==
  \A x, y \in Octet, p, q \in Nat :
    /\ x + OCTET * p \in Nat
    /\ x + OCTET * p = y + OCTET * q => x = y /\ p = q
    /\ x <= y /\ p <= q => x + OCTET * p <= y + OCTET * q
    /\ x <= y /\ p <= q /\ (x < y \/ p < q) => x + OCTET * p < y + OCTET * q
  <1> TAKE x, y \in Octet, p, q \in Nat
  <1> DEFINE P == OCTET * p
             Q == OCTET * q
  <1>1. /\ OCTET \in Nat \ {0}
        /\ x \in Nat /\ y \in Nat /\ x < OCTET /\ y < OCTET
    BY ConstantsAssumption DEF Octet
  <1>2. /\ P \in Nat /\ Q \in Nat
        /\ p <= q => P <= Q
        /\ q <= p => Q <= P
        /\ p < q => P + OCTET <= Q
        /\ q < p => Q + OCTET <= P
    BY Times
  <1> HIDE DEF P, Q
  <1>3. x + P = y + Q => x = y /\ p = q
    BY <1>1, <1>2
  <1>4. x <= y /\ p <= q => x + P <= y + Q
    BY <1>1, <1>2
  <1>5. x <= y /\ p <= q /\ (x < y \/ p < q) => x + P < y + Q
    BY <1>1, <1>2
  <1>6. x + P \in Nat
    BY <1>1, <1>2
  <1> QED
    BY <1>3, <1>4, <1>5, <1>6 DEF P, Q

LEMMA AddressOctets ==
  \A a \in Address : a[1] \in Octet /\ a[2] \in Octet /\ a[3] \in Octet /\ a[4] \in Octet
  BY DEF Address

LEMMA OctetIsNat == Octet \subseteq Nat
  BY ConstantsAssumption DEF Octet

\* Addresses compared in memory are natural numbers, and equal only if all
\* their octets are.
LEMMA HostInjective ==
  \A a, b \in Address : host(a) \in Nat /\ (host(a) = host(b) => a = b)
  <1> TAKE a, b \in Address
  <1> DEFINE a4 == a[4]  b4 == b[4]
             a3 == a[3] + OCTET * a4  b3 == b[3] + OCTET * b4
             a2 == a[2] + OCTET * a3  b2 == b[2] + OCTET * b3
  <1>1. a4 \in Nat /\ b4 \in Nat
    BY AddressOctets, OctetIsNat
  <1>2. a3 \in Nat /\ b3 \in Nat /\ (a3 = b3 => a[3] = b[3] /\ a4 = b4)
    BY <1>1, AddressOctets, Digits
  <1>3. a2 \in Nat /\ b2 \in Nat /\ (a2 = b2 => a[2] = b[2] /\ a3 = b3)
    <2> HIDE DEF a3, b3
    <2> QED
      BY <1>2, AddressOctets, Digits
  <1>4. host(a) \in Nat /\ (host(a) = host(b) => a[1] = b[1] /\ a2 = b2)
    <2> HIDE DEF a2, b2
    <2>1. host(a) = a[1] + OCTET * a2 /\ host(b) = b[1] + OCTET * b2
      BY DEF host, a2, b2
    <2> QED
      BY <1>3, <2>1, AddressOctets, Digits
  <1>5. ASSUME \A k \in 1..4 : a[k] = b[k]  PROVE a = b
    BY <1>5 DEF Address
  <1> QED
    BY <1>2, <1>3, <1>4, <1>5

\* Masking an address gives an address.
LEMMA MaskedType ==
  \A a \in Address, m \in Mask : Masked(a, m) \in Address
  <1> TAKE a \in Address, m \in Mask
  <1>1. \A x \in Octet, d \in Nat \ {0} : x - (x % d) \in Octet
    <2> TAKE x \in Octet, d \in Nat \ {0}
    <2>1. x \in Nat /\ x < OCTET /\ OCTET \in Nat
      BY ConstantsAssumption DEF Octet
    <2>2. x % d \in 0..(d - 1) /\ (x < d => x % d = x)
      BY <2>1
    <2>3. x % d <= x
      BY <2>1, <2>2
    <2> QED
      BY <2>1, <2>2, <2>3 DEF Octet
  <1>2. \A x \in Octet : OCTET - x \in Nat \ {0}
    BY ConstantsAssumption DEF Octet
  <1>3. \A k \in 1..4 : a[k] \in Octet /\ m[k] \in Octet
    BY DEF Address, Mask, MaskOctet
  <1>4. \A k \in 1..4 : a[k] - (a[k] % (OCTET - m[k])) \in Octet
    BY <1>1, <1>2, <1>3
  <1> QED
    BY <1>4 DEF Masked, Address

LEMMA MaskIsAddress == Mask \subseteq Address
  BY DEF Mask, MaskOctet, Address

\* Octet by octet, a larger mask is larger in network order.
LEMMA NetworkOrder ==
  \A m, n \in Mask :
    /\ ntohl(m) \in Nat
    /\ AtLeastAsLong(n, m) /\ m # n => ntohl(n) > ntohl(m)
  <1> TAKE m, n \in Mask
  <1> DEFINE m2 == m[2] + OCTET * m[1]  n2 == n[2] + OCTET * n[1]
             m3 == m[3] + OCTET * m2    n3 == n[3] + OCTET * n2
             m4 == m[4] + OCTET * m3    n4 == n[4] + OCTET * n3
  <1>1. \A k \in 1..4 : m[k] \in Octet /\ n[k] \in Octet /\ m[k] \in Nat /\ n[k] \in Nat
    BY MaskIsAddress, OctetIsNat DEF Address
  <1> DEFINE Digit(x, y, p, q) ==
               /\ x + OCTET * p \in Nat /\ y + OCTET * q \in Nat
               /\ x <= y /\ p <= q => x + OCTET * p <= y + OCTET * q
               /\ x <= y /\ p <= q /\ (x < y \/ p < q) => x + OCTET * p < y + OCTET * q
  <1>0. \A x, y \in Octet, p, q \in Nat : Digit(x, y, p, q)
    BY Digits
  <1> HIDE DEF Digit
  <1>2. /\ m2 \in Nat /\ n2 \in Nat
        /\ m[2] <= n[2] /\ m[1] <= n[1] => m2 <= n2
        /\ m[2] <= n[2] /\ m[1] <= n[1] /\ (m[2] < n[2] \/ m[1] < n[1]) => m2 < n2
    <2>1. Digit(m[2], n[2], m[1], n[1])
      BY <1>0, <1>1
    <2> QED
      BY <2>1 DEF Digit
  <1> HIDE DEF m2, n2
  <1>3. /\ m3 \in Nat /\ n3 \in Nat
        /\ m[3] <= n[3] /\ m2 <= n2 => m3 <= n3
        /\ m[3] <= n[3] /\ m2 <= n2 /\ (m[3] < n[3] \/ m2 < n2) => m3 < n3
    <2>1. Digit(m[3], n[3], m2, n2)
      BY <1>0, <1>1, <1>2
    <2> QED
      BY <2>1 DEF Digit
  <1> HIDE DEF m3, n3
  <1>4. /\ m4 \in Nat /\ n4 \in Nat
        /\ m[4] <= n[4] /\ m3 <= n3 /\ (m[4] < n[4] \/ m3 < n3) => m4 < n4
    <2>1. Digit(m[4], n[4], m3, n3)
      BY <1>0, <1>1, <1>3
    <2> QED
      BY <2>1 DEF Digit
  <1>6. ntohl(m) = m4 /\ ntohl(n) = n4
    BY DEF ntohl, m3, n3, m2, n2
  <1> HIDE DEF m4, n4
  <1>5. ASSUME AtLeastAsLong(n, m), m # n  PROVE n4 > m4
    <2>1. \A k \in 1..4 : m[k] <= n[k]
      BY <1>1, <1>5 DEF AtLeastAsLong
    <2>2. PICK k \in 1..4 : m[k] # n[k]
      BY <1>5 DEF Mask
    <2>3. m[k] < n[k]
      BY <1>1, <2>1, <2>2
    <2>4. m2 <= n2 /\ m3 <= n3
      BY <1>2, <1>3, <2>1
    <2>5. CASE k = 4
      BY <1>4, <2>1, <2>3, <2>4, <2>5
    <2>6. CASE k = 3
      BY <1>3, <1>4, <2>1, <2>3, <2>4, <2>6
    <2>7. CASE k = 2 \/ k = 1
      BY <1>2, <1>3, <1>4, <2>1, <2>3, <2>4, <2>7
    <2> QED
      BY <2>2, <2>5, <2>6, <2>7
  <1> QED
    BY <1>4, <1>5, <1>6

LEMMA AsLongAsItself == \A m \in Mask : AtLeastAsLong(m, m)
  <1>1. \A m \in Mask, k \in 1..4 : m[k] \in Nat
    BY MaskIsAddress, OctetIsNat DEF Address
  <1> QED
    BY <1>1 DEF AtLeastAsLong

\* So the comparison of masks by ntohl is one of their lengths: two masks
\* keep octets of which those of one are never smaller.
LEMMA MaskOrder ==
  \A m, n \in Mask : ntohl(m) >= ntohl(n) => AtLeastAsLong(m, n)
  <1> SUFFICES ASSUME NEW m \in Mask, NEW n \in Mask, ~AtLeastAsLong(m, n)
               PROVE  ntohl(m) < ntohl(n)
    BY NetworkOrder
  <1>1. \A k \in 1..4 : /\ m[k] \in Nat /\ n[k] \in Nat
                        /\ m[k] <= OCTET - 1 /\ n[k] <= OCTET - 1
    BY ConstantsAssumption, MaskIsAddress DEF Address, Octet
  <1>2. PICK k \in 1..4 : m[k] < n[k]
    BY <1>1 DEF AtLeastAsLong
  <1>3. OCTET \in Nat
    BY ConstantsAssumption
  <1>4. /\ m[2] # 0 => m[1] = OCTET - 1
        /\ m[3] # 0 => m[2] = OCTET - 1
        /\ m[4] # 0 => m[3] = OCTET - 1
        /\ n[2] # 0 => n[1] = OCTET - 1
        /\ n[3] # 0 => n[2] = OCTET - 1
        /\ n[4] # 0 => n[3] = OCTET - 1
    BY DEF Mask
  <1>5. /\ m[1] <= n[1] /\ m[2] <= n[2] /\ m[3] <= n[3] /\ m[4] <= n[4]
    BY <1>1, <1>2, <1>3, <1>4, ConstantsAssumption
  <1>6. AtLeastAsLong(n, m)
    BY <1>1, <1>5 DEF AtLeastAsLong
  <1> QED
    BY <1>2, <1>6, <1>1, NetworkOrder

-----------------------------------------------------------------------------
(* Types.                                                                  *)

\* TypeOK, and what a lookup starts from.
TypeInv ==
  /\ TypeOK
  /\ pc = "idle" => left = 0 /\ right = rtable_len - 1 /\ i = 0 /\ route = NULL
  /\ mode = "search" => i = 0
  /\ mode = "scan" => left = 0 /\ right = rtable_len - 1

\* The middle of a range that is not empty is in it.
LEMMA MidInRange ==
  ASSUME TypeInv, left <= right
  PROVE  mid \in Indices /\ left <= mid /\ mid <= right
  BY ConstantsAssumption DEF TypeInv, TypeOK, mid, Indices

LEMMA TypeInit == Init => TypeInv
  <1> SUFFICES ASSUME Init  PROVE TypeInv
    OBVIOUS
  <1>1. NoAddress \in Address
    BY ConstantsAssumption DEF NoAddress, Address, Octet
  <1> QED
    BY <1>1, ConstantsAssumption DEF Init, TypeInv, TypeOK, NULL

LEMMA TypeNext == TypeInv /\ [Next]_vars => TypeInv'
  <1> SUFFICES ASSUME TypeInv, [Next]_vars
               PROVE  TypeInv'
    OBVIOUS
  <1> USE ConstantsAssumption DEF TypeInv, TypeOK, tableVars, Indices, NULL
  <1>1. CASE Call
    BY <1>1 DEF Call
  <1>2. CASE Found
    BY <1>2, MidInRange DEF Found
  <1>3. CASE GoRight
    BY <1>3, MidInRange DEF GoRight
  <1>4. CASE GoLeft
    BY <1>4, MidInRange DEF GoLeft
  <1>5. CASE NotFound
    BY <1>5 DEF NotFound
  <1>6. CASE ScanEntry
    BY <1>6 DEF ScanEntry
  <1>7. CASE ScanDone
    BY <1>7 DEF ScanDone
  <1>8. CASE Return
    <2>1. NoAddress \in Address
      BY DEF NoAddress, Address, Octet
    <2> QED
      BY <1>8, <2>1 DEF Return
  <1>9. CASE UNCHANGED vars
    BY <1>9 DEF vars
  <1> QED
    BY <1>1, <1>2, <1>3, <1>4, <1>5, <1>6, <1>7, <1>8, <1>9 DEF Next, Search, Scan

\* Every variable keeps its type; in particular both lookups only ever read
\* entries of the table.
THEOREM TypeCorrect == Spec => []TypeOK
  <1>1. Spec => []TypeInv
    BY TypeInit, TypeNext, PTL DEF Spec
  <1> QED
    BY <1>1, PTL DEF TypeInv

-----------------------------------------------------------------------------
(* The binary search.                                                      *)

\* Whatever matches lies between left and right, in a table of one mask that
\* is in ascending order.
SearchInv ==
  mode = "search" =>
    /\ route # NULL => pc = "done" /\ Matches(rtable[route], ip_dest)
    /\ pc \in {"search", "done"} /\ route = NULL /\ OneMask /\ Ascending =>
         \A k \in Indices : Matches(rtable[k], ip_dest) => k \in left..right
    /\ pc = "done" /\ route = NULL => left > right

LEMMA SearchInit == Init => SearchInv
  BY DEF Init, SearchInv

\* The words compared in the loop, and those of every entry, are numbers, and
\* equal only if the entry matches.
LEMMA Compared ==
  ASSUME TypeInv, NEW k \in Indices, NEW a \in Address
  PROVE  /\ host(Masked(a, rtable[k].mask)) \in Nat
         /\ host(Masked(rtable[k].prefix, rtable[k].mask)) \in Nat
         /\ host(Masked(a, rtable[k].mask)) = host(Masked(rtable[k].prefix, rtable[k].mask))
              <=> Matches(rtable[k], a)
  <1>1. rtable[k].prefix \in Address /\ rtable[k].mask \in Mask
    BY ConstantsAssumption DEF TypeInv, TypeOK, route_table_entry
  <1> QED
    BY <1>1, MaskedType, HostInjective DEF Matches

LEMMA SearchNext == TypeInv /\ SearchInv /\ [Next]_vars => SearchInv'
  <1> SUFFICES ASSUME TypeInv, SearchInv, [Next]_vars, mode' = "search"
               PROVE  SearchInv'
    BY DEF SearchInv
  <1> USE DEF tableVars
  <1>0. /\ mode = "search"
        /\ UNCHANGED <<rtable, rtable_len, Indices, OneMask, Ascending>>
    BY DEF Next, Search, Scan, vars, Call, Found, GoRight, GoLeft, NotFound,
           ScanEntry, ScanDone, Return, Indices, OneMask, Ascending
  <1>1. CASE Call
    <2>1. route = NULL /\ left = 0 /\ right = rtable_len - 1
      BY <1>1 DEF Call, TypeInv
    <2>2. \A k \in Indices : k \in left..right
      BY <2>1 DEF Indices
    <2> QED
      BY <1>0, <1>1, <2>1, <2>2 DEF Call, SearchInv
  <1>2. CASE Found
    <2>1. mid \in Indices /\ ip_dest \in Address
      BY <1>2, MidInRange DEF Found, TypeInv, TypeOK
    <2>2. Matches(rtable[mid], ip_dest)
      BY <1>2, <2>1, Compared DEF Found, masked_ip, masked_prefix
    <2>3. mid # NULL
      BY <2>1 DEF Indices, NULL
    <2> QED
      BY <1>0, <1>2, <2>2, <2>3 DEF Found, SearchInv
  <1>3. CASE GoRight \/ GoLeft
    <2>1. /\ pc = "search" /\ pc' = pc /\ route' = route /\ ip_dest' = ip_dest
          /\ left <= right
      BY <1>3 DEF GoRight, GoLeft
    <2>2. mid \in Indices /\ ip_dest \in Address
      BY <2>1, MidInRange DEF TypeInv, TypeOK
    <2>3. left \in Int /\ right \in Int /\ mid \in Int /\ \A k \in Indices : k \in Int
      BY <2>2 DEF TypeInv, TypeOK, Indices
    <2>4. ASSUME OneMask, Ascending, NEW k \in Indices, Matches(rtable[k], ip_dest)
          PROVE  /\ masked_ip > masked_prefix => k > mid
                 /\ masked_ip < masked_prefix => k < mid
      <3> DEFINE w(j) == host(Masked(rtable[j].prefix, rtable[j].mask))
      <3>1. masked_ip = w(k)
        <4>1. rtable[mid].mask = rtable[k].mask
          BY <2>2, <2>4 DEF OneMask
        <4> QED
          BY <2>2, <2>4, <4>1, Compared DEF masked_ip
      <3>2. masked_prefix = w(mid)
        BY DEF masked_prefix
      <3>3. w(k) \in Nat /\ w(mid) \in Nat
        BY <2>2, Compared
      <3>4. (k < mid => w(k) <= w(mid)) /\ (mid < k => w(mid) <= w(k))
        BY <2>2, <2>4 DEF Ascending
      <3> HIDE DEF w
      <3>5. k = mid => w(k) = w(mid)
        OBVIOUS
      <3> QED
        BY <2>3, <3>1, <3>2, <3>3, <3>4, <3>5
    <2>5. ASSUME route = NULL, OneMask, Ascending, NEW k \in Indices,
                 Matches(rtable[k], ip_dest)
          PROVE  k \in left'..right'
      <3>1. k \in left..right
        BY <1>0, <2>1, <2>5 DEF SearchInv
      <3>2. CASE GoRight
        <4>1. left' = mid + 1 /\ right' = right /\ k > mid
          BY <2>4, <2>5, <3>2 DEF GoRight
        <4> QED
          BY <2>3, <3>1, <4>1
      <3>3. CASE GoLeft
        <4>1. left' = left /\ right' = mid - 1 /\ k < mid
          BY <2>4, <2>5, <3>3 DEF GoLeft
        <4> QED
          BY <2>3, <3>1, <4>1
      <3> QED
        BY <1>3, <3>2, <3>3
    <2>6. route = NULL
      BY <1>0, <2>1 DEF SearchInv
    <2> QED
      BY <1>0, <2>1, <2>5, <2>6 DEF SearchInv, Matches
  <1>4. CASE NotFound
    BY <1>0, <1>4 DEF NotFound, SearchInv, Matches
  <1>5. CASE Scan
    BY <1>0, <1>5 DEF Scan, ScanEntry, ScanDone, TypeInv, TypeOK
  <1>6. CASE Return
    BY <1>0, <1>6 DEF Return, SearchInv
  <1>7. CASE UNCHANGED vars
    BY <1>7 DEF vars, SearchInv, Matches, Indices, OneMask, Ascending
  <1> QED
    BY <1>1, <1>2, <1>3, <1>4, <1>5, <1>6, <1>7 DEF Next, Search

LEMMA SearchInvariant == Spec => [](TypeInv /\ SearchInv)
  BY TypeInit, TypeNext, SearchInit, SearchNext, PTL DEF Spec

\* What the binary search finds matches, in every table.
THEOREM FoundRouteMatches == Spec => []FoundMatches
  <1>1. SearchInv => FoundMatches
    BY DEF SearchInv, FoundMatches
  <1> QED
    BY <1>1, SearchInvariant, PTL

\* In a table of one mask, in the order the search goes by, it finds the
\* longest match, and NULL only when nothing matches.
THEOREM SearchFindsBest == Spec => []SearchIsBest
  <1>1. ASSUME TypeInv, SearchInv
        PROVE  SearchIsBest
    <2> SUFFICES ASSUME mode = "search", pc = "done", OneMask, Ascending
                 PROVE  Best
      BY DEF SearchIsBest
    <2>1. CASE route = NULL
      <3>1. left > right /\ left \in Int /\ right \in Int
        BY <1>1, <2>1 DEF SearchInv, TypeInv, TypeOK
      <3>2. \A k \in Indices : ~ Matches(rtable[k], ip_dest)
        BY <1>1, <2>1, <3>1 DEF SearchInv
      <3> QED
        BY <2>1, <3>2 DEF Best
    <2>2. CASE route # NULL
      <3>1. route \in Indices /\ Matches(rtable[route], ip_dest)
        BY <1>1, <2>2 DEF SearchInv, TypeInv, TypeOK
      <3>2. ASSUME NEW k \in Indices
            PROVE  AtLeastAsLong(rtable[route].mask, rtable[k].mask)
        <4>1. rtable[route].mask = rtable[k].mask /\ rtable[k].mask \in Mask
          BY <1>1, <3>1, ConstantsAssumption
          DEF OneMask, TypeInv, TypeOK, route_table_entry
        <4> QED
          BY <4>1, AsLongAsItself
      <3> QED
        BY <2>2, <3>1, <3>2 DEF Best, LongestMatch
    <2> QED
      BY <2>1, <2>2
  <1> QED
    BY <1>1, SearchInvariant, PTL

-----------------------------------------------------------------------------
(* The scan.                                                               *)

\* The best of the entries that the scan has looked at.
ScanInv ==
  mode = "scan" =>
    /\ route = NULL => \A k \in 0..(i - 1) : ~ Matches(rtable[k], ip_dest)
    /\ route # NULL =>
         /\ Matches(rtable[route], ip_dest)
         /\ \A k \in 0..(i - 1) : Matches(rtable[k], ip_dest) =>
              ntohl(rtable[route].mask) >= ntohl(rtable[k].mask)
    /\ pc = "done" => i = rtable_len

LEMMA ScanInit == Init => ScanInv
  BY DEF Init, ScanInv

LEMMA ScanEntryKeeps ==
  ASSUME TypeInv, ScanInv, ScanEntry, mode = "scan"
  PROVE  ScanInv'
  <1>1. /\ i \in Indices /\ i \in Nat /\ i' = i + 1
        /\ UNCHANGED <<mode, rtable_len, rtable, pc, ip_dest>> /\ pc = "scan"
    BY DEF ScanEntry, tableVars, TypeInv, TypeOK, Indices
  <1>2. \A k \in 0..(i' - 1) : k \in 0..(i - 1) \/ k = i
    BY <1>1
  <1>3. \A k \in Indices : ntohl(rtable[k].mask) \in Nat
    BY NetworkOrder, ConstantsAssumption DEF TypeInv, TypeOK, route_table_entry
  <1>4. i # NULL /\ route \in Indices \union {NULL} /\ \A k \in 0..(i - 1) : k \in Indices
    BY <1>1 DEF TypeInv, TypeOK, Indices, NULL
  <1>5. CASE Matches(rtable[i], ip_dest) /\ Better(rtable[i])
    <2>1. route' = i
      BY <1>5 DEF ScanEntry
    <2>2. ASSUME NEW k \in 0..(i - 1), Matches(rtable[k], ip_dest)
          PROVE  ntohl(rtable[i].mask) >= ntohl(rtable[k].mask)
      <3>1. route # NULL /\ ntohl(rtable[route].mask) >= ntohl(rtable[k].mask)
        BY <2>2 DEF ScanInv
      <3>2. ntohl(rtable[i].mask) > ntohl(rtable[route].mask)
        BY <1>5, <3>1 DEF Better
      <3> QED
        BY <1>1, <1>3, <1>4, <3>1, <3>2
    <2>3. ntohl(rtable[i].mask) >= ntohl(rtable[i].mask)
      BY <1>1, <1>3
    <2> QED
      BY <1>1, <1>2, <1>4, <1>5, <2>1, <2>2, <2>3 DEF ScanInv, Matches
  <1>6. CASE ~ (Matches(rtable[i], ip_dest) /\ Better(rtable[i]))
    <2>1. route' = route
      BY <1>6 DEF ScanEntry
    <2>2. CASE ~ Matches(rtable[i], ip_dest)
      BY <1>1, <1>2, <2>1, <2>2 DEF ScanInv, Matches
    <2>3. CASE ~ Better(rtable[i])
      <3>1. route # NULL /\ ntohl(rtable[route].mask) >= ntohl(rtable[i].mask)
        BY <1>1, <1>3, <1>4, <2>3 DEF Better
      <3> QED
        BY <1>1, <1>2, <2>1, <3>1 DEF ScanInv, Matches
    <2> QED
      BY <1>6, <2>2, <2>3
  <1> QED
    BY <1>5, <1>6

LEMMA ScanNext == TypeInv /\ ScanInv /\ [Next]_vars => ScanInv'
  <1> SUFFICES ASSUME TypeInv, ScanInv, [Next]_vars, mode' = "scan"
               PROVE  ScanInv'
    BY DEF ScanInv
  <1> USE DEF tableVars
  <1>0. mode = "scan"
    BY DEF Next, Search, Scan, vars, Call, Found, GoRight, GoLeft, NotFound,
           ScanEntry, ScanDone, Return
  <1>1. CASE Call
    <2>1. i = 0 /\ route = NULL
      BY <1>1 DEF Call, TypeInv
    <2> QED
      BY <1>0, <1>1, <2>1 DEF Call, ScanInv
  <1>2. CASE Search
    BY <1>0, <1>2 DEF Search, Found, GoRight, GoLeft, NotFound, TypeInv, TypeOK
  <1>3. CASE ScanEntry
    BY <1>0, <1>3, ScanEntryKeeps
  <1>4. CASE ScanDone
    BY <1>4 DEF ScanDone, ScanInv, Matches
  <1>5. CASE Return
    BY <1>5 DEF Return, ScanInv
  <1>6. CASE UNCHANGED vars
    BY <1>6 DEF vars, ScanInv, Matches
  <1> QED
    BY <1>1, <1>2, <1>3, <1>4, <1>5, <1>6 DEF Next, Scan

\* The scan of lab 4 finds the longest match in every table.
THEOREM ScanFindsBest == Spec => []ScanIsBest
  <1>1. Spec => [](TypeInv /\ ScanInv)
    BY TypeInit, TypeNext, ScanInit, ScanNext, PTL DEF Spec
  <1>2. ASSUME TypeInv, ScanInv
        PROVE  ScanIsBest
    <2> SUFFICES ASSUME mode = "scan", pc = "done"
                 PROVE  Best
      BY DEF ScanIsBest
    <2>1. i = rtable_len /\ Indices = 0..(i - 1)
      BY <1>2 DEF ScanInv, Indices
    <2>2. \A k \in Indices : rtable[k].mask \in Mask
      BY <1>2, ConstantsAssumption DEF TypeInv, TypeOK, route_table_entry
    <2>3. CASE route = NULL
      BY <1>2, <2>1, <2>3 DEF ScanInv, Best
    <2>4. CASE route # NULL
      <3>1. route \in Indices /\ Matches(rtable[route], ip_dest)
        BY <1>2, <2>4 DEF ScanInv, TypeInv, TypeOK
      <3>2. ASSUME NEW k \in Indices, Matches(rtable[k], ip_dest)
            PROVE  AtLeastAsLong(rtable[route].mask, rtable[k].mask)
        <4>1. ntohl(rtable[route].mask) >= ntohl(rtable[k].mask)
          BY <1>2, <2>1, <2>4, <3>2 DEF ScanInv
        <4>2. rtable[route].mask \in Mask /\ rtable[k].mask \in Mask
          BY <2>2, <3>1
        <4> QED
          BY <4>1, <4>2, MaskOrder
      <3> QED
        BY <2>4, <3>1, <3>2 DEF Best, LongestMatch
    <2> QED
      BY <2>3, <2>4
  <1> QED
    BY <1>1, <1>2, PTL

=============================================================================
