--------------------------- MODULE MCRouteLookup ---------------------------
(* RouteLookup for TLC, with the claim of Tema1_pcom that does not hold.    *)
EXTENDS RouteLookup

\* The masks /0, /2 and /4 of addresses of four one-bit octets, with every
\* prefix that has no bits outside its mask.
MCMasks == {[k \in 1..4 |-> IF k <= n THEN OCTET - 1 ELSE 0] : n \in {0, 2, 4}}

MCRoutes == {r \in [prefix : Address, mask : MCMasks] :
               Masked(r.prefix, r.mask) = r.prefix}

\* "Call get_best_route to find the most specific route" (router.c:164): the
\* binary search finds a route that matches, and none has a longer mask.
FindsMostSpecific == mode = "search" /\ pc = "done" => Best

=============================================================================
