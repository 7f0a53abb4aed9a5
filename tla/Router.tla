------------------------------- MODULE Router -------------------------------
(***************************************************************************)
(* The forwarding loops of the two routers, in a network of two of them:   *)
(* interface 0 joins one to the other, interface 1 leads to a host.  What  *)
(* get_best_route finds is a table; RouteLookup says how it is found.      *)
(*                                                                         *)
(* A router keeps nothing from one packet to the next, and each packet is  *)
(* handled to its end before the next is read.  Of the headers the model   *)
(* has the words that are looked at or changed; Ethernet addresses are     *)
(* left out.                                                               *)
(***************************************************************************)
EXTENDS InternetChecksum, FiniteSets

CONSTANTS
  Kinds,            \* of routers: "Tema1", "lab4"
  Tables,           \* bound: the tables, from addresses to interfaces
  MaxTtl,           \* bound: the highest ttl; 255 in a packet
  MaxPackets        \* bound: packets that hosts send

Routers    == {0, 1}
Interfaces == {0, 1}
NULL       == -1

\* The interfaces of the routers, then the hosts.
interface_ip(r, i) == 2 * r + i
Host(r)            == 4 + r
Addresses          == 0..5

ASSUME RouterAssumption ==
  /\ Kinds \subseteq {"Tema1", "lab4"}
  /\ Tables \subseteq [Routers -> [Addresses -> Interfaces \union {NULL}]]
  /\ MaxTtl \in Nat
  /\ MaxPackets \in Nat
  /\ WORD > 5 /\ MaxTtl < WORD      \* a sum of five words folds twice

VARIABLES
  kind,
  table,
  arp_table,        \* the addresses whose MAC a router knows
  alive,
  frames,           \* on the wire to a router
  sent              \* packets sent by the hosts

vars == <<kind, table, arp_table, alive, frames, sent>>

Types == {"data", "echo", "answer"}

protocol(f) == IF f.type = "data" THEN 0 ELSE 1

\* A packet and where it arrives; ttl0 and hops are what it was sent with
\* and how often it has been forwarded.
Frame == [type: Types, src: Addresses, dst: Addresses, ttl: 0..MaxTtl,
          check: 0..(WORD - 1), router: Routers, interface: Interfaces,
          ttl0: 0..MaxTtl, hops: 0..MaxTtl]

header_sum(f) == f.ttl + protocol(f) + f.src + f.dst

Checked(f) == [f EXCEPT !.check = checksum(header_sum(f))]

Intact(f) == checksum(header_sum(f) + f.check) = 0

TypeOK ==
  /\ kind \in [Routers -> Kinds]
  /\ table \in Tables
  /\ arp_table \in [Routers -> SUBSET Addresses]
  /\ alive \in [Routers -> BOOLEAN]
  /\ frames \subseteq Frame
  /\ sent \in 0..MaxPackets

Init ==
  /\ kind \in [Routers -> Kinds]
  /\ table \in Tables
  /\ \E known \in {Addresses, {Host(r) : r \in Routers}} :
       arp_table = [r \in Routers |-> known]
  /\ alive = [r \in Routers |-> TRUE]
  /\ frames = {}
  /\ sent = 0

\* A host sends a packet, with its checksum or with a wrong one.
SendPacket(r, type, dst, ttl, damaged) ==
  LET f == Checked([type |-> type, src |-> Host(r), dst |-> dst, ttl |-> ttl,
                    check |-> 0, router |-> r, interface |-> 1,
                    ttl0 |-> ttl, hops |-> 0])
  IN  /\ sent < MaxPackets
      /\ sent' = sent + 1
      /\ frames' = frames \union
           {IF damaged THEN [f EXCEPT !.check = (f.check + 1) % WORD] ELSE f}
      /\ UNCHANGED <<kind, table, arp_table, alive>>

-----------------------------------------------------------------------------
(* What becomes of a frame f at a router r.  Each outcome takes f off the  *)
(* wire and puts at most one other frame on it.                            *)

\* On interface 0 to the other router; on interface 1 it leaves the network.
OnLink(f, r, i) ==
  IF i = 0 THEN {[f EXCEPT !.router = 1 - r, !.interface = 0]} ELSE {}

Drop(f) == frames' = frames \ {f} /\ UNCHANGED alive

Send(f, g, r, i) == frames' = (frames \ {f}) \union OnLink(g, r, i) /\ UNCHANGED alive

Crash(f, r) == frames' = frames \ {f} /\ alive' = [alive EXCEPT ![r] = FALSE]

\* Source and destination change places.  The ttl is what malloc() left there.
Answer(f, ttl) ==
  Checked([f EXCEPT !.type = "answer", !.src = f.dst, !.dst = f.src,
                    !.ttl = ttl, !.ttl0 = ttl, !.hops = 0])

\* The answer leaves by the way the packet came.
send_icmp_error(f, r) ==
  \E ttl \in 0..MaxTtl : Send(f, Answer(f, ttl), r, f.interface)

KeepsTtl(f) ==              \* mutant: the ttl is left as it is
  Checked([f EXCEPT !.hops = IF f.hops < MaxTtl THEN f.hops + 1 ELSE f.hops])

\* The ttl is a uint8_t and would wrap at 0.
Decremented(f) ==
  Checked([f EXCEPT !.ttl = (f.ttl - 1) % (MaxTtl + 1), !.hops = f.hops + 1])

\* The next hop of a route: the other router, or the host itself.
next_hop(r, i) == IF i = 0 THEN interface_ip(1 - r, 0) ELSE Host(r)

Tema1Expired(f) == f.ttl <= 1
NeverExpired(f) == FALSE                    \* mutant: the ttl is not looked at
Lab4Expired(f)  == f.ttl = 0

\* Only the address of the interface it came in by makes a packet "for me".
EchoForMe(f, r) == f.type = "echo" /\ f.dst = interface_ip(r, f.interface)

ReplyAndGoOn(f, r) ==       \* mutant: no continue after the reply
  /\ EchoForMe(f, r)
  /\ frames' = (frames \ {f}) \union OnLink(Answer(f, MaxTtl), r, f.interface)
                 \union OnLink(f, r, 0)
  /\ UNCHANGED alive

EchoReply(f, r) == EchoForMe(f, r) /\ send_icmp_error(f, r)

Unreachable(f, r) ==
  /\ ~EchoForMe(f, r)
  /\ table[r][f.dst] = NULL \/ Tema1Expired(f)
  /\ send_icmp_error(f, r)

Forward(f, r) ==
  LET route == table[r][f.dst]
  IN  /\ ~EchoForMe(f, r) /\ route # NULL /\ ~Tema1Expired(f)
      /\ IF next_hop(r, route) \in arp_table[r]
         THEN Send(f, Decremented(f), r, route)
         ELSE Drop(f)

Tema1(f, r) ==
  \/ ~Intact(f) /\ Drop(f)
  \/ Intact(f) /\ (EchoReply(f, r) \/ Unreachable(f, r) \/ Forward(f, r))

\* The MAC entry of the destination is used without a look at whether there
\* is one, and its address as the number of an interface: a read far outside
\* the array of interfaces.
Lab4(f, r) ==
  LET route == table[r][f.dst]
  IN  \/ (~Intact(f) \/ route = NULL \/ Lab4Expired(f)) /\ Drop(f)
      \/ /\ Intact(f) /\ route # NULL /\ ~Lab4Expired(f)
         /\ \/ Crash(f, r)
            \/ f.dst \in arp_table[r] /\ Send(f, Decremented(f), r, route)

\* Nobody reads what arrives at a router that has crashed.
Handle(r) ==
  \E f \in frames :
    /\ f.router = r
    /\ \/ alive[r] /\ kind[r] = "Tema1" /\ Tema1(f, r)
       \/ alive[r] /\ kind[r] = "lab4" /\ Lab4(f, r)
       \/ ~alive[r] /\ Drop(f)
    /\ UNCHANGED <<kind, table, arp_table, sent>>

Next ==
  \/ \E r \in Routers : Handle(r)
  \/ \E r \in Routers, type \in {"data", "echo"}, dst \in Addresses,
        ttl \in 0..MaxTtl, damaged \in BOOLEAN :
       SendPacket(r, type, dst, ttl, damaged)

Spec == Init /\ [][Next]_vars

\* A router that has a frame to read reads it.
FairSpec == Spec /\ \A r \in Routers : WF_vars(Handle(r))

-----------------------------------------------------------------------------

\* A frame that a router has sent carries a checksum the next one accepts:
\* only what was damaged by its sender is ever dropped as damaged.
ChecksumsHold == \A f \in frames : f.interface = 0 => Intact(f)

\* A packet, an answer too, is forwarded at most as often as the ttl it was sent
\* with says, in whatever loop the tables send it and whichever of the two
\* tests of the ttl it meets: lab 4 sends a packet on with ttl 0, and neither
\* router ever decrements a 0, which would wrap to 255.
HopsBounded == \A f \in frames : f.hops <= f.ttl0

\* Every outcome of the loop ends with the packet: it is not answered and
\* forwarded as well, so that the network never holds more than was sent.
OneFramePerPacket == Cardinality(frames) <= sent

\* A packet does not stay in the network, though the tables may form a loop.
\* (Answers may: theirs is not a ttl anybody has set.)
PacketsDie == (\E f \in frames : f.type # "answer") ~> (\A f \in frames : f.type = "answer")

=============================================================================
