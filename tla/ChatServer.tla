----------------------------- MODULE ChatServer -----------------------------
(***************************************************************************)
(* The chat of lab 7: run_chat_multi_server in server.c, one thread that   *)
(* polls its sockets and relays every packet to every client, recv_all and *)
(* send_all of common.c, and the loop of run_client in client.c.  A packet *)
(* has a fixed size and crosses a TCP stream in two parts, enough for a    *)
(* recv() or send() that transfers less than it was asked for.             *)
(***************************************************************************)
EXTENDS Naturals, Sequences, FiniteSets

CONSTANTS
  Clients,
  MaxPackets,   \* bound: packets typed at each client
  SockBuf,      \* parts of packets that one direction of a connection holds
  Closing       \* whether clients may be closed

ASSUME ConstantsAssumption ==
  /\ IsFiniteSet(Clients)
  /\ MaxPackets \in Nat
  /\ SockBuf \in Nat \ {0}
  /\ Closing \in BOOLEAN

\* The n-th packet of client from, in two parts.  The clients are fewer than
\* MAX_CONNECTIONS, whose excess the code does not check.
Part == [from: Clients, n: 1..MaxPackets, part: {1, 2}]
Slots == 1..Cardinality(Clients)

VARIABLES
  conn,         \* each connection: "none", "pending" in listen()'s queue,
                \* "open", closed by the client ("fin"), reset by it with
                \* the error still to be reported ("rst"), or "dead"
  up, down,     \* parts under way to the server and to the client
  typed, got,   \* parts each client has sent, and all it has received
  sPc,
  poll_fds,     \* the clients in slots 1, 2, ...: slot 0 is listenfd
  revents,      \* POLLIN of each slot, whether or not it is in use
  listening,    \* POLLIN of slot 0
  i, j,         \* the loops over poll_fds, polling and forwarding
  received_packet, bytes, bytes_sent

netVars    == <<conn, up, down>>
clientVars == <<typed, got>>
tableVars  == <<poll_fds, revents, listening>>
packetVars == <<received_packet, bytes, bytes_sent, j>>
vars       == <<netVars, clientVars, tableVars, packetVars, sPc, i>>

NoPart == [from |-> "nobody", n |-> 0, part |-> 0]

TypeOK ==
  /\ conn \in [Clients -> {"none", "pending", "open", "fin", "rst", "dead"}]
  /\ up \in [Clients -> Seq(Part)]
  /\ down \in [Clients -> Seq(Part \union {NoPart})]
  /\ \A c \in Clients : Len(up[c]) <= SockBuf /\ Len(down[c]) <= SockBuf
  /\ typed \in [Clients -> 0..(2 * MaxPackets)]
  /\ got \in [Clients -> Seq(Part \union {NoPart})]
  /\ sPc \in {"poll", "scan", "recv", "send", "killed"}
  /\ poll_fds \in Seq(Clients) /\ Len(poll_fds) <= Cardinality(Clients)
  /\ revents \in [Slots -> BOOLEAN]
  /\ listening \in BOOLEAN
  /\ i \in 0..(Cardinality(Clients) + 1)
  /\ j \in 1..(Cardinality(Clients) + 1)
  /\ received_packet \in [{1, 2} -> Part \union {NoPart}]
  /\ bytes \in 0..2
  /\ bytes_sent \in 0..1

\* poll_fds is a local array: revents holds whatever was on the stack.
Init ==
  /\ conn = [c \in Clients |-> "none"]
  /\ up = [c \in Clients |-> <<>>]
  /\ down = [c \in Clients |-> <<>>]
  /\ typed = [c \in Clients |-> 0]
  /\ got = [c \in Clients |-> <<>>]
  /\ sPc = "poll"
  /\ poll_fds = <<>>
  /\ revents \in [Slots -> BOOLEAN]
  /\ listening = FALSE
  /\ i = 0
  /\ j = 1
  /\ received_packet = <<NoPart, NoPart>>
  /\ bytes = 0
  /\ bytes_sent = 0

-----------------------------------------------------------------------------
(* The clients, and TCP as a Linux host presents it to the server.         *)

\* In the middle of send_all the client does not receive, and conversely.
Sending(c)   == typed[c] % 2 = 1
Receiving(c) == Len(got[c]) % 2 = 1

Connect(c) ==
  /\ conn[c] = "none"
  /\ conn' = [conn EXCEPT ![c] = "pending"]
  /\ UNCHANGED <<up, down, clientVars, tableVars, packetVars, sPc, i>>

ClientSend(c) ==
  /\ conn[c] \in {"pending", "open"}
  /\ ~Receiving(c)
  /\ typed[c] < 2 * MaxPackets
  /\ Len(up[c]) < SockBuf
  /\ typed' = [typed EXCEPT ![c] = @ + 1]
  /\ up' = [up EXCEPT ![c] = Append(@,
             [from |-> c, n |-> (typed[c] \div 2) + 1, part |-> (typed[c] % 2) + 1])]
  /\ UNCHANGED <<conn, down, got, tableVars, packetVars, sPc, i>>

ClientReceive(c) ==
  /\ conn[c] = "open"
  /\ ~Sending(c)
  /\ down[c] # <<>>
  /\ got' = [got EXCEPT ![c] = Append(@, Head(down[c]))]
  /\ down' = [down EXCEPT ![c] = Tail(@)]
  /\ UNCHANGED <<conn, up, typed, tableVars, packetVars, sPc, i>>

\* The client process ends.  With nothing left unread TCP ends the stream in
\* order; unread data resets the connection at once, and data still under way
\* may do so behind the end of the stream.
ClientClose(c) ==
  /\ Closing
  /\ conn[c] = "open"
  /\ \E ending \in IF down[c] = <<>> THEN {"fin"} ELSE {"fin", "rst", "dead"} :
       /\ conn' = [conn EXCEPT ![c] = ending]
       /\ down' = [down EXCEPT ![c] = <<>>]
  /\ UNCHANGED <<up, clientVars, tableVars, packetVars, sPc, i>>

-----------------------------------------------------------------------------
(* The server: poll and the loop over the sockets.                         *)

Pending == {c \in Clients : conn[c] = "pending"}

Readable(c) == up[c] # <<>> \/ conn[c] \in {"fin", "rst", "dead"}

InUse == 1..Len(poll_fds)

\* poll() reports the first num_clients slots and leaves the others alone.
Poll ==
  /\ sPc = "poll"
  /\ Pending # {} \/ \E k \in InUse : Readable(poll_fds[k])
  /\ listening' = (Pending # {})
  /\ revents' = [k \in Slots |-> IF k \in InUse THEN Readable(poll_fds[k])
                                                ELSE revents[k]]
  /\ sPc' = "scan"
  /\ i' = 0
  /\ UNCHANGED <<netVars, clientVars, poll_fds, packetVars>>

\* A new client takes the next slot, within the range of the running loop;
\* its revents is not set.
Accept(c) ==
  /\ sPc = "scan" /\ i = 0 /\ listening
  /\ c \in Pending
  /\ conn' = [conn EXCEPT ![c] = "open"]
  /\ poll_fds' = Append(poll_fds, c)
  /\ i' = 1
  /\ UNCHANGED <<up, down, clientVars, revents, listening, packetVars, sPc>>

NextSlot ==
  /\ sPc = "scan"
  /\ IF i = 0 THEN ~listening ELSE i \in InUse /\ ~revents[i]
  /\ i' = i + 1
  /\ UNCHANGED <<netVars, clientVars, tableVars, packetVars, sPc>>

StartReceiving ==
  /\ sPc = "scan" /\ i \in InUse /\ revents[i]
  /\ bytes' = 0
  /\ sPc' = "recv"
  /\ UNCHANGED <<netVars, clientVars, tableVars, received_packet, bytes_sent,
                 j, i>>

ScanDone ==
  /\ sPc = "scan" /\ i > Len(poll_fds)
  /\ sPc' = "poll"
  /\ UNCHANGED <<netVars, clientVars, tableVars, packetVars, i>>

-----------------------------------------------------------------------------
(* The server: recv_all, and what the loop makes of its result.            *)

ForwardsFromSecond == sPc' = "send" /\ j' = 2 /\ bytes_sent' = 0     \* mutant

\* What is in received_packet is forwarded to slots 1, 2, ...
Forwarding == sPc' = "send" /\ j' = 1 /\ bytes_sent' = 0

FirstPartOnly(k) == k >= 1      \* mutant: one recv() is taken for a packet

Complete(k) == k = 2

\* recv() returns part of a packet.
RecvPart ==
  LET c == poll_fds[i] IN
  /\ sPc = "recv"
  /\ up[c] # <<>>
  /\ received_packet' = [received_packet EXCEPT ![bytes + 1] = Head(up[c])]
  /\ up' = [up EXCEPT ![c] = Tail(@)]
  /\ bytes' = bytes + 1
  /\ IF Complete(bytes + 1) THEN Forwarding ELSE UNCHANGED <<sPc, j, bytes_sent>>
  /\ UNCHANGED <<conn, down, clientVars, tableVars, i>>

\* At the end of the stream, or once the reset has been reported, recv()
\* returns 0 and recv_all calls it again, for ever: there is no step.  The
\* first call after a reset fails, and recv_all returns what it has: a part
\* counts as a packet, nothing as the end of the connection.
RecvFails ==
  LET c == poll_fds[i] IN
  /\ sPc = "recv"
  /\ up[c] = <<>> /\ conn[c] = "rst"
  /\ conn' = [conn EXCEPT ![c] = "dead"]
  /\ IF bytes > 0
     THEN Forwarding /\ UNCHANGED <<poll_fds, revents, i>>
     ELSE /\ poll_fds' = [k \in 1..(Len(poll_fds) - 1) |->
                            poll_fds[IF k < i THEN k ELSE k + 1]]
          /\ revents' = [k \in Slots |-> IF k >= i /\ k < Len(poll_fds)
                                         THEN revents[k + 1] ELSE revents[k]]
          /\ sPc' = "scan"
          /\ i' = i + 1
          /\ UNCHANGED <<j, bytes_sent>>
  /\ UNCHANGED <<up, down, clientVars, listening, received_packet, bytes>>

-----------------------------------------------------------------------------
(* The server: send_all to every client, the sender too.                   *)

KeepsOffset ==                  \* mutant: the next client is sent the rest only
  IF bytes_sent = 1 THEN j' = j + 1 /\ UNCHANGED bytes_sent
                    ELSE bytes_sent' = 1 /\ UNCHANGED j

PartSent ==
  IF bytes_sent = 1 THEN j' = j + 1 /\ bytes_sent' = 0
                    ELSE bytes_sent' = 1 /\ UNCHANGED j

SendPart ==
  LET c == poll_fds[j] IN
  /\ sPc = "send" /\ j \in InUse
  /\ conn[c] = "open"
  /\ Len(down[c]) < SockBuf
  /\ down' = [down EXCEPT ![c] = Append(@, received_packet[bytes_sent + 1])]
  /\ PartSent
  /\ UNCHANGED <<conn, up, clientVars, tableVars, received_packet, bytes, sPc, i>>

\* What is sent to a closed client makes its end reset the connection, now or
\* after more has been sent.
SendToClosed ==
  LET c == poll_fds[j] IN
  /\ sPc = "send" /\ j \in InUse
  /\ conn[c] = "fin"
  /\ conn' \in {conn, [conn EXCEPT ![c] = "dead"]}
  /\ PartSent
  /\ UNCHANGED <<up, down, clientVars, tableVars, received_packet, bytes, sPc, i>>

\* send() reports a reset once; send_all returns and its result is ignored.
SendFails ==
  LET c == poll_fds[j] IN
  /\ sPc = "send" /\ j \in InUse
  /\ conn[c] = "rst"
  /\ conn' = [conn EXCEPT ![c] = "dead"]
  /\ j' = j + 1 /\ bytes_sent' = 0
  /\ UNCHANGED <<up, down, clientVars, tableVars, received_packet, bytes, sPc, i>>

\* The next send() raises SIGPIPE, which ends the server.
Killed ==
  /\ sPc = "send" /\ j \in InUse
  /\ conn[poll_fds[j]] = "dead"
  /\ sPc' = "killed"
  /\ UNCHANGED <<netVars, clientVars, tableVars, packetVars, i>>

Forwarded ==
  /\ sPc = "send" /\ j > Len(poll_fds)
  /\ sPc' = "scan"
  /\ i' = i + 1
  /\ UNCHANGED <<netVars, clientVars, tableVars, packetVars>>

-----------------------------------------------------------------------------

Server ==
  \/ Poll \/ (\E c \in Clients : Accept(c)) \/ NextSlot \/ StartReceiving
  \/ ScanDone \/ RecvPart \/ RecvFails
  \/ SendPart \/ SendToClosed \/ SendFails \/ Killed \/ Forwarded

Client(c) == Connect(c) \/ ClientSend(c) \/ ClientReceive(c) \/ ClientClose(c)

Next == Server \/ \E c \in Clients : Client(c)

\* The server runs, and a client finishes the packet it is sending or
\* receiving and reads what has come; it need not connect, type or end.
Fairness ==
  /\ WF_vars(Server)
  /\ \A c \in Clients : WF_vars(Sending(c) /\ ClientSend(c))
  /\ \A c \in Clients : WF_vars(ClientReceive(c))

Spec == Init /\ [][Next]_vars

FairSpec == Spec /\ Fairness

-----------------------------------------------------------------------------
(* Safety.                                                                 *)

\* All the parts a client has been sent, read or not; what it had not read when
\* it ended is gone.
Stream(c) == got[c] \o down[c]

\* The packets of a stream, in order: a pair of parts each.
Packet(s, k) == <<s[2 * k - 1], s[2 * k]>>

Whole(p) == p[1].part = 1 /\ p[2] = [p[1] EXCEPT !.part = 2]

NoReset == \A c \in Clients : conn[c] \notin {"rst", "dead"}

\* As long as no connection has been reset, every client is sent whole
\* packets only, never the parts of two, however recv() and send() split them.
PacketsStayWhole ==
  NoReset =>
    \A c \in Clients : \A k \in 1..(Len(Stream(c)) \div 2) :
      Whole(Packet(Stream(c), k))

\* Two packets are never seen in opposite orders by two clients, and no client
\* sees one twice.
SameOrder ==
  NoReset =>
    \A c, d \in Clients :
      \A k, l \in DOMAIN Stream(c), m, n \in DOMAIN Stream(d) :
        Stream(c)[k] = Stream(d)[m] /\ Stream(c)[l] = Stream(d)[n] /\ k < l
          => m < n

-----------------------------------------------------------------------------
(* Liveness.                                                               *)

\* The only deadlock: the server waits for room to send to a client that
\* waits for room to send to the server.
CircularWait ==
  /\ sPc = "send" /\ j \in InUse
  /\ LET c == poll_fds[j]
     IN  Len(down[c]) = SockBuf /\ Sending(c) /\ Len(up[c]) = SockBuf

\* The server waits for a packet of a client that has sent nothing, because it
\* took the revents of the client's slot for that of the client.
AwaitsSilent ==
  /\ sPc = "recv" /\ bytes = 0
  /\ conn[poll_fds[i]] = "open" /\ up[poll_fds[i]] = <<>>

SomebodyLeft == \E c \in Clients : conn[c] \in {"fin", "rst", "dead"}

Has(c, p) == \E k \in DOMAIN got[c] : got[c][k] = p

\* As long as nobody leaves, a packet on its way to the server reaches every
\* other client that is connected by then, unless the server ends in that
\* deadlock or listens to a client that is silent.
PacketsAreRelayed ==
  \A d \in Clients : \A p \in {q \in Part : q.from # d} :
    (conn[d] = "open" /\ \E k \in DOMAIN up[p.from] : up[p.from][k] = p)
      ~> (Has(d, p) \/ CircularWait \/ AwaitsSilent \/ SomebodyLeft)

=============================================================================
