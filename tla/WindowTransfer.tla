--------------------------- MODULE WindowTransfer ---------------------------
(***************************************************************************)
(* The two file transfers of lab 5 (lab7/lab5 holds a copy), over UDP on a *)
(* path that keeps the order of datagrams: send_file_window and            *)
(* send_file_start_stop in client.c, recv_seq_udp and recv_a_file in       *)
(* server.c.  Chunk number n is the n-th payload of the file, from 0; the  *)
(* datagram after the last chunk is empty and ends the file.  Neither      *)
(* datagrams nor acknowledgements carry a number.                          *)
(***************************************************************************)
EXTENDS Naturals, Sequences

CONSTANTS
  MaxChunks,    \* bound: the longest file
  window_size,
  Modes,        \* the functions that main may call
  Lossy         \* the values that lossy may have

ASSUME ConstantsAssumption ==
  /\ MaxChunks \in Nat
  /\ window_size \in Nat \ {0}
  /\ Modes \subseteq {"window", "start_stop"}
  /\ Lossy \subseteq BOOLEAN

VARIABLES
  mode, chunks, \* which function sends a file of how many chunks
  lossy,        \* whether the links lose datagrams (topo.py: loss=0)
  cPc,          \* the client: in the "burst" or "slide" loop of the window,
                \* about to "send" or in "wait" for stop-and-wait, or "done"
  sent,         \* chunks taken from the file or from datagram_queue so far
  toServer,     \* datagrams under way, each given by its chunk number
  acks,         \* number of acknowledgements under way
  sPc,          \* the server: in its "receive" loop or "closed"
  file          \* what the server has written

envVars    == <<mode, chunks, lossy>>
clientVars == <<cPc, sent>>
serverVars == <<sPc, file>>
windowVars == <<envVars, clientVars, toServer, acks, serverVars>>

WindowTypeOK ==
  /\ mode \in Modes
  /\ chunks \in 0..MaxChunks
  /\ lossy \in BOOLEAN
  /\ cPc \in {"burst", "slide", "send", "wait", "done"}
  /\ sent \in 0..(chunks + 1)
  /\ toServer \in Seq(0..chunks)
  /\ acks \in Nat
  /\ sPc \in {"receive", "closed"}
  /\ file \in Seq(0..chunks)

\* send_file_window has read the whole file into datagram_queue.
WindowInit ==
  /\ mode \in Modes
  /\ chunks \in 0..MaxChunks
  /\ lossy \in Lossy
  /\ cPc = IF mode = "window" THEN "burst" ELSE "send"
  /\ sent = 0
  /\ toServer = <<>>
  /\ acks = 0
  /\ sPc = "receive"
  /\ file = <<>>

\* The next datagram leaves datagram_queue and is sent.
SendHead ==
  /\ toServer' = Append(toServer, sent)
  /\ sent' = sent + 1

queue_empty == sent > chunks

-----------------------------------------------------------------------------
(* send_file_window.                                                       *)

BurstOver == sent >= window_size

FirstWindow ==
  /\ cPc = "burst"
  /\ ~BurstOver /\ ~queue_empty
  /\ SendHead
  /\ UNCHANGED <<envVars, cPc, acks, serverVars>>

StartSliding ==
  /\ cPc = "burst"
  /\ BurstOver \/ queue_empty
  /\ cPc' = "slide"
  /\ UNCHANGED <<envVars, sent, toServer, acks, serverVars>>

SlideEarly ==       \* mutant: the next datagram does not wait for an ack
  /\ cPc = "slide"
  /\ ~queue_empty
  /\ SendHead
  /\ UNCHANGED <<envVars, cPc, acks, serverVars>>

Slide ==
  /\ cPc = "slide"
  /\ ~queue_empty
  /\ acks > 0
  /\ acks' = acks - 1
  /\ SendHead
  /\ UNCHANGED <<envVars, cPc, serverVars>>

\* The last window is not waited for: main closes the socket.
WindowDone ==
  /\ cPc = "slide"
  /\ queue_empty
  /\ cPc' = "done"
  /\ UNCHANGED <<envVars, sent, toServer, acks, serverVars>>

-----------------------------------------------------------------------------
(* send_file_start_stop.                                                   *)

\* The empty chunk ends the loop before it is sent.
SendChunk ==
  /\ cPc = "send"
  /\ IF sent = chunks
     THEN cPc' = "done" /\ UNCHANGED <<sent, toServer>>
     ELSE cPc' = "wait" /\ SendHead
  /\ UNCHANGED <<envVars, acks, serverVars>>

WaitAck ==
  /\ cPc = "wait"
  /\ acks > 0
  /\ acks' = acks - 1
  /\ cPc' = "send"
  /\ UNCHANGED <<envVars, sent, toServer, serverVars>>

-----------------------------------------------------------------------------
(* The server, recv_a_file calling recv_seq_udp.                           *)

Written(n) == Append(file, n)

EndsBeforeLast(n) == n >= chunks - 1       \* mutant: ends one chunk early

EndOfFile(n) == n = chunks

\* The acknowledgement is sent before the datagram is looked at.
ServerReceive ==
  /\ sPc = "receive"
  /\ toServer # <<>>
  /\ toServer' = Tail(toServer)
  /\ acks' = acks + 1
  /\ IF EndOfFile(Head(toServer))
     THEN sPc' = "closed" /\ UNCHANGED file
     ELSE file' = Written(Head(toServer)) /\ UNCHANGED sPc
  /\ UNCHANGED <<envVars, clientVars>>

-----------------------------------------------------------------------------
(* The network.                                                            *)

LoseDatagram ==
  /\ lossy
  /\ toServer # <<>>
  /\ toServer' = Tail(toServer)
  /\ UNCHANGED <<envVars, clientVars, acks, serverVars>>

LoseAck ==
  /\ lossy
  /\ acks > 0
  /\ acks' = acks - 1
  /\ UNCHANGED <<envVars, clientVars, toServer, serverVars>>

-----------------------------------------------------------------------------

Client == FirstWindow \/ StartSliding \/ Slide \/ WindowDone
            \/ SendChunk \/ WaitAck

WindowNext == Client \/ ServerReceive \/ LoseDatagram \/ LoseAck

\* The two programs run, and what is not lost arrives.
WindowFairness == WF_windowVars(Client) /\ WF_windowVars(ServerReceive)

WindowSpec == WindowInit /\ [][WindowNext]_windowVars

-----------------------------------------------------------------------------
(* Safety.                                                                 *)

\* The client never has more than a window under way, counting datagrams and
\* the acknowledgements that answer them, though it keeps no count of them
\* and the first window is sent without waiting.
WindowBound == Len(toServer) + acks <= window_size

\* Without loss a closed file is the whole file, each chunk in its place: the
\* empty datagram that ends it overtakes none of the window sent with it.
ClosedIsWhole ==
  ~lossy /\ sPc = "closed" => file = [i \in 1..chunks |-> i - 1]

-----------------------------------------------------------------------------
(* Liveness.                                                               *)

\* Without loss the file arrives and the client ends, though it never waits
\* for the acknowledgements of its last window; the window transfer ends the
\* server as well.
FileArrives ==
  /\ ~lossy ~> cPc = "done" /\ Len(file) = chunks
  /\ ~lossy /\ mode = "window" ~> sPc = "closed"

=============================================================================
