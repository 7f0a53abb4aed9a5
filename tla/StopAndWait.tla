---------------------------- MODULE StopAndWait ----------------------------
(***************************************************************************)
(* The stop-and-wait file transfer of lab 6: send_file_start_stop in       *)
(* client.c, recv_seq_udp and recv_a_file in server.c, over UDP on a path  *)
(* that loses datagrams.  Chunk number n of the file is its n-th payload,  *)
(* counted from 0; the datagram after the last chunk has len 0 and ends    *)
(* the file.                                                               *)
(*                                                                         *)
(* In the committed client.c main calls send_file_go_back_n, which is not  *)
(* finished; the call of send_file_start_stop is the one commented out     *)
(* above it.  This is what the two programs do with that call in place.    *)
(***************************************************************************)
EXTENDS Naturals, Sequences

CONSTANTS
  MaxChunks,    \* bound: the longest file
  SEQ_MOD,      \* number of values of d.seq, a uint16_t: 2^16
  NetCap,       \* bound: datagrams and acknowledgements under way
  Timely        \* the values that timely may have

ASSUME ConstantsAssumption ==
  /\ MaxChunks \in Nat
  /\ SEQ_MOD \in Nat \ {0}
  /\ NetCap \in Nat \ {0}
  /\ Timely \subseteq BOOLEAN

VARIABLES
  chunks,       \* length of the file being sent
  timely,       \* SO_RCVTIMEO only expires when nothing is under way
  cPc,          \* the client: about to "send", in recvfrom ("wait"), "done"
  seq,          \* the client's seq: chunks read from the file so far
  toServer,     \* datagrams under way, each given by its chunk number
  toClient,     \* acknowledgements under way
  sPc,          \* the server: in its "receive" loop or "closed"
  expected_seq,
  file          \* what the server has written, chunk by chunk

envVars    == <<chunks, timely>>
clientVars == <<cPc, seq>>
serverVars == <<sPc, expected_seq, file>>
vars       == <<envVars, clientVars, toServer, toClient, serverVars>>

Chunk == 0..chunks      \* chunks itself is the empty payload

TypeOK ==
  /\ chunks \in 0..MaxChunks
  /\ timely \in BOOLEAN
  /\ cPc \in {"send", "wait", "done"}
  /\ seq \in 0..(chunks + 1)
  /\ toServer \in Seq(Chunk)
  /\ toClient \in Seq(0..(chunks + 1))
  /\ sPc \in {"receive", "closed"}
  /\ expected_seq \in 0..(chunks + 1)
  /\ file \in Seq(Chunk)

Init ==
  /\ chunks \in 0..MaxChunks
  /\ timely \in Timely
  /\ cPc = "send"
  /\ seq = 0
  /\ toServer = <<>>
  /\ toClient = <<>>
  /\ sPc = "receive"
  /\ expected_seq = 0
  /\ file = <<>>

\* The number a datagram carries: the int seq stored in a uint16_t.
d_seq(n) == n % SEQ_MOD

-----------------------------------------------------------------------------
(* The client, send_file_start_stop.                                       *)

\* Read the next chunk and send it; the empty one is sent and not waited for.
SendNext ==
  /\ cPc = "send"
  /\ seq' = seq + 1
  /\ toServer' = Append(toServer, seq)
  /\ cPc' = IF seq = chunks THEN "done" ELSE "wait"
  /\ UNCHANGED <<envVars, toClient, serverVars>>

\* Any datagram that arrives is the acknowledgement: ack is never read.
RecvAck ==
  /\ cPc = "wait"
  /\ toClient # <<>>
  /\ toClient' = Tail(toClient)
  /\ cPc' = "send"
  /\ UNCHANGED <<envVars, seq, toServer, serverVars>>

GiveUp ==       \* mutant: a timeout counts as an acknowledgement
  /\ cPc = "wait"
  /\ timely => toServer = <<>> /\ toClient = <<>>
  /\ cPc' = "send"
  /\ UNCHANGED <<envVars, seq, toServer, toClient, serverVars>>

NoResend == FALSE       \* mutant: the client waits for ever

\* recvfrom timed out (EWOULDBLOCK, EAGAIN): send the same datagram again.
Timeout ==
  /\ cPc = "wait"
  /\ timely => toServer = <<>> /\ toClient = <<>>
  /\ Len(toServer) + Len(toClient) < NetCap
  /\ toServer' = Append(toServer, seq - 1)
  /\ UNCHANGED <<envVars, clientVars, toClient, serverVars>>

-----------------------------------------------------------------------------
(* The server, recv_a_file calling recv_seq_udp.                           *)

AnySegment(n) == TRUE       \* mutant: duplicates are not told apart

AtLeastExpected(n) == d_seq(n) >= expected_seq      \* mutant: gaps are accepted

ExpectedSegment(n) == d_seq(n) = expected_seq

\* Every datagram is acknowledged with the number expected before it.
ServerReceive ==
  /\ sPc = "receive"
  /\ toServer # <<>>
  /\ toServer' = Tail(toServer)
  /\ toClient' = Append(toClient, expected_seq)
  /\ LET n == Head(toServer)
     IN  IF ~ExpectedSegment(n)
         THEN UNCHANGED serverVars
         ELSE /\ expected_seq' = expected_seq + 1
              /\ IF n = chunks
                 THEN sPc' = "closed" /\ UNCHANGED file
                 ELSE file' = Append(file, n) /\ UNCHANGED sPc
  /\ UNCHANGED <<envVars, clientVars>>

-----------------------------------------------------------------------------
(* The network.                                                            *)

LoseDatagram ==
  /\ toServer # <<>>
  /\ toServer' = Tail(toServer)
  /\ UNCHANGED <<envVars, clientVars, toClient, serverVars>>

LoseAck ==
  /\ toClient # <<>>
  /\ toClient' = Tail(toClient)
  /\ UNCHANGED <<envVars, clientVars, toServer, serverVars>>

-----------------------------------------------------------------------------

Next ==
  \/ SendNext \/ RecvAck \/ Timeout
  \/ ServerReceive
  \/ LoseDatagram \/ LoseAck

\* The two programs run, recvfrom times out, and a datagram that is sent
\* again and again is not lost every time.
Fairness ==
  /\ WF_vars(SendNext)
  /\ WF_vars(Timeout)
  /\ SF_vars(RecvAck)
  /\ SF_vars(ServerReceive)

Spec == Init /\ [][Next]_vars

FairSpec == Spec /\ Fairness

-----------------------------------------------------------------------------
(* Safety.                                                                 *)

\* A file whose datagrams are numbered without wrapping around.
Receivable == chunks < SEQ_MOD

\* Whatever is lost or repeated, the file written is a beginning of the file
\* sent: no gap, no repetition, no reordering.  Only a file too long for its
\* numbers, sent with timeouts that expire too early, escapes this: a stale
\* acknowledgement lets the client run ahead until its numbers match again.
FileIsPrefix ==
  timely \/ Receivable => \A i \in DOMAIN file : file[i] = i - 1

\* Under the same conditions a closed file is a whole file.
ClosedIsWhole ==
  timely \/ Receivable => (sPc = "closed" => Len(file) = chunks)

\* While timeouts are timely, a client that has ended has had every chunk
\* written, whether or not the datagram that ends the file was lost, which it
\* does not wait for; but of a file too long for its numbers the server has
\* only as many chunks as d.seq has values, while the client ends as if all
\* had arrived.
DoneIsReceived ==
  timely /\ cPc = "done" =>
    Len(file) = IF chunks < SEQ_MOD THEN chunks ELSE SEQ_MOD

\* While timeouts are timely, an acknowledgement is always one for the last
\* datagram, so the client never goes past a chunk the server does not have.
NeverAhead == timely /\ Receivable /\ cPc = "send" => expected_seq >= seq

-----------------------------------------------------------------------------
(* Liveness.                                                               *)

\* However many datagrams are lost, the client gets to the end of the file ...
ClientFinishes == <>(cPc = "done")

\* ... and, while timeouts are timely and the file is short enough for its
\* numbers, the server writes every chunk of it.
FileArrives == timely /\ Receivable => <>(Len(file) = chunks)

=============================================================================
