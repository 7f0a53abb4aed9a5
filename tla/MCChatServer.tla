---------------------------- MODULE MCChatServer ----------------------------
(* ChatServer for TLC, and what comments of lab 7 say of it that does not   *)
(* hold.                                                                    *)
EXTENDS ChatServer

\* "conexiunea s-a inchis" (server.c:140): a client that has closed its end
\* is taken out of poll_fds, unless the server is killed or listens to one
\* that is silent.
ClosedIsRemoved ==
  \A c \in Clients :
    conn[c] = "fin" ~> \/ \A k \in DOMAIN poll_fds : poll_fds[k] # c
                      \/ sPc = "killed" \/ AwaitsSilent

\* "Trimite mesajul catre toti ceilalti clienti" (server.c:155): a message goes
\* to all the other clients, not back to the one it came from.
SentToTheOthers ==
  \A c \in Clients : \A k \in DOMAIN Stream(c) : Stream(c)[k].from # c

\* "s-au primit date pe unul din socketii de client" (server.c:133): when the
\* server calls recv_all, something has come from that client, or its end.
DataHasArrived == sPc = "recv" /\ bytes = 0 => Readable(poll_fds[i])

=============================================================================
