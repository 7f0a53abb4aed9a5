----------------------------- MODULE MCPrograms -----------------------------
(* The small programs for TLC: the framing, the transfers of labs 3 and 5   *)
(* and the list of the labs, and the session and the receive loop of the    *)
(* client of tema 4.                                                        *)
(* They share no state, so a behaviour takes one of them.                   *)
EXTENDS ByteFraming, NackTransfer, WindowTransfer, SortedList, RestSession,
        HttpReceive

VARIABLE program

vars == <<program, frameVars, nackVars, windowVars, listVars, restVars, httpVars>>

\* A time has the bytes 2 and 3 in it as well; its length is odd or even.
MCTexts == {<<>>, <<99, 99>>} \X {<<99, 3>>, <<2, 3, 2>>}

MCNoise == {<<>>, <<0>>, <<99, 0>>, <<3, 2, 0>>, <<0, 2>>, <<0, 3, 99, 2>>}

\* Two bytes of two bits.
MCMessages == {<<a, b>> : a \in {{0}, {1}}, b \in {{}, {0, 1}}}

\* Headers with a length, in either spelling, first or last, and without;
\* a body that has the words itself.
Header(h) == <<"HTTP/1.1 200 OK", "\r\n">> \o h \o <<"\r\n">>

Body == {<<>>, <<"x">>, <<"x", "\r\n">>, <<"Content-Length: ", "1">>}

Headers(b) ==
  {Header(<<"Set-Cookie: ", "\r\n">>)} \union UNION
    {{Header(<<l, ToString(Len(b)), "\r\n">>),
      Header(<<"Set-Cookie: ", "\r\n", l, ToString(Len(b)), "\r\n">>),
      Header(<<l, ToString(Len(b)), "\r\n", "Set-Cookie: ", "\r\n">>)} :
        l \in {"Content-Length: ", "content-length: "}}

MCAnswers == {<<>>} \union UNION {{h \o b : h \in Headers(b)} : b \in Body}

Init ==
  /\ program \in {"framing", "nack", "window", "list", "session", "receive"}
  /\ FrameInit
  /\ program # "framing" =>
       texts = <<<<>>, <<99, 3>>>> /\ noise = <<>> /\ lost = 0
  /\ NackInit
  /\ program # "nack" => message = <<{0}, {}>>
  /\ WindowInit
  /\ program # "window" => mode = "window" /\ chunks = 0 /\ lossy
  /\ HttpInit
  /\ program # "receive" => response = <<>> /\ ~closes
  /\ ListInit /\ RestInit

Next ==
  /\ UNCHANGED program
  /\ \/ /\ program = "framing" /\ FrameNext
        /\ UNCHANGED <<nackVars, windowVars, listVars, restVars, httpVars>>
     \/ /\ program = "nack" /\ NackNext
        /\ UNCHANGED <<frameVars, windowVars, listVars, restVars, httpVars>>
     \/ /\ program = "window" /\ WindowNext
        /\ UNCHANGED <<frameVars, nackVars, listVars, restVars, httpVars>>
     \/ /\ program = "list" /\ ListNext
        /\ UNCHANGED <<frameVars, nackVars, windowVars, restVars, httpVars>>
     \/ /\ program = "session" /\ RestNext
        /\ UNCHANGED <<frameVars, nackVars, windowVars, listVars, httpVars>>
     \/ /\ program = "receive" /\ HttpNext
        /\ UNCHANGED <<frameVars, nackVars, windowVars, listVars, restVars>>

Spec ==
  /\ Init /\ [][Next]_vars
  /\ program = "nack" => NackFairness
  /\ program = "window" => WindowFairness
  /\ RestFairness /\ HttpFairness

=============================================================================
