----------------------------- MODULE RestSession -----------------------------
(***************************************************************************)
(* The library client of tema 4: the commands of main, what they keep of   *)
(* the login between them, and the one TCP connection they use in turn.    *)
(* HttpReceive has the loop that reads an answer; here an answer has come  *)
(* or the connection has ended before what the client looks for in it.     *)
(*                                                                         *)
(* A cookie and a token are named by the login the server gave them for.   *)
(***************************************************************************)
EXTENDS Integers, FiniteSetsExt

CONSTANTS
  Fds,              \* descriptors a process may have
  MaxLogins         \* bound: logins that succeed

NULL == 0

ASSUME RestAssumption ==
  /\ Fds \subseteq Nat /\ Min(Fds) \in Fds
  /\ MaxLogins \in Nat

Commands == {"register", "login", "enter_library", "get_books", "get_book",
             "add_book", "delete_book", "logout", "exit"}

VARIABLES
  pc,               \* "prompt", then the steps of a command
  command,
  cookie, library_access,
  sockfd,           \* main's
  fd,               \* the command's own copy
  connection,       \* what each descriptor stands for
  request,
  answer,           \* the server's, and the last that was received
  did,              \* the server has carried out the request
  said,             \* what the command told the user: "success", "refused"
  logins

restVars == <<pc, command, cookie, library_access, sockfd, fd, connection,
              request, answer, did, said, logins>>

\* The requests of requests.c; the body and the query are left out.
compute_get_request(url, cookies, token) ==
  [method |-> "GET", url |-> url, cookie |-> cookies, token |-> token]
compute_post_request(url, cookies, token) ==
  [method |-> "POST", url |-> url, cookie |-> cookies, token |-> token]
compute_delete_request(url, token) ==
  [method |-> "DELETE", url |-> url, cookie |-> NULL, token |-> token]

Requests == [method: {"GET", "POST", "DELETE"},
             url: {"register", "login", "access", "books", "book", "logout"},
             cookie: 0..MaxLogins, token: 0..MaxLogins]

\* What each command asks for, once it has put its body together.
register_request == compute_post_request("register", NULL, NULL)
login_request    == compute_post_request("login", NULL, NULL)
access_request   == compute_get_request("access", cookie, NULL)
books_request    == compute_get_request("books", NULL, library_access)
book_request     == compute_get_request("book", NULL, library_access)
add_request      == compute_post_request("books", NULL, library_access)
delete_request   == compute_delete_request("book", library_access)
logout_request   == compute_get_request("logout", cookie, NULL)

RequestOf(c) ==
  CASE c = "register"      -> register_request
    [] c = "login"         -> login_request
    [] c = "enter_library" -> access_request
    [] c = "get_books"     -> books_request
    [] c = "get_book"      -> book_request
    [] c = "add_book"      -> add_request
    [] c = "delete_book"   -> delete_request
    [] c = "logout"        -> logout_request

RestInit ==
  /\ pc = "prompt" /\ command = "exit"
  /\ cookie = NULL /\ library_access = NULL
  /\ sockfd = Min(Fds) /\ fd = sockfd
  /\ connection = [f \in Fds |-> IF f = sockfd THEN "idle" ELSE "closed"]
  /\ request = register_request /\ answer = "" /\ did = FALSE
  /\ said = "refused"
  /\ logins = 0

-----------------------------------------------------------------------------
(* The client.                                                             *)

BookCommands == {"get_books", "get_book", "add_book", "delete_book"}

\* What a command returns on before it does anything.
Refuses(c) ==
  \/ c \in {"register", "login"} /\ cookie # NULL
  \/ c \in {"enter_library", "logout"} \union BookCommands /\ cookie = NULL
  \/ c \in BookCommands /\ library_access = NULL
  \/ c = "enter_library" /\ library_access # NULL

OpensFirst(f) ==            \* mutant: the new connection before the old is closed
  LET lowest == Min({g \in Fds : connection[g] = "closed"})
  IN [fd |-> lowest,
      connection |-> [connection EXCEPT ![lowest] = "idle", ![f] = "closed"]]

\* close_connection, then open_connection, which gets the lowest descriptor
\* that is free.
Reopened(f) ==
  LET closed == [connection EXCEPT ![f] = "closed"]
      lowest == Min({g \in Fds : closed[g] = "closed"})
  IN [fd |-> lowest, connection |-> [closed EXCEPT ![lowest] = "idle"]]

Return(words) == pc' = "prompt" /\ said' = words

\* enter_library returns NULL into main's library_access.
Refuse(c) ==
  /\ pc = "prompt" /\ c # "login" /\ Refuses(c)
  /\ command' = c
  /\ Return("refused")
  /\ library_access' =
       IF c = "enter_library" /\ cookie = NULL THEN NULL ELSE library_access
  /\ UNCHANGED <<cookie, sockfd, fd, connection, request, answer, did, logins>>

\* register never opens a connection.  main opens that of login, whether or
\* not login then returns at once.  get_book and delete_book ask first.
AsksFirst == {"register", "get_book", "delete_book"}

Begin(c) ==
  /\ pc = "prompt" /\ c # "exit"
  /\ c = "login" \/ ~Refuses(c)
  /\ command' = c
  /\ fd' = sockfd
  /\ pc' = IF c \in AsksFirst THEN "asking" ELSE "opening"
  /\ UNCHANGED <<cookie, library_access, sockfd, connection, request, answer,
                 did, said, logins>>

\* The descriptor is the command's own and main keeps the one it had, except
\* in login.
Open ==
  /\ pc = "opening"
  /\ fd' = Reopened(fd).fd
  /\ connection' = Reopened(fd).connection
  /\ sockfd' = IF command = "login" THEN fd' ELSE sockfd
  /\ IF command = "login" /\ Refuses(command)
     THEN Return("refused")
     ELSE /\ pc' = IF command \in {"login", "add_book"} THEN "asking" ELSE "sending"
          /\ UNCHANGED said
  /\ UNCHANGED <<command, cookie, library_access, request, answer, did, logins>>

\* What the user types is accepted, or ends the command.
Input(good) ==
  /\ pc = "asking" /\ command # "add_book"
  /\ IF good
     THEN /\ pc' = IF command \in {"get_book", "delete_book"} THEN "opening"
                                                               ELSE "sending"
          /\ UNCHANGED said
     ELSE Return("refused")
  /\ UNCHANGED <<command, cookie, library_access, sockfd, fd, connection,
                 request, answer, did, logins>>

\* add_book asks for the number of pages until it is one.
InputBook ==
  /\ pc = "asking" /\ command = "add_book"
  /\ pc' = "sending"
  /\ UNCHANGED <<command, cookie, library_access, sockfd, fd, connection,
                 request, answer, did, said, logins>>

SendsIfUp ==                \* mutant: waits for a connection that is up
  /\ pc = "sending" /\ connection[fd] = "idle"
  /\ request' = RequestOf(command) /\ did' = FALSE
  /\ connection' = [connection EXCEPT ![fd] = "asked"]
  /\ pc' = "receiving"
  /\ UNCHANGED <<command, cookie, library_access, sockfd, fd, answer, said,
                 logins>>

\* A write goes through when the server has closed its end as well.
Send ==
  /\ pc = "sending"
  /\ request' = RequestOf(command)
  /\ did' = FALSE
  /\ connection' = [connection EXCEPT ![fd] = IF @ = "idle" THEN "asked" ELSE @]
  /\ pc' = "receiving"
  /\ UNCHANGED <<command, cookie, library_access, sockfd, fd, answer, said,
                 logins>>

\* What each command makes of the answer: what it reports, and the cookie
\* and the token that main has afterwards.
Outcome(words, c, t) == [said |-> words, cookie |-> c, token |-> t]
Reports(good)        == Outcome(IF good THEN "success" ELSE "refused", cookie, library_access)

register_user(a) == Reports(a \notin {"taken", "busy"})

\* An answer that is no refusal is taken for one with a cookie, and the
\* search for the cookie goes on from NULL.
login_user(a) ==
  CASE a = "ok"    -> Outcome("success", logins, library_access)
    [] a = "wrong" -> Outcome("refused", NULL, library_access)
    [] OTHER       -> Outcome("crashed", cookie, library_access)

enter_library(a) ==
  IF a = "ok" THEN Outcome("success", cookie, request.cookie)
              ELSE Outcome("refused", cookie, NULL)

\* All of the answer, header and all, is parsed as JSON, which fails.
get_books(a) == Reports(FALSE)

get_book(a) == Reports(a = "ok")

AnyButError(a) == Reports(a # "error")      \* mutant: looks for an error only

add_book(a) == Reports(a = "ok")

delete_book(a) == Reports(a # "error")

KeepsToken(a) ==            \* mutant: the token is not forgotten
  Outcome(IF a # "error" THEN "success" ELSE "refused", NULL, library_access)

logout(a) == Outcome(IF a # "error" THEN "success" ELSE "refused", NULL, NULL)

OutcomeOf(c, a) ==
  CASE c = "register"      -> register_user(a)
    [] c = "login"         -> login_user(a)
    [] c = "enter_library" -> enter_library(a)
    [] c = "get_books"     -> get_books(a)
    [] c = "get_book"      -> get_book(a)
    [] c = "add_book"      -> add_book(a)
    [] c = "delete_book"   -> delete_book(a)
    [] c = "logout"        -> logout(a)

Receive(a) ==
  /\ pc = "receiving"
  /\ \/ connection[fd] = "answered" /\ a = answer
     \/ connection[fd] = "shut" /\ a = ""
  /\ connection' = [connection EXCEPT ![fd] = IF @ = "answered" THEN "idle" ELSE @]
  /\ answer' = a
  /\ LET outcome == OutcomeOf(command, a)
     IN /\ IF outcome.said = "crashed" THEN pc' = "crashed" /\ UNCHANGED said
                                       ELSE Return(outcome.said)
        /\ cookie' = outcome.cookie
        /\ library_access' = outcome.token
  /\ UNCHANGED <<command, sockfd, fd, request, did, logins>>

\* error(): a connection that cannot be opened, or is reset.
Fail ==
  /\ \/ pc = "opening"
     \/ pc = "receiving" /\ connection[fd] = "shut"
  /\ pc' = "exited"
  /\ connection' = [f \in Fds |-> "closed"]
  /\ UNCHANGED <<command, cookie, library_access, sockfd, fd, request, answer,
                 did, said, logins>>

Exit ==
  /\ pc = "prompt"
  /\ pc' = "exited" /\ command' = "exit"
  /\ cookie' = NULL /\ library_access' = NULL
  /\ connection' = [connection EXCEPT ![sockfd] = "closed"]
  /\ UNCHANGED <<sockfd, fd, request, answer, did, said, logins>>

-----------------------------------------------------------------------------
(* The server, as far as the client can tell.                              *)

Authorised(r) ==
  CASE r.url \in {"register", "login"} -> TRUE
    [] r.url \in {"access", "logout"}  -> r.cookie # NULL
    [] OTHER                           -> r.token # NULL

Kinds == {"ok", "error", "busy", "taken", "wrong"}

AnswersTo(r) ==
  {a \in Kinds :
     /\ a = "ok" => Authorised(r)
     /\ a = "taken" => r.url = "register"
     /\ a = "wrong" => r.url = "login"}

\* It answers, and has carried out what it answers with 200 OK.
Serve(f, a) ==
  /\ connection[f] = "asked"
  /\ a \in AnswersTo(request)
  /\ a = "ok" /\ request.url = "login" => logins < MaxLogins
  /\ logins' = IF a = "ok" /\ request.url = "login" THEN logins + 1 ELSE logins
  /\ answer' = a /\ did' = (a = "ok")
  /\ connection' = [connection EXCEPT ![f] = "answered"]
  /\ UNCHANGED <<pc, command, cookie, library_access, sockfd, fd, request, said>>

\* It ends a connection it has nothing to answer on, or before the answer,
\* having carried out the request or not.
Shut(f) ==
  /\ connection[f] \in {"idle", "asked"}
  /\ did' = did \/ (connection[f] = "asked" /\ did' = TRUE)
  /\ connection' = [connection EXCEPT ![f] = "shut"]
  /\ UNCHANGED <<pc, command, cookie, library_access, sockfd, fd, request,
                 answer, said, logins>>

ClientStep ==
  \/ \E good \in BOOLEAN : Input(good)
  \/ InputBook \/ Open \/ Send \/ Fail
  \/ \E a \in Kinds \union {""} : Receive(a)

ServerStep ==
  \E f \in Fds : Shut(f) \/ \E a \in Kinds : Serve(f, a)

RestNext ==
  \/ \E c \in Commands : Refuse(c) \/ Begin(c)
  \/ Exit
  \/ ClientStep \/ ServerStep

RestSpec == RestInit /\ [][RestNext]_restVars

\* A command goes on, its user types something that is accepted in the end,
\* and a server that has been asked answers or ends the connection.
RestFairness ==
  /\ WF_restVars(ClientStep)
  /\ WF_restVars(\E f \in Fds : connection[f] = "asked" /\ ServerStep)

-----------------------------------------------------------------------------
(* Properties.                                                             *)

\* The type invariant.
TypeOK ==
  /\ pc \in {"prompt", "opening", "asking", "sending", "receiving", "exited",
             "crashed"}
  /\ command \in Commands
  /\ cookie \in 0..MaxLogins /\ library_access \in 0..MaxLogins
  /\ logins \in 0..MaxLogins
  /\ sockfd \in Fds /\ fd \in Fds
  /\ connection \in [Fds -> {"closed", "idle", "asked", "answered", "shut"}]
  /\ request \in Requests
  /\ answer \in Kinds \union {""}
  /\ did \in BOOLEAN
  /\ said \in {"success", "refused"}

\* Every command closes the descriptor main gave it and opens another in
\* its own copy, yet main's is the one that is open afterwards, and no other
\* is: the new connection takes the number of the one just closed.
OneConnection ==
  /\ \A f \in Fds : connection[f] # "closed" => f = fd
  /\ pc = "prompt" => sockfd = fd /\ connection[sockfd] # "closed"

\* The client is never in the library on behalf of an earlier login: the
\* token it keeps, and the one it sends, are those of the cookie it holds,
\* through failed logins, refused accesses and logouts that failed.
TokenOfLogin ==
  /\ library_access # NULL => library_access = cookie
  /\ pc = "receiving" => \A c \in {request.cookie, request.token} : c \in {NULL, cookie}

\* What the client reports as done the server has done, or else: register
\* takes any answer but two refusals for success, an empty one and an error
\* too (client.c:127); delete_book and logout any without the word error.
SaysWhatHappened ==
  pc = "prompt" /\ said = "success" =>
    \/ did
    \/ command = "register" /\ answer \in {"", "error"}
    \/ command \in {"delete_book", "logout"} /\ answer \in {"", "busy"}

\* Each command comes to its end, whether the server answers, refuses or
\* goes away, and if it ended the connection before it was asked as well:
\* the prompt is back, or the program has ended.
CommandEnds ==
  pc \in {"opening", "asking", "sending", "receiving"}
    ~> pc \in {"prompt", "exited", "crashed"}

=============================================================================
