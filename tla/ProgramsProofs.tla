--------------------------- MODULE ProgramsProofs ---------------------------
(***************************************************************************)
(* Proofs about the small programs: the session of the client of tema 4,   *)
(* for any number of descriptors and of logins, the list of lab 6, for any *)
(* datagrams put in, the receive loop of the client, for any answers, and  *)
(* the framing of lab 2, for any texts and sizes.                          *)
(***************************************************************************)
EXTENDS RestSession, SortedList, HttpReceive, ByteFraming,
        SequenceTheorems, WellFoundedInduction, TLAPS

(* The session: main's descriptor stays the one that is open, the token is *)
(* that of the cookie, and success is reported when it was had.            *)

\* One connection, always with the lowest number.
Connected ==
  /\ fd = Min(Fds) /\ sockfd = fd
  /\ \A f \in Fds : f # fd => connection[f] = "closed"
  /\ pc # "exited" => connection[fd] # "closed"

\* A command that goes on has passed its checks, and nothing it checked has
\* changed since; login makes its check after opening.
Admitted ==
  /\ pc \in {"opening", "asking", "sending", "receiving"} => command # "exit"
  /\ pc = "opening" /\ command # "login" => ~Refuses(command)
  /\ pc \in {"asking", "sending", "receiving"} => ~Refuses(command)

\* What was asked for under the login is still so.
Asked == pc = "receiving" => request = RequestOf(command)

OneLogin == library_access # NULL => library_access = cookie

RestInv == TypeOK /\ Connected /\ Admitted /\ Asked /\ OneLogin

LEMMA Constants == MaxLogins \in Nat /\ NULL \in 0..MaxLogins
BY RestAssumption DEF RestAssumption, NULL

LEMMA RequestType ==
  ASSUME TypeOK, NEW c \in Commands \ {"exit"}
  PROVE  RequestOf(c) \in Requests
<1>1. {NULL, cookie, library_access} \subseteq 0..MaxLogins
  BY Constants DEF TypeOK
<1> DEFINE Bearer == {NULL, cookie, library_access}
<1>2. \A m \in {"GET", "POST", "DELETE"},
        u \in {"register", "login", "access", "books", "book", "logout"},
        k, l \in Bearer :
          [method |-> m, url |-> u, cookie |-> k, token |-> l] \in Requests
  BY <1>1 DEF Requests
<1>3. NULL \in Bearer /\ cookie \in Bearer /\ library_access \in Bearer
  OBVIOUS
<1> HIDE DEF Bearer
<1>4. CASE c \in {"register", "login", "add_book"}
  BY <1>2, <1>3, <1>4
     DEF RequestOf, compute_post_request, register_request, login_request, add_request
<1>5. CASE c \in {"enter_library", "get_books", "get_book", "logout"}
  BY <1>2, <1>3, <1>5
     DEF RequestOf, compute_get_request, access_request, books_request,
         book_request, logout_request
<1>6. CASE c = "delete_book"
  BY <1>2, <1>3, <1>6 DEF RequestOf, compute_delete_request, delete_request
<1> QED
  BY <1>4, <1>5, <1>6 DEF Commands

\* The number that was closed is the one that is opened.
LEMMA SameNumber ==
  ASSUME TypeOK, Connected
  PROVE  /\ Reopened(fd).fd = fd
         /\ Reopened(fd).connection = [connection EXCEPT ![fd] = "idle"]
<1> DEFINE closed == [connection EXCEPT ![fd] = "closed"]
           lowest == Min({g \in Fds : closed[g] = "closed"})
<1>1. fd \in Fds
  BY DEF TypeOK
<1>2. {g \in Fds : closed[g] = "closed"} = Fds
  BY <1>1 DEF TypeOK, Connected
<1>3. lowest = fd
  BY <1>2 DEF Connected
<1>4. [closed EXCEPT ![lowest] = "idle"] = [connection EXCEPT ![fd] = "idle"]
  BY <1>1, <1>3 DEF TypeOK
<1> QED
  BY <1>3, <1>4 DEF Reopened

LEMMA RestInitInv ==
  ASSUME RestInit
  PROVE  RestInv
<1>1. TypeOK
  <2>1. request = compute_post_request("register", NULL, NULL)
    BY DEF RestInit, register_request
  <2>2. request \in Requests
    BY <2>1, Constants DEF Requests, compute_post_request
  <2>3. sockfd \in Fds /\ fd \in Fds
    BY RestAssumption DEF RestInit, RestAssumption
  <2>4. connection \in [Fds -> {"closed", "idle", "asked", "answered", "shut"}]
    BY DEF RestInit
  <2>5. cookie \in 0..MaxLogins /\ library_access \in 0..MaxLogins /\ logins \in 0..MaxLogins
    BY Constants DEF RestInit, NULL
  <2> QED
    BY <2>2, <2>3, <2>4, <2>5 DEF RestInit, TypeOK, Commands
<1>2. Connected
  <2>1. sockfd \in Fds /\ sockfd = Min(Fds) /\ fd = sockfd
    BY RestAssumption DEF RestInit, RestAssumption
  <2>2. connection = [f \in Fds |-> IF f = sockfd THEN "idle" ELSE "closed"]
    BY DEF RestInit
  <2> QED
    BY <2>1, <2>2 DEF Connected
<1>3. Admitted /\ Asked /\ OneLogin
  BY DEF RestInit, Admitted, Asked, OneLogin
<1> QED
  BY <1>1, <1>2, <1>3 DEF RestInv

LEMMA RestNextInv ==
  ASSUME RestInv, [RestNext]_restVars
  PROVE  RestInv'
<1> USE DEF RestInv
<1>1. ASSUME NEW c \in Commands, Refuse(c) PROVE RestInv'
  <2>1. TypeOK'
    BY <1>1 DEF TypeOK, Refuse, Return, NULL
  <2>2. OneLogin'
    BY <1>1 DEF OneLogin, Refuse
  <2> QED
    BY <1>1, <2>1, <2>2 DEF Connected, Admitted, Asked, Refuse, Return
<1>2. ASSUME NEW c \in Commands, Begin(c) PROVE RestInv'
  <2>1. TypeOK'
    BY <1>2 DEF TypeOK, Begin
  <2>2. Connected' /\ Asked' /\ OneLogin'
    BY <1>2 DEF Connected, Asked, OneLogin, Begin
  <2>3. Admitted'
    BY <1>2 DEF Admitted, Begin, Refuses, AsksFirst
  <2> QED
    BY <2>1, <2>2, <2>3
<1>3. ASSUME NEW good \in BOOLEAN, Input(good) PROVE RestInv'
  <2>1. TypeOK'
    BY <1>3 DEF TypeOK, Input, Return
  <2>2. Connected' /\ Asked' /\ OneLogin'
    BY <1>3 DEF Connected, Asked, OneLogin, Input, Return
  <2>3. Admitted'
    BY <1>3 DEF Admitted, Input, Refuses, Return
  <2> QED
    BY <2>1, <2>2, <2>3
<1>12. ASSUME InputBook PROVE RestInv'
  <2>1. TypeOK'
    BY <1>12 DEF TypeOK, InputBook
  <2>2. Connected' /\ Asked' /\ OneLogin' /\ Admitted'
    BY <1>12 DEF Connected, Asked, OneLogin, Admitted, InputBook, Refuses
  <2> QED
    BY <2>1, <2>2
<1>4. ASSUME Open PROVE RestInv'
  <2>1. fd' = fd /\ connection' = [connection EXCEPT ![fd] = "idle"]
    BY <1>4, SameNumber DEF Open
  <2>2. sockfd' = sockfd
    BY <1>4, <2>1 DEF Open, Connected
  <2>3. TypeOK'
    BY <1>4, <2>1, <2>2 DEF TypeOK, Open, Return
  <2>4. Connected'
    BY <1>4, <2>1, <2>2 DEF TypeOK, Connected, Open
  <2>5. Asked' /\ OneLogin'
    BY <1>4 DEF Asked, OneLogin, Open, Return
  <2>6. Admitted'
    BY <1>4 DEF Admitted, Open, Refuses, Return
  <2> QED
    BY <2>3, <2>4, <2>5, <2>6
<1>5. ASSUME Send PROVE RestInv'
  <2>1. command \in Commands \ {"exit"}
    BY <1>5 DEF TypeOK, Admitted, Send
  <2>2. request' \in Requests
    BY <1>5, <2>1, RequestType DEF Send
  <2>3. TypeOK'
    BY <1>5, <2>2 DEF TypeOK, Send
  <2>4. Connected' /\ OneLogin'
    BY <1>5 DEF TypeOK, Connected, OneLogin, Send
  <2>5. Admitted'
    BY <1>5 DEF Admitted, Send, Refuses
  <2>6. Asked'
    BY <1>5
       DEF Asked, Send, RequestOf, register_request, login_request, access_request, books_request,
       book_request, add_request, delete_request, logout_request
  <2> QED
    BY <2>3, <2>4, <2>5, <2>6
<1>6. ASSUME Fail PROVE RestInv'
  BY <1>6 DEF Fail, TypeOK, Connected, Admitted, Asked, OneLogin
<1>7. ASSUME NEW a \in Kinds \union {""}, Receive(a) PROVE RestInv'
  <2>1. request = RequestOf(command) /\ ~Refuses(command) /\ command \in Commands \ {"exit"}
    BY <1>7 DEF Receive, Asked, Admitted, TypeOK
  <2> DEFINE outcome == OutcomeOf(command, a)
  <2>7. /\ outcome.said \in {"success", "refused", "crashed"}
        /\ outcome.cookie \in {cookie, logins, NULL}
        /\ outcome.token \in {library_access, request.cookie, NULL}
    BY <2>1 DEF Commands, OutcomeOf, Outcome, Reports, register_user,
       login_user, enter_library, get_books, get_book, add_book, delete_book, logout
  <2>8. cookie' = outcome.cookie /\ library_access' = outcome.token
    BY <1>7 DEF Receive
  <2>9. \/ pc' = "crashed" /\ UNCHANGED said
        \/ pc' = "prompt" /\ said' = outcome.said /\ outcome.said # "crashed"
    BY <1>7 DEF Receive, Return
  <2>2. pc' \in {"prompt", "crashed"} /\ said' \in {said, "success", "refused"}
    BY <2>7, <2>9
  <2>3. cookie' \in 0..MaxLogins /\ library_access' \in 0..MaxLogins
    <3>1. request.cookie \in 0..MaxLogins
      BY DEF TypeOK, Requests
    <3> QED
      BY <2>7, <2>8, <3>1, Constants DEF TypeOK
  <2>4. TypeOK'
    BY <1>7, <2>2, <2>3 DEF Receive, TypeOK
  <2>5. OneLogin'
    <3>1. CASE command = "login"
      <4>1. library_access = NULL
        BY <2>1, <3>1 DEF Refuses, OneLogin
      <4>2. outcome.token = library_access
        BY <3>1 DEF OutcomeOf, Outcome, login_user
      <4> QED
        BY <2>8, <4>1, <4>2 DEF OneLogin
    <3>2. CASE command = "enter_library"
      <4>1. request.cookie = cookie
        BY <2>1, <3>2 DEF RequestOf, access_request, compute_get_request
      <4>2. outcome.cookie = cookie /\ outcome.token \in {request.cookie, NULL}
        BY <3>2 DEF OutcomeOf, Outcome, enter_library
      <4> QED
        BY <2>8, <4>1, <4>2 DEF OneLogin
    <3>3. CASE command \notin {"login", "enter_library"}
      <4>1. \/ outcome.cookie = cookie /\ outcome.token = library_access
            \/ outcome.token = NULL
        BY <2>1, <3>3
           DEF Commands, OutcomeOf, Outcome, Reports, register_user, get_books,
               get_book, add_book, delete_book, logout
      <4> QED
        BY <2>8, <4>1 DEF OneLogin
    <3> QED
      BY <3>1, <3>2, <3>3
  <2>6. Connected' /\ Admitted' /\ Asked'
    BY <1>7, <2>2 DEF Receive, TypeOK, Connected, Admitted, Asked
  <2> QED
    BY <2>4, <2>5, <2>6
<1>8. ASSUME Exit PROVE RestInv'
  BY <1>8, Constants
     DEF Exit, TypeOK, Connected, Admitted, Asked, OneLogin, Commands
<1>9. ASSUME NEW f \in Fds, NEW a \in Kinds, Serve(f, a) PROVE RestInv'
  <2>1. logins' \in 0..MaxLogins
    <3>1. \/ logins' = logins
          \/ logins < MaxLogins /\ logins' = logins + 1
      BY <1>9 DEF Serve
    <3>2. logins \in 0..MaxLogins
      BY DEF TypeOK
    <3> QED
      BY <3>1, <3>2, Constants
  <2>2. TypeOK'
    BY <1>9, <2>1 DEF Serve, TypeOK
  <2>3. Connected'
    BY <1>9 DEF Serve, TypeOK, Connected
  <2>4. Admitted' /\ Asked' /\ OneLogin'
    BY <1>9 DEF Serve, Admitted, Asked, OneLogin, Refuses, RequestOf,
       register_request, login_request, access_request, books_request,
       book_request, add_request, delete_request, logout_request
  <2> QED
    BY <2>2, <2>3, <2>4
<1>10. ASSUME NEW f \in Fds, Shut(f) PROVE RestInv'
  <2>1. did' \in BOOLEAN
    BY <1>10 DEF Shut, TypeOK
  <2>2. TypeOK'
    BY <1>10, <2>1 DEF Shut, TypeOK
  <2>3. Connected'
    BY <1>10 DEF Shut, TypeOK, Connected
  <2>4. Admitted' /\ Asked' /\ OneLogin'
    BY <1>10 DEF Shut, Admitted, Asked, OneLogin, Refuses, RequestOf,
       register_request, login_request, access_request, books_request,
       book_request, add_request, delete_request, logout_request
  <2> QED
    BY <2>2, <2>3, <2>4
<1>11. CASE UNCHANGED restVars
  BY <1>11 DEF restVars, TypeOK, Connected, Admitted, Asked, OneLogin, Refuses, RequestOf,
       register_request, login_request, access_request, books_request,
       book_request, add_request, delete_request, logout_request
<1> QED
  BY <1>1, <1>2, <1>3, <1>4, <1>5, <1>6, <1>7, <1>8, <1>9, <1>10, <1>11, <1>12
     DEF RestNext, ClientStep, ServerStep

LEMMA RestInductive == RestSpec => []RestInv
<1>1. RestInit => RestInv
  BY RestInitInv
<1>2. RestInv /\ [RestNext]_restVars => RestInv'
  BY RestNextInv
<1> QED
  BY <1>1, <1>2, PTL DEF RestSpec

\* Every variable keeps to its values.
THEOREM RestTypeCorrect == RestSpec => []TypeOK
BY RestInductive, PTL DEF RestInv

\* The descriptor main goes on with is the one connection there is
\* (client.c:225-226 and 565-582).
THEOREM OneConnectionAlways == RestSpec => []OneConnection
<1>1. RestInv => OneConnection
  BY DEF RestInv, Connected, OneConnection
<1> QED
  BY <1>1, RestInductive, PTL

\* A token is used under the login it was given for, and no other
\* (client.c:253, 267, 539-542).
THEOREM TokenIsOfLogin == RestSpec => []TokenOfLogin
<1>1. RestInv => TokenOfLogin
  <2> SUFFICES ASSUME RestInv PROVE TokenOfLogin
    OBVIOUS
  <2>1. library_access \in {NULL, cookie}
    BY DEF RestInv, OneLogin
  <2>2. ASSUME pc = "receiving"
        PROVE  request.cookie \in {NULL, cookie} /\ request.token \in {NULL, cookie}
    <3>1. request = RequestOf(command) /\ command \in Commands \ {"exit"}
      BY <2>2 DEF RestInv, Asked, Admitted, TypeOK
    <3> QED
      BY <2>1, <3>1 DEF RequestOf, Commands, compute_get_request,
         compute_post_request, compute_delete_request, register_request,
         login_request, access_request, books_request, book_request,
         add_request, delete_request, logout_request
  <2> QED
    BY <2>1, <2>2 DEF TokenOfLogin
<1> QED
  BY <1>1, RestInductive, PTL

-----------------------------------------------------------------------------
(* What the client reports.                                                *)

\* The server is at a request only while the client waits for its answer, an
\* answer that is there is one to the request, and reports are as promised.
Answered ==
  /\ connection[fd] \in {"asked", "answered"} => pc = "receiving"
  /\ connection[fd] = "answered" =>
       answer \in AnswersTo(request) /\ did = (answer = "ok")
  /\ SaysWhatHappened

LEMMA ReceiveAnswered ==
  ASSUME RestInv, Answered, NEW a \in Kinds \union {""}, Receive(a)
  PROVE  Answered'
<1>1. /\ pc = "receiving" /\ request = RequestOf(command)
      /\ command \in Commands \ {"exit"} /\ fd \in Fds
      /\ connection \in [Fds -> {"closed", "idle", "asked", "answered", "shut"}]
  BY DEF Receive, RestInv, Asked, Admitted, TypeOK
<1>2. /\ answer' = a /\ UNCHANGED <<command, did, fd, request>>
      /\ connection' = [connection EXCEPT ![fd] = IF @ = "answered" THEN "idle" ELSE @]
  BY DEF Receive
<1>3. connection'[fd'] \notin {"asked", "answered"}
  BY <1>1, <1>2 DEF Receive
<1>4. \/ a = ""
      \/ a \in AnswersTo(request) /\ (a = "ok" => did)
  BY <1>1 DEF Receive, Answered
<1>5. ASSUME pc' = "prompt", said' = "success"
      PROVE  OutcomeOf(command, a).said = "success"
  BY <1>5 DEF Receive, Return
<1>6. ASSUME OutcomeOf(command, a).said = "success"
      PROVE  \/ did
             \/ command = "register" /\ a \in {"", "error"}
             \/ command \in {"delete_book", "logout"} /\ a \in {"", "busy"}
  <2>1. CASE command = "register"
    <3>1. request.url = "register"
      BY <1>1, <2>1 DEF RequestOf, register_request, compute_post_request
    <3>2. a \notin {"taken", "busy"}
      BY <1>6, <2>1 DEF OutcomeOf, register_user, Reports, Outcome
    <3> QED
      BY <1>4, <2>1, <3>1, <3>2 DEF AnswersTo, Kinds
  <2>2. CASE command \in {"delete_book", "logout"}
    <3>1. request.url \in {"book", "logout"}
      BY <1>1, <2>2 DEF RequestOf, delete_request, logout_request,
         compute_get_request, compute_delete_request
    <3>2. a # "error"
      BY <1>6, <2>2 DEF OutcomeOf, delete_book, logout, Reports, Outcome
    <3> QED
      BY <1>4, <2>2, <3>1, <3>2 DEF AnswersTo, Kinds
  <2>3. CASE command \notin {"register", "delete_book", "logout"}
    <3>1. a = "ok"
      BY <1>1, <1>6, <2>3 DEF Commands, OutcomeOf, Reports, Outcome, login_user,
         enter_library, get_books, get_book, add_book
    <3> QED
      BY <1>4, <3>1
  <2> QED
    BY <2>1, <2>2, <2>3
<1> QED
  BY <1>2, <1>3, <1>5, <1>6 DEF Answered, SaysWhatHappened

LEMMA NextAnswered ==
  ASSUME RestInv, RestInv', Answered, [RestNext]_restVars
  PROVE  Answered'
<1>1. /\ fd \in Fds
      /\ connection \in [Fds -> {"closed", "idle", "asked", "answered", "shut"}]
      /\ \A f \in Fds : f # fd => connection[f] = "closed"
  BY DEF RestInv, TypeOK, Connected
<1>2. ASSUME NEW c \in Commands, Refuse(c) PROVE Answered'
  BY <1>2 DEF Refuse, Return, Answered, SaysWhatHappened
<1>3. ASSUME NEW c \in Commands, Begin(c) PROVE Answered'
  BY <1>3 DEF Begin, Answered, SaysWhatHappened, RestInv, Connected, AsksFirst
<1>4. ASSUME NEW good \in BOOLEAN, Input(good) PROVE Answered'
  BY <1>4 DEF Input, Return, Answered, SaysWhatHappened
<1>5. ASSUME InputBook PROVE Answered'
  BY <1>5 DEF InputBook, Answered, SaysWhatHappened
<1>6. ASSUME Open PROVE Answered'
  <2>1. fd' = fd /\ connection'[fd] = "idle"
    BY <1>1, <1>6, SameNumber DEF Open, RestInv
  <2>2. (pc' = "prompt" /\ said' = "refused") \/ pc' \in {"asking", "sending"}
    BY <1>6 DEF Open, Return
  <2> QED
    BY <2>1, <2>2 DEF Answered, SaysWhatHappened
<1>7. ASSUME Send PROVE Answered'
  BY <1>1, <1>7 DEF Send, Answered, SaysWhatHappened
<1>8. ASSUME Fail PROVE Answered'
  BY <1>1, <1>8 DEF Fail, Answered, SaysWhatHappened
<1>9. ASSUME NEW a \in Kinds \union {""}, Receive(a) PROVE Answered'
  BY <1>9, ReceiveAnswered
<1>10. ASSUME Exit PROVE Answered'
  BY <1>1, <1>10 DEF Exit, Answered, SaysWhatHappened, RestInv, Connected
<1>11. ASSUME NEW f \in Fds, NEW a \in Kinds, Serve(f, a) PROVE Answered'
  <2>1. f = fd /\ pc = "receiving" /\ pc' = pc /\ fd' = fd
    BY <1>1, <1>11 DEF Serve, Answered
  <2>2. answer' = a /\ did' = (a = "ok") /\ a \in AnswersTo(request)
        /\ request' = request
    BY <1>11 DEF Serve
  <2>3. AnswersTo(request)' = AnswersTo(request)
    BY <2>2 DEF AnswersTo, Authorised
  <2> QED
    BY <2>1, <2>2, <2>3 DEF Answered, SaysWhatHappened
<1>12. ASSUME NEW f \in Fds, Shut(f) PROVE Answered'
  <2>1. f = fd /\ connection'[fd] = "shut" /\ UNCHANGED <<pc, fd, command, answer, said>>
    BY <1>1, <1>12 DEF Shut
  <2>2. CASE connection[fd] = "idle"
    <3>1. did' = did
      <4>1. connection[f] # "asked"
        BY <2>1, <2>2
      <4> QED
        BY <1>12, <4>1, Zenon DEF Shut
    <3>2. connection'[fd'] \notin {"asked", "answered"}
      BY <2>1
    <3>3. SaysWhatHappened'
      BY <2>1, <3>1, Zenon DEF Answered, SaysWhatHappened
    <3> QED
      BY <3>2, <3>3 DEF Answered
  <2>3. CASE connection[fd] = "asked"
    BY <2>1, <2>3 DEF Answered, SaysWhatHappened
  <2> QED
    BY <1>12, <2>1, <2>2, <2>3 DEF Shut
<1>13. CASE UNCHANGED restVars
  BY <1>13 DEF restVars, Answered, SaysWhatHappened, AnswersTo, Authorised
<1> QED
  BY <1>2, <1>3, <1>4, <1>5, <1>6, <1>7, <1>8, <1>9, <1>10, <1>11, <1>12, <1>13
     DEF RestNext, ClientStep, ServerStep

\* A success that the client reports is one the server has had, but for the
\* answers that register, delete_book and logout take for it
\* (client.c:127, 502-506, 530-536).
THEOREM ReportsWhatHappened == RestSpec => []SaysWhatHappened
<1>1. RestInit => Answered
  <2> SUFFICES ASSUME RestInit PROVE Answered
    OBVIOUS
  <2>1. fd \in Fds /\ connection[fd] = "idle"
    BY RestAssumption DEF RestInit, RestAssumption
  <2> QED
    BY <2>1 DEF RestInit, Answered, SaysWhatHappened
<1>2. RestInv /\ RestInv' /\ Answered /\ [RestNext]_restVars => Answered'
  BY NextAnswered
<1>3. Answered => SaysWhatHappened
  BY DEF Answered
<1> QED
  BY <1>1, <1>2, <1>3, RestInductive, PTL DEF RestSpec

-----------------------------------------------------------------------------
(* The list of lab 6: where a datagram goes, and what is there already.    *)

\* A set of natural numbers has a least one.
LEMMA Least ==
  ASSUME NEW S, S \subseteq Nat, S # {}
  PROVE  \E m \in S : \A k \in S : m <= k
<1>1. PICK R : IsWellFoundedOn(R, Nat) /\ R = {ss \in Nat \X Nat : ss[1] < ss[2]}
  BY NatLessThanWellFounded, Zenon DEF OpToRel
<1>2. PICK m \in S : \A k \in S : ~(<<k, m>> \in R)
  BY <1>1, WFMin
<1>3. \A k \in S : ~(k < m)
  BY <1>1, <1>2
<1> QED
  BY <1>2, <1>3

\* What is in each place when e has been put behind the first p.
Shifted(s, p, e, i) == IF i <= p THEN s[i] ELSE IF i = p + 1 THEN e ELSE s[i - 1]

LEMMA Inserted ==
  ASSUME NEW S, NEW s \in Seq(S), NEW p \in 0..Len(s), NEW e \in S
  PROVE  /\ InsertAt(s, p + 1, e) \in Seq(S)
         /\ Len(InsertAt(s, p + 1, e)) = Len(s) + 1
         /\ \A i \in 1..(Len(s) + 1) :
              InsertAt(s, p + 1, e)[i] = Shifted(s, p, e, i)
<1> DEFINE a == SubSeq(s, 1, p)
           b == SubSeq(s, p + 1, Len(s))
<1>1. Len(s) \in Nat /\ p \in Nat /\ p <= Len(s) /\ \A i \in 1..Len(s) : s[i] \in S
  BY LenProperties, ElementOfSeq
<1>2. a \in Seq(S) /\ Len(a) = p /\ \A i \in 1..p : a[i] = s[i]
  BY <1>1, SubSeqProperties
<1>3. /\ b \in Seq(S) /\ Len(b) = Len(s) - p
      /\ \A i \in 1..(Len(s) - p) : b[i] = s[p + i]
  <2>1. \A i \in (p + 1)..Len(s) : s[i] \in S
    BY <1>1
  <2>2. /\ b \in Seq(S) /\ Len(b) = IF p + 1 <= Len(s) THEN Len(s) - (p + 1) + 1 ELSE 0
        /\ \A i \in 1..(Len(s) - (p + 1) + 1) : b[i] = s[(p + 1) + i - 1]
    BY <1>1, <2>1, SubSeqProperties
  <2> QED
    BY <1>1, <2>2
<1>4. PICK f : f \in Seq(S) /\ f = <<e>> /\ Len(f) = 1 /\ f[1] = e
  <2>1. <<e>> \in Seq(S) /\ Len(<<e>>) = 1 /\ <<e>>[1] = e
    OBVIOUS
  <2> QED
    BY <2>1, Zenon
<1> HIDE DEF a, b
<1>5. PICK u : u = a \o f
  OBVIOUS
<1>6. /\ u \in Seq(S) /\ Len(u) = p + 1
      /\ \A i \in 1..(p + 1) : u[i] = IF i <= p THEN s[i] ELSE e
  <2>1. /\ u \in Seq(S) /\ Len(u) = p + 1
        /\ \A i \in 1..(p + 1) : u[i] = IF i <= p THEN a[i] ELSE f[i - p]
    BY <1>2, <1>4, <1>5, ConcatProperties
  <2>2. ASSUME NEW i \in 1..(p + 1)
        PROVE  u[i] = IF i <= p THEN s[i] ELSE e
    <3>1. CASE i <= p
      <4>1. i \in 1..p
        BY <1>1, <3>1
      <4> QED
        BY <1>2, <2>1, <3>1, <4>1
    <3>2. CASE ~(i <= p)
      <4>1. i - p = 1
        BY <1>1, <3>2
      <4> QED
        BY <1>4, <2>1, <3>2, <4>1
    <3> QED
      BY <3>1, <3>2
  <2> QED
    BY <2>1, <2>2
<1>7. PICK t : t = u \o b
  OBVIOUS
<1>8. /\ t \in Seq(S) /\ Len(t) = Len(u) + Len(b)
      /\ \A i \in 1..(Len(u) + Len(b)) :
           t[i] = IF i <= Len(u) THEN u[i] ELSE b[i - Len(u)]
  BY <1>3, <1>6, <1>7, ConcatProperties
<1>9. Len(u) = p + 1 /\ Len(u) + Len(b) = Len(s) + 1
  BY <1>1, <1>3, <1>6
<1>10. t = InsertAt(s, p + 1, e)
  <2>1. (p + 1) - 1 = p
    BY <1>1
  <2> QED
    BY <1>4, <1>5, <1>7, <2>1, Zenon DEF InsertAt, a, b
<1>11. ASSUME NEW i \in 1..(Len(s) + 1)
       PROVE  t[i] = Shifted(s, p, e, i)
  <2>0. SUFFICES t[i] = IF i <= p THEN s[i] ELSE IF i = p + 1 THEN e ELSE s[i - 1]
    BY Zenon DEF Shifted
  <2>1. t[i] = IF i <= p + 1 THEN u[i] ELSE b[i - (p + 1)]
    BY <1>8, <1>9
  <2>2. CASE i <= p + 1
    BY <1>1, <1>6, <2>1, <2>2
  <2>3. CASE ~(i <= p + 1)
    <3>1. PICK j \in Int : j = i - (p + 1)
      BY <1>1
    <3>2. j \in 1..(Len(s) - p) /\ p + j = i - 1 /\ ~(i <= p) /\ i # p + 1
      BY <1>1, <2>3, <3>1
    <3>3. t[i] = b[j]
      BY <2>1, <2>3, <3>1
    <3>4. b[j] = s[p + j]
      BY <1>3, <3>2
    <3> QED
      BY <3>2, <3>3, <3>4
  <2> QED
    BY <2>2, <2>3
<1>12. t \in Seq(S) /\ Len(t) = Len(s) + 1
  BY <1>8, <1>9
<1> QED
  BY <1>10, <1>11, <1>12, Zenon

Datagram == [seq : Seqs, info : Infos]

Sorted == \A i, j \in DOMAIN entries : i < j => entries[i].seq < entries[j].seq

\* The calls that were not for a seq already there.
FirstCalls == {added[i] : i \in {i \in DOMAIN added :
                  \A j \in 1..(i - 1) : added[j].seq # added[i].seq}}

ListInv ==
  /\ entries \in Seq(Datagram) /\ added \in Seq(Datagram)
  /\ length = Len(entries)
  /\ Sorted
  /\ ToSet(entries) = FirstCalls

\* The place the loop finds: everything before it is smaller, everything
\* behind it larger.
LEMMA PlaceSplits ==
  ASSUME entries \in Seq(Datagram), Sorted, NEW seq \in Seqs, ~IsDuplicate(seq)
  PROVE  /\ Place(seq) \in 0..Len(entries)
         /\ \A i \in 1..Place(seq) : entries[i].seq < seq
         /\ \A i \in (Place(seq) + 1)..Len(entries) : entries[i].seq > seq
<1>1. PICK n \in Nat : n = Len(entries)
  BY LenProperties
<1>2. /\ DOMAIN entries = 1..n
      /\ \A i \in 1..n : entries[i].seq \in Int /\ entries[i].seq # seq
  <2>1. DOMAIN entries = 1..n
    BY <1>1, LenProperties
  <2>2. \A i \in 1..n : entries[i] \in Datagram
    BY <1>1, ElementOfSeq
  <2> QED
    BY <2>1, <2>2, ListAssumption DEF Datagram, IsDuplicate, ListAssumption
<1>3. seq \in Int
  BY ListAssumption DEF ListAssumption
<1>4. \A i, j \in 1..n : i < j => entries[i].seq < entries[j].seq
  BY <1>2 DEF Sorted
<1>5. entries # <<>> => n >= 1 /\ Head(entries) = entries[1]
  BY <1>1, EmptySeq
<1>6. CASE entries = <<>> \/ Head(entries).seq > seq
  <2>1. Place(seq) = 0
    BY <1>6 DEF Place
  <2>2. \A i \in 1..n : entries[i].seq > seq
    <3>1. CASE entries = <<>>
      BY <1>1, <3>1
    <3>2. CASE entries # <<>> /\ entries[1].seq > seq
      BY <1>2, <1>3, <1>4, <1>5, <3>2
    <3> QED
      BY <1>5, <1>6, <3>1, <3>2
  <2> QED
    BY <1>1, <2>1, <2>2
<1>7. CASE entries # <<>> /\ ~(Head(entries).seq > seq)
  <2> DEFINE Stops == {p \in 1..n : p < n => entries[p + 1].seq >= seq}
             Ok(p) == /\ p < n => entries[p + 1].seq >= seq
                      /\ \A q \in 2..p : entries[q].seq < seq
  <2>1. PICK p \in Stops : \A q \in Stops : p <= q
    <3>1. n \in Stops /\ Stops \subseteq Nat
      BY <1>5, <1>7
    <3> HIDE DEF Stops
    <3> QED
      BY <3>1, Least
  <2>2. ASSUME NEW q \in 2..p PROVE entries[q].seq < seq
    <3>1. q - 1 \in 1..n /\ (q - 1) + 1 = q /\ q \in 1..n /\ ~(p <= q - 1)
      BY <2>1
    <3>2. q - 1 \notin Stops
      BY <2>1, <3>1
    <3>3. ~(entries[(q - 1) + 1].seq >= seq)
      BY <3>1, <3>2
    <3> QED
      BY <1>2, <1>3, <3>1, <3>3
  <2>3. p \in 1..n /\ Ok(p)
    BY <2>1, <2>2
  <2>4. Place(seq) = CHOOSE r \in 1..n : Ok(r)
    BY <1>1, <1>7 DEF Place
  <2>5. Place(seq) \in 1..n /\ Ok(Place(seq))
    <3> HIDE DEF Ok
    <3> QED
      BY <2>3, <2>4
  <2> HIDE DEF Ok
  <2>6. PICK r \in 1..n : r = Place(seq) /\ Ok(r)
    BY <2>5
  <2>7. ASSUME NEW i \in 1..r PROVE entries[i].seq < seq
    <3>1. entries[1].seq < seq
      BY <1>2, <1>3, <1>5, <1>7
    <3>2. i = 1 \/ i \in 2..r
      OBVIOUS
    <3> QED
      BY <2>6, <3>1, <3>2 DEF Ok
  <2>8. ASSUME NEW i \in (r + 1)..n PROVE entries[i].seq > seq
    <3>1. r + 1 \in 1..n /\ entries[r + 1].seq >= seq /\ i \in 1..n
      BY <2>6 DEF Ok
    <3>2. entries[r + 1].seq > seq
      BY <1>2, <1>3, <3>1
    <3>3. i = r + 1 \/ r + 1 < i
      OBVIOUS
    <3>4. \A j \in 1..n : r + 1 < j => entries[r + 1].seq < entries[j].seq
      BY <1>4, <3>1
    <3> QED
      BY <1>2, <1>3, <3>1, <3>2, <3>3, <3>4
  <2> QED
    BY <1>1, <2>6, <2>7, <2>8
<1> QED
  BY <1>6, <1>7

LEMMA ListInitInv == ListInit => ListInv
<1> SUFFICES ASSUME ListInit PROVE ListInv
  OBVIOUS
<1>1. DOMAIN <<>> = {}
  OBVIOUS
<1> QED
  BY <1>1, EmptySeq DEF ListInit, ListInv, Sorted, FirstCalls, ToSet

LEMMA ListNextInv == ListInv /\ [ListNext]_listVars => ListInv'
<1> SUFFICES ASSUME ListInv, [ListNext]_listVars PROVE ListInv'
  OBVIOUS
<1>1. CASE UNCHANGED listVars
  BY <1>1 DEF listVars, ListInv, Sorted, FirstCalls
<1>2. ASSUME NEW info \in Infos, NEW seq \in Seqs, add_list_elem(info, seq)
      PROVE  ListInv'
  <2>1. PICK d \in Datagram : d = [seq |-> seq, info |-> info] /\ d.seq = seq
    <3>1. [seq |-> seq, info |-> info] \in Datagram
      BY DEF Datagram
    <3> QED
      BY <3>1
  <2>2. PICK n \in Nat, m \in Nat : n = Len(entries) /\ m = Len(added)
    BY LenProperties DEF ListInv
  <2>3. DOMAIN entries = 1..n /\ DOMAIN added = 1..m
    BY <2>2, LenProperties DEF ListInv
  <2>4. /\ added' \in Seq(Datagram) /\ DOMAIN added' = 1..(m + 1)
        /\ \A i \in 1..m : added'[i] = added[i]
        /\ added'[m + 1] = d
    <3>1. added' = Append(added, d)
      BY <1>2, <2>1 DEF add_list_elem
    <3>2. added' \in Seq(Datagram) /\ Len(added') = m + 1
          /\ (\A i \in 1..m : added'[i] = added[i]) /\ added'[m + 1] = d
      BY <2>2, <3>1, AppendProperties DEF ListInv
    <3> QED
      BY <3>2, LenProperties
  <2> DEFINE Firsts == {i \in 1..m : \A j \in 1..(i - 1) : added[j].seq # added[i].seq}
             NewFirsts == {i \in 1..(m + 1) :
                             \A j \in 1..(i - 1) : added'[j].seq # added'[i].seq}
             New == \A j \in 1..m : added[j].seq # seq
  <2>5. FirstCalls = {added[i] : i \in Firsts} /\ FirstCalls' = {added'[i] : i \in NewFirsts}
    BY <2>3, <2>4 DEF FirstCalls
  <2>6. NewFirsts = IF New THEN Firsts \union {m + 1} ELSE Firsts
    <3>1. ASSUME NEW i \in 1..m PROVE i \in NewFirsts <=> i \in Firsts
      BY <2>4
    <3>2. m + 1 \in NewFirsts <=> New
      BY <2>1, <2>4
    <3>3. \A i \in 1..(m + 1) : i \in 1..m \/ i = m + 1
      OBVIOUS
    <3>4. m + 1 \notin Firsts /\ Firsts \subseteq 1..m /\ NewFirsts \subseteq 1..(m + 1)
      OBVIOUS
    <3> HIDE DEF Firsts, NewFirsts, New
    <3>5. \A i : i \in NewFirsts <=> (i \in Firsts \/ (i = m + 1 /\ New))
      BY <3>1, <3>2, <3>3, <3>4
    <3> QED
      BY <3>5
  <2>7. FirstCalls' = IF New THEN FirstCalls \union {d} ELSE FirstCalls
    <3>1. \A i \in Firsts : added'[i] = added[i]
      BY <2>4
    <3> HIDE DEF Firsts, NewFirsts, New
    <3> QED
      BY <2>4, <2>5, <2>6, <3>1
  <2>8. New <=> ~IsDuplicate(seq)
    <3>1. ToSet(entries) = FirstCalls /\ ToSet(entries) = {entries[i] : i \in 1..n}
      BY <2>3 DEF ListInv, ToSet
    <3>2. IsDuplicate(seq) <=> \E c \in FirstCalls : c.seq = seq
      BY <2>3, <3>1 DEF IsDuplicate
    <3>3. ASSUME ~New PROVE \E c \in FirstCalls : c.seq = seq
      <4> DEFINE Same == {i \in 1..m : added[i].seq = seq}
      <4>1. Same # {} /\ Same \subseteq Nat
        BY <3>3
      <4>2. PICK i \in Same : \A j \in Same : i <= j
        <5> HIDE DEF Same
        <5> QED
          BY <4>1, Least
      <4>3. \A j \in 1..(i - 1) : added[j].seq # added[i].seq
        <5>1. ASSUME NEW j \in 1..(i - 1), added[j].seq = added[i].seq PROVE FALSE
          <6>1. j \in Same /\ ~(i <= j)
            BY <5>1
          <6> QED
            BY <4>2, <6>1
        <5> QED
          BY <5>1
      <4>4. i \in Firsts /\ added[i].seq = seq
        BY <4>3
      <4> QED
        BY <2>5, <4>4
    <3>4. ASSUME New, NEW c \in FirstCalls PROVE c.seq # seq
      BY <2>5, <3>4
    <3> QED
      BY <3>2, <3>3, <3>4
  <2> HIDE DEF Firsts, NewFirsts, New
  <2>9. CASE IsDuplicate(seq)
    <3>1. UNCHANGED <<entries, length>>
      BY <1>2, <2>9 DEF add_list_elem
    <3> QED
      BY <2>4, <2>7, <2>8, <2>9, <3>1 DEF ListInv, Sorted
  <2>10. CASE ~IsDuplicate(seq)
    <3>1. PICK p \in 0..n : p = Place(seq)
      BY <2>2, <2>10, PlaceSplits DEF ListInv
    <3>2. entries' = InsertAt(entries, p + 1, d) /\ length' = length + 1
      BY <1>2, <2>1, <2>10, <3>1 DEF add_list_elem
    <3>3. /\ entries' \in Seq(Datagram) /\ Len(entries') = n + 1
          /\ \A i \in 1..(n + 1) :
               entries'[i] = IF i <= p THEN entries[i]
                             ELSE IF i = p + 1 THEN d ELSE entries[i - 1]
      <4>1. PICK s \in Seq(Datagram) : s = entries
        BY DEF ListInv
      <4>2. Len(s) = n
        BY <2>2, <4>1
      <4>3. entries' = InsertAt(s, p + 1, d)
        BY <3>2, <4>1
      <4>4. p \in 0..Len(s)
        BY <4>2
      <4>5. /\ InsertAt(s, p + 1, d) \in Seq(Datagram)
            /\ Len(InsertAt(s, p + 1, d)) = Len(s) + 1
            /\ \A i \in 1..(Len(s) + 1) : InsertAt(s, p + 1, d)[i] = Shifted(s, p, d, i)
        BY <4>4, Inserted, Zenon
      <4>6. PICK t : t = InsertAt(s, p + 1, d)
        OBVIOUS
      <4>7. /\ t \in Seq(Datagram) /\ Len(t) = n + 1
            /\ \A i \in 1..(n + 1) : t[i] = Shifted(s, p, d, i)
        BY <4>2, <4>5, <4>6, Zenon
      <4>8. /\ entries' \in Seq(Datagram) /\ Len(entries') = n + 1
            /\ \A i \in 1..(n + 1) : entries'[i] = Shifted(entries, p, d, i)
        BY <4>1, <4>3, <4>6, <4>7, Zenon
      <4> QED
        BY <4>8, Zenon DEF Shifted
    <3>4. DOMAIN entries' = 1..(n + 1)
      BY <3>3, LenProperties
    <3>5. /\ \A i \in 1..p : entries[i].seq < seq
          /\ \A i \in (p + 1)..n : entries[i].seq > seq
      BY <2>2, <2>10, <3>1, PlaceSplits DEF ListInv
    <3>6. \A i, j \in 1..n : i < j => entries[i].seq < entries[j].seq
      BY <2>3 DEF ListInv, Sorted
    <3>7. \A i \in 1..n : entries[i].seq \in Int
      <4>1. \A i \in 1..n : entries[i] \in Datagram
        BY <2>2, ElementOfSeq DEF ListInv
      <4> QED
        BY <4>1, ListAssumption DEF Datagram, ListAssumption
    <3>8. seq \in Int
      BY ListAssumption DEF ListAssumption
    <3>9. ASSUME NEW i \in 1..(n + 1), NEW j \in 1..(n + 1), i < j
          PROVE  entries'[i].seq < entries'[j].seq
      <4>1. CASE j <= p
        BY <3>3, <3>6, <3>9, <4>1
      <4>2. CASE j = p + 1
        <5>1. i \in 1..p
          BY <3>9, <4>2
        <5> QED
          BY <2>1, <3>3, <3>5, <4>2, <5>1
      <4>3. CASE j > p + 1
        <5>0. j - 1 \in (p + 1)..n /\ entries'[j] = entries[j - 1]
          BY <3>3, <4>3
        <5>1. CASE i <= p
          BY <3>3, <3>6, <5>0, <5>1
        <5>2. CASE i = p + 1
          BY <2>1, <3>3, <3>5, <3>7, <3>8, <5>0, <5>2
        <5>3. CASE i > p + 1
          <6>1. i - 1 \in 1..n /\ i - 1 < j - 1 /\ entries'[i] = entries[i - 1]
            BY <3>3, <3>9, <5>3
          <6> QED
            BY <3>6, <5>0, <6>1
        <5> QED
          BY <5>1, <5>2, <5>3
      <4> QED
        BY <4>1, <4>2, <4>3
    <3>10. ToSet(entries') = ToSet(entries) \union {d}
      <4>1. \A i \in 1..(n + 1) : entries'[i] = d \/ \E k \in 1..n : entries'[i] = entries[k]
        <5>1. ASSUME NEW i \in 1..(n + 1), i > p + 1 PROVE i - 1 \in 1..n
          BY <5>1
        <5> QED
          BY <3>3, <5>1
      <4>2. ASSUME NEW k \in 1..n PROVE \E i \in 1..(n + 1) : entries'[i] = entries[k]
        <5>1. CASE k <= p
          BY <3>3, <5>1
        <5>2. CASE k > p
          <6>1. k + 1 \in 1..(n + 1) /\ (k + 1) - 1 = k /\ ~(k + 1 <= p) /\ k + 1 # p + 1
            BY <5>2
          <6> QED
            BY <3>3, <6>1
        <5> QED
          BY <5>1, <5>2
      <4>3. p + 1 \in 1..(n + 1) /\ entries'[p + 1] = d
        BY <3>3
      <4>4. ToSet(entries) = {entries[i] : i \in 1..n}
            /\ ToSet(entries') = {entries'[i] : i \in 1..(n + 1)}
        BY <2>3, <3>4 DEF ToSet
      <4> QED
        BY <4>1, <4>2, <4>3, <4>4
    <3>11. ToSet(entries') = FirstCalls'
      BY <2>7, <2>8, <2>10, <3>10 DEF ListInv
    <3>12. ToSet(entries)' = ToSet(entries')
      BY DEF ToSet
    <3>13. length' = Len(entries')
      BY <2>2, <3>2, <3>3 DEF ListInv
    <3>14. Sorted'
      BY <3>4, <3>9 DEF Sorted
    <3> QED
      BY <2>4, <3>3, <3>11, <3>12, <3>13, <3>14 DEF ListInv
  <2> QED
    BY <2>9, <2>10
<1> QED
  BY <1>1, <1>2 DEF ListNext

\* However often datagrams are put in, and in whatever order, the list holds
\* each seq once, as it came first, and in order (lab6/lib/list.c:13-61).
THEOREM ListIsAlwaysWindow == ListSpec => []ListIsWindow
<1>1. ListInv => ListIsWindow
  BY DEF ListInv, ListIsWindow, Sorted, FirstCalls
<1> QED
  BY <1>1, ListInitInv, ListNextInv, PTL DEF ListSpec

-----------------------------------------------------------------------------
(* The receive loop: what it finds in the part of the answer it has is in  *)
(* the whole answer too, and in the same place.                            *)

LEMMA MinIsLeast ==
  ASSUME NEW S, S \subseteq Nat, S # {}
  PROVE  Min(S) \in S /\ \A k \in S : Min(S) <= k
<1>1. \E m \in S : \A k \in S : m <= k
  BY Least
<1> QED
  BY <1>1 DEF Min

\* What answers are made of.
Said == UNION {Range(reply) : reply \in Answers}

Symbol == Said \union {"Content-Length: ", "\r\n"}

LEMMA AnswerType == \A reply \in Answers : reply \in Seq(Symbol)
<1> SUFFICES ASSUME NEW reply \in Answers PROVE reply \in Seq(Symbol)
  OBVIOUS
<1>1. reply \in Seq(STRING)
  BY HttpAssumption DEF HttpAssumption
<1>2. PICK n \in Nat : n = Len(reply) /\ DOMAIN reply = 1..n /\ reply \in [1..n -> STRING]
  BY <1>1, LenProperties
<1>3. \A i \in 1..n : reply[i] \in Symbol
  <2>1. \A i \in 1..n : reply[i] \in Range(reply)
    BY <1>2 DEF Range
  <2>2. Range(reply) \subseteq Symbol
    BY Zenon DEF Symbol, Said
  <2> QED
    BY <2>1, <2>2
<1>4. reply \in [1..n -> Symbol]
  BY <1>2, <1>3
<1> QED
  BY <1>4

\* part begins as whole does.
Begins(part, whole) ==
  Len(part) <= Len(whole) /\ \A i \in 1..Len(part) : part[i] = whole[i]

\* Where buffer_find looks, pattern by pattern.
Found(part, pattern) ==
  {i \in 0..(Len(part) - Len(pattern)) :
     SubSeq(part, i + 1, i + Len(pattern)) = pattern}

LEMMA FindIsFirst ==
  ASSUME NEW part \in Seq(Symbol), NEW pattern \in Seq(Symbol)
  PROVE  IF Found(part, pattern) = {} THEN buffer_find(part, pattern) = -1
         ELSE /\ buffer_find(part, pattern) \in Found(part, pattern)
              /\ \A i \in Found(part, pattern) : buffer_find(part, pattern) <= i
<1>1. PICK F : F = Found(part, pattern)
  OBVIOUS
<1>2. buffer_find(part, pattern) = IF F = {} THEN -1 ELSE Min(F)
  BY <1>1 DEF buffer_find, Found
<1>3. F \subseteq Nat
  BY <1>1 DEF Found
<1>4. F # {} => Min(F) \in F /\ \A k \in F : Min(F) <= k
  BY <1>3, MinIsLeast
<1> QED
  BY <1>1, <1>2, <1>4

LEMMA FoundByTheSymbol ==
  ASSUME NEW part \in Seq(Symbol), NEW pattern \in Seq(Symbol), NEW i \in Int
  PROVE  i \in Found(part, pattern)
           <=> /\ i \in 0..(Len(part) - Len(pattern))
               /\ \A k \in 1..Len(pattern) : part[i + k] = pattern[k]
<1>1. PICK n \in Nat, m \in Nat : n = Len(part) /\ m = Len(pattern)
  BY LenProperties
<1>2. CASE i \in 0..(n - m)
  <2>1. \A k \in (i + 1)..(i + m) : part[k] \in Symbol
    <3>1. \A k \in 1..n : part[k] \in Symbol
      BY <1>1, ElementOfSeq
    <3>2. \A k \in (i + 1)..(i + m) : k \in 1..n
      BY <1>1, <1>2
    <3> QED
      BY <3>1, <3>2
  <2>2. PICK t : t = SubSeq(part, i + 1, i + m)
    OBVIOUS
  <2>3. /\ t \in Seq(Symbol)
        /\ Len(t) = IF i + 1 <= i + m THEN (i + m) - (i + 1) + 1 ELSE 0
        /\ \A k \in 1..((i + m) - (i + 1) + 1) : t[k] = part[(i + 1) + k - 1]
    BY <1>1, <1>2, <2>1, <2>2, SubSeqProperties
  <2>4. Len(t) = m /\ \A k \in 1..m : t[k] = part[i + k]
    BY <1>1, <1>2, <2>3
  <2>5. t = pattern <=> \A k \in 1..m : t[k] = pattern[k]
    BY <1>1, <2>3, <2>4, SeqEqual
  <2> QED
    BY <1>1, <1>2, <2>2, <2>4, <2>5 DEF Found
<1>3. CASE ~(i \in 0..(n - m))
  BY <1>1, <1>3 DEF Found
<1> QED
  BY <1>2, <1>3

\* What is found in the beginning is what is found in the whole.
LEMMA FoundEarly ==
  ASSUME NEW part \in Seq(Symbol), NEW whole \in Seq(Symbol), Begins(part, whole),
         NEW pattern \in Seq(Symbol), buffer_find(part, pattern) >= 0
  PROVE  /\ buffer_find(whole, pattern) = buffer_find(part, pattern)
         /\ buffer_find(part, pattern) \in Found(part, pattern)
<1>1. PICK n \in Nat, m \in Nat, w \in Nat :
        n = Len(part) /\ m = Len(pattern) /\ w = Len(whole)
  BY LenProperties
<1>2. PICK f : f = buffer_find(part, pattern)
  OBVIOUS
<1>3. f \in Found(part, pattern) /\ \A i \in Found(part, pattern) : f <= i
  BY <1>2, FindIsFirst
<1>4. f \in Int /\ f \in 0..(n - m)
  BY <1>1, <1>3 DEF Found
<1>5. n <= w /\ \A i \in 1..n : part[i] = whole[i]
  BY <1>1 DEF Begins
<1>6. ASSUME NEW i \in 0..(n - m)
      PROVE  i \in Found(part, pattern) <=> i \in Found(whole, pattern)
  <2>1. \A k \in 1..m : i + k \in 1..n
    BY <1>1
  <2>2. \A k \in 1..m : part[i + k] = whole[i + k]
    BY <1>5, <2>1
  <2>3. i \in 0..(w - m) /\ i \in Int
    BY <1>1, <1>5
  <2>4. i \in Found(part, pattern) <=> \A k \in 1..m : part[i + k] = pattern[k]
    BY <1>1, <2>3, FoundByTheSymbol
  <2>5. i \in Found(whole, pattern) <=> \A k \in 1..m : whole[i + k] = pattern[k]
    BY <1>1, <2>3, FoundByTheSymbol
  <2> QED
    BY <2>2, <2>4, <2>5
<1>7. PICK g : g = buffer_find(whole, pattern)
  OBVIOUS
<1>8. f \in Found(whole, pattern)
  BY <1>3, <1>4, <1>6
<1>9. g \in Found(whole, pattern) /\ g <= f
  BY <1>7, <1>8, FindIsFirst
<1>10. g \in 0..(n - m)
  <2>1. g \in 0..(w - m)
    BY <1>1, <1>9 DEF Found
  <2> QED
    BY <1>1, <1>4, <1>9, <2>1
<1>11. f <= g
  BY <1>3, <1>6, <1>9, <1>10
<1> QED
  BY <1>2, <1>3, <1>4, <1>7, <1>9, <1>10, <1>11

Lowered(part) == [i \in DOMAIN part |-> tolower(part[i])]

LEMMA LoweredType ==
  ASSUME NEW part \in Seq(Symbol)
  PROVE  /\ Lowered(part) \in Seq(Symbol) /\ Len(Lowered(part)) = Len(part)
         /\ \A i \in 1..Len(part) : Lowered(part)[i] = tolower(part[i])
<1>1. PICK n \in Nat : n = Len(part) /\ DOMAIN part = 1..n
  BY LenProperties
<1>2. \A i \in 1..n : tolower(part[i]) \in Symbol
  <2>1. \A i \in 1..n : part[i] \in Symbol
    BY <1>1, ElementOfSeq
  <2>2. "Content-Length: " \in Symbol
    BY DEF Symbol
  <2> QED
    BY <2>1, <2>2, Zenon DEF tolower
<1>3. Lowered(part) = [i \in 1..n |-> tolower(part[i])]
  BY <1>1 DEF Lowered
<1>4. Lowered(part) \in [1..n -> Symbol] /\ \A i \in 1..n : Lowered(part)[i] = tolower(part[i])
  BY <1>2, <1>3
<1> QED
  BY <1>1, <1>4

LEMMA Patterns ==
  /\ HEADER_TERMINATOR \in Seq(Symbol) /\ Len(HEADER_TERMINATOR) = 2
  /\ CONTENT_LENGTH \in Seq(Symbol) /\ Len(CONTENT_LENGTH) = 1
  /\ CONTENT_LENGTH[1] = "Content-Length: "
<1>1. \A S : \A s \in S : <<s>> \in Seq(S) /\ <<s, s>> \in Seq(S)
  OBVIOUS
<1>2. "Content-Length: " \in Symbol /\ "\r\n" \in Symbol
  BY DEF Symbol
<1>3. \A s : Len(<<s>>) = 1 /\ Len(<<s, s>>) = 2 /\ <<s>>[1] = s
  OBVIOUS
<1> QED
  BY <1>1, <1>2, <1>3, Zenon DEF HEADER_TERMINATOR, CONTENT_LENGTH

\* What a complete header says is read rightly, and is right.
LEMMA LengthIsRight ==
  ASSUME NEW reply \in Answers, HasLength(reply),
         NEW part \in Seq(Symbol), Begins(part, reply),
         buffer_find(part, HEADER_TERMINATOR) >= 0,
         buffer_find_insensitive(part, CONTENT_LENGTH) >= 0
  PROVE  LET end    == buffer_find(part, HEADER_TERMINATOR)
             start  == buffer_find_insensitive(part, CONTENT_LENGTH)
             number == strtol(part, start + 2)
         IN  end \in Nat /\ number \in Nat /\ Len(reply) <= end + 2 + number
<1>0. CONTENT_LENGTH[1] = "Content-Length: "
  BY Patterns
<1>1. /\ HEADER_TERMINATOR \in Seq(Symbol) /\ Len(HEADER_TERMINATOR) = 2
      /\ CONTENT_LENGTH \in Seq(Symbol) /\ Len(CONTENT_LENGTH) = 1
  BY Patterns
<1>2. reply \in Seq(Symbol)
  BY AnswerType
<1>3. PICK n \in Nat, w \in Nat : n = Len(part) /\ w = Len(reply)
  BY <1>2, LenProperties
<1>4. n <= w /\ \A i \in 1..n : part[i] = reply[i]
  BY <1>3 DEF Begins
<1>5. PICK end : end = buffer_find(part, HEADER_TERMINATOR)
  OBVIOUS
<1>6. end = buffer_find(reply, HEADER_TERMINATOR) /\ end \in 0..(n - 2)
  <2>1. /\ buffer_find(reply, HEADER_TERMINATOR) = end
        /\ end \in Found(part, HEADER_TERMINATOR)
    BY <1>1, <1>2, <1>5, FoundEarly
  <2> QED
    BY <1>1, <1>3, <2>1 DEF Found
<1>7. PICK b \in Seq(Symbol), a \in Seq(Symbol) : b = Lowered(part) /\ a = Lowered(reply)
  BY <1>2, LoweredType
<1>8. /\ Len(b) = n /\ Len(a) = w /\ \A i \in 1..n : b[i] = tolower(part[i])
      /\ \A i \in 1..w : a[i] = tolower(reply[i])
  BY <1>2, <1>3, <1>7, LoweredType
<1>9. Begins(b, a)
  BY <1>4, <1>8 DEF Begins
<1>10. PICK start : start = buffer_find_insensitive(part, CONTENT_LENGTH)
  OBVIOUS
<1>11. /\ start = buffer_find(b, CONTENT_LENGTH) /\ start >= 0
       /\ buffer_find_insensitive(reply, CONTENT_LENGTH) = buffer_find(a, CONTENT_LENGTH)
  BY <1>7, <1>10 DEF buffer_find_insensitive, Lowered
<1>12. /\ start = buffer_find(a, CONTENT_LENGTH) /\ start \in 0..(n - 1)
       /\ start \in Found(b, CONTENT_LENGTH)
  <2>1. start = buffer_find(a, CONTENT_LENGTH) /\ start \in Found(b, CONTENT_LENGTH)
    BY <1>1, <1>9, <1>11, FoundEarly
  <2> QED
    BY <1>1, <1>8, <2>1 DEF Found
<1>13. \A i \in 1..end : tolower(reply[i]) = "Content-Length: " => start + 1 <= i
  <2>1. SUFFICES ASSUME NEW i \in 1..end, tolower(reply[i]) = "Content-Length: "
                 PROVE  start + 1 <= i
    OBVIOUS
  <2>2. i \in 1..n /\ i \in 1..w /\ i - 1 \in Int /\ i - 1 \in 0..(n - 1) /\ (i - 1) + 1 = i
    BY <1>4, <1>6
  <2>3. b[i] = "Content-Length: "
    BY <1>4, <1>8, <2>1, <2>2
  <2>4. i - 1 \in Found(b, CONTENT_LENGTH)
    <3>1. \A k \in 1..1 : b[(i - 1) + k] = CONTENT_LENGTH[k]
      <4>1. \A k \in 1..1 : k = 1
        OBVIOUS
      <4> QED
        BY <1>0, <2>2, <2>3, <4>1
    <3> QED
      BY <1>1, <1>8, <2>2, <3>1, FoundByTheSymbol
  <2>5. start <= i - 1
    BY <1>1, <1>11, <2>4, FindIsFirst
  <2> QED
    BY <1>6, <1>12, <2>2, <2>5
<1>14. start + 1 \in 1..end
  <2>1. PICK i \in 1..end : tolower(reply[i]) = "Content-Length: "
    BY <1>6 DEF HasLength
  <2>2. start + 1 <= i
    BY <1>13, <2>1
  <2> QED
    BY <1>6, <1>12, <2>2
<1>15. tolower(reply[start + 1]) = "Content-Length: "
  <2>1. start + 1 \in 1..n /\ start + 1 \in 1..w
    BY <1>4, <1>6, <1>14
  <2>2. b[start + 1] = "Content-Length: "
    <3>1. start \in Int /\ 1 \in 1..Len(CONTENT_LENGTH)
      BY <1>1, <1>12
    <3>2. \A k \in 1..Len(CONTENT_LENGTH) : b[start + k] = CONTENT_LENGTH[k]
      BY <1>1, <1>12, <3>1, FoundByTheSymbol
    <3> QED
      BY <1>0, <3>1, <3>2
  <2>3. b[start + 1] = tolower(part[start + 1]) /\ part[start + 1] = reply[start + 1]
    BY <1>4, <1>8, <2>1
  <2> QED
    BY <2>2, <2>3
<1>16. strtol(part, start + 2) = strtol(reply, start + 2)
  <2>1. start + 2 \in 1..n
    BY <1>6, <1>12, <1>14
  <2>2. start + 2 <= Len(part) /\ start + 2 <= Len(reply)
        /\ part[start + 2] = reply[start + 2]
    BY <1>3, <1>4, <2>1
  <2> QED
    BY <2>2 DEF strtol
<1>17. /\ strtol(reply, start + 2) \in Nat
       /\ Len(reply) <= end + 2 + strtol(reply, start + 2)
  <2>1. \A j \in 1..((start + 1) - 1) : tolower(reply[j]) # "Content-Length: "
    <3>1. SUFFICES ASSUME NEW j \in 1..((start + 1) - 1),
                          tolower(reply[j]) = "Content-Length: "
                   PROVE  FALSE
      OBVIOUS
    <3>2. j \in 1..end /\ ~(start + 1 <= j)
      BY <1>6, <1>12, <1>14
    <3> QED
      BY <1>13, <3>1, <3>2
  <2>2. /\ strtol(reply, (start + 1) + 1) \in Nat
        /\ Len(reply) <= end + Len(HEADER_TERMINATOR) + strtol(reply, (start + 1) + 1)
    <3>1. \A i \in 1..end :
            (/\ tolower(reply[i]) = "Content-Length: "
             /\ \A j \in 1..(i - 1) : tolower(reply[j]) # "Content-Length: ") =>
               /\ strtol(reply, i + 1) \in Nat
               /\ Len(reply) <= end + Len(HEADER_TERMINATOR) + strtol(reply, i + 1)
      BY <1>6, HttpAssumption, Zenon DEF HttpAssumption
    <3> QED
      BY <1>14, <1>15, <2>1, <3>1
  <2>3. (start + 1) + 1 = start + 2
    BY <1>12
  <2> QED
    BY <1>1, <2>2, <2>3
<1>18. end \in Nat
  BY <1>6
<1> QED
  BY <1>5, <1>10, <1>16, <1>17, <1>18

\* What has been read and what is still to come are the answer, in order,
\* or what of it a connection that ends lets through.
Streamed ==
  /\ response \in Answers
  /\ data \in Seq(Symbol) /\ unread \in Seq(Symbol)
  /\ Len(data) + Len(unread) <= Len(response)
  /\ Begins(data, response)
  /\ \A i \in 1..Len(unread) : unread[i] = response[Len(data) + i]

\* The second loop knows where the answer ends, or there is no more of it.
Measured ==
  at = "body" /\ (SaysLength \/ SaysNone) =>
    \/ unread = <<>>
    \/ header_end \in Nat /\ content_length \in Nat
       /\ Len(response) <= header_end + content_length

HttpInv == Streamed /\ Measured /\ ReceivesWhole

\* A read moves what it takes from the stream to the buffer.
LEMMA ReadStreams ==
  ASSUME Streamed, NEW n \in Nat, Read(n), response' = response
  PROVE  Streamed'
<1>1. response \in Seq(Symbol)
  BY AnswerType DEF Streamed
<1>2. PICK d \in Seq(Symbol), u \in Seq(Symbol), w \in Nat, l \in Nat, m \in Nat :
        d = data /\ u = unread /\ w = Len(response) /\ l = Len(data) /\ m = Len(unread)
  BY <1>1, LenProperties DEF Streamed
<1>3. n \in 1..m /\ l + m <= w /\ data' = d \o SubSeq(u, 1, n) /\ unread' = SubSeq(u, n + 1, m)
  BY <1>2 DEF Read, Streamed
<1>4. \A i \in 1..l : d[i] = response[i]
  BY <1>2 DEF Streamed, Begins
<1>5. \A i \in 1..m : u[i] = response[l + i] /\ u[i] \in Symbol
  BY <1>2, ElementOfSeq DEF Streamed
<1>6. PICK s : s = SubSeq(u, 1, n)
  OBVIOUS
<1>7. s \in Seq(Symbol) /\ Len(s) = n /\ \A i \in 1..n : s[i] = u[i]
  <2>1. \A i \in 1..n : u[i] \in Symbol
    BY <1>3, <1>5
  <2>2. /\ s \in Seq(Symbol) /\ Len(s) = IF 1 <= n THEN n - 1 + 1 ELSE 0
        /\ \A i \in 1..(n - 1 + 1) : s[i] = u[1 + i - 1]
    BY <1>6, <2>1, SubSeqProperties
  <2> QED
    BY <1>3, <2>2
<1>8. /\ unread' \in Seq(Symbol) /\ Len(unread') = m - n
      /\ \A i \in 1..(m - n) : unread'[i] = u[n + i]
  <2>0. PICK t : t = SubSeq(u, n + 1, m)
    OBVIOUS
  <2>1. \A i \in (n + 1)..m : u[i] \in Symbol
    BY <1>3, <1>5
  <2>2. PICK k \in Int : k = n + 1
    BY <1>3
  <2>3. t = SubSeq(u, k, m) /\ \A i \in k..m : u[i] \in Symbol
    BY <2>0, <2>1, <2>2
  <2>4. /\ t \in Seq(Symbol) /\ Len(t) = IF k <= m THEN m - k + 1 ELSE 0
        /\ \A i \in 1..(m - k + 1) : t[i] = u[k + i - 1]
    BY <2>3, SubSeqProperties
  <2>5. (IF k <= m THEN m - k + 1 ELSE 0) = m - n
    BY <1>3, <2>2
  <2>6. ASSUME NEW i \in 1..(m - n)
        PROVE  t[i] = u[n + i]
    <3>1. i \in 1..(m - k + 1) /\ k + i - 1 = n + i
      BY <1>3, <2>2, <2>6
    <3> QED
      BY <2>4, <3>1
  <2> QED
    BY <1>3, <2>0, <2>4, <2>5, <2>6, Zenon
<1>9. PICK e : e = d \o s
  OBVIOUS
<1>10. /\ e \in Seq(Symbol) /\ Len(e) = Len(d) + Len(s)
       /\ \A i \in 1..(Len(d) + Len(s)) : e[i] = IF i <= Len(d) THEN d[i] ELSE s[i - Len(d)]
  BY <1>7, <1>9, ConcatProperties
<1>11. Len(e) = l + n /\ \A i \in 1..(l + n) : e[i] = IF i <= l THEN d[i] ELSE s[i - l]
  BY <1>2, <1>7, <1>10
<1>12. ASSUME NEW i \in 1..(l + n) PROVE e[i] = response[i]
  <2>1. CASE i <= l
    BY <1>4, <1>11, <2>1
  <2>2. CASE ~(i <= l)
    <3>1. i - l \in 1..n /\ i - l \in 1..m /\ l + (i - l) = i
      BY <1>3, <2>2
    <3> QED
      BY <1>5, <1>7, <1>11, <2>2, <3>1
  <2> QED
    BY <2>1, <2>2
<1>13. ASSUME NEW i \in 1..(m - n) PROVE unread'[i] = response[(l + n) + i]
  <2>1. n + i \in 1..m /\ l + (n + i) = (l + n) + i
    BY <1>3
  <2> QED
    BY <1>5, <1>8, <2>1
<1>14. data' = e
  BY <1>3, <1>6, <1>9
<1>15. Begins(data', response)
  <2>1. Len(e) <= Len(response)
    BY <1>2, <1>3, <1>11
  <2>2. \A i \in 1..Len(e) : e[i] = response[i]
    BY <1>11, <1>12, Zenon
  <2>3. Begins(e, response)
    BY <2>1, <2>2, Zenon DEF Begins
  <2> QED
    BY <1>14, <2>3
<1>16. Len(data') + Len(unread') <= Len(response)
  <2>1. Len(data') = l + n /\ Len(unread') = m - n
    BY <1>8, <1>11, <1>14
  <2>2. (l + n) + (m - n) = l + m
    BY <1>3
  <2> QED
    BY <1>2, <1>3, <2>1, <2>2
<1> QED
  BY <1>8, <1>10, <1>11, <1>13, <1>14, <1>15, <1>16 DEF Streamed, Begins

\* When the client has as much as the server says there is, it has all.
LEMMA CompleteIsWhole ==
  ASSUME NEW reply \in Answers, NEW part \in Seq(Symbol), NEW rest \in Seq(Symbol),
         Len(part) + Len(rest) <= Len(reply),
         NEW end \in Nat, NEW number \in Nat,
         Len(reply) <= end + number, Complete(end, number, part)
  PROVE  rest = <<>>
<1>1. reply \in Seq(Symbol)
  BY AnswerType
<1>2. Len(part) \in Nat /\ Len(rest) \in Nat /\ Len(reply) \in Nat
  BY <1>1, LenProperties
<1>3. Len(rest) = 0
  BY <1>2 DEF Complete
<1> QED
  BY <1>3, EmptySeq

LEMMA HttpInitInv == HttpInit => HttpInv
<1> SUFFICES ASSUME HttpInit PROVE HttpInv
  OBVIOUS
<1>1. response \in Answers /\ response \in Seq(Symbol)
  BY AnswerType DEF HttpInit
<1>2. PICK w \in Nat : w = Len(response)
  BY <1>1, LenProperties
<1>3. PICK k \in 0..w : unread = SubSeq(response, 1, k)
  BY <1>2 DEF HttpInit
<1>4. /\ unread \in Seq(Symbol) /\ Len(unread) = k
      /\ \A i \in 1..k : unread[i] = response[i]
  <2>1. \A i \in 1..k : response[i] \in Symbol
    BY <1>1, <1>2, <1>3, ElementOfSeq
  <2>2. /\ unread \in Seq(Symbol) /\ Len(unread) = IF 1 <= k THEN k - 1 + 1 ELSE 0
        /\ \A i \in 1..(k - 1 + 1) : unread[i] = response[1 + i - 1]
    BY <1>3, <2>1, SubSeqProperties
  <2> QED
    BY <2>2
<1>5. data = <<>> /\ Len(data) = 0 /\ data \in Seq(Symbol) /\ at = "header"
  BY EmptySeq DEF HttpInit
<1>6. Streamed
  BY <1>1, <1>2, <1>4, <1>5 DEF Streamed, Begins
<1> QED
  BY <1>5, <1>6 DEF HttpInv, Measured, ReceivesWhole

LEMMA HttpNextInv == HttpInv /\ [HttpNext]_httpVars => HttpInv'
<1> SUFFICES ASSUME HttpInv, [HttpNext]_httpVars PROVE HttpInv'
  OBVIOUS
<1>1. CASE UNCHANGED httpVars
  BY <1>1 DEF httpVars, HttpInv, Streamed, Measured, ReceivesWhole, Begins,
              SaysLength, SaysNone
<1>2. ASSUME response' = response PROVE SaysLength' = SaysLength /\ SaysNone' = SaysNone
  BY <1>2 DEF SaysLength, SaysNone
<1>3. ASSUME NEW n \in 1..BUFLEN, ReadHeader(n) PROVE HttpInv'
  <2>1. /\ response' = response /\ Read(n) /\ n \in Nat /\ at = "header"
    BY <1>3 DEF ReadHeader
  <2>2. Streamed'
    BY <2>1, ReadStreams DEF HttpInv
  <2>3. PICK end, start :
          /\ end = buffer_find(data', HEADER_TERMINATOR)
          /\ start = buffer_find_insensitive(data', CONTENT_LENGTH)
    OBVIOUS
  <2>4. CASE at' = "header"
    BY <2>2, <2>4 DEF HttpInv, Measured, ReceivesWhole
  <2>5. CASE at' # "header"
    <3>1. /\ end >= 0 /\ start >= 0 /\ header_end' = end + 2
          /\ content_length' = strtol(data', start + 2)
          /\ at' = IF Complete(header_end', content_length', data')
                   THEN "returned" ELSE "body"
      BY <1>3, <2>1, <2>3, <2>5 DEF ReadHeader, HEADER_TERMINATOR
    <3>2. ~SaysNone'
      <4>1. PICK d \in Seq(Symbol) : d = data'
        BY <2>2 DEF Streamed
      <4>2. PICK b \in Seq(Symbol) : b = Lowered(d)
        BY LoweredType
      <4>3. start = buffer_find(b, CONTENT_LENGTH)
        BY <2>3, <4>1, <4>2 DEF buffer_find_insensitive, Lowered
      <4>4. /\ CONTENT_LENGTH \in Seq(Symbol) /\ Len(CONTENT_LENGTH) = 1
            /\ CONTENT_LENGTH[1] = "Content-Length: "
        BY Patterns
      <4>5. start \in Found(b, CONTENT_LENGTH)
        <5>1. start >= 0 => start # -1
          OBVIOUS
        <5> QED
          BY <3>1, <4>3, <4>4, <5>1, FindIsFirst
      <4>6. start \in Int /\ start \in 0..(Len(b) - 1) /\ b[start + 1] = CONTENT_LENGTH[1]
        <5>1. start \in 0..(Len(b) - 1)
          BY <4>4, <4>5 DEF Found
        <5> QED
          <6>1. start \in Int /\ 1 \in 1..1
            BY <5>1
          <6>2. \A k \in 1..Len(CONTENT_LENGTH) : b[start + k] = CONTENT_LENGTH[k]
            BY <4>4, <4>5, <6>1, FoundByTheSymbol
          <6> QED
            BY <4>4, <5>1, <6>1, <6>2
      <4>7. PICK i \in 1..Len(d) : tolower(d[i]) = "Content-Length: "
        <5>1. /\ Len(b) = Len(d) /\ Len(d) \in Nat
              /\ \A i \in 1..Len(d) : b[i] = tolower(d[i])
          BY <4>2, LoweredType, LenProperties
        <5>2. start + 1 \in 1..Len(d)
          BY <4>6, <5>1
        <5> QED
          BY <4>4, <4>6, <5>1, <5>2
      <4>8. response' \in Seq(Symbol) /\ i \in 1..Len(response') /\ response'[i] = d[i]
        <5>1. response' \in Seq(Symbol)
          BY <2>2, AnswerType DEF Streamed
        <5>2. Len(response') \in Nat /\ Len(d) \in Nat
          BY <5>1, LenProperties
        <5> QED
          BY <2>2, <4>1, <5>1, <5>2 DEF Streamed, Begins
      <4>9. response'[i] \in Range(response')
        BY <4>8, LenProperties DEF Range
      <4> QED
        BY <4>7, <4>8, <4>9 DEF SaysNone
    <3>3. ASSUME SaysLength'
          PROVE  /\ header_end' \in Nat /\ content_length' \in Nat
                 /\ Len(response') <= header_end' + content_length'
      <4>1. HasLength(response')
        BY <2>1, <3>3 DEF SaysLength
      <4>2. PICK a \in Answers, d \in Seq(Symbol) :
              a = response' /\ d = data' /\ HasLength(a) /\ Begins(d, a)
        BY <2>2, <4>1 DEF Streamed, Begins
      <4>3. /\ buffer_find(d, HEADER_TERMINATOR) >= 0
            /\ buffer_find_insensitive(d, CONTENT_LENGTH) >= 0
        BY <2>3, <3>1, <4>2
      <4>4. end \in Nat /\ strtol(d, start + 2) \in Nat
            /\ Len(a) <= end + 2 + strtol(d, start + 2)
        BY <2>3, <4>2, <4>3, LengthIsRight
      <4>5. content_length' = strtol(d, start + 2)
        BY <3>1, <4>2
      <4>6. Len(a) \in Nat
        <5>1. a \in Seq(Symbol)
          BY AnswerType
        <5> QED
          BY <5>1, LenProperties
      <4> QED
        BY <3>1, <4>2, <4>4, <4>5, <4>6
    <3>4. ASSUME SaysLength', at' = "returned" PROVE unread' = <<>>
      <4>1. Complete(header_end', content_length', data')
        BY <3>1, <3>4
      <4> QED
        BY <2>2, <3>3, <3>4, <4>1, CompleteIsWhole DEF Streamed
    <3> QED
      BY <2>2, <3>2, <3>3, <3>4 DEF HttpInv, Measured, ReceivesWhole
  <2> QED
    BY <2>4, <2>5
<1>4. CASE HeaderEnds \/ BodyEnds
  <2>1. /\ UNCHANGED <<response, closes, unread, data, content_length, header_end>>
        /\ unread = <<>>
    BY <1>4 DEF HeaderEnds, BodyEnds, AtEnd
  <2> QED
    BY <2>1 DEF HttpInv, Streamed, Measured, ReceivesWhole, Begins
<1>5. ASSUME NEW n \in 1..BUFLEN, ReadBody(n) PROVE HttpInv'
  <2>1. /\ response' = response /\ Read(n) /\ n \in Nat /\ at = "body"
        /\ UNCHANGED <<content_length, header_end>>
        /\ at' = IF Complete(header_end, content_length, data')
                 THEN "returned" ELSE "body"
    BY <1>5 DEF ReadBody
  <2>2. Streamed'
    BY <2>1, ReadStreams DEF HttpInv
  <2>3. unread # <<>>
    BY <2>1, EmptySeq DEF Read
  <2>4. ASSUME SaysLength' \/ SaysNone'
        PROVE  /\ header_end' \in Nat /\ content_length' \in Nat
               /\ Len(response') <= header_end' + content_length'
    <3>1. SaysLength \/ SaysNone
      BY <1>2, <2>1, <2>4
    <3> QED
      BY <2>1, <2>3, <3>1 DEF HttpInv, Measured
  <2>5. ASSUME SaysLength' \/ SaysNone', at' = "returned" PROVE unread' = <<>>
    <3>1. Complete(header_end', content_length', data')
      BY <2>1, <2>5
    <3> QED
      BY <2>2, <2>4, <2>5, <3>1, CompleteIsWhole DEF Streamed
  <2> QED
    BY <2>2, <2>4, <2>5 DEF HttpInv, Measured, ReceivesWhole
<1> QED
  BY <1>1, <1>3, <1>4, <1>5 DEF HttpNext

\* However TCP cuts it, the client returns with all of an answer that says
\* its length, or that says none and whose connection ends
\* (tema4-PC-REST_API/helpers.c:73-126).
THEOREM AnswersAreWhole == HttpSpec => []ReceivesWhole
<1>1. HttpInv => ReceivesWhole
  BY DEF HttpInv
<1> QED
  BY <1>1, HttpInitInv, HttpNextInv, PTL DEF HttpSpec

-----------------------------------------------------------------------------
(* The framing: the bytes that are left tell where the receiver is.  A byte *)
(* of a text takes one of them and two zeros, the second escaped, take two. *)

LEMMA IdsAre == Ids \in Seq(Byte) /\ Len(Ids) = 8
<1>1. <<88, 0, 0, 0>> \in Seq(Byte) /\ <<251, 224, 1, 0>> \in Seq(Byte)
  BY DEF Byte
<1>2. Len(<<88, 0, 0, 0>>) = 4 /\ Len(<<251, 224, 1, 0>>) = 4
  OBVIOUS
<1>3. Ids \in Seq(Byte) /\ Len(Ids) = 4 + 4
  BY <1>1, <1>2, ConcatProperties DEF Ids
<1> QED
  BY <1>3

\* What a frame is made of, byte by byte.
LEMMA FrameLayout ==
  ASSUME NEW t \in Seq(Byte), Len(t) <= PAYLOAD
  PROVE  /\ send_frame(t) \in Seq(Byte) /\ Len(send_frame(t)) = PAYLOAD + 12
         /\ send_frame(t)[1] = DLE /\ send_frame(t)[2] = STX
         /\ \A i \in 1..Len(t) : send_frame(t)[10 + i] = t[i]
         /\ \A i \in (11 + Len(t))..(10 + PAYLOAD) : send_frame(t)[i] = DLE
         /\ send_frame(t)[PAYLOAD + 11] = DLE /\ send_frame(t)[PAYLOAD + 12] = ETX
<1>1. PICK p \in Nat, l \in Nat : p = PAYLOAD /\ l = Len(t) /\ l <= p
  BY FramingAssumption, LenProperties DEF FramingAssumption
<1>2. PICK z : z = [i \in 1..(p - l) |-> 0]
  OBVIOUS
<1>3. z \in Seq(Byte) /\ Len(z) = p - l /\ \A i \in 1..(p - l) : z[i] = 0
  <2>1. z \in [1..(p - l) -> Byte] /\ p - l \in Nat
    BY <1>1, <1>2 DEF Byte
  <2> QED
    BY <1>2, <2>1
<1>4. PICK h : h = <<DLE, STX>>
  OBVIOUS
<1>5. PICK e : e = <<DLE, ETX>>
  OBVIOUS
<1>6. /\ h \in Seq(Byte) /\ Len(h) = 2 /\ h[1] = DLE /\ h[2] = STX
      /\ e \in Seq(Byte) /\ Len(e) = 2 /\ e[1] = DLE /\ e[2] = ETX
  BY <1>4, <1>5 DEF Byte, DLE, STX, ETX
<1>7. Ids \in Seq(Byte) /\ Len(Ids) = 8
  BY IdsAre
<1>8. PICK a : a = h \o Ids
  OBVIOUS
<1>9. a \in Seq(Byte) /\ Len(a) = 10 /\ a[1] = DLE /\ a[2] = STX
  <2>1. /\ a \in Seq(Byte) /\ Len(a) = Len(h) + Len(Ids)
        /\ \A i \in 1..(Len(h) + Len(Ids)) : a[i] = IF i <= Len(h) THEN h[i] ELSE Ids[i - Len(h)]
    BY <1>6, <1>7, <1>8, ConcatProperties
  <2> QED
    BY <1>6, <1>7, <2>1
<1>10. PICK b : b = a \o t
  OBVIOUS
<1>11. /\ b \in Seq(Byte) /\ Len(b) = 10 + l
       /\ \A i \in 1..(10 + l) : b[i] = IF i <= 10 THEN a[i] ELSE t[i - 10]
  <2>1. /\ b \in Seq(Byte) /\ Len(b) = Len(a) + Len(t)
        /\ \A i \in 1..(Len(a) + Len(t)) : b[i] = IF i <= Len(a) THEN a[i] ELSE t[i - Len(a)]
    BY <1>9, <1>10, ConcatProperties
  <2> QED
    BY <1>1, <1>9, <2>1
<1>12. PICK c : c = b \o z
  OBVIOUS
<1>13. /\ c \in Seq(Byte) /\ Len(c) = 10 + p
       /\ \A i \in 1..(10 + p) : c[i] = IF i <= 10 + l THEN b[i] ELSE z[i - (10 + l)]
  <2>1. /\ c \in Seq(Byte) /\ Len(c) = Len(b) + Len(z)
        /\ \A i \in 1..(Len(b) + Len(z)) : c[i] = IF i <= Len(b) THEN b[i] ELSE z[i - Len(b)]
    BY <1>3, <1>11, <1>12, ConcatProperties
  <2>2. Len(b) + Len(z) = 10 + p
    BY <1>1, <1>3, <1>11
  <2> QED
    BY <1>11, <2>1, <2>2
<1>14. PICK f : f = c \o e
  OBVIOUS
<1>15. /\ f \in Seq(Byte) /\ Len(f) = 12 + p
       /\ \A i \in 1..(12 + p) : f[i] = IF i <= 10 + p THEN c[i] ELSE e[i - (10 + p)]
  <2>1. /\ f \in Seq(Byte) /\ Len(f) = Len(c) + Len(e)
        /\ \A i \in 1..(Len(c) + Len(e)) : f[i] = IF i <= Len(c) THEN c[i] ELSE e[i - Len(c)]
    BY <1>6, <1>13, <1>14, ConcatProperties
  <2> QED
    BY <1>1, <1>6, <1>13, <2>1
<1>16. f = send_frame(t)
  BY <1>1, <1>2, <1>4, <1>5, <1>8, <1>10, <1>12, <1>14 DEF send_frame
<1>17. f[1] = DLE /\ f[2] = STX
  BY <1>1, <1>9, <1>11, <1>13, <1>15
<1>18. \A i \in 1..l : f[10 + i] = t[i]
  BY <1>1, <1>11, <1>13, <1>15
<1>19. \A i \in (11 + l)..(10 + p) : f[i] = DLE
  <2>1. \A i \in (11 + l)..(10 + p) : i - (10 + l) \in 1..(p - l) /\ f[i] = z[i - (10 + l)]
    BY <1>1, <1>13, <1>15
  <2> QED
    BY <1>3, <2>1 DEF DLE
<1>20. f[p + 11] = DLE /\ f[p + 12] = ETX
  <2>1. /\ p + 11 \in 1..(12 + p) /\ ~(p + 11 <= 10 + p) /\ (p + 11) - (10 + p) = 1
        /\ p + 12 \in 1..(12 + p) /\ ~(p + 12 <= 10 + p) /\ (p + 12) - (10 + p) = 2
    BY <1>1
  <2>2. f[p + 11] = e[1] /\ f[p + 12] = e[2]
    BY <1>15, <2>1
  <2> QED
    BY <1>6, <2>2
<1> QED
  BY <1>1, <1>15, <1>16, <1>17, <1>18, <1>19, <1>20

Both(t) == send_frame(t[1]) \o send_frame(t[2])

\* What arrives: noise, and two frames that may lack a byte.
Stream(t, nz, ls) == nz \o IF ls = 0 THEN Both(t) ELSE RemoveAt(Both(t), ls)

LEMMA TextType ==
  ASSUME NEW t \in Texts
  PROVE  /\ t[1] \in Seq(Byte) /\ t[2] \in Seq(Byte)
         /\ \A i \in 1..Len(t[1]) : t[1][i] # DLE
         /\ \A i \in 1..Len(t[2]) : t[2][i] # DLE
         /\ Len(t[1]) \in Nat /\ Len(t[2]) \in Nat
         /\ Len(t[1]) < BUFFER /\ Len(t[2]) <= PAYLOAD
         /\ BUFFER \in Nat /\ PAYLOAD \in Nat /\ 2 * BUFFER <= PAYLOAD
<1>1. /\ t[1] \in Seq(Byte \ {DLE}) /\ t[2] \in Seq(Byte \ {DLE})
      /\ Len(t[1]) < BUFFER /\ Len(t[2]) <= PAYLOAD
      /\ PAYLOAD \in Nat /\ BUFFER \in 1..(PAYLOAD \div 2)
  BY FramingAssumption DEF FramingAssumption
<1>2. \A s \in Seq(Byte \ {DLE}) :
        s \in Seq(Byte) /\ Len(s) \in Nat /\ \A i \in 1..Len(s) : s[i] # DLE
  BY ElementOfSeq, LenProperties
<1>3. BUFFER \in Nat /\ 2 * BUFFER <= PAYLOAD
  BY <1>1
<1> QED
  BY <1>1, <1>2, <1>3

LEMMA FrameSizeIs == FrameSize = PAYLOAD + 12 /\ PAYLOAD \in Nat
<1>1. <<>> \in Seq(Byte) /\ Len(<<>>) <= PAYLOAD /\ PAYLOAD \in Nat
  BY FramingAssumption DEF FramingAssumption
<1> QED
  BY <1>1, FrameLayout DEF FrameSize

\* And of the two, one behind the other.
LEMMA BothLayout ==
  ASSUME NEW t \in Texts
  PROVE  /\ Both(t) \in Seq(Byte) /\ Len(Both(t)) = 2 * PAYLOAD + 24
         /\ \A k \in 1..(PAYLOAD + 12) : Both(t)[k] = send_frame(t[1])[k]
         /\ \A k \in 1..(PAYLOAD + 12) : Both(t)[PAYLOAD + 12 + k] = send_frame(t[2])[k]
<1>1. /\ t[1] \in Seq(Byte) /\ t[2] \in Seq(Byte) /\ Len(t[1]) <= PAYLOAD /\ Len(t[2]) <= PAYLOAD
      /\ PAYLOAD \in Nat
  BY TextType
<1>2. PICK f, g : f = send_frame(t[1]) /\ g = send_frame(t[2])
  OBVIOUS
<1>3. f \in Seq(Byte) /\ g \in Seq(Byte) /\ Len(f) = PAYLOAD + 12 /\ Len(g) = PAYLOAD + 12
  BY <1>1, <1>2, FrameLayout
<1>4. /\ Both(t) \in Seq(Byte) /\ Len(Both(t)) = Len(f) + Len(g)
      /\ \A i \in 1..(Len(f) + Len(g)) : Both(t)[i] = IF i <= Len(f) THEN f[i] ELSE g[i - Len(f)]
  BY <1>2, <1>3, ConcatProperties DEF Both
<1> QED
  BY <1>1, <1>2, <1>3, <1>4

LEMMA StreamLayout ==
  ASSUME NEW t \in Texts, NEW nz \in Seq(Byte), NEW ls \in 0..(2 * FrameSize)
  PROVE  /\ Stream(t, nz, ls) \in Seq(Byte)
         /\ Len(Stream(t, nz, ls)) = Len(nz) + 2 * PAYLOAD + 24 - (IF ls = 0 THEN 0 ELSE 1)
         /\ \A i \in 1..Len(nz) : Stream(t, nz, ls)[i] = nz[i]
         /\ \A k \in 1..(2 * PAYLOAD + 24) :
              /\ ls = 0 \/ k < ls => Stream(t, nz, ls)[Len(nz) + k] = Both(t)[k]
              /\ ls # 0 /\ k > ls => Stream(t, nz, ls)[Len(nz) + k - 1] = Both(t)[k]
<1>1. PICK p \in Nat, n \in Nat, g \in Seq(Byte) :
        /\ p = PAYLOAD /\ n = Len(nz) /\ g = Both(t) /\ Len(g) = 2 * p + 24
        /\ ls \in 0..(2 * p + 24)
  <2>1. Both(t) \in Seq(Byte) /\ Len(Both(t)) = 2 * PAYLOAD + 24
    BY BothLayout
  <2>2. FrameSize = PAYLOAD + 12 /\ PAYLOAD \in Nat
    BY FrameSizeIs
  <2>3. Len(nz) \in Nat
    BY LenProperties
  <2>4. ls \in 0..(2 * PAYLOAD + 24)
    BY <2>2
  <2> QED
    BY <2>1, <2>2, <2>3, <2>4
<1>2. PICK s : s = Stream(t, nz, ls)
  OBVIOUS
<1>3. CASE ls = 0
  <2>1. s = nz \o g
    BY <1>1, <1>2, <1>3 DEF Stream
  <2>2. /\ s \in Seq(Byte) /\ Len(s) = n + (2 * p + 24)
        /\ \A i \in 1..(n + (2 * p + 24)) : s[i] = IF i <= n THEN nz[i] ELSE g[i - n]
    <3>1. /\ s \in Seq(Byte) /\ Len(s) = Len(nz) + Len(g)
          /\ \A i \in 1..(Len(nz) + Len(g)) : s[i] = IF i <= Len(nz) THEN nz[i] ELSE g[i - Len(nz)]
      BY <1>1, <2>1, ConcatProperties
    <3> QED
      BY <1>1, <3>1
  <2>3. \A i \in 1..n : s[i] = nz[i]
    BY <1>1, <2>2
  <2>4. \A k \in 1..(2 * p + 24) : s[n + k] = g[k]
    <3>1. \A k \in 1..(2 * p + 24) : n + k \in 1..(n + (2 * p + 24)) /\ ~(n + k <= n) /\ (n + k) - n = k
      BY <1>1
    <3> QED
      BY <2>2, <3>1
  <2>5. Len(s) = n + 2 * p + 24 - 0
    BY <1>1, <2>2
  <2> QED
    BY <1>1, <1>2, <1>3, <2>2, <2>3, <2>4, <2>5
<1>4. CASE ls # 0
  <2>0. ls \in 1..(2 * p + 24)
    BY <1>1, <1>4
  <2>1. PICK u, v : u = SubSeq(g, 1, ls - 1) /\ v = SubSeq(g, ls + 1, 2 * p + 24)
    OBVIOUS
  <2>2. \A i \in 1..(2 * p + 24) : g[i] \in Byte
    BY <1>1, ElementOfSeq
  <2>3. /\ u \in Seq(Byte) /\ Len(u) = ls - 1 /\ \A i \in 1..(ls - 1) : u[i] = g[i]
    <3>1. \A i \in 1..(ls - 1) : g[i] \in Byte
      BY <2>0, <2>2
    <3>2. /\ u \in Seq(Byte) /\ Len(u) = IF 1 <= ls - 1 THEN (ls - 1) - 1 + 1 ELSE 0
          /\ \A i \in 1..((ls - 1) - 1 + 1) : u[i] = g[1 + i - 1]
      BY <2>0, <2>1, <3>1, SubSeqProperties
    <3> QED
      BY <2>0, <3>2
  <2>4. /\ v \in Seq(Byte) /\ Len(v) = 2 * p + 24 - ls
        /\ \A i \in 1..(2 * p + 24 - ls) : v[i] = g[ls + i]
    <3>1. \A i \in (ls + 1)..(2 * p + 24) : g[i] \in Byte
      BY <2>0, <2>2
    <3>2. /\ v \in Seq(Byte)
          /\ Len(v) = IF ls + 1 <= 2 * p + 24 THEN (2 * p + 24) - (ls + 1) + 1 ELSE 0
          /\ \A i \in 1..((2 * p + 24) - (ls + 1) + 1) : v[i] = g[(ls + 1) + i - 1]
      <4>1. PICK i \in Int, j \in Int : i = ls + 1 /\ j = 2 * p + 24
        BY <1>1, <2>0
      <4>2. v = SubSeq(g, i, j) /\ \A h \in i..j : g[h] \in Byte
        BY <2>1, <3>1, <4>1
      <4>3. /\ v \in Seq(Byte) /\ Len(v) = IF i <= j THEN j - i + 1 ELSE 0
            /\ \A h \in 1..(j - i + 1) : v[h] = g[i + h - 1]
        BY <4>2, SubSeqProperties
      <4> QED
        BY <4>1, <4>3
    <3> QED
      BY <1>1, <2>0, <3>2
  <2>5. PICK w : w = u \o v
    OBVIOUS
  <2>6. /\ w \in Seq(Byte) /\ Len(w) = 2 * p + 23
        /\ \A i \in 1..(2 * p + 23) : w[i] = IF i <= ls - 1 THEN u[i] ELSE v[i - (ls - 1)]
    <3>1. /\ w \in Seq(Byte) /\ Len(w) = Len(u) + Len(v)
          /\ \A i \in 1..(Len(u) + Len(v)) : w[i] = IF i <= Len(u) THEN u[i] ELSE v[i - Len(u)]
      BY <2>3, <2>4, <2>5, ConcatProperties
    <3> QED
      BY <1>1, <2>0, <2>3, <2>4, <3>1
  <2>7. \A i \in 1..(2 * p + 23) : w[i] = IF i < ls THEN g[i] ELSE g[i + 1]
    <3>1. ASSUME NEW i \in 1..(2 * p + 23), i < ls
          PROVE  w[i] = g[i]
      <4>1. i <= ls - 1 /\ i \in 1..(ls - 1)
        BY <2>0, <3>1
      <4> QED
        BY <2>3, <2>6, <4>1
    <3>2. ASSUME NEW i \in 1..(2 * p + 23), ~(i < ls)
          PROVE  w[i] = g[i + 1]
      <4>1. i - (ls - 1) \in 1..(2 * p + 24 - ls) /\ ls + (i - (ls - 1)) = i + 1
        BY <1>1, <2>0, <3>2
      <4>2. w[i] = v[i - (ls - 1)]
        BY <2>0, <2>6, <3>2
      <4> QED
        BY <2>4, <4>1, <4>2
    <3> QED
      BY <3>1, <3>2
  <2>8. s = nz \o w
    BY <1>1, <1>2, <1>4, <2>1, <2>5 DEF Stream, RemoveAt
  <2>9. /\ s \in Seq(Byte) /\ Len(s) = n + (2 * p + 23)
        /\ \A i \in 1..(n + (2 * p + 23)) : s[i] = IF i <= n THEN nz[i] ELSE w[i - n]
    <3>1. /\ s \in Seq(Byte) /\ Len(s) = Len(nz) + Len(w)
          /\ \A i \in 1..(Len(nz) + Len(w)) : s[i] = IF i <= Len(nz) THEN nz[i] ELSE w[i - Len(nz)]
      BY <2>6, <2>8, ConcatProperties
    <3> QED
      BY <1>1, <2>6, <3>1
  <2>10. \A i \in 1..n : s[i] = nz[i]
    BY <1>1, <2>9
  <2>11. ASSUME NEW k \in 1..(2 * p + 24), k < ls
         PROVE  s[n + k] = g[k]
    <3>1. k \in 1..(2 * p + 23) /\ n + k \in 1..(n + (2 * p + 23)) /\ ~(n + k <= n)
          /\ (n + k) - n = k
      BY <1>1, <2>0, <2>11
    <3> QED
      BY <2>7, <2>9, <2>11, <3>1
  <2>12. ASSUME NEW k \in 1..(2 * p + 24), k > ls
         PROVE  s[n + k - 1] = g[k]
    <3>1. k - 1 \in 1..(2 * p + 23) /\ ~(k - 1 < ls) /\ (k - 1) + 1 = k
          /\ n + k - 1 \in 1..(n + (2 * p + 23)) /\ ~(n + k - 1 <= n) /\ (n + k - 1) - n = k - 1
      BY <1>1, <2>0, <2>12
    <3> QED
      BY <2>7, <2>9, <3>1
  <2> QED
    BY <1>1, <1>2, <1>4, <2>9, <2>10, <2>11, <2>12
<1> QED
  BY <1>3, <1>4

\* All that can be read, and how much of it has been.
Whole == Stream(texts, noise, lost)

ReadSoFar == Len(Whole) - Len(wire)

Left == Len(wire)

FrameType ==
  /\ texts \in Texts /\ noise \in Seq(Byte) /\ lost \in 0..(2 * FrameSize)
  /\ wire \in Seq(Byte) /\ call \in {1, 2} /\ c1 \in Byte
  /\ byteAt \in {"first", "sync", "ids", "data", "escaped", "done"}
  /\ count \in 0..8 /\ buf \in Seq(Byte) /\ received \in Seq(Seq(Byte))

\* What each place in recv_frame says of the others.
CallInv ==
  /\ Len(received) = IF byteAt = "done" THEN 2 ELSE call - 1
  /\ byteAt = "done" => call = 2
  /\ byteAt \in {"first", "sync"} => count = 0
  /\ byteAt = "ids" => count < 8
  /\ byteAt \in {"first", "sync", "ids"} => buf = <<>>
  /\ byteAt \in {"data", "escaped"} => Len(buf) < size

WireIsRest ==
  /\ Left <= Len(Whole)
  /\ \A i \in 1..Left : wire[i] = Whole[ReadSoFar + i]

\* The first call has found nothing yet, or the start of the first frame.
StartInv ==
  FindsStart /\ call = 1 =>
    /\ byteAt = "first" => ReadSoFar = 0
    /\ byteAt = "sync" => ReadSoFar \in 1..(Len(noise) + 1) /\ c1 = Whole[ReadSoFar]
    /\ byteAt = "ids" => ReadSoFar = Len(noise) + 2 + count

\* It reads the text as it is.
FirstInv ==
  FindsStart /\ lost \notin 1..(10 + Len(texts[1])) =>
    /\ call = 1 /\ byteAt = "data" =>
         IF ReadSoFar <= Len(noise) + 10 + Len(texts[1])
         THEN ReadSoFar = Len(noise) + 10 + Len(buf) /\ Begins(buf, texts[1])
         ELSE Begins(texts[1], buf)
    /\ call = 1 /\ byteAt = "escaped" =>
         ReadSoFar > Len(noise) + 10 + Len(texts[1]) /\ Begins(texts[1], buf)
    /\ call = 2 => Begins(texts[1], received[1])

\* What the data of the first frame and its end are, without the byte lost.
Data1 == PAYLOAD + 2 - (IF lost = 0 THEN 0 ELSE 1)

\* What of it comes behind the text.
Rest1 == PAYLOAD + 2 - Len(texts[1]) - (IF lost > 10 + Len(texts[1]) THEN 1 ELSE 0)

Zeros == PAYLOAD - Len(texts[2])

Even == Zeros % 2 = 0

\* A byte of the text takes one from the wire, and what fills it up takes two.
StopsInside ==
  FindsStart /\ lost <= FrameSize /\ call = 1 =>
    /\ byteAt = "data" =>
         Left + Len(buf) <= FrameSize + Data1 /\ FrameSize + Data1 <= Left + 2 * Len(buf)
    /\ byteAt = "escaped" =>
         /\ Left + Len(buf) + 1 <= FrameSize + Data1
         /\ FrameSize + Data1 <= Left + 2 * Len(buf) + 1
         /\ Left < FrameSize + Rest1

\* So the second call begins behind the text of the first frame, and finds
\* the second.
SecondInv ==
  FindsStart /\ lost <= FrameSize /\ call = 2 =>
    /\ byteAt = "first" => Left \in (FrameSize + 1)..(FrameSize + Rest1)
    /\ byteAt = "sync" =>
         \/ Left \in FrameSize..(FrameSize + Rest1 - 1) /\ c1 \in {DLE, ETX}
         \/ Left = FrameSize - 1 /\ c1 = DLE
    /\ byteAt = "ids" => Left = FrameSize - 2 - count
    /\ byteAt = "data" =>
         IF Left >= Zeros + 2
         THEN Len(buf) = PAYLOAD + 2 - Left /\ Begins(buf, texts[2])
         ELSE /\ Begins(texts[2], buf)
              /\ Even =>
                   Left >= 2 /\ Zeros + 2 - Left = 2 * (Len(buf) - Len(texts[2]))
    /\ byteAt = "escaped" =>
         /\ Left < Zeros + 2 /\ Begins(texts[2], buf)
         /\ Even =>
              Left >= 1 /\ Zeros + 1 - Left = 2 * (Len(buf) - Len(texts[2]))
    /\ byteAt = "done" =>
         /\ Begins(texts[2], received[2])
         /\ Even => 2 * (Len(received[2]) - Len(texts[2])) = Zeros

FrameInv ==
  FrameType /\ CallInv /\ WireIsRest /\ StartInv /\ FirstInv /\ StopsInside /\ SecondInv

\* The byte that comes when k are left.
Ahead(k) == Whole[Len(Whole) - k + 1]

LEMMA WholeLayout ==
  ASSUME FrameType
  PROVE  /\ Whole \in Seq(Byte) /\ Len(noise) \in Nat /\ PAYLOAD \in Nat
         /\ FrameSize = PAYLOAD + 12
         /\ lost \in 0..(2 * PAYLOAD + 24)
         /\ Len(Whole) = Len(noise) + 2 * PAYLOAD + 24 - (IF lost = 0 THEN 0 ELSE 1)
         /\ \A i \in 1..Len(noise) : Whole[i] = noise[i]
         /\ \A k \in 1..(2 * PAYLOAD + 24) :
              /\ lost = 0 \/ k < lost => Whole[Len(noise) + k] = Both(texts)[k]
              /\ lost # 0 /\ k > lost => Whole[Len(noise) + k - 1] = Both(texts)[k]
<1>1. texts \in Texts /\ noise \in Seq(Byte) /\ lost \in 0..(2 * FrameSize)
  BY DEF FrameType
<1>2. Len(noise) \in Nat
  BY <1>1, LenProperties
<1>3. FrameSize = PAYLOAD + 12 /\ PAYLOAD \in Nat
  BY FrameSizeIs
<1>4. lost \in 0..(2 * PAYLOAD + 24)
  BY <1>1, <1>3
<1> QED
  BY <1>1, <1>2, <1>3, <1>4, StreamLayout, Zenon DEF Whole

\* Where the texts, their zeros and the marks are in the two frames,
LEMMA FrameBytes ==
  ASSUME FrameType
  PROVE  /\ Both(texts)[1] = DLE /\ Both(texts)[2] = STX
         /\ \A i \in 1..Len(texts[1]) : Both(texts)[10 + i] = texts[1][i]
         /\ \A k \in (11 + Len(texts[1]))..(PAYLOAD + 11) : Both(texts)[k] = DLE
         /\ Both(texts)[PAYLOAD + 12] = ETX
         /\ Both(texts)[PAYLOAD + 13] = DLE /\ Both(texts)[PAYLOAD + 14] = STX
         /\ \A i \in 1..Len(texts[2]) : Both(texts)[PAYLOAD + 22 + i] = texts[2][i]
         /\ \A k \in (PAYLOAD + 23 + Len(texts[2]))..(2 * PAYLOAD + 23) : Both(texts)[k] = DLE
         /\ Both(texts)[2 * PAYLOAD + 24] = ETX
<1>1. texts \in Texts
  BY DEF FrameType
<1>2. PICK p \in Nat, m \in Nat, l \in Nat :
        p = PAYLOAD /\ m = Len(texts[1]) /\ l = Len(texts[2]) /\ m <= p /\ l <= p
  BY <1>1, TextType
<1>3. m <= p /\ l <= p
  BY <1>2
<1>15. texts[1] \in Seq(Byte) /\ texts[2] \in Seq(Byte)
  BY <1>1, TextType
<1>4. PICK f, h : f = send_frame(texts[1]) /\ h = send_frame(texts[2])
  OBVIOUS
<1>5. /\ f[1] = DLE /\ f[2] = STX /\ \A i \in 1..m : f[10 + i] = texts[1][i]
      /\ \A i \in (11 + m)..(10 + p) : f[i] = DLE
      /\ f[p + 11] = DLE /\ f[p + 12] = ETX
  BY <1>2, <1>15, <1>4, FrameLayout
<1>6. /\ h[1] = DLE /\ h[2] = STX /\ \A i \in 1..l : h[10 + i] = texts[2][i]
      /\ \A i \in (11 + l)..(10 + p) : h[i] = DLE
      /\ h[p + 11] = DLE /\ h[p + 12] = ETX
  BY <1>2, <1>15, <1>4, FrameLayout
<1>7. PICK g : g = Both(texts)
  OBVIOUS
<1>8. \A k \in 1..(p + 12) : g[k] = f[k] /\ g[p + 12 + k] = h[k]
  BY <1>1, <1>2, <1>4, <1>7, BothLayout
<1>9. /\ g[1] = DLE /\ g[2] = STX /\ \A i \in 1..m : g[10 + i] = texts[1][i]
      /\ g[p + 12] = ETX
  <2>1. \A i \in 1..m : 10 + i \in 1..(p + 12)
    BY <1>2
  <2>2. 1 \in 1..(p + 12) /\ 2 \in 1..(p + 12) /\ p + 12 \in 1..(p + 12)
    BY <1>2
  <2> QED
    BY <1>5, <1>8, <2>1, <2>2
<1>10. \A k \in (11 + m)..(p + 11) : g[k] = DLE
  <2>1. \A k \in (11 + m)..(p + 11) : k \in 1..(p + 12) /\ (k \in (11 + m)..(10 + p) \/ k = p + 11)
    BY <1>2
  <2> QED
    BY <1>5, <1>8, <2>1
<1>11. g[p + 13] = DLE /\ g[p + 14] = STX
  <2>1. /\ 1 \in 1..(p + 12) /\ 2 \in 1..(p + 12) /\ p + 12 + 1 = p + 13 /\ p + 12 + 2 = p + 14
    BY <1>2
  <2> QED
    BY <1>6, <1>8, <2>1
<1>12. \A i \in 1..l : g[p + 22 + i] = texts[2][i]
  <2>1. \A i \in 1..l : 10 + i \in 1..(p + 12) /\ p + 12 + (10 + i) = p + 22 + i
    BY <1>2
  <2> QED
    BY <1>6, <1>8, <2>1
<1>13. \A k \in (p + 23 + l)..(2 * p + 23) : g[k] = DLE
  <2>1. ASSUME NEW k \in (p + 23 + l)..(2 * p + 23)
        PROVE  g[k] = DLE
    <3>1. PICK i \in Int : i = k - (p + 12)
      BY <2>1
    <3>2. /\ i \in 1..(p + 12) /\ p + 12 + i = k
          /\ i \in (11 + l)..(10 + p) \/ i = p + 11
      BY <1>3, <2>1, <3>1
    <3>3. h[i] = DLE
      BY <1>6, <3>2
    <3>4. g[p + 12 + i] = h[i]
      BY <1>8, <3>2
    <3> QED
      BY <3>2, <3>3, <3>4
  <2> QED
    BY <2>1
<1>14. g[2 * p + 24] = ETX
  <2>1. p + 12 \in 1..(p + 12) /\ p + 12 + (p + 12) = 2 * p + 24
    BY <1>2
  <2> QED
    BY <1>6, <1>8, <2>1
<1> QED
  BY <1>2, <1>7, <1>9, <1>10, <1>11, <1>12, <1>13, <1>14

\* in what arrives, seen from its start,
LEMMA ComesFirst ==
  ASSUME FrameType, lost \notin 1..2
  PROVE  /\ Whole[Len(noise) + 1] = DLE /\ Whole[Len(noise) + 2] = STX
         /\ lost \notin 1..(10 + Len(texts[1])) =>
              \A i \in 1..Len(texts[1]) : Whole[Len(noise) + 10 + i] = texts[1][i]
<1>1. PICK p \in Nat, n \in Nat, m \in Nat :
        p = PAYLOAD /\ n = Len(noise) /\ m = Len(texts[1]) /\ m <= p
  <2>1. texts \in Texts
    BY DEF FrameType
  <2>2. PAYLOAD \in Nat /\ Len(noise) \in Nat
    BY WholeLayout
  <2>3. Len(texts[1]) \in Nat /\ Len(texts[1]) <= PAYLOAD
    <3>1. /\ Len(texts[1]) \in Nat /\ BUFFER \in Nat
          /\ Len(texts[1]) < BUFFER /\ 2 * BUFFER <= PAYLOAD
      BY <2>1, TextType
    <3> QED
      BY <2>2, <3>1
  <2> QED
    BY <2>2, <2>3, Zenon
<1>2. lost \in 0..(2 * p + 24)
  BY <1>1, WholeLayout
<1>3. \A k \in 1..(2 * p + 24) : (lost = 0 \/ k < lost) => Whole[n + k] = Both(texts)[k]
  BY <1>1, WholeLayout
<1>4. (lost = 0 \/ 1 < lost) /\ (lost = 0 \/ 2 < lost)
  BY <1>2
<1>5. Whole[n + 1] = DLE /\ Whole[n + 2] = STX
  <2>1. 1 \in 1..(2 * p + 24) /\ 2 \in 1..(2 * p + 24)
    BY <1>1
  <2>2. Both(texts)[1] = DLE /\ Both(texts)[2] = STX
    BY FrameBytes
  <2> QED
    BY <1>3, <1>4, <2>1, <2>2
<1>6. lost \notin 1..(10 + m) => \A i \in 1..m : Whole[n + 10 + i] = texts[1][i]
  <2>0. SUFFICES ASSUME lost \notin 1..(10 + m), NEW i \in 1..m
                 PROVE  Whole[n + 10 + i] = texts[1][i]
    OBVIOUS
  <2>1. 10 + i \in 1..(2 * p + 24) /\ (lost = 0 \/ 10 + i < lost) /\ n + (10 + i) = n + 10 + i
    BY <1>1, <1>2, <2>0
  <2>2. Both(texts)[10 + i] = texts[1][i]
    BY <1>1, FrameBytes
  <2> QED
    BY <1>3, <2>1, <2>2
<1>7. lost \notin 1..(10 + Len(texts[1])) =>
        \A i \in 1..Len(texts[1]) : Whole[Len(noise) + 10 + i] = texts[1][i]
  BY <1>1, <1>6, Zenon
<1>8. Whole[Len(noise) + 1] = DLE /\ Whole[Len(noise) + 2] = STX
  BY <1>1, <1>5, Zenon
<1> QED
  BY <1>7, <1>8, Zenon

\* and seen from its end, which a byte lost from the first does not move.
LEMMA ComesLast ==
  ASSUME FrameType, lost \notin 1..2, lost <= FrameSize
  PROVE  /\ \A k \in (FrameSize + 1)..(FrameSize + Rest1) : Ahead(k) \in {DLE, ETX}
         /\ \A k \in (FrameSize + Rest1 + 1)..(FrameSize + Data1) : Ahead(k) # DLE
         /\ Ahead(FrameSize) = DLE /\ Ahead(FrameSize - 1) = STX
         /\ \A k \in (Zeros + 3)..(PAYLOAD + 2) : Ahead(k) = texts[2][PAYLOAD + 3 - k]
         /\ \A k \in 2..(Zeros + 2) : Ahead(k) = DLE
         /\ Ahead(1) = ETX
<1>1. PICK p \in Nat, n \in Nat, m \in Nat, l \in Nat :
        p = PAYLOAD /\ n = Len(noise) /\ m = Len(texts[1]) /\ l = Len(texts[2]) /\ m <= p /\ l <= p
  <2>1. texts \in Texts
    BY DEF FrameType
  <2>2. PAYLOAD \in Nat /\ Len(noise) \in Nat
    BY WholeLayout
  <2>3. /\ Len(texts[1]) \in Nat /\ Len(texts[2]) \in Nat
        /\ Len(texts[1]) <= PAYLOAD /\ Len(texts[2]) <= PAYLOAD
    BY <2>1, TextType
  <2> QED
    BY <2>2, <2>3
<1>2. PICK g, w, e : g = Both(texts) /\ w = Whole /\ e = (IF lost = 0 THEN 0 ELSE 1)
  BY Zenon
<1>15. m <= p /\ l <= p
  BY <1>1
<1>16. e \in Nat /\ (lost # 0 \/ e = 0) /\ (lost = 0 \/ e = 1)
  <2>1. CASE lost = 0
    BY <1>2, <2>1
  <2>2. CASE lost # 0
    BY <1>2, <2>2
  <2> QED
    BY <2>1, <2>2
<1>17. lost \in Int /\ (lost = 0 \/ (3 <= lost /\ lost <= p + 12))
  <2>1. lost \in 0..(2 * p + 24) /\ FrameSize = p + 12
    BY <1>1, WholeLayout
  <2> QED
    BY <2>1
<1>3. /\ lost = 0 \/ lost \in 3..(p + 12)
      /\ FrameSize = p + 12 /\ Len(w) = n + 2 * p + 24 - e
  BY <1>1, <1>2, WholeLayout
<1>4. \A k \in 1..(2 * p + 24) :
        /\ lost = 0 \/ k < lost => w[n + k] = g[k]
        /\ lost # 0 /\ k > lost => w[n + k - 1] = g[k]
  BY <1>1, <1>2, WholeLayout
<1>5. ASSUME NEW k \in 1..(2 * p + 24 - e)
      PROVE  /\ lost = 0 \/ 2 * p + 25 - k > lost => Ahead(k) = g[2 * p + 25 - k]
             /\ lost # 0 /\ 2 * p + 24 - k < lost => Ahead(k) = g[2 * p + 24 - k]
  <2>1. Ahead(k) = w[n + 2 * p + 24 - e - k + 1]
    <3>1. Len(w) - k + 1 = n + 2 * p + 24 - e - k + 1
      BY <1>3, <1>16
    <3> QED
      BY <1>2, <3>1, Zenon DEF Ahead
  <2>2. CASE lost = 0
    <3>1. 2 * p + 25 - k \in 1..(2 * p + 24) /\ n + (2 * p + 25 - k) = n + 2 * p + 24 - e - k + 1
      BY <1>16, <1>17, <2>2
    <3> QED
      BY <1>4, <2>1, <2>2, <3>1
  <2>3. ASSUME lost # 0, 2 * p + 25 - k > lost
        PROVE  Ahead(k) = g[2 * p + 25 - k]
    <3>1. 2 * p + 25 - k \in 1..(2 * p + 24) /\ n + (2 * p + 25 - k) - 1 = n + 2 * p + 24 - e - k + 1
      BY <1>16, <1>17, <2>3
    <3> QED
      BY <1>4, <2>1, <2>3, <3>1
  <2>4. ASSUME lost # 0, 2 * p + 24 - k < lost
        PROVE  Ahead(k) = g[2 * p + 24 - k]
    <3>1. 2 * p + 24 - k \in 1..(2 * p + 24) /\ n + (2 * p + 24 - k) = n + 2 * p + 24 - e - k + 1
      BY <1>16, <1>17, <2>4
    <3> QED
      BY <1>4, <2>1, <2>4, <3>1
  <2> QED
    BY <2>2, <2>3, <2>4
<1>6. \A k \in 1..(p + 12) : Ahead(k) = g[2 * p + 25 - k]
  <2>1. \A k \in 1..(p + 12) : k \in 1..(2 * p + 24 - e) /\ (lost = 0 \/ 2 * p + 25 - k > lost)
    BY <1>16, <1>17
  <2> QED
    BY <1>5, <2>1
<1>7. PICK r \in Int, d \in Int, z \in Int :
        /\ r = Rest1 /\ d = Data1 /\ z = Zeros
        /\ d = p + 2 - e /\ z = p - l
        /\ (lost > 10 + m => r = p + 1 - m) /\ (lost <= 10 + m => r = p + 2 - m)
  <2>1. lost \in Int
    BY <1>3
  <2>2. Data1 = p + 2 - e /\ Data1 \in Int
    BY <1>1, <1>2 DEF Data1
  <2>3. Zeros = p - l /\ Zeros \in Int
    BY <1>1 DEF Zeros
  <2>4. /\ Rest1 \in Int
        /\ (lost > 10 + m => Rest1 = p + 1 - m) /\ (lost <= 10 + m => Rest1 = p + 2 - m)
    <3>0. Rest1 = p + 2 - m - (IF lost > 10 + m THEN 1 ELSE 0)
      <4>1. Rest1 = PAYLOAD + 2 - Len(texts[1])
                      - (IF lost > 10 + Len(texts[1]) THEN 1 ELSE 0)
        BY Zenon DEF Rest1
      <4> QED
        BY <1>1, <4>1
    <3>1. CASE lost > 10 + m
      BY <2>1, <3>0, <3>1
    <3>2. CASE ~(lost > 10 + m)
      BY <2>1, <3>0, <3>2
    <3> QED
      BY <3>1, <3>2
  <2> QED
    BY <2>2, <2>3, <2>4
<1>18. /\ d = p + 2 - e /\ z = p - l
       /\ (lost > 10 + m => r = p + 1 - m) /\ (lost <= 10 + m => r = p + 2 - m)
  BY <1>7
<1>8. ASSUME NEW k \in (p + 12 + 1)..(p + 12 + r)
      PROVE  Ahead(k) \in {DLE, ETX}
  <2>1. \A j \in (11 + m)..(p + 12) : g[j] \in {DLE, ETX}
    <3>1. \A j \in (11 + m)..(p + 12) : j \in (11 + m)..(p + 11) \/ j = p + 12
      BY <1>15
    <3>2. (\A j \in (11 + m)..(p + 11) : g[j] = DLE) /\ g[p + 12] = ETX
      BY <1>1, <1>2, FrameBytes
    <3> QED
      BY <3>1, <3>2
  <2>2. k \in 1..(2 * p + 24 - e)
    BY <1>15, <1>16, <1>17, <1>18, <1>8
  <2>3. CASE lost = 0 \/ 2 * p + 25 - k > lost
    <3>1. 2 * p + 25 - k \in (11 + m)..(p + 12)
      BY <1>15, <1>16, <1>17, <1>18, <1>8
    <3> QED
      BY <1>5, <2>1, <2>2, <2>3, <3>1
  <2>4. CASE ~(lost = 0 \/ 2 * p + 25 - k > lost)
    <3>1. lost # 0 /\ 2 * p + 24 - k < lost /\ 2 * p + 24 - k \in (11 + m)..(p + 12)
      BY <1>15, <1>16, <1>17, <1>18, <1>8, <2>4
    <3> QED
      BY <1>5, <2>1, <2>2, <3>1
  <2> QED
    BY <2>3, <2>4
<1>9. ASSUME NEW k \in (p + 12 + r + 1)..(p + 12 + d)
      PROVE  Ahead(k) # DLE
  <2>1. \A j \in 11..(10 + m) : g[j] # DLE
    <3>1. \A j \in 11..(10 + m) : j - 10 \in 1..m /\ 10 + (j - 10) = j
      BY <1>1
    <3>2. \A i \in 1..m : g[10 + i] = texts[1][i]
      BY <1>1, <1>2, FrameBytes
    <3>3. \A i \in 1..m : texts[1][i] # DLE
      BY <1>1, TextType DEF FrameType
    <3> QED
      BY <3>1, <3>2, <3>3
  <2>2. k \in 1..(2 * p + 24 - e)
    BY <1>15, <1>16, <1>17, <1>18, <1>9
  <2>3. CASE lost = 0 \/ 2 * p + 25 - k > lost
    <3>1. 2 * p + 25 - k \in 11..(10 + m)
      BY <1>15, <1>16, <1>17, <1>18, <1>9, <2>3
    <3> QED
      BY <1>5, <2>1, <2>2, <2>3, <3>1
  <2>4. CASE ~(lost = 0 \/ 2 * p + 25 - k > lost)
    <3>1. lost # 0 /\ 2 * p + 24 - k < lost /\ 2 * p + 24 - k \in 11..(10 + m)
      BY <1>15, <1>16, <1>17, <1>18, <1>9, <2>4
    <3> QED
      BY <1>5, <2>1, <2>2, <3>1
  <2> QED
    BY <2>3, <2>4
<1>10. Ahead(p + 12) = DLE /\ Ahead(p + 11) = STX
  <2>1. /\ p + 12 \in 1..(p + 12) /\ p + 11 \in 1..(p + 12)
        /\ 2 * p + 25 - (p + 12) = p + 13 /\ 2 * p + 25 - (p + 11) = p + 14
    BY <1>1
  <2>2. g[p + 13] = DLE /\ g[p + 14] = STX
    BY <1>1, <1>2, FrameBytes
  <2> QED
    BY <1>6, <2>1, <2>2
<1>11. \A k \in (z + 3)..(p + 2) : Ahead(k) = texts[2][p + 3 - k]
  <2>1. \A k \in (z + 3)..(p + 2) :
          k \in 1..(p + 12) /\ p + 3 - k \in 1..l /\ 2 * p + 25 - k = p + 22 + (p + 3 - k)
    BY <1>15, <1>18
  <2>2. \A i \in 1..l : g[p + 22 + i] = texts[2][i]
    BY <1>1, <1>2, FrameBytes
  <2> QED
    BY <1>6, <2>1, <2>2
<1>12. \A k \in 2..(z + 2) : Ahead(k) = DLE
  <2>1. \A k \in 2..(z + 2) : k \in 1..(p + 12) /\ 2 * p + 25 - k \in (p + 23 + l)..(2 * p + 23)
    BY <1>15, <1>18
  <2>2. \A k \in (p + 23 + l)..(2 * p + 23) : g[k] = DLE
    BY <1>1, <1>2, FrameBytes
  <2> QED
    BY <1>6, <2>1, <2>2
<1>13. Ahead(1) = ETX
  <2>1. 1 \in 1..(p + 12) /\ 2 * p + 25 - 1 = 2 * p + 24
    BY <1>1
  <2>2. g[2 * p + 24] = ETX
    BY <1>1, <1>2, FrameBytes
  <2> QED
    BY <1>6, <2>1, <2>2
<1>14. FrameSize - 1 = p + 11
  BY <1>1, <1>3
<1> QED
  BY <1>1, <1>3, <1>7, <1>8, <1>9, <1>10, <1>11, <1>12, <1>13, <1>14, Zenon

\* Begins, while bytes are put behind one another.
LEMMA EmptyBegins ==
  ASSUME NEW t \in Seq(Byte)
  PROVE  Begins(<<>>, t)
<1>1. Len(t) \in Nat /\ Len(<<>>) = 0
  BY LenProperties
<1> QED
  BY <1>1 DEF Begins

LEMMA AppendKeeps ==
  ASSUME NEW t \in Seq(Byte), NEW s \in Seq(Byte), NEW b \in Byte, Begins(t, s)
  PROVE  Begins(t, Append(s, b))
<1>1. Len(t) \in Nat /\ Len(s) \in Nat
  BY LenProperties
<1>2. /\ Len(Append(s, b)) = Len(s) + 1
      /\ \A i \in 1..Len(s) : Append(s, b)[i] = s[i]
  BY AppendProperties
<1> QED
  BY <1>1, <1>2 DEF Begins

LEMMA AppendNext ==
  ASSUME NEW t \in Seq(Byte), NEW s \in Seq(Byte), NEW b \in Byte, Begins(s, t),
         Len(s) < Len(t), b = t[Len(s) + 1]
  PROVE  Begins(Append(s, b), t)
<1>1. Len(t) \in Nat /\ Len(s) \in Nat
  BY LenProperties
<1>2. /\ Len(Append(s, b)) = Len(s) + 1
      /\ \A i \in 1..Len(s) : Append(s, b)[i] = s[i]
      /\ Append(s, b)[Len(s) + 1] = b
  BY AppendProperties
<1> QED
  BY <1>1, <1>2 DEF Begins

LEMMA AllBegins ==
  ASSUME NEW t, NEW s, Begins(s, t), Len(s) = Len(t)
  PROVE  Begins(t, s)
BY DEF Begins

\* A step reads the next byte there is, or one that is made up.
LEMMA ReadsAhead ==
  ASSUME FrameType, WireIsRest, FrameNext
  PROVE  /\ UNCHANGED <<texts, noise, lost>> /\ Whole' = Whole
         /\ wire' \in Seq(Byte) /\ WireIsRest'
         /\ \E b \in Byte :
              /\ First(b) \/ Sync(b) \/ SkipIds(b) \/ Data(b) \/ Escaped(b)
              /\ Left > 0 => b = Ahead(Left) /\ Left' = Left - 1
              /\ Left = 0 => Left' = 0
<1>1. UNCHANGED <<texts, noise, lost>> /\ Whole' = Whole
  BY DEF FrameNext, Whole
<1>2. wire \in Seq(Byte) /\ MadeUp \subseteq Byte
  BY FramingAssumption DEF FrameType, FramingAssumption
<1>3. PICK w \in Seq(Byte), n \in Nat : w = Whole /\ n = Len(Whole)
  BY WholeLayout, LenProperties
<1>4. PICK l \in Nat : l = Left /\ l = Len(wire)
  BY <1>2, LenProperties DEF Left
<1>5. l <= n /\ \A i \in 1..l : wire[i] = w[n - l + i]
  BY <1>3, <1>4, Zenon DEF WireIsRest, ReadSoFar
<1>6. PICK b \in Incoming :
        First(b) \/ Sync(b) \/ SkipIds(b) \/ Data(b) \/ Escaped(b)
  BY DEF FrameNext
<1>7. CASE wire = <<>>
  <2>1. wire' = wire /\ b \in Byte /\ l = 0
    BY <1>2, <1>4, <1>6, <1>7 DEF FrameNext, recv_byte, Incoming
  <2>2. Left' = 0 /\ WireIsRest'
    BY <1>1, <1>4, <2>1 DEF Left, WireIsRest, ReadSoFar
  <2> QED
    BY <1>1, <1>2, <1>4, <1>6, <2>1, <2>2
<1>8. CASE wire # <<>>
  <2>1. wire' = Tail(wire) /\ b = Head(wire)
    BY <1>6, <1>8 DEF FrameNext, recv_byte, Incoming
  <2>2. /\ Head(wire) \in Byte /\ Tail(wire) \in Seq(Byte) /\ Len(Tail(wire)) = l - 1
        /\ \A i \in 1..Len(Tail(wire)) : Tail(wire)[i] = wire[i + 1]
    BY <1>2, <1>4, <1>8, HeadTailProperties
  <2>3. Head(wire) = wire[1] /\ l > 0
    BY <1>2, <1>4, <1>8, EmptySeq
  <2>4. b = Ahead(Left)
    <3>1. wire[1] = w[n - l + 1]
      BY <1>4, <1>5, <2>3
    <3> QED
      BY <1>3, <1>4, <2>1, <2>3, <3>1 DEF Ahead
  <2>5. Left' = l - 1
    BY <2>1, <2>2 DEF Left
  <2>6. WireIsRest'
    <3>1. \A i \in 1..(l - 1) : wire'[i] = w[n - (l - 1) + i]
      <4>1. ASSUME NEW i \in 1..(l - 1)
            PROVE  wire'[i] = w[n - (l - 1) + i]
        <5>1. i + 1 \in 1..l /\ n - l + (i + 1) = n - (l - 1) + i /\ i \in 1..Len(Tail(wire))
          BY <1>4, <2>2, <4>1
        <5>2. wire'[i] = wire[i + 1]
          BY <2>1, <2>2, <5>1
        <5> QED
          BY <1>5, <5>1, <5>2
      <4> QED
        BY <4>1
    <3>2. Len(Whole') = n /\ Whole' = w
      BY <1>1, <1>3
    <3>3. Left' <= Len(Whole')
      BY <1>5, <2>3, <2>5, <3>2
    <3>4. \A i \in 1..Left' : wire'[i] = Whole'[Len(Whole') - Left' + i]
      BY <2>5, <3>1, <3>2, Zenon
    <3> QED
      BY <3>3, <3>4, Zenon DEF WireIsRest, ReadSoFar, Left
  <2> QED
    BY <1>1, <1>4, <1>6, <2>1, <2>2, <2>3, <2>4, <2>5, <2>6
<1> QED
  BY <1>7, <1>8

\* What Put leaves.
LEMMA PutKeepsOrReturns ==
  ASSUME FrameType, CallInv, byteAt \in {"data", "escaped"}, NEW b \in Byte, Put(b)
  PROVE  /\ Append(buf, b) \in Seq(Byte) /\ Len(buf) \in Nat
         /\ Len(Append(buf, b)) = Len(buf) + 1
         /\ \/ /\ Len(buf) + 1 < size /\ buf' = Append(buf, b) /\ byteAt' = "data"
               /\ UNCHANGED <<c1, call, count, received>>
            \/ Len(buf) + 1 = size /\ Returned(Append(buf, b))
<1>1. buf \in Seq(Byte)
  BY DEF FrameType
<1>2. Append(buf, b) \in Seq(Byte) /\ Len(buf) \in Nat /\ Len(Append(buf, b)) = Len(buf) + 1
  BY <1>1, AppendProperties, LenProperties
<1>3. Len(buf) < size /\ size \in Nat
  <2>1. Len(buf) < size
    BY DEF CallInv
  <2>2. BUFFER \in Nat /\ PAYLOAD \in Nat
    BY FramingAssumption DEF FramingAssumption
  <2> QED
    BY <2>1, <2>2 DEF size
<1>4. CASE Len(buf) + 1 = size
  BY <1>2, <1>4, Zenon DEF Put
<1>5. CASE Len(buf) + 1 # size
  <2>1. Len(buf) + 1 < size
    BY <1>2, <1>3, <1>5
  <2>2. buf' = Append(buf, b) /\ byteAt' = "data" /\ UNCHANGED <<c1, call, count, received>>
    BY <1>5 DEF Put
  <2> QED
    BY <1>2, <2>1, <2>2
<1> QED
  BY <1>4, <1>5

\* What recv_frame leaves when it returns.
LEMMA ReturnedLeaves ==
  ASSUME FrameType, CallInv, byteAt \in {"data", "escaped"},
         NEW bytes \in Seq(Byte), Returned(bytes)
  PROVE  /\ received' \in Seq(Seq(Byte)) /\ Len(received) = call - 1 /\ Len(received') = call
         /\ received'[call] = bytes
         /\ call = 2 => received'[1] = received[1]
         /\ buf' = <<>> /\ count' = 0 /\ call' = 2 /\ c1' = c1
         /\ byteAt' = IF call = 1 THEN "first" ELSE "done"
<1>1. received \in Seq(Seq(Byte)) /\ call \in {1, 2}
  BY DEF FrameType
<1>2. Len(received) = call - 1
  BY DEF CallInv
<1>3. received' = Append(received, bytes)
  BY DEF Returned
<1>4. /\ received' \in Seq(Seq(Byte)) /\ Len(received') = Len(received) + 1
      /\ \A i \in 1..Len(received) : received'[i] = received[i]
      /\ received'[Len(received) + 1] = bytes
  BY <1>1, <1>3, AppendProperties
<1>5. Len(received') = call /\ received'[call] = bytes /\ (call = 2 => received'[1] = received[1])
  <2>1. Len(received) + 1 = call
    BY <1>1, <1>2
  <2>2. call = 2 => 1 \in 1..Len(received)
    BY <1>2
  <2> QED
    BY <1>4, <2>1, <2>2
<1> QED
  BY <1>2, <1>4, <1>5 DEF Returned

LEMMA SizeIs ==
  ASSUME FrameType
  PROVE  /\ size \in Nat \ {0} /\ (call = 1 => size = BUFFER) /\ (call = 2 => size = PAYLOAD)
<1>1. BUFFER \in Nat \ {0} /\ PAYLOAD \in Nat \ {0}
  BY FramingAssumption DEF FramingAssumption
<1> QED
  BY <1>1 DEF size, FrameType

LEMMA ReturnedTypes ==
  ASSUME FrameType, CallInv, byteAt \in {"data", "escaped"},
         NEW bytes \in Seq(Byte), Returned(bytes)
  PROVE  /\ call' \in {1, 2} /\ c1' \in Byte /\ count' \in 0..8 /\ buf' \in Seq(Byte)
         /\ byteAt' \in {"first", "sync", "ids", "data", "escaped", "done"}
         /\ received' \in Seq(Seq(Byte)) /\ CallInv'
<1>1. /\ received' \in Seq(Seq(Byte)) /\ Len(received') = call
      /\ buf' = <<>> /\ count' = 0 /\ call' = 2 /\ c1' = c1
      /\ byteAt' = IF call = 1 THEN "first" ELSE "done"
  BY ReturnedLeaves
<1>2. call \in {1, 2} /\ c1 \in Byte
  BY DEF FrameType
<1>3. <<>> \in Seq(Byte)
  OBVIOUS
<1>4. CallInv'
  BY <1>1, <1>2 DEF CallInv
<1> QED
  BY <1>1, <1>2, <1>3, <1>4

LEMMA TypeStep ==
  ASSUME FrameType, CallInv, WireIsRest, FrameNext
  PROVE  FrameType' /\ CallInv'
<1>1. /\ UNCHANGED <<texts, noise, lost>> /\ wire' \in Seq(Byte)
      /\ texts \in Texts /\ noise \in Seq(Byte) /\ lost \in 0..(2 * FrameSize)
  BY ReadsAhead DEF FrameType
<1>2. PICK b \in Byte : First(b) \/ Sync(b) \/ SkipIds(b) \/ Data(b) \/ Escaped(b)
  BY ReadsAhead
<1>3. /\ call \in {1, 2} /\ c1 \in Byte /\ count \in 0..8 /\ buf \in Seq(Byte)
      /\ received \in Seq(Seq(Byte)) /\ DLE \in Byte
  BY DEF FrameType, DLE, Byte
<1>4. SUFFICES /\ call' \in {1, 2} /\ c1' \in Byte /\ count' \in 0..8 /\ buf' \in Seq(Byte)
               /\ byteAt' \in {"first", "sync", "ids", "data", "escaped", "done"}
               /\ received' \in Seq(Seq(Byte)) /\ CallInv'
  BY <1>1 DEF FrameType
<1>5. CASE First(b)
  BY <1>2, <1>3, <1>5 DEF First, CallInv
<1>6. CASE Sync(b)
  <2>1. byteAt' \in {"sync", "ids"} /\ c1' = b /\ UNCHANGED <<call, count, buf, received>>
    BY <1>6 DEF Sync
  <2> QED
    BY <1>2, <1>3, <1>6, <2>1 DEF Sync, CallInv
<1>7. CASE SkipIds(b)
  <2>1. Len(Ids) = 8
    BY IdsAre
  <2>2. count < 8 /\ buf = <<>> /\ byteAt = "ids" /\ Len(received) = call - 1
    BY <1>7 DEF SkipIds, CallInv
  <2>3. /\ count' = count + 1 /\ byteAt' \in {"ids", "data"} /\ (byteAt' = "ids" => count' # 8)
        /\ UNCHANGED <<c1, call, buf, received>>
    BY <1>7, <2>1 DEF SkipIds
  <2>4. Len(buf) < size /\ size' = size
    <3>1. Len(<<>>) = 0
      OBVIOUS
    <3> QED
      BY <2>2, <2>3, <3>1, SizeIs DEF size
  <2> QED
    BY <1>3, <2>2, <2>3, <2>4 DEF CallInv
<1>8. ASSUME byteAt \in {"data", "escaped"}, Put(b)
      PROVE  /\ call' \in {1, 2} /\ c1' \in Byte /\ count' \in 0..8 /\ buf' \in Seq(Byte)
             /\ byteAt' \in {"first", "sync", "ids", "data", "escaped", "done"}
             /\ received' \in Seq(Seq(Byte)) /\ CallInv'
  <2>1. CASE /\ Len(buf) + 1 < size /\ buf' = Append(buf, b) /\ byteAt' = "data"
             /\ UNCHANGED <<c1, call, count, received>>
    <3>1. size' = size /\ buf' \in Seq(Byte) /\ Len(buf') = Len(buf) + 1
      BY <1>8, <2>1, PutKeepsOrReturns DEF size
    <3>2. Len(received) = call - 1
      BY <1>8 DEF CallInv
    <3> QED
      BY <1>3, <2>1, <3>1, <3>2 DEF CallInv
  <2>2. CASE Returned(Append(buf, b))
    <3>1. Append(buf, b) \in Seq(Byte)
      BY <1>8, PutKeepsOrReturns
    <3> QED
      BY <1>3, <1>8, <2>2, <3>1, ReturnedTypes
  <2> QED
    BY <1>8, <2>1, <2>2, PutKeepsOrReturns
<1>9. CASE Data(b)
  <2>1. CASE b # DLE /\ Put(b)
    BY <1>8, <1>9, <2>1 DEF Data
  <2>2. CASE b = DLE /\ byteAt' = "escaped" /\ UNCHANGED <<c1, call, count, buf, received>>
    <3>1. size' = size /\ byteAt = "data"
      BY <1>9, <2>2 DEF size, Data
    <3> QED
      BY <1>3, <2>2, <3>1 DEF CallInv
  <2> QED
    BY <1>9, <2>1, <2>2 DEF Data
<1>10. CASE Escaped(b)
  <2>1. CASE b = ETX /\ Returned(buf)
    BY <1>3, <1>10, <2>1, ReturnedTypes DEF Escaped
  <2>2. CASE b # ETX /\ Put(b)
    BY <1>8, <1>10, <2>2 DEF Escaped
  <2> QED
    BY <1>10, <2>1, <2>2 DEF Escaped
<1> QED
  BY <1>2, <1>5, <1>6, <1>7, <1>9, <1>10

LEMMA StartStep ==
  ASSUME FrameType, CallInv, WireIsRest, StartInv, FrameNext
  PROVE  StartInv'
<1>1. UNCHANGED <<texts, noise, lost>> /\ Whole' = Whole
  BY ReadsAhead
<1>2. PICK b \in Byte :
        /\ First(b) \/ Sync(b) \/ SkipIds(b) \/ Data(b) \/ Escaped(b)
        /\ Left > 0 => b = Ahead(Left) /\ Left' = Left - 1
  BY ReadsAhead
<1>3. SUFFICES ASSUME FindsStart, call = 1, call' = 1
               PROVE  /\ byteAt' = "first" => ReadSoFar' = 0
                      /\ byteAt' = "sync" => /\ ReadSoFar' \in 1..(Len(noise) + 1)
                                             /\ c1' = Whole[ReadSoFar']
                      /\ byteAt' = "ids" => ReadSoFar' = Len(noise) + 2 + count'
  <2>1. call' = 1 => call = 1
    BY <1>2 DEF First, Sync, SkipIds, Data, Escaped, Put, Returned, FrameType
  <2>2. FindsStart' = FindsStart /\ Len(noise') = Len(noise)
    BY <1>1 DEF FindsStart
  <2> QED
    BY <1>1, <1>3, <2>1, <2>2, Zenon DEF StartInv
<1>4. /\ lost \notin 1..2
      /\ \A i \in 1..(Len(noise) - 1) : ~(noise[i] = DLE /\ noise[i + 1] = STX)
  BY <1>3 DEF FindsStart
<1>5. PICK n \in Nat, w \in Nat, l \in Nat :
        n = Len(noise) /\ w = Len(Whole) /\ l = Left /\ w >= n + 23 /\ l <= w
  <2>1. Len(noise) \in Nat /\ PAYLOAD \in Nat
        /\ Len(Whole) = Len(noise) + 2 * PAYLOAD + 24 - (IF lost = 0 THEN 0 ELSE 1)
    BY WholeLayout
  <2>2. Len(Whole) \in Nat /\ Len(Whole) >= Len(noise) + 23
    BY <2>1
  <2>3. Left \in Nat /\ Left <= Len(Whole)
    BY LenProperties DEF FrameType, Left, WireIsRest
  <2> QED
    BY <2>1, <2>2, <2>3
<1>6. /\ ReadSoFar = w - l /\ ReadSoFar' = w - Left'
      /\ ReadSoFar + 1 = w - l + 1
  BY <1>1, <1>5 DEF ReadSoFar, Left
<1>7. ASSUME w - l < w
      PROVE  l > 0
  BY <1>5, <1>7
<1>8. /\ Whole[n + 1] = DLE /\ Whole[n + 2] = STX
      /\ \A i \in 1..n : Whole[i] = noise[i]
  BY <1>4, <1>5, ComesFirst, WholeLayout
<1>9. CASE First(b)
  <2>1. ReadSoFar = 0
    BY <1>3, <1>9 DEF First, StartInv
  <2>2. l = w /\ l > 0
    BY <1>5, <1>6, <2>1
  <2>3. b = Whole[1] /\ ReadSoFar' = 1
    BY <1>2, <1>5, <1>6, <2>2 DEF Ahead
  <2>4. byteAt' = "sync" /\ c1' = b
    BY <1>9 DEF First
  <2> QED
    BY <1>5, <2>3, <2>4
<1>10. CASE Sync(b)
  <2>1. PICK r \in 1..(n + 1) : r = ReadSoFar /\ c1 = Whole[r]
    BY <1>3, <1>5, <1>10 DEF Sync, StartInv
  <2>2. r = w - l /\ l > 0 /\ l = w - r
    BY <1>5, <1>6, <2>1
  <2>3. b = Whole[r + 1] /\ ReadSoFar' = r + 1
    <3>1. w - l + 1 = r + 1 /\ w - (l - 1) = r + 1
      BY <2>2
    <3> QED
      BY <1>2, <1>5, <1>6, <2>2, <3>1 DEF Ahead
  <2>4. UNCHANGED count /\ count = 0 /\ c1' = b
    BY <1>10 DEF Sync, CallInv
  <2>5. CASE r <= n
    <3>1. ~(Whole[r] = DLE /\ Whole[r + 1] = STX)
      <4>1. CASE r = n
        BY <1>5, <1>8, <4>1 DEF DLE, STX
      <4>2. CASE r < n
        <5>1. r \in 1..(n - 1) /\ r \in 1..n /\ r + 1 \in 1..n
          BY <2>1, <4>2
        <5> QED
          BY <1>4, <1>5, <1>8, <5>1
      <4> QED
        BY <1>5, <2>1, <2>5, <4>1, <4>2
    <3>2. byteAt' = "sync"
      BY <1>10, <2>1, <2>3, <3>1 DEF Sync
    <3> QED
      BY <1>5, <2>1, <2>3, <2>4, <2>5, <3>2
  <2>6. CASE r = n + 1
    <3>1. c1 = DLE /\ b = STX
      BY <1>8, <2>1, <2>3, <2>6
    <3>2. byteAt' = "ids"
      BY <1>10, <3>1 DEF Sync
    <3> QED
      BY <1>5, <2>3, <2>4, <2>6, <3>2
  <2> QED
    BY <1>5, <2>1, <2>5, <2>6
<1>11. CASE SkipIds(b)
  <2>1. ReadSoFar = n + 2 + count /\ count < 8 /\ count \in Nat
    BY <1>3, <1>5, <1>11 DEF SkipIds, StartInv, CallInv, FrameType
  <2>2. l > 0
    BY <1>5, <1>6, <2>1
  <2>3. count' = count + 1 /\ byteAt' \in {"ids", "data"}
    BY <1>11 DEF SkipIds
  <2> QED
    BY <1>2, <1>5, <1>6, <2>1, <2>2, <2>3
<1>12. CASE Data(b) \/ Escaped(b)
  <2>1. byteAt' \in {"data", "escaped"}
    BY <1>3, <1>12 DEF Data, Escaped, Put, Returned
  <2> QED
    BY <2>1
<1> QED
  BY <1>2, <1>9, <1>10, <1>11, <1>12

\* The sizes that the steps count with.
LEMMA Sizes ==
  ASSUME FrameType, WireIsRest
  PROVE  /\ Left \in Nat /\ Left <= Len(Whole) /\ Len(Whole) \in Nat /\ Len(noise) \in Nat
         /\ PAYLOAD \in Nat /\ BUFFER \in Nat /\ 2 * BUFFER <= PAYLOAD
         /\ FrameSize = PAYLOAD + 12
         /\ Len(texts[1]) \in Nat /\ Len(texts[2]) \in Nat
         /\ Len(texts[1]) < BUFFER /\ Len(texts[2]) <= PAYLOAD
         /\ texts[1] \in Seq(Byte) /\ texts[2] \in Seq(Byte)
         /\ ReadSoFar = Len(Whole) - Left /\ ReadSoFar \in Nat
<1>1. texts \in Texts /\ wire \in Seq(Byte)
  BY DEF FrameType
<1>2. Whole \in Seq(Byte) /\ Len(noise) \in Nat /\ PAYLOAD \in Nat /\ FrameSize = PAYLOAD + 12
  BY WholeLayout
<1>3. Len(Whole) \in Nat /\ Len(wire) \in Nat
  BY <1>1, <1>2, LenProperties
<1>4. Left \in Nat /\ Left <= Len(Whole) /\ ReadSoFar = Len(Whole) - Left
  BY <1>3 DEF Left, WireIsRest, ReadSoFar
<1>5. ReadSoFar \in Nat
  BY <1>3, <1>4
<1> QED
  BY <1>1, <1>2, <1>3, <1>4, <1>5, TextType

LEMMA SizesAreInts ==
  ASSUME FrameType, WireIsRest
  PROVE  FrameSize \in Nat /\ Left \in Nat /\ Data1 \in Int /\ Rest1 \in Int /\ Zeros \in Nat
<1>1. /\ FrameSize = PAYLOAD + 12 /\ PAYLOAD \in Nat /\ Left \in Nat
      /\ Len(texts[1]) \in Nat /\ Len(texts[2]) \in Nat /\ Len(texts[2]) <= PAYLOAD
  BY Sizes
<1>2. Data1 \in Int
  <2>1. (IF lost = 0 THEN 0 ELSE 1) \in Int
    OBVIOUS
  <2> QED
    BY <1>1, <2>1 DEF Data1
<1>3. Rest1 \in Int
  <2>1. (IF lost > 10 + Len(texts[1]) THEN 1 ELSE 0) \in Int
    OBVIOUS
  <2> QED
    BY <1>1, <2>1 DEF Rest1
<1> QED
  BY <1>1, <1>2, <1>3 DEF Zeros

LEMMA FirstStep ==
  ASSUME FrameType, CallInv, WireIsRest, StartInv, FirstInv, FrameNext
  PROVE  FirstInv'
<1>1. UNCHANGED <<texts, noise, lost>> /\ Whole' = Whole
  BY ReadsAhead
<1>2. PICK b \in Byte :
        /\ First(b) \/ Sync(b) \/ SkipIds(b) \/ Data(b) \/ Escaped(b)
        /\ Left > 0 => b = Ahead(Left) /\ Left' = Left - 1
        /\ Left = 0 => Left' = 0
  BY ReadsAhead
<1>3. PICK n \in Nat, m \in Nat, w \in Nat, l \in Nat, r \in Nat, k \in Nat :
        /\ n = Len(noise) /\ m = Len(texts[1]) /\ w = Len(Whole) /\ l = Left /\ r = ReadSoFar
        /\ k = Len(buf)
  <2>1. Len(buf) \in Nat
    BY LenProperties DEF FrameType
  <2> QED
    BY <2>1, Sizes
<1>4. SUFFICES ASSUME FindsStart, lost \notin 1..(10 + m)
               PROVE  /\ call' = 1 /\ byteAt' = "data" =>
                           IF ReadSoFar' <= n + 10 + m
                           THEN ReadSoFar' = n + 10 + Len(buf') /\ Begins(buf', texts[1])
                           ELSE Begins(texts[1], buf')
                      /\ call' = 1 /\ byteAt' = "escaped" =>
                           ReadSoFar' > n + 10 + m /\ Begins(texts[1], buf')
                      /\ call' = 2 => Begins(texts[1], received'[1])
  <2>1. /\ texts' = texts /\ FindsStart' = FindsStart /\ Len(noise') = n /\ lost' = lost
        /\ Len(texts'[1]) = m
    BY <1>1, <1>3 DEF FindsStart
  <2> QED
    BY <1>3, <1>4, <2>1, Zenon DEF FirstInv
<1>5. /\ call = 1 /\ byteAt = "data" =>
           IF r <= n + 10 + m
           THEN r = n + 10 + k /\ Begins(buf, texts[1])
           ELSE Begins(texts[1], buf)
      /\ call = 1 /\ byteAt = "escaped" => r > n + 10 + m /\ Begins(texts[1], buf)
      /\ call = 2 => Begins(texts[1], received[1])
  BY <1>3, <1>4, Zenon DEF FirstInv
<1>6. /\ texts[1] \in Seq(Byte) /\ buf \in Seq(Byte) /\ call \in {1, 2} /\ DLE \in Byte
      /\ \A i \in 1..m : texts[1][i] # DLE
  BY <1>3, TextType DEF FrameType, DLE, Byte
<1>7. /\ r = w - l /\ l <= w /\ m < BUFFER /\ BUFFER \in Nat /\ w > n + 10 + m
  <2>1. /\ r = w - l /\ l <= w /\ m < BUFFER /\ BUFFER \in Nat
        /\ 2 * BUFFER <= PAYLOAD /\ PAYLOAD \in Nat
    BY <1>3, Sizes
  <2>2. w = n + 2 * PAYLOAD + 24 - (IF lost = 0 THEN 0 ELSE 1)
    BY <1>3, WholeLayout
  <2>3. w >= n + 2 * PAYLOAD + 23
    BY <2>1, <2>2
  <2> QED
    BY <2>1, <2>3
<1>8. /\ ReadSoFar' = w - Left'
      /\ l > 0 => b = Whole[r + 1] /\ ReadSoFar' = r + 1
      /\ l = 0 => r = w /\ ReadSoFar' = w
  <2>1. ReadSoFar' = w - Left'
    BY <1>1, <1>3 DEF ReadSoFar, Left
  <2>2. l > 0 => ReadSoFar' = r + 1
    BY <1>2, <1>3, <1>7, <2>1
  <2>3. l > 0 => b = Whole[r + 1]
    <3>1. w - l + 1 = r + 1
      BY <1>7
    <3> QED
      BY <1>2, <1>3, <3>1 DEF Ahead
  <2> QED
    BY <1>2, <1>3, <1>7, <2>1, <2>2, <2>3
<1>9. ASSUME r > n + 10 + m
      PROVE  ReadSoFar' > n + 10 + m
  BY <1>7, <1>8, <1>9
<1>10. ASSUME r <= n + 10 + m
       PROVE  l > 0 /\ ReadSoFar' = r + 1 /\ b = Whole[r + 1]
  BY <1>7, <1>8, <1>10
<1>11. \A i \in 1..m : Whole[n + 10 + i] = texts[1][i]
  <2>1. lost \notin 1..2
    BY <1>4 DEF FindsStart
  <2> QED
    BY <1>3, <1>4, <2>1, ComesFirst
<1>12. CASE First(b) \/ Sync(b)
  <2>1. byteAt' \in {"sync", "ids"} /\ UNCHANGED <<call, received>>
    BY <1>12 DEF First, Sync
  <2> QED
    BY <1>5, <2>1
<1>13. CASE SkipIds(b)
  <2>1. /\ byteAt = "ids" /\ byteAt' \in {"ids", "data"} /\ count' = count + 1
        /\ byteAt' = "data" => count' = 8
        /\ UNCHANGED <<call, received>> /\ buf' = buf /\ buf = <<>>
    BY <1>13, IdsAre DEF SkipIds, CallInv
  <2>2. ASSUME call = 1, byteAt' = "data"
        PROVE  /\ ReadSoFar' <= n + 10 + m /\ ReadSoFar' = n + 10 + Len(buf')
               /\ Begins(buf', texts[1])
    <3>1. r = n + 2 + count
      BY <1>3, <1>4, <2>1, <2>2 DEF StartInv
    <3>2. count = 7
      BY <2>1, <2>2 DEF FrameType
    <3>3. ReadSoFar' = n + 10
      BY <1>10, <3>1, <3>2
    <3>4. Len(<<>>) = 0
      OBVIOUS
    <3> QED
      BY <1>6, <2>1, <3>3, <3>4, EmptyBegins
  <2> QED
    BY <1>5, <2>1, <2>2
\* Behind the text.
<1>14. ASSUME byteAt \in {"data", "escaped"}, call = 1, Begins(texts[1], buf),
              r >= n + 10 + m, Put(b)
       PROVE  /\ call' = 1 /\ byteAt' = "data" =>
                   ReadSoFar' > n + 10 + m /\ Begins(texts[1], buf')
              /\ byteAt' # "escaped"
              /\ call' = 2 => Begins(texts[1], received'[1])
  <2>1. ReadSoFar' > n + 10 + m
    BY <1>9, <1>10, <1>14
  <2>2. Append(buf, b) \in Seq(Byte) /\ Begins(texts[1], Append(buf, b))
    BY <1>6, <1>14, AppendKeeps, PutKeepsOrReturns
  <2>3. CASE /\ buf' = Append(buf, b) /\ byteAt' = "data"
             /\ UNCHANGED <<c1, call, count, received>>
    BY <1>14, <2>1, <2>2, <2>3
  <2>4. CASE Returned(Append(buf, b))
    BY <1>14, <2>2, <2>4, ReturnedLeaves
  <2> QED
    BY <1>14, <2>3, <2>4, PutKeepsOrReturns
<1>15. ASSUME byteAt \in {"data", "escaped"}, call = 2, Put(b)
       PROVE  call' = 2 /\ received'[1] = received[1]
  <2>1. CASE UNCHANGED <<c1, call, count, received>>
    BY <1>15, <2>1
  <2>2. CASE Returned(Append(buf, b))
    BY <1>15, <2>2, PutKeepsOrReturns, ReturnedLeaves
  <2> QED
    BY <1>15, <2>1, <2>2, PutKeepsOrReturns
<1>16. CASE Data(b) /\ call = 1
  <2>0. byteAt = "data"
    BY <1>16 DEF Data
  <2>1. CASE r < n + 10 + m
    <3>1. r = n + 10 + k /\ Begins(buf, texts[1]) /\ k < m /\ ReadSoFar' = n + 10 + (k + 1)
      BY <1>5, <1>10, <1>16, <2>0, <2>1
    <3>2. b = texts[1][k + 1]
      <4>1. k + 1 \in 1..m /\ r + 1 = n + 10 + (k + 1)
        BY <3>1
      <4> QED
        BY <1>10, <1>11, <2>1, <4>1
    <3>3. b # DLE /\ Put(b)
      <4>1. k + 1 \in 1..m
        BY <3>1
      <4> QED
        BY <1>6, <1>16, <3>2, <4>1 DEF Data
    <3>4. Begins(Append(buf, b), texts[1])
      BY <1>3, <1>6, <3>1, <3>2, AppendNext
    <3>5. k + 1 < size
      BY <1>7, <1>16, <3>1, SizeIs
    <3>6. /\ buf' = Append(buf, b) /\ byteAt' = "data" /\ UNCHANGED <<call, received>>
          /\ Len(buf') = k + 1
      BY <1>3, <2>0, <3>3, <3>5, PutKeepsOrReturns
    <3> QED
      BY <1>16, <3>1, <3>4, <3>6
  <2>2. CASE r >= n + 10 + m
    <3>1. Begins(texts[1], buf)
      <4>1. CASE r = n + 10 + m
        <5>1. r = n + 10 + k /\ Begins(buf, texts[1])
          BY <1>5, <1>16, <2>0, <4>1
        <5>2. k = m
          BY <4>1, <5>1
        <5>3. Len(buf) = Len(texts[1])
          BY <1>3, <5>2
        <5> QED
          BY <5>1, <5>3, AllBegins
      <4>2. CASE r > n + 10 + m
        BY <1>5, <1>16, <2>0, <4>2
      <4> QED
        BY <2>2, <4>1, <4>2
    <3>2. CASE b # DLE /\ Put(b)
      <4>1. /\ call' = 1 /\ byteAt' = "data" =>
                 ReadSoFar' > n + 10 + m /\ Begins(texts[1], buf')
            /\ byteAt' # "escaped"
            /\ call' = 2 => Begins(texts[1], received'[1])
        BY <1>14, <1>16, <2>0, <2>2, <3>1, <3>2
      <4>2. ReadSoFar' \in Int
        BY <1>2, <1>3, <1>8
      <4> QED
        BY <4>1, <4>2
    <3>3. CASE byteAt' = "escaped" /\ UNCHANGED <<c1, call, count, buf, received>>
      <4>1. ReadSoFar' > n + 10 + m
        BY <1>9, <1>10, <2>2
      <4> QED
        BY <1>16, <3>1, <3>3, <4>1
    <3> QED
      BY <1>16, <3>2, <3>3 DEF Data
  <2> QED
    BY <2>1, <2>2
<1>17. CASE Escaped(b) /\ call = 1
  <2>1. byteAt = "escaped" /\ r > n + 10 + m /\ Begins(texts[1], buf)
    BY <1>5, <1>17 DEF Escaped
  <2>2. CASE Returned(buf)
    BY <1>6, <1>17, <2>1, <2>2, ReturnedLeaves
  <2>3. CASE Put(b)
    <3>1. /\ call' = 1 /\ byteAt' = "data" =>
               ReadSoFar' > n + 10 + m /\ Begins(texts[1], buf')
          /\ byteAt' # "escaped"
          /\ call' = 2 => Begins(texts[1], received'[1])
      BY <1>14, <1>17, <2>1, <2>3
    <3>2. ReadSoFar' \in Int
      BY <1>2, <1>3, <1>8
    <3> QED
      BY <3>1, <3>2
  <2> QED
    BY <1>17, <2>2, <2>3 DEF Escaped
<1>18. CASE (Data(b) \/ Escaped(b)) /\ call = 2
  <2>0. byteAt \in {"data", "escaped"}
    BY <1>18 DEF Data, Escaped
  <2>1. CASE Put(b)
    BY <1>5, <1>15, <1>18, <2>0, <2>1
  <2>2. CASE Returned(buf)
    BY <1>5, <1>6, <1>18, <2>0, <2>2, ReturnedLeaves
  <2>3. CASE UNCHANGED <<c1, call, count, buf, received>>
    BY <1>5, <1>18, <2>3
  <2> QED
    BY <1>18, <2>1, <2>2, <2>3 DEF Data, Escaped
<1> QED
  BY <1>2, <1>6, <1>12, <1>13, <1>16, <1>17, <1>18

LEMMA InsideStep ==
  ASSUME FrameType, CallInv, WireIsRest, StartInv, StopsInside, FrameNext
  PROVE  StopsInside'
<1>1. UNCHANGED <<texts, noise, lost>> /\ Whole' = Whole
  BY ReadsAhead
<1>2. PICK b \in Byte :
        /\ First(b) \/ Sync(b) \/ SkipIds(b) \/ Data(b) \/ Escaped(b)
        /\ Left > 0 => b = Ahead(Left) /\ Left' = Left - 1
        /\ Left = 0 => Left' = 0
  BY ReadsAhead
<1>3. PICK f \in Nat, d \in Int, q \in Int, l \in Nat, k \in Nat :
        f = FrameSize /\ d = Data1 /\ q = Rest1 /\ l = Left /\ k = Len(buf)
  <2>1. Len(buf) \in Nat
    BY LenProperties DEF FrameType
  <2>2. FrameSize \in Nat /\ Left \in Nat /\ Data1 \in Int /\ Rest1 \in Int
    BY SizesAreInts
  <2> QED
    BY <2>1, <2>2
<1>4. SUFFICES ASSUME FindsStart, lost <= f, call' = 1
               PROVE  /\ byteAt' = "data" =>
                           Left' + Len(buf') <= f + d /\ f + d <= Left' + 2 * Len(buf')
                      /\ byteAt' = "escaped" =>
                           /\ Left' + Len(buf') + 1 <= f + d
                           /\ f + d <= Left' + 2 * Len(buf') + 1
                           /\ Left' < f + q
  <2>1. FindsStart' = FindsStart /\ lost' = lost /\ Data1' = d /\ Rest1' = q
    BY <1>1, <1>3 DEF FindsStart, Data1, Rest1
  <2> QED
    BY <1>3, <1>4, <2>1, Zenon DEF StopsInside
<1>5. call = 1 /\ size = BUFFER
  <2>1. call = 1
    BY <1>2, <1>4 DEF First, Sync, SkipIds, Data, Escaped, Put, Returned, FrameType
  <2> QED
    BY <2>1, SizeIs
<1>6. /\ byteAt = "data" => l + k <= f + d /\ f + d <= l + 2 * k
      /\ byteAt = "escaped" =>
           l + k + 1 <= f + d /\ f + d <= l + 2 * k + 1 /\ l < f + q
  BY <1>3, <1>4, <1>5, Zenon DEF StopsInside
<1>7. BUFFER \in Nat /\ 2 * BUFFER + 13 <= f + d
  <2>1. BUFFER \in Nat /\ PAYLOAD \in Nat /\ 2 * BUFFER <= PAYLOAD /\ f = PAYLOAD + 12
    BY <1>3, Sizes
  <2>2. d >= PAYLOAD + 1
    BY <1>3, <2>1 DEF Data1
  <2> QED
    BY <2>1, <2>2
<1>8. /\ byteAt \in {"data", "escaped"} => l > 0 /\ b = Ahead(l) /\ Left' = l - 1
      /\ Left' \in Int
  <2>1. byteAt \in {"data", "escaped"} => k < BUFFER
    BY <1>3, <1>5 DEF CallInv
  <2>2. byteAt \in {"data", "escaped"} => l > 0
    BY <1>6, <1>7, <2>1
  <2> QED
    BY <1>2, <1>3, <2>2
<1>9. ASSUME byteAt \in {"data", "escaped"}, Put(b)
      PROVE  byteAt' = "data" /\ Len(buf') = k + 1
  <2>1. Append(buf, b) \in Seq(Byte) /\ Len(Append(buf, b)) = k + 1
    BY <1>3, <1>9, PutKeepsOrReturns
  <2>2. ~Returned(Append(buf, b))
    BY <1>4 DEF Returned
  <2> QED
    BY <1>9, <2>1, <2>2, PutKeepsOrReturns
<1>10. CASE First(b) \/ Sync(b)
  BY <1>10 DEF First, Sync
<1>11. CASE SkipIds(b)
  <2>1. /\ byteAt = "ids" /\ byteAt' \in {"ids", "data"} /\ count' = count + 1
        /\ byteAt' = "data" => count' = 8
        /\ buf' = <<>>
    BY <1>11, IdsAre DEF SkipIds, CallInv
  <2>2. ASSUME byteAt' = "data"
        PROVE  Left' = f + d
    <3>1. ReadSoFar = Len(noise) + 2 + count /\ count = 7
      BY <1>4, <1>5, <2>1, <2>2 DEF StartInv, FrameType
    <3>2. /\ ReadSoFar = Len(Whole) - l /\ Len(noise) \in Nat /\ PAYLOAD \in Nat
          /\ f = PAYLOAD + 12
      BY <1>3, Sizes
    <3>3. Len(Whole) = Len(noise) + 2 * PAYLOAD + 24 - (IF lost = 0 THEN 0 ELSE 1)
      BY WholeLayout
    <3>4. d = PAYLOAD + 2 - (IF lost = 0 THEN 0 ELSE 1)
      BY <1>3, Zenon DEF Data1
    <3>5. l - 1 = f + d /\ l > 0
      <4>1. CASE lost = 0
        BY <3>1, <3>2, <3>3, <3>4, <4>1
      <4>2. CASE lost # 0
        BY <3>1, <3>2, <3>3, <3>4, <4>2
      <4> QED
        BY <4>1, <4>2
    <3> QED
      BY <1>2, <1>3, <3>5
  <2>3. Len(<<>>) = 0
    OBVIOUS
  <2> QED
    BY <2>1, <2>2, <2>3
<1>12. CASE Data(b)
  <2>0. /\ byteAt = "data" /\ l + k <= f + d /\ f + d <= l + 2 * k
        /\ l > 0 /\ b = Ahead(l) /\ Left' = l - 1
    BY <1>6, <1>8, <1>12 DEF Data
  <2>1. CASE Put(b)
    <3>1. byteAt' = "data" /\ Len(buf') = k + 1
      BY <1>9, <2>0, <2>1
    <3>2. Left' + Len(buf') <= f + d /\ f + d <= Left' + 2 * Len(buf')
      BY <2>0, <3>1
    <3> QED
      BY <3>1, <3>2
  <2>2. CASE b = DLE /\ byteAt' = "escaped" /\ UNCHANGED <<c1, call, count, buf, received>>
    <3>1. l <= f + q
      <4>1. SUFFICES ASSUME ~(l <= f + q)
                     PROVE  FALSE
        OBVIOUS
      <4>2. l \in (f + q + 1)..(f + d)
        BY <2>0, <4>1
      <4>3. Ahead(l) # DLE
        BY <1>3, <1>4, <4>2, ComesLast DEF FindsStart
      <4> QED
        BY <2>0, <2>2, <4>3
    <3>2. Len(buf') = k
      BY <1>3, <2>2
    <3>3. Left' + k + 1 <= f + d /\ f + d <= Left' + 2 * k + 1 /\ Left' < f + q
      BY <2>0, <3>1
    <3> QED
      BY <2>2, <3>2, <3>3
  <2> QED
    BY <1>12, <2>1, <2>2 DEF Data
<1>13. CASE Escaped(b)
  <2>0. /\ byteAt = "escaped" /\ l + k + 1 <= f + d /\ f + d <= l + 2 * k + 1
        /\ Left' = l - 1
    BY <1>6, <1>8, <1>13 DEF Escaped
  <2>1. CASE Put(b)
    <3>1. byteAt' = "data" /\ Len(buf') = k + 1
      BY <1>9, <2>0, <2>1
    <3>2. Left' + Len(buf') <= f + d /\ f + d <= Left' + 2 * Len(buf')
      BY <2>0, <3>1
    <3> QED
      BY <3>1, <3>2
  <2>2. CASE Returned(buf)
    BY <1>4, <2>2 DEF Returned
  <2> QED
    BY <1>13, <2>1, <2>2 DEF Escaped
<1> QED
  BY <1>2, <1>10, <1>11, <1>12, <1>13

\* Where the first call leaves the wire.
LEMMA StopsBehindText ==
  ASSUME FrameType, CallInv, WireIsRest, StopsInside, FindsStart, lost <= FrameSize, call = 1,
         byteAt \in {"data", "escaped"}, Len(buf) + 1 = size \/ byteAt = "escaped"
  PROVE  Left > 0 /\ Left - 1 \in (FrameSize + 1)..(FrameSize + Rest1)
<1>1. PICK f \in Nat, d \in Int, q \in Int, l \in Nat, k \in Nat :
        f = FrameSize /\ d = Data1 /\ q = Rest1 /\ l = Left /\ k = Len(buf)
  <2>1. Len(buf) \in Nat
    BY LenProperties DEF FrameType
  <2>2. FrameSize \in Nat /\ Left \in Nat /\ Data1 \in Int /\ Rest1 \in Int
    BY SizesAreInts
  <2> QED
    BY <2>1, <2>2
<1>2. /\ byteAt = "data" => l + k <= f + d /\ f + d <= l + 2 * k
      /\ byteAt = "escaped" =>
           l + k + 1 <= f + d /\ f + d <= l + 2 * k + 1 /\ l < f + q
  BY <1>1, Zenon DEF StopsInside
<1>3. PICK p \in Nat, m \in Nat :
        p = PAYLOAD /\ m = Len(texts[1]) /\ BUFFER \in Nat /\ 2 * BUFFER <= p /\ m < BUFFER
  BY Sizes
<1>4. d >= p + 1 /\ d <= p + 2
  BY <1>1, <1>3 DEF Data1
<1>5. q >= p + 1 - m
  <2>1. lost \in Int
    BY DEF FrameType
  <2>2. q = PAYLOAD + 2 - Len(texts[1]) - (IF lost > 10 + Len(texts[1]) THEN 1 ELSE 0)
    BY <1>1, Zenon DEF Rest1
  <2> QED
    BY <1>3, <2>1, <2>2
<1>6. k < BUFFER /\ (byteAt = "data" => k + 1 = BUFFER)
  BY <1>1, SizeIs DEF CallInv
<1>7. l > 0 /\ l - 1 >= f + 1 /\ l - 1 <= f + q
  <2>1. CASE byteAt = "data"
    BY <1>2, <1>3, <1>4, <1>5, <1>6, <2>1
  <2>2. CASE byteAt = "escaped"
    BY <1>2, <1>3, <1>4, <1>6, <2>2
  <2> QED
    BY <2>1, <2>2
<1> QED
  BY <1>1, <1>7

LEMMA EvenIsTwice ==
  ASSUME FrameType, WireIsRest, Even
  PROVE  \E h \in Nat : Zeros = 2 * h
<1>1. \A z \in Nat : z % 2 = 0 => z \div 2 \in Nat /\ z = 2 * (z \div 2)
  OBVIOUS
<1> QED
  BY <1>1, SizesAreInts DEF Even

LEMMA SecondBegins ==
  ASSUME FrameType, CallInv, WireIsRest, StopsInside, FindsStart, lost <= FrameSize, FrameNext,
         call = 1, call' = 2
  PROVE  byteAt' = "first" /\ Left' \in (FrameSize + 1)..(FrameSize + Rest1)
<1>1. PICK b \in Byte :
        /\ First(b) \/ Sync(b) \/ SkipIds(b) \/ Data(b) \/ Escaped(b)
        /\ Left > 0 => Left' = Left - 1
  BY ReadsAhead
<1>2. CASE First(b) \/ Sync(b) \/ SkipIds(b)
  BY <1>2 DEF First, Sync, SkipIds
<1>3. ASSUME byteAt \in {"data", "escaped"}, byteAt' = "first",
             Len(buf) + 1 = size \/ byteAt = "escaped"
      PROVE  Left' \in (FrameSize + 1)..(FrameSize + Rest1)
  BY <1>1, <1>3, StopsBehindText, Zenon
<1>4. ASSUME byteAt \in {"data", "escaped"}, Put(b)
      PROVE  Len(buf) + 1 = size /\ byteAt' = "first"
  <2>1. CASE UNCHANGED <<c1, call, count, received>>
    BY <2>1
  <2>2. CASE Len(buf) + 1 = size /\ Returned(Append(buf, b))
    BY <2>2 DEF Returned
  <2> QED
    BY <1>4, <2>1, <2>2, PutKeepsOrReturns
<1>5. CASE Data(b)
  <2>1. byteAt = "data"
    BY <1>5 DEF Data
  <2>2. CASE Put(b)
    BY <1>3, <1>4, <2>1, <2>2
  <2>3. CASE UNCHANGED <<c1, call, count, buf, received>>
    BY <2>3
  <2> QED
    BY <1>5, <2>2, <2>3 DEF Data
<1>6. CASE Escaped(b)
  <2>1. byteAt = "escaped"
    BY <1>6 DEF Escaped
  <2>2. byteAt' = "first"
    <3>1. CASE Put(b)
      BY <1>4, <2>1, <3>1
    <3>2. CASE Returned(buf)
      BY <3>2 DEF Returned
    <3> QED
      BY <1>6, <3>1, <3>2 DEF Escaped
  <2> QED
    BY <1>3, <2>1, <2>2
<1> QED
  BY <1>1, <1>2, <1>5, <1>6

LEMMA DoneLeaves ==
  ASSUME FrameType, CallInv, byteAt \in {"data", "escaped"}, call = 2,
         NEW bytes \in Seq(Byte), Returned(bytes)
  PROVE  received'[2] = bytes /\ byteAt' = "done"
<1>1. received'[call] = bytes /\ byteAt' = IF call = 1 THEN "first" ELSE "done"
  BY ReturnedLeaves
<1> QED
  BY <1>1

LEMMA SecondStep ==
  ASSUME FrameType, CallInv, WireIsRest, StopsInside, SecondInv, FrameNext
  PROVE  SecondInv'
<1>1. UNCHANGED <<texts, noise, lost>> /\ Whole' = Whole
  BY ReadsAhead
<1>2. PICK b \in Byte :
        /\ First(b) \/ Sync(b) \/ SkipIds(b) \/ Data(b) \/ Escaped(b)
        /\ Left > 0 => b = Ahead(Left) /\ Left' = Left - 1
        /\ Left = 0 => Left' = 0
  BY ReadsAhead
<1>3. PICK p \in Nat, f \in Nat, q \in Int, z \in Nat, m \in Nat, l \in Nat, k \in Nat, t \in Seq(Byte) :
        /\ p = PAYLOAD /\ f = FrameSize /\ q = Rest1 /\ z = Zeros /\ l = Left
        /\ t = texts[2] /\ m = Len(t) /\ k = Len(buf)
  <2>1. Len(buf) \in Nat
    BY LenProperties DEF FrameType
  <2>2. FrameSize \in Nat /\ Left \in Nat /\ Rest1 \in Int /\ Zeros \in Nat
    BY SizesAreInts
  <2>3. /\ PAYLOAD \in Nat /\ FrameSize = PAYLOAD + 12 /\ Len(texts[2]) \in Nat
        /\ Len(texts[2]) <= PAYLOAD /\ texts[2] \in Seq(Byte)
    BY Sizes
  <2> QED
    BY <2>1, <2>2, <2>3, Zenon
<1>0. /\ p \in Nat /\ f \in Nat /\ q \in Int /\ z \in Nat /\ m \in Nat /\ l \in Nat /\ k \in Nat
      /\ f = p + 12 /\ m <= p /\ z = p - m
  <2>1. FrameSize = PAYLOAD + 12 /\ Len(texts[2]) <= PAYLOAD
    BY Sizes
  <2>2. Zeros = PAYLOAD - Len(texts[2])
    BY DEF Zeros
  <2> QED
    BY <1>3, <2>1, <2>2, Zenon
<1>4. SUFFICES ASSUME FindsStart, lost <= f, call' = 2
               PROVE  /\ byteAt' = "first" => Left' \in (f + 1)..(f + q)
                      /\ byteAt' = "sync" =>
                           \/ Left' \in f..(f + q - 1) /\ c1' \in {DLE, ETX}
                           \/ Left' = f - 1 /\ c1' = DLE
                      /\ byteAt' = "ids" => Left' = f - 2 - count'
                      /\ byteAt' = "data" =>
                           IF Left' >= z + 2
                           THEN Len(buf') = p + 2 - Left' /\ Begins(buf', t)
                           ELSE /\ Begins(t, buf')
                                /\ Even => Left' >= 2 /\ z + 2 - Left' = 2 * (Len(buf') - m)
                      /\ byteAt' = "escaped" =>
                           /\ Left' < z + 2 /\ Begins(t, buf')
                           /\ Even => Left' >= 1 /\ z + 1 - Left' = 2 * (Len(buf') - m)
                      /\ byteAt' = "done" =>
                           /\ Begins(t, received'[2])
                           /\ Even => 2 * (Len(received'[2]) - m) = z
  <2>1. /\ FindsStart' = FindsStart /\ lost' = lost /\ Rest1' = q /\ Zeros' = z /\ Even' = Even
        /\ texts'[2] = t
    BY <1>1, <1>3 DEF FindsStart, Rest1, Zeros, Even
  <2> QED
    BY <1>3, <1>4, <2>1, Zenon DEF SecondInv
<1>5. CASE call = 1
  <2>1. byteAt' = "first" /\ Left' \in (f + 1)..(f + q)
    BY <1>3, <1>4, <1>5, SecondBegins
  <2> QED
    BY <2>1
<1>6. CASE call = 2
  <2>1. /\ byteAt = "first" => l \in (f + 1)..(f + q)
        /\ byteAt = "sync" =>
             \/ l \in f..(f + q - 1) /\ c1 \in {DLE, ETX}
             \/ l = f - 1 /\ c1 = DLE
        /\ byteAt = "ids" => l = f - 2 - count
        /\ byteAt = "data" =>
             IF l >= z + 2
             THEN k = p + 2 - l /\ Begins(buf, t)
             ELSE Begins(t, buf) /\ (Even => l >= 2 /\ z + 2 - l = 2 * (k - m))
        /\ byteAt = "escaped" =>
             /\ l < z + 2 /\ Begins(t, buf)
             /\ Even => l >= 1 /\ z + 1 - l = 2 * (k - m)
    BY <1>3, <1>4, <1>6, Zenon DEF SecondInv
  <2>2. /\ l > 0 => b = Ahead(l) /\ Left' = l - 1
        /\ l = 0 => Left' = 0
    BY <1>2, <1>3
  <2>3. /\ \A i \in (f + 1)..(f + q) : Ahead(i) \in {DLE, ETX}
        /\ Ahead(f) = DLE /\ Ahead(f - 1) = STX
        /\ \A i \in (z + 3)..(p + 2) : Ahead(i) = t[p + 3 - i]
        /\ \A i \in 2..(z + 2) : Ahead(i) = DLE
        /\ Ahead(1) = ETX
    BY <1>3, <1>4, ComesLast DEF FindsStart
  <2>4. /\ buf \in Seq(Byte) /\ count \in 0..8 /\ size = p /\ p > 0
        /\ \A i \in 1..m : t[i] # DLE
    <3>1. buf \in Seq(Byte) /\ count \in 0..8 /\ texts \in Texts
      BY DEF FrameType
    <3>2. size = PAYLOAD /\ size \in Nat \ {0}
      BY <1>6, SizeIs
    <3>3. \A i \in 1..Len(texts[2]) : texts[2][i] # DLE
      BY <3>1, TextType
    <3>4. \A n \in Nat \ {0} : n > 0
      OBVIOUS
    <3>5. size = p /\ p > 0
      BY <1>3, <3>2, <3>4, Zenon
    <3> QED
      BY <1>3, <3>1, <3>3, <3>5, Zenon
  <2>5. CASE First(b)
    <3>1. /\ byteAt' = "sync" /\ c1' = b /\ l \in (f + 1)..(f + q)
      BY <2>1, <2>5 DEF First
    <3>2. b \in {DLE, ETX} /\ Left' \in f..(f + q - 1)
      BY <2>2, <2>3, <3>1
    <3> QED
      BY <3>1, <3>2
  <2>6. CASE Sync(b)
    <3>1. /\ byteAt' = IF c1 = DLE /\ b = STX THEN "ids" ELSE "sync"
          /\ c1' = b /\ UNCHANGED count /\ count = 0
          /\ \/ l \in f..(f + q - 1) /\ c1 \in {DLE, ETX}
             \/ l = f - 1 /\ c1 = DLE
      BY <2>1, <2>6 DEF Sync, CallInv
    <3>2. CASE l = f - 1
      <4>1. b = STX /\ Left' = f - 2 /\ c1 = DLE
        <5>1. l > 0 /\ l # f /\ ~(l \in f..(f + q - 1)) /\ l - 1 = f - 2
          BY <1>0, <3>2
        <5> QED
          BY <2>2, <2>3, <3>1, <3>2, <5>1
      <4>2. byteAt' = "ids" /\ count' = 0
        BY <3>1, <4>1
      <4>3. Left' = f - 2 - count'
        BY <4>1, <4>2
      <4> QED
        BY <4>2, <4>3
    <3>3. CASE l = f
      <4>1. b = DLE /\ Left' = f - 1
        <5>1. l > 0 /\ l - 1 = f - 1
          BY <1>0, <3>3
        <5> QED
          BY <2>2, <2>3, <3>3, <5>1
      <4>2. byteAt' = "sync" /\ c1' = DLE
        BY <3>1, <4>1 DEF DLE, STX
      <4> QED
        BY <4>1, <4>2
    <3>4. CASE l \in (f + 1)..(f + q - 1)
      <4>1. b \in {DLE, ETX} /\ Left' \in f..(f + q - 1)
        BY <1>0, <2>2, <2>3, <3>4
      <4>2. byteAt' = "sync" /\ c1' \in {DLE, ETX}
        BY <3>1, <4>1 DEF DLE, STX, ETX
      <4> QED
        BY <4>1, <4>2
    <3>5. l = f - 1 \/ l = f \/ l \in (f + 1)..(f + q - 1)
      BY <1>0, <3>1
    <3> QED
      BY <3>2, <3>3, <3>4, <3>5
  <2>7. CASE SkipIds(b)
    <3>1. /\ byteAt = "ids" /\ byteAt' \in {"ids", "data"} /\ count' = count + 1
          /\ byteAt' = "data" => count' = 8
          /\ buf' = <<>> /\ count < 8
      BY <2>7, IdsAre DEF SkipIds, CallInv
    <3>2. l = f - 2 - count /\ l > 0 /\ Left' = l - 1
      <4>1. l = f - 2 - count /\ count \in 0..8 /\ count < 8
        BY <2>1, <2>4, <3>1
      <4>2. l > 0
        BY <1>0, <4>1
      <4> QED
        BY <2>2, <4>1, <4>2
    <3>3. Left' = f - 2 - count'
      <4>1. count \in 0..8 /\ count' = count + 1
        BY <2>4, <3>1
      <4> QED
        BY <1>0, <3>2, <4>1
    <3>4. ASSUME byteAt' = "data"
          PROVE  Left' >= z + 2 /\ Len(buf') = p + 2 - Left' /\ Begins(buf', t)
      <4>1. Left' = p + 2
        <5>1. count' = 8
          BY <3>1, <3>4
        <5> QED
          BY <1>0, <3>3, <5>1
      <4>2. Len(buf') = 0
        BY <3>1
      <4>3. Left' >= z + 2 /\ 0 = p + 2 - Left'
        BY <1>0, <4>1
      <4> QED
        BY <1>3, <3>1, <4>2, <4>3, EmptyBegins, Zenon
    <3> QED
      BY <3>1, <3>3, <3>4
  <2>8. CASE Data(b)
    <3>0. /\ byteAt = "data"
          /\ \/ b # DLE /\ Put(b)
             \/ b = DLE /\ byteAt' = "escaped" /\ UNCHANGED <<c1, call, count, buf, received>>
      BY <2>8 DEF Data
    <3>1. CASE l >= z + 3
      <4>1. k = p + 2 - l /\ Begins(buf, t) /\ l \in (z + 3)..(p + 2) /\ k < m /\ k + 1 = p + 3 - l
        <5>1. l >= z + 2
          BY <1>0, <3>1
        <5>2. k = p + 2 - l /\ Begins(buf, t)
          BY <2>1, <3>0, <5>1
        <5> QED
          BY <1>0, <3>1, <5>2
      <4>2. b = t[k + 1] /\ Left' = l - 1
        BY <2>2, <2>3, <3>1, <4>1
      <4>3. Put(b)
        <5>1. k + 1 \in 1..m
          BY <4>1
        <5> QED
          BY <2>4, <3>0, <4>2, <5>1
      <4>4. Begins(Append(buf, b), t)
        BY <1>3, <2>4, <4>1, <4>2, AppendNext
      <4>5. Append(buf, b) \in Seq(Byte) /\ Len(Append(buf, b)) = k + 1
        BY <1>3, <3>0, <4>3, PutKeepsOrReturns
      <4>6. CASE buf' = Append(buf, b) /\ byteAt' = "data"
        <5>1. Left' >= z + 2 /\ k + 1 = p + 2 - Left'
          BY <1>0, <3>1, <4>1, <4>2
        <5>2. Len(buf') = k + 1
          BY <4>5, <4>6
        <5> QED
          BY <4>4, <4>6, <5>1, <5>2
      <4>7. CASE Len(buf) + 1 = size /\ Returned(Append(buf, b))
        <5>1. received'[2] = Append(buf, b) /\ byteAt' = "done"
          BY <1>6, <3>0, <4>5, <4>7, DoneLeaves
        <5>2. k + 1 = p
          BY <1>3, <2>4, <4>7
        <5>3. k + 1 = m /\ z = 0 /\ 2 * (m - m) = z
          BY <1>0, <4>1, <5>2
        <5>4. Begins(t, Append(buf, b))
          BY <1>3, <4>4, <4>5, <5>3, AllBegins
        <5>5. 2 * (Len(received'[2]) - m) = z
          BY <4>5, <5>1, <5>3, Zenon
        <5> QED
          BY <5>1, <5>4, <5>5
      <4> QED
        BY <3>0, <4>3, <4>6, <4>7, PutKeepsOrReturns
    <3>2. CASE l = z + 2
      <4>1. k = m /\ Begins(buf, t) /\ b = DLE /\ Left' = z + 1
        <5>1. k = p + 2 - l /\ Begins(buf, t)
          BY <1>0, <2>1, <3>0, <3>2
        <5>2. l > 0 /\ z + 2 \in 2..(z + 2)
          BY <1>0, <3>2
        <5>3. b = DLE /\ Left' = l - 1
          BY <2>2, <2>3, <3>2, <5>2
        <5> QED
          BY <1>0, <3>2, <5>1, <5>3
      <4>2. Begins(t, buf)
        BY <1>3, <4>1, AllBegins
      <4>3. byteAt' = "escaped" /\ buf' = buf
        BY <3>0, <4>1
      <4>4. Left' < z + 2 /\ Left' >= 1 /\ z + 1 - Left' = 2 * (k - m)
        BY <1>0, <4>1
      <4> QED
        BY <1>3, <4>2, <4>3, <4>4, Zenon
    <3>3. CASE l < z + 2
      <4>1. Begins(t, buf) /\ (Even => l >= 2 /\ z + 2 - l = 2 * (k - m))
        <5>1. ~(l >= z + 2)
          BY <1>0, <3>3
        <5> QED
          BY <2>1, <3>0, <5>1
      <4>2. Left' < z + 2 /\ Left' \in Nat
        BY <1>0, <2>2, <3>3
      <4>3. Even => b = DLE /\ Left' = l - 1
        BY <1>0, <2>2, <2>3, <3>3, <4>1
      <4>4. CASE Put(b) /\ b # DLE
        <5>1. Append(buf, b) \in Seq(Byte) /\ Begins(t, Append(buf, b)) /\ ~Even
          BY <1>3, <2>4, <3>0, <4>1, <4>3, <4>4, AppendKeeps, PutKeepsOrReturns
        <5>2. CASE buf' = Append(buf, b) /\ byteAt' = "data"
          <6>1. ~(Left' >= z + 2)
            BY <1>0, <4>2
          <6> QED
            BY <5>1, <5>2, <6>1
        <5>3. CASE Returned(Append(buf, b))
          <6>1. received'[2] = Append(buf, b) /\ byteAt' = "done"
            BY <1>6, <3>0, <5>1, <5>3, DoneLeaves
          <6> QED
            BY <5>1, <6>1
        <5> QED
          BY <3>0, <4>4, <5>2, <5>3, PutKeepsOrReturns
      <4>5. CASE byteAt' = "escaped" /\ UNCHANGED <<c1, call, count, buf, received>>
        <5>1. Even => Left' >= 1 /\ z + 1 - Left' = 2 * (k - m)
          BY <1>0, <4>1, <4>3
        <5>2. Len(buf') = k
          BY <1>3, <4>5
        <5> QED
          BY <4>1, <4>2, <4>5, <5>1, <5>2
      <4> QED
        BY <3>0, <4>4, <4>5
    <3>4. l >= z + 3 \/ l = z + 2 \/ l < z + 2
      BY <1>0
    <3> QED
      BY <3>1, <3>2, <3>3, <3>4
  <2>9. CASE Escaped(b)
    <3>0. /\ byteAt = "escaped"
          /\ \/ b = ETX /\ Returned(buf)
             \/ b # ETX /\ Put(b)
          /\ l < z + 2 /\ Begins(t, buf) /\ (Even => l >= 1 /\ z + 1 - l = 2 * (k - m))
      BY <2>1, <2>9 DEF Escaped
    <3>1. CASE b = ETX /\ Returned(buf)
      <4>1. received'[2] = buf /\ byteAt' = "done"
        BY <1>6, <2>4, <3>0, <3>1, DoneLeaves
      <4>2. ASSUME Even
            PROVE  2 * (k - m) = z
        <5>1. l > 0 /\ ~(l \in 2..(z + 2))
          <6>1. l >= 1 /\ l > 0 /\ DLE # ETX
            BY <1>0, <3>0, <4>2 DEF DLE, ETX
          <6>2. b = Ahead(l)
            BY <2>2, <6>1
          <6> QED
            BY <2>3, <3>1, <6>1, <6>2
        <5>2. l = 1
          BY <1>0, <3>0, <5>1
        <5> QED
          BY <1>0, <3>0, <4>2, <5>2
      <4> QED
        BY <1>3, <3>0, <4>1, <4>2, Zenon
    <3>2. CASE b # ETX /\ Put(b)
      <4>1. /\ Append(buf, b) \in Seq(Byte) /\ Len(Append(buf, b)) = k + 1
            /\ Begins(t, Append(buf, b))
        BY <1>3, <2>4, <3>0, <3>2, AppendKeeps, PutKeepsOrReturns
      <4>2. Left' < z + 2 /\ Left' \in Nat
        BY <1>0, <2>2, <3>0
      <4>3. ASSUME Even
            PROVE  l >= 3 /\ Left' = l - 1 /\ z + 1 - l = 2 * (k - m)
        <5>1. PICK h \in Nat : z = 2 * h
          BY <1>3, <4>3, EvenIsTwice
        <5>2. l >= 1 /\ z + 1 - l = 2 * (k - m)
          BY <3>0, <4>3
        <5>3. l # 1
          BY <2>2, <2>3, <3>2
        <5>4. l # 2
          BY <1>0, <5>1, <5>2
        <5> QED
          BY <1>0, <2>2, <5>2, <5>3, <5>4
      <4>4. CASE buf' = Append(buf, b) /\ byteAt' = "data"
        <5>1. Even => Left' >= 2 /\ z + 2 - Left' = 2 * ((k + 1) - m)
          BY <1>0, <4>3
        <5>2. ~(Left' >= z + 2)
          BY <1>0, <4>2
        <5> QED
          BY <4>1, <4>4, <5>1, <5>2
      <4>5. CASE Len(buf) + 1 = size /\ Returned(Append(buf, b))
        <5>1. received'[2] = Append(buf, b) /\ byteAt' = "done"
          BY <1>6, <3>0, <4>1, <4>5, DoneLeaves
        <5>2. k + 1 = p
          BY <1>3, <2>4, <4>5
        <5>3. ~Even
          BY <1>0, <3>0, <4>3, <5>2
        <5> QED
          BY <4>1, <5>1, <5>3
      <4> QED
        BY <3>0, <3>2, <4>4, <4>5, PutKeepsOrReturns
    <3> QED
      BY <3>0, <3>1, <3>2
  <2> QED
    BY <1>2, <2>5, <2>6, <2>7, <2>8, <2>9
<1> QED
  BY <1>5, <1>6 DEF FrameType

LEMMA BeginsIsPrefix ==
  ASSUME NEW a \in Seq(Byte), NEW b \in Seq(Byte), Begins(a, b)
  PROVE  IsPrefix(a, b)
<1>1. PICK m \in Nat, n \in Nat : m = Len(a) /\ n = Len(b) /\ m <= n
  BY LenProperties DEF Begins
<1>2. \A i \in 1..n : b[i] \in Byte
  BY <1>1, ElementOfSeq
<1>3. SubSeq(b, 1, m) \in Seq(Byte) /\ Len(SubSeq(b, 1, m)) = m
      /\ \A i \in 1..m : SubSeq(b, 1, m)[i] = b[i]
  <2>1. \A i \in 1..m : b[i] \in Byte
    BY <1>1, <1>2
  <2>2. /\ SubSeq(b, 1, m) \in Seq(Byte)
        /\ Len(SubSeq(b, 1, m)) = IF 1 <= m THEN m - 1 + 1 ELSE 0
        /\ \A i \in 1..(m - 1 + 1) : SubSeq(b, 1, m)[i] = b[1 + i - 1]
    BY <2>1, SubSeqProperties
  <2> QED
    BY <2>2
<1>4. a = SubSeq(b, 1, m)
  BY <1>1, <1>3, SeqEqual DEF Begins
<1> QED
  BY <1>1, <1>4 DEF IsPrefix

LEMMA FrameBegins == FrameInit => FrameInv
<1> SUFFICES ASSUME FrameInit
             PROVE  FrameInv
  OBVIOUS
<1>1. /\ texts \in Texts /\ noise \in Seq(Byte) /\ lost \in 0..(2 * FrameSize)
      /\ wire = Whole /\ call = 1 /\ byteAt = "first" /\ c1 = DLE /\ count = 0
      /\ buf = <<>> /\ received = <<>>
  BY FramingAssumption DEF FrameInit, FramingAssumption, Whole, Stream, Both
<1>2. Whole \in Seq(Byte) /\ Len(Whole) \in Nat
  BY <1>1, StreamLayout, LenProperties DEF Whole
<1>3. FrameType
  <2>1. DLE \in Byte /\ buf \in Seq(Byte) /\ received \in Seq(Seq(Byte))
    BY <1>1 DEF DLE, Byte
  <2> QED
    BY <1>1, <1>2, <2>1 DEF FrameType
<1>4. CallInv
  BY <1>1 DEF CallInv
<1>5. ReadSoFar = 0 /\ Left = Len(Whole)
  BY <1>1, <1>2 DEF ReadSoFar, Left
<1>6. WireIsRest
  <2>1. \A i \in 1..Len(Whole) : wire[i] = Whole[0 + i]
    BY <1>1, <1>2
  <2> QED
    BY <1>2, <1>5, <2>1 DEF WireIsRest
<1>7. StartInv /\ FirstInv /\ StopsInside /\ SecondInv
  BY <1>1, <1>5 DEF StartInv, FirstInv, StopsInside, SecondInv
<1> QED
  BY <1>3, <1>4, <1>6, <1>7 DEF FrameInv

LEMMA FrameStutters ==
  ASSUME FrameInv, UNCHANGED frameVars
  PROVE  FrameInv'
<1>1. /\ texts' = texts /\ noise' = noise /\ lost' = lost /\ wire' = wire /\ call' = call
      /\ byteAt' = byteAt /\ c1' = c1 /\ count' = count /\ buf' = buf /\ received' = received
  BY DEF frameVars
<1>2. /\ FindsStart' = FindsStart /\ Whole' = Whole /\ Left' = Left /\ size' = size
      /\ Zeros' = Zeros /\ Even' = Even /\ Data1' = Data1 /\ Rest1' = Rest1
  BY <1>1, Zenon DEF FindsStart, Whole, Left, size, Zeros, Even, Data1, Rest1
<1>3. ReadSoFar' = ReadSoFar
  BY <1>1, <1>2, Zenon DEF ReadSoFar
<1>4. FrameType' /\ CallInv' /\ WireIsRest'
  BY <1>1, <1>2, <1>3, Zenon DEF FrameInv, FrameType, CallInv, WireIsRest
<1>5. StartInv' /\ FirstInv'
  BY <1>1, <1>2, <1>3, Zenon DEF FrameInv, StartInv, FirstInv
<1>6. StopsInside' /\ SecondInv'
  BY <1>1, <1>2, <1>3, Zenon DEF FrameInv, StopsInside, SecondInv
<1> QED
  BY <1>4, <1>5, <1>6 DEF FrameInv

LEMMA FrameRecovers ==
  ASSUME FrameInv
  PROVE  FramesRecovered
<1>1. /\ FrameType /\ CallInv /\ WireIsRest /\ FirstInv /\ SecondInv
      /\ received \in Seq(Seq(Byte)) /\ call \in {1, 2}
  BY DEF FrameInv, FrameType
<1>2. texts[1] \in Seq(Byte) /\ texts[2] \in Seq(Byte) /\ PAYLOAD \in Nat
      /\ Len(texts[2]) \in Nat /\ Len(texts[2]) <= PAYLOAD
  BY <1>1, Sizes
<1>3. \A i \in 1..Len(received) : received[i] \in Seq(Byte)
  BY <1>1, ElementOfSeq
<1>4. ASSUME FindsStart, Len(received) >= 1, lost \notin 1..(2 + Len(Ids) + Len(texts[1]))
      PROVE  IsPrefix(texts[1], received[1])
  <2>1. call = 2 /\ 1 \in 1..Len(received)
    BY <1>1, <1>4, LenProperties DEF CallInv
  <2>2. lost \notin 1..(10 + Len(texts[1]))
    BY <1>4, IdsAre
  <2>3. Begins(texts[1], received[1])
    BY <1>1, <1>4, <2>1, <2>2 DEF FirstInv
  <2> QED
    BY <1>2, <1>3, <2>1, <2>3, BeginsIsPrefix
<1>5. ASSUME FindsStart, Len(received) = 2, lost <= FrameSize
      PROVE  /\ IsPrefix(texts[2], received[2])
             /\ Even => Len(received[2]) = Len(texts[2]) + Zeros \div 2
  <2>1. byteAt = "done" /\ call = 2
    <3>1. ~(2 = call - 1)
      BY <1>1
    <3>2. byteAt = "done"
      BY <1>1, <1>5, <3>1, Zenon DEF CallInv
    <3> QED
      BY <1>1, <3>2, Zenon DEF CallInv
  <2>2. Begins(texts[2], received[2]) /\ (Even => 2 * (Len(received[2]) - Len(texts[2])) = Zeros)
    BY <1>1, <1>5, <2>1 DEF SecondInv
  <2>3. received[2] \in Seq(Byte)
    BY <1>3, <1>5
  <2>4. Even => Len(received[2]) = Len(texts[2]) + Zeros \div 2
    <3>1. PICK n \in Nat, m \in Nat, z \in Int :
            n = Len(received[2]) /\ m = Len(texts[2]) /\ z = Zeros
      <4>1. Len(received[2]) \in Nat /\ Zeros \in Int
        BY <1>1, <2>3, LenProperties, SizesAreInts
      <4> QED
        BY <1>2, <4>1, Zenon
    <3>2. 2 * (n - m) = z => n = m + z \div 2
      <4>1. n \in Nat /\ m \in Nat /\ z \in Int
        BY <3>1
      <4>2. \A i \in Int, j \in Int : 2 * i = j => i = j \div 2
        OBVIOUS
      <4>3. 2 * (n - m) = z => n - m = z \div 2
        BY <4>1, <4>2
      <4>4. z \div 2 \in Int
        BY <4>1
      <4> QED
        BY <4>1, <4>3, <4>4
    <3> QED
      BY <2>2, <3>1, <3>2, Zenon
  <2> QED
    BY <1>2, <2>2, <2>3, <2>4, BeginsIsPrefix
<1> QED
  BY <1>4, <1>5, Zenon DEF FramesRecovered, Even, Zeros

\* Whatever bytes that do not look like a start were made up before it, and
\* though recv_frame stops in the middle of the first frame or one of its
\* bytes is lost, what it returns begins with the texts that were sent, and
\* ends with the second frame if an even number of zeros fills that up: for
\* every size of the payload and the buffer and all texts without a zero byte.
THEOREM FramesAreRecovered == FrameSpec => []FramesRecovered
<1>1. FrameInit => FrameInv
  BY FrameBegins
<1>2. FrameInv /\ [FrameNext]_frameVars => FrameInv'
  <2>1. ASSUME FrameInv, FrameNext
        PROVE  FrameInv'
    <3>1. /\ FrameType /\ CallInv /\ WireIsRest /\ StartInv /\ FirstInv /\ StopsInside
          /\ SecondInv
      BY <2>1 DEF FrameInv
    <3>2. FrameType' /\ CallInv'
      BY <2>1, <3>1, TypeStep
    <3>3. WireIsRest'
      BY <2>1, <3>1, ReadsAhead
    <3>4. StartInv'
      BY <2>1, <3>1, StartStep
    <3>5. FirstInv'
      BY <2>1, <3>1, FirstStep
    <3>6. StopsInside'
      BY <2>1, <3>1, InsideStep
    <3>7. SecondInv'
      BY <2>1, <3>1, SecondStep
    <3> QED
      BY <3>2, <3>3, <3>4, <3>5, <3>6, <3>7 DEF FrameInv
  <2> QED
    BY <2>1, FrameStutters
<1>3. FrameInv => FramesRecovered
  BY FrameRecovers
<1> QED
  BY <1>1, <1>2, <1>3, PTL DEF FrameSpec

=============================================================================
