----------------------------- MODULE HttpReceive -----------------------------
(***************************************************************************)
(* receive_from_server, the loop that reads one HTTP answer (tema 4; lab 9 *)
(* has the same).  TCP hands the answer over in pieces of any size, and    *)
(* the server may hold the connection open behind it or close it, early    *)
(* or late.                                                                *)
(*                                                                         *)
(* A symbol stands for a stretch of text that a piece may end after:       *)
(* HEADER_TERMINATOR has two, CONTENT_LENGTH one and its number the next.  *)
(***************************************************************************)
EXTENDS Integers, Sequences, SequencesExt, FiniteSetsExt

CONSTANTS
  Answers,          \* bound: what servers send
  BUFLEN            \* symbols one read takes at most; 4096 bytes in the code

HEADER_TERMINATOR == <<"\r\n", "\r\n">>

\* The name of the header as the code writes it, and as a server may.
CONTENT_LENGTH == <<"Content-Length: ">>
tolower(c)     == IF c = "content-length: " THEN "Content-Length: " ELSE c

VARIABLES
  response,         \* all that the server has to say
  closes,           \* the server closes behind it
  unread,           \* what has not been read yet
  data,             \* of the buffer
  content_length, header_end,
  at                \* "header", "body" or "returned"

httpVars == <<response, closes, unread, data, content_length, header_end, at>>

HttpInit ==
  /\ response \in Answers /\ closes \in BOOLEAN
  /\ \E k \in 0..Len(response) :
       /\ k < Len(response) => closes     \* cut off by a connection that ends
       /\ unread = SubSeq(response, 1, k)
  /\ data = <<>> /\ content_length = 0 /\ header_end = 0
  /\ at = "header"

\* The index where pattern begins, from 0, or -1.
buffer_find(buf, pattern) ==
  LET found == {i \in 0..(Len(buf) - Len(pattern)) :
                  SubSeq(buf, i + 1, i + Len(pattern)) = pattern}
  IN  IF found = {} THEN -1 ELSE Min(found)

ByTheCase(buf, pattern) == buffer_find(buf, pattern)    \* mutant: as it is written

buffer_find_insensitive(buf, pattern) ==
  buffer_find([i \in DOMAIN buf |-> tolower(buf[i])], pattern)

\* read and buffer_add: at least one symbol, or the end of the stream.
Read(n) ==
  /\ n \in 1..BUFLEN /\ n <= Len(unread)
  /\ data' = data \o SubSeq(unread, 1, n)
  /\ unread' = SubSeq(unread, n + 1, Len(unread))

AtEnd == unread = <<>> /\ closes

\* strtol: what does not begin with a number counts 0.
strtol(buf, i) ==
  IF i <= Len(buf) /\ buf[i] \in {"0", "1", "2"}
  THEN CHOOSE n \in 0..2 : ToString(n) = buf[i] ELSE 0

BodyOnly(end, length, buf) ==   \* mutant: compares the body's length alone
  end >= 0 /\ Len(buf) >= length

\* header_end is -1 as long as no terminator is there, and total wraps
\* round to more than any buffer holds.
Complete(end, length, buf) == end >= 0 /\ Len(buf) >= end + length

\* The first loop, up to the header's end and its Content-Length.
ReadHeader(n) ==
  /\ at = "header"
  /\ Read(n)
  /\ LET end   == buffer_find(data', HEADER_TERMINATOR)
         start == buffer_find_insensitive(data', CONTENT_LENGTH)
     IN \/ /\ end < 0
           /\ header_end' = end
           /\ UNCHANGED <<content_length, at>>
        \/ /\ end >= 0 /\ start < 0
           /\ header_end' = end + Len(HEADER_TERMINATOR)
           /\ UNCHANGED <<content_length, at>>
        \/ /\ end >= 0 /\ start >= 0
           /\ header_end' = end + Len(HEADER_TERMINATOR)
           /\ content_length' = strtol(data', start + 2)
           /\ at' = IF Complete(header_end', content_length', data')
                    THEN "returned" ELSE "body"
  /\ UNCHANGED <<response, closes>>

\* The stream ends in the first loop.
HeaderEnds ==
  /\ at = "header" /\ AtEnd
  /\ at' = IF Complete(header_end, content_length, data)
           THEN "returned" ELSE "body"
  /\ UNCHANGED <<response, closes, unread, data, content_length, header_end>>

\* The second loop, until all of the body is there or the stream ends.
ReadBody(n) ==
  /\ at = "body"
  /\ Read(n)
  /\ at' = IF Complete(header_end, content_length, data')
           THEN "returned" ELSE "body"
  /\ UNCHANGED <<response, closes, content_length, header_end>>

BodyEnds ==
  /\ at = "body" /\ AtEnd
  /\ at' = "returned"
  /\ UNCHANGED <<response, closes, unread, data, content_length, header_end>>

HttpNext ==
  \/ \E n \in 1..BUFLEN : ReadHeader(n) \/ ReadBody(n)
  \/ HeaderEnds \/ BodyEnds

HttpSpec == HttpInit /\ [][HttpNext]_httpVars

\* TCP brings what was sent, and read returns what has come.
HttpFairness == WF_httpVars(HttpNext)

-----------------------------------------------------------------------------
(* Properties.                                                             *)

\* The header is complete and says how long the body is.
HasLength(answer) ==
  LET end == buffer_find(answer, HEADER_TERMINATOR)
  IN \E i \in 1..end : tolower(answer[i]) = "Content-Length: "

\* A server that says a length says it rightly: after the first header of the
\* name is the length of the body, and there is no more than that.
ASSUME HttpAssumption ==
  \A answer \in Answers :
    /\ answer \in Seq(STRING)
    /\ HasLength(answer) =>
         LET end == buffer_find(answer, HEADER_TERMINATOR)
         IN \A i \in 1..end :
              (/\ tolower(answer[i]) = "Content-Length: "
               /\ \A j \in 1..(i - 1) : tolower(answer[j]) # "Content-Length: ") =>
                 LET length == strtol(answer, i + 1)
                 IN /\ length \in Nat
                    /\ Len(answer) <= end + Len(HEADER_TERMINATOR) + length

SaysLength == HasLength(response)

SaysNone == \A c \in Range(response) : tolower(c) # "Content-Length: "

\* However the answer was cut into pieces, with the terminator or the
\* length across two of them, the client gets all of it, unless the server
\* broke off: receive_from_server never returns with text still to come.
\* (An answer without a length whose body has the words Content-Length is
\* the exception: helpers.c:98 looks for them in the body too.)
ReceivesWhole ==
  at = "returned" /\ (SaysLength \/ SaysNone) => unread = <<>>

\* And it does return, if the server says the length or closes; if it does
\* neither the client reads for ever (helpers.c:101).
Returns == (SaysLength \/ closes) ~> (at = "returned")

=============================================================================
