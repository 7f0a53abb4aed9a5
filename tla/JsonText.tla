------------------------------ MODULE JsonText ------------------------------
(***************************************************************************)
(* The text of a JSON value: parson.c writes it for a request, plain or    *)
(* pretty, and reads it from an answer, which may arrive cut off.          *)
(*                                                                         *)
(* A text is a sequence of symbols: the characters that parson tells       *)
(* apart, by name, and as one symbol each a number, true, false, null, the *)
(* four digits of \uXXXX and a stretch of white space.                     *)
(*                                                                         *)
(* The calls of the two recursive functions that are under way are a       *)
(* sequence, open, from the outermost to the innermost; a step goes from   *)
(* one value, name, character, comma or bracket to the next.               *)
(***************************************************************************)
EXTENDS Integers, SequencesExt

CONSTANTS
  Documents,        \* bound: the values that are written and read
  Char,             \* the characters of strings
  MAX_NESTING

VARIABLES
  doc,              \* the JSON_Value that is written
  pretty,           \* is_pretty
  writer,           \* json_serialize_to_buffer_r
  text,             \* what has arrived
  reader            \* json_parse_string

textVars == <<doc, pretty, writer, text, reader>>

-----------------------------------------------------------------------------
(* Values: scalars, strings, and containers, which are arrays and objects. *)
(* An object has as many names as values, an array has none.               *)

Scalars == {"number", "true", "false", "null"}

Containers == {"array", "object"}

Strings == Seq(Char)

ContainerAssumption(v) ==
  /\ v = [type |-> v.type, names |-> v.names, values |-> v.values]
  /\ v.values \in Seq(Documents)
  /\ v.type = "array" => v.names = <<>>
  /\ v.type = "object" =>
       /\ v.names \in Seq(Strings) /\ Len(v.names) = Len(v.values)
       /\ \A j, k \in DOMAIN v.names : v.names[j] = v.names[k] => j = k

\* A text ends with a null character, "end", which no string contains.
ASSUME TextAssumption ==
  /\ "end" \notin Char
  /\ MAX_NESTING \in Nat
  /\ \A v \in Documents :
       \/ v.type = "scalar" /\ v.symbol \in Scalars /\ v = [type |-> "scalar", symbol |-> v.symbol]
       \/ v.type = "string" /\ v.chars \in Strings /\ v = [type |-> "string", chars |-> v.chars]
       \/ v.type \in Containers /\ ContainerAssumption(v)

Opening(type) == IF type = "object" THEN "lbrace" ELSE "lbracket"
Closing(type) == IF type = "object" THEN "rbrace" ELSE "rbracket"

-----------------------------------------------------------------------------
(* Writing.                                                                *)

KeepsBackslash(c) ==    \* mutant: a backslash is not escaped
  CASE c \in {"quote", "slash"} -> <<"backslash", c>>
    [] c = "newline" -> <<"backslash", "n">>
    [] c = "control" -> <<"backslash", "u", "0001">>
    [] OTHER -> <<c>>

Escapes(c) ==
  CASE c \in {"quote", "backslash", "slash"} -> <<"backslash", c>>
    [] c = "newline" -> <<"backslash", "n">>
    [] c = "control" -> <<"backslash", "u", "0001">>
    [] OTHER -> <<c>>

\* The writer appends some symbols and goes on in a mode.
Put(w, symbols, mode, value, open, i) ==
  [mode |-> mode, value |-> value, open |-> open, i |-> i, out |-> w.out \o symbols]

\* Within brackets every name and value has white space before it if pretty.
Indent(w) == IF pretty /\ w.open # <<>> THEN <<"blank">> ELSE <<>>

\* A value is begun; of a container the opening bracket only.
json_serialize_to_buffer_r(w, v) ==
  CASE v.type = "scalar" ->       \* number, boolean, null
         Put(w, Indent(w) \o <<v.symbol>>, "behind", v, w.open, w.i)
    [] v.type = "string" ->
         Put(w, Indent(w) \o <<"quote">>, "string", v, w.open, 1)
    [] OTHER ->
         Put(w, Indent(w) \o <<Opening(v.type)>>, "element", v,
             Append(w.open, [value |-> v, i |-> 1]), w.i)

\* The closing bracket of the innermost container; an empty one stays on its line.
WriteEnd(w) ==
  LET v == Last(w.open).value
      b == IF pretty /\ v.values # <<>> THEN <<"blank">> ELSE <<>>
  IN  Put(w, b \o <<Closing(v.type)>>, "behind", v, Front(w.open), w.i)

\* A turn of the loop over the elements.
WriteElement(w) ==
  LET c == Last(w.open)
  IN  CASE c.i > Len(c.value.values) -> WriteEnd(w)
        [] c.i <= Len(c.value.values) /\ c.value.type = "object" ->
             Put(w, Indent(w) \o <<"quote">>, "name", w.value, w.open, 1)
        [] OTHER -> json_serialize_to_buffer_r(w, c.value.values[c.i])

\* A character of a value or of a name, or the end of it.
json_serialize_string(w) ==
  LET c == Last(w.open)
      s == IF w.mode = "name" THEN c.value.names[c.i] ELSE w.value.chars
  IN  CASE w.i <= Len(s) -> Put(w, Escapes(s[w.i]), w.mode, w.value, w.open, w.i + 1)
        [] w.i > Len(s) /\ w.mode = "name" ->
             Put(w, <<"quote", "colon">>, "value", c.value.values[c.i], w.open, w.i)
        [] OTHER -> Put(w, <<"quote">>, "behind", w.value, w.open, w.i)

\* Behind an element: a comma before the next one, or the end.
WriteBehind(w) ==
  LET c == Last(w.open)
  IN  IF c.i < Len(c.value.values)
      THEN Put(w, <<"comma">>, "element", w.value,
               Append(Front(w.open), [value |-> c.value, i |-> c.i + 1]), w.i)
      ELSE WriteEnd(w)

Written(w) ==
  CASE w.mode = "value"   -> json_serialize_to_buffer_r(w, w.value)
    [] w.mode = "element" -> WriteElement(w)
    [] w.mode \in {"string", "name"} -> json_serialize_string(w)
    [] OTHER -> WriteBehind(w)

Finished(w) == w.mode = "behind" /\ w.open = <<>>

-----------------------------------------------------------------------------
(* Reading.                                                                *)

\* The symbol at a place; a string ends with a null character.
Symbol(at) == IF at <= Len(text) THEN text[at] ELSE "end"

SKIP_WHITESPACES(at) == IF Symbol(at) = "blank" THEN at + 1 ELSE at

\* Where the reader goes on.
Go(mode, at, open, chars, value) ==
  [mode |-> mode, at |-> at, open |-> open, chars |-> chars, value |-> value]

Refused(r) == [r EXCEPT !.mode = "failed"]

TooDeep(nesting) == nesting > MAX_NESTING

\* A container that has been begun: what it holds so far, and new_key.
json_value_init(type) == [type |-> type, names |-> <<>>, values |-> <<>>, key |-> <<>>]

\* parse_boolean_value, parse_number_value and parse_null_value.
parse_scalar(r, at) ==
  Go("behind", at + 1, r.open, r.chars, [type |-> "scalar", symbol |-> Symbol(at)])

\* parse_array_value and parse_object_value, and parse_string_value.
parse_value(r) ==
  LET at == SKIP_WHITESPACES(r.at)
      c  == Symbol(at)
      f  == json_value_init(IF c = "lbrace" THEN "object" ELSE "array")
  IN  CASE TooDeep(Len(r.open)) -> Refused(r)
        [] ~TooDeep(Len(r.open)) /\ c \in {"lbrace", "lbracket"} ->
             Go("element", at + 1, Append(r.open, f), r.chars, r.value)
        [] ~TooDeep(Len(r.open)) /\ c = "quote" ->
             Go("string", at + 1, r.open, <<>>, r.value)
        [] ~TooDeep(Len(r.open)) /\ c \in Scalars -> parse_scalar(r, at)
        [] OTHER -> Refused(r)

Unescaped(c) == IF c = "n" THEN "newline" ELSE c

\* skip_quotes and process_string: a character of a value or of a name, or
\* the end of it, behind a name the colon too.
get_quoted_string(r) ==
  LET c     == Symbol(r.at)
      next  == Symbol(r.at + 1)
      colon == SKIP_WHITESPACES(r.at + 1)
      Adds(char, n) == Go(r.mode, r.at + n, r.open, Append(r.chars, char), r.value)
  IN  CASE c = "quote" /\ r.mode = "string" ->
             Go("behind", r.at + 1, r.open, r.chars, [type |-> "string", chars |-> r.chars])
        [] c = "quote" /\ r.mode = "name" /\ Symbol(colon) = "colon" ->
             Go("value", colon + 1,
                Append(Front(r.open), [Last(r.open) EXCEPT !.key = r.chars]), r.chars, r.value)
        [] c = "backslash" /\ next \in {"quote", "backslash", "slash", "n"} ->
             Adds(Unescaped(next), 2)
        [] c = "backslash" /\ next = "u" /\ Symbol(r.at + 2) = "0001" -> Adds("control", 3)
        [] c \notin {"quote", "backslash", "end", "newline", "control"} -> Adds(c, 1)
        [] OTHER -> Refused(r)

\* The value of a container that is read to its end.
Value(f) == [type |-> f.type, names |-> f.names, values |-> f.values]

TakesTheRest(f, r, at) ==       \* mutant: no bracket needed
  Go("behind", at + 1, Front(r.open), r.chars, Value(f))

\* The bracket that has to follow the elements of the innermost container.
Closed(f, r, at) ==
  IF Symbol(at) = Closing(f.type)
  THEN Go("behind", at + 1, Front(r.open), r.chars, Value(f))
  ELSE Refused(r)

\* Behind an opening bracket or a comma: the end, a name, or an element.
ReadElement(r) ==
  LET f  == Last(r.open)
      at == SKIP_WHITESPACES(r.at)
  IN  CASE Symbol(at) = Closing(f.type) -> Closed(f, r, at)
        [] Symbol(at) # Closing(f.type) /\ f.type = "array" -> parse_value(r)
        [] f.type = "object" /\ Symbol(at) = "quote" ->
             Go("name", at + 1, r.open, <<>>, r.value)
        [] OTHER -> Refused(r)

\* json_array_add, json_object_add.
Add(f, v) ==
  [type   |-> f.type,
   names  |-> IF f.type = "object" THEN Append(f.names, f.key) ELSE f.names,
   values |-> Append(f.values, v),
   key    |-> f.key]

Duplicate(f) == f.type = "object" /\ \E k \in DOMAIN f.names : f.names[k] = f.key

\* Behind a value: what follows the first value of all is not looked at; in a
\* container a comma or the end has to follow.
ReadBehind(r) ==
  LET f  == Add(Last(r.open), r.value)
      at == SKIP_WHITESPACES(r.at)
  IN  CASE r.open = <<>> -> [r EXCEPT !.mode = "accepted"]
        [] r.open # <<>> /\ Duplicate(Last(r.open)) -> Refused(r)
        [] r.open # <<>> /\ ~Duplicate(Last(r.open)) /\ Symbol(at) = "comma" ->
             Go("element", at + 1, Append(Front(r.open), f), r.chars, r.value)
        [] OTHER -> Closed(f, r, at)

Parsed(r) ==
  CASE r.mode = "value"   -> parse_value(r)
    [] r.mode = "element" -> ReadElement(r)
    [] r.mode \in {"string", "name"} -> get_quoted_string(r)
    [] OTHER -> ReadBehind(r)

-----------------------------------------------------------------------------
(* json_value_equals.                                                      *)

AtMost(a, b) == Len(a.values) <= Len(b.values)    \* mutant: the second may have more

SameCount(a, b) == Len(a.values) = Len(b.values)

\* Objects are compared by name, from the names of the first.
json_value_equals[a \in Documents, b \in Documents] ==
  /\ a.type = b.type
  /\ CASE a.type = "array" ->
            /\ SameCount(a, b)
            /\ \A k \in DOMAIN a.values : json_value_equals[a.values[k], b.values[k]]
       [] a.type = "object" ->
            /\ SameCount(a, b)
            /\ \A j \in DOMAIN a.values : \E k \in DOMAIN b.values :
                 a.names[j] = b.names[k] /\ json_value_equals[a.values[j], b.values[k]]
       [] OTHER -> a = b

-----------------------------------------------------------------------------

TextInit ==
  /\ doc \in Documents
  /\ pretty \in BOOLEAN
  /\ writer = [mode |-> "value", value |-> doc, open |-> <<>>, i |-> 1, out |-> <<>>]
  /\ text = <<>>
  /\ reader = [mode |-> "idle", at |-> 1, open |-> <<>>, chars |-> <<>>, value |-> <<>>]

json_serialize_to_string ==
  /\ reader.mode = "idle" /\ ~Finished(writer)
  /\ writer' = Written(writer)
  /\ UNCHANGED <<doc, pretty, text, reader>>

\* The connection may close before the whole text has come.
Send ==
  /\ reader.mode = "idle" /\ Finished(writer)
  /\ \E n \in 0..Len(writer.out) : text' = SubSeq(writer.out, 1, n)
  /\ reader' = [reader EXCEPT !.mode = "value"]
  /\ UNCHANGED <<doc, pretty, writer>>

json_parse_string ==
  /\ reader.mode \notin {"idle", "accepted", "failed"}
  /\ reader' = Parsed(reader)
  /\ UNCHANGED <<doc, pretty, writer, text>>

TextNext == json_serialize_to_string \/ Send \/ json_parse_string

TextSpec == TextInit /\ [][TextNext]_textVars

-----------------------------------------------------------------------------

Children(v) == IF v.type \in Containers THEN ToSet(v.values) ELSE {}

Holding(vs) == {v \in Documents : Children(v) \cap vs # {}}

\* The values with others n levels below them.
Deep[n \in 0..(MAX_NESTING + 1)] == IF n = 0 THEN Documents ELSE Holding(Deep[n - 1])

Accepted == reader.mode = "accepted"
Failed   == reader.mode = "failed"

\* An array, an object or a string that has been cut off anywhere is refused:
\* it is never taken for a shorter one.
CutIsRefused == doc.type # "scalar" /\ text # writer.out => ~Accepted

\* What is written is read back as it was, escapes, white space and order of
\* the pairs included; the writer has no limit of depth, the reader has.
RoundTrip ==
  text = writer.out =>
    /\ Accepted => reader.value = doc /\ doc \notin Deep[MAX_NESTING + 1]
    /\ Failed => doc \in Deep[MAX_NESTING + 1]

\* The values with their objects as functions, without the order of the pairs.
Content[v \in Documents] ==
  CASE v.type = "array"  -> <<v.type, [k \in DOMAIN v.values |-> Content[v.values[k]]]>>
    [] v.type = "object" -> <<v.type, {<<v.names[k], Content[v.values[k]]>> : k \in DOMAIN v.values}>>
    [] OTHER -> <<v.type, v>>

\* json_value_equals tells a value from every one that has another content,
\* though it goes by the names of one side alone.
EqualByContent ==
  Accepted =>
    \A v \in Documents : json_value_equals[reader.value, v] <=> Content[reader.value] = Content[v]

=============================================================================
