----------------------------- MODULE StringSplit -----------------------------
(***************************************************************************)
(* string_split of httpdnsd (src/server/string.c), one field to a step,    *)
(* and what its callers take for the payload of a request                  *)
(* (src/server/httpserver.c).  It searches with strstr, which stops at a   *)
(* zero byte, in a string whose length it counts: both matter for a        *)
(* payload, which may hold anything.                                       *)
(***************************************************************************)
EXTENDS Integers, SequencesExt

CONSTANTS
  Char,             \* the bytes a source is made of
  Zero,             \* the one of them that ends a C string
  Delimiter,        \* the bytes to split at
  MaxSize           \* bound: bytes of a source

\* No delimiter overlaps another: true of the four the code uses.
ASSUME SplitAssumption ==
  /\ Zero \in Char
  /\ Delimiter \in Seq(Char \ {Zero}) /\ Delimiter # <<>>
  /\ \A k \in 1..Len(Delimiter) - 1 :
       SubSeq(Delimiter, 1, k) # SubSeq(Delimiter, Len(Delimiter) - k + 1, Len(Delimiter))
  /\ MaxSize \in Nat

VARIABLES
  source,           \* the bytes to split
  string_array,     \* the fields so far; Null where one could not be allocated
  field_begin,      \* place of the next field
  chars_remaining,  \* a ssize_t
  result,           \* "none" until it returns, then "array" or "null"
  begins            \* history: where in the source each field begins

vars == <<source, string_array, field_begin, chars_remaining, result, begins>>

Null == <<"null">>

TypeOK ==
  /\ source \in BoundedSeq(Char, MaxSize)
  /\ string_array \in Seq(Seq(Char) \cup {Null})
  /\ field_begin \in Nat
  /\ chars_remaining \in -Len(Delimiter)..MaxSize
  /\ result \in {"none", "array", "null"}
  /\ begins \in Seq(1..MaxSize)

Init ==
  /\ source \in BoundedSeq(Char, MaxSize)
  /\ string_array = <<>>
  /\ field_begin = 1
  /\ chars_remaining = Len(source)
  /\ result = "none"
  /\ begins = <<>>

\* d is at place i of s, with no zero byte between `from' and it.
At(d, s, from, i) ==
  /\ i + Len(d) - 1 <= Len(s)
  /\ SubSeq(s, i, i + Len(d) - 1) = d
  /\ \A j \in from..i : s[j] # Zero

\* Where strstr finds it; else the source ends the field.
FieldEnd ==
  LET found == {i \in field_begin..Len(source) : At(Delimiter, source, field_begin, i)}
  IN  IF found = {} THEN field_begin + chars_remaining ELSE Min(found)

\* Mutant of NextField: a delimiter is one byte long.
DelimiterOfOne ==
  /\ chars_remaining > 0
  /\ string_array' = Append(string_array, SubSeq(source, field_begin, FieldEnd - 1))
  /\ chars_remaining' = chars_remaining - (FieldEnd - field_begin) - 1
  /\ field_begin' = FieldEnd + 1
  /\ begins' = Append(begins, field_begin)
  /\ UNCHANGED <<source, result>>

\* One pass of the loop.  A field that could not be allocated is a null pointer
\* in the array, which ends it for whoever reads it.
NextField ==
  /\ result = "none"
  /\ chars_remaining > 0
  /\ LET end == FieldEnd
     IN  /\ \E field \in {SubSeq(source, field_begin, end - 1), Null} :
              string_array' = Append(string_array, field)
         /\ chars_remaining' = chars_remaining - (end - field_begin) - Len(Delimiter)
         /\ field_begin' = end + Len(Delimiter)
  /\ begins' = Append(begins, field_begin)
  /\ UNCHANGED <<source, result>>

\* The array cannot be allocated, or not grow: it is deleted.
NoMemory ==
  /\ result = "none"
  /\ chars_remaining > 0 \/ string_array = <<>>
  /\ string_array' = <<>> /\ begins' = <<>>
  /\ result' = "null"
  /\ UNCHANGED <<source, field_begin, chars_remaining>>

Return ==
  /\ result = "none"
  /\ chars_remaining <= 0
  /\ result' = "array"
  /\ UNCHANGED <<source, string_array, field_begin, chars_remaining, begins>>

Next == NextField \/ NoMemory \/ Return

Spec == Init /\ [][Next]_vars

\* The array up to its first null pointer.
Fields == SubSeq(string_array, 1,
            SelectInSeq(Append(string_array, Null), LAMBDA f : f = Null) - 1)

(***************************************************************************)
(* The payload                                                             *)
(***************************************************************************)

\* strcmp(field, "") = 0
Blank(field) == field = <<>> \/ field[1] = Zero

\* Mutant of Payload: the field in front of the first blank one is looked at.
PayloadIsLast == IF Fields = <<>> THEN Null ELSE Fields[Len(Fields)]

\* What httpserver_handle_put writes before it reads on: the field behind the first
\* blank one.  (httpserver_find_payload looks for it from the request line on, which
\* is not blank where a handler is called, and finds the same.)
Payload ==
  LET blank == SelectInSubSeq(Fields, 2, Len(Fields), Blank)
  IN  IF blank \in 1..Len(Fields) - 1 THEN Fields[blank + 1] ELSE Null

(***************************************************************************)
(* Properties                                                              *)
(***************************************************************************)

\* The fields, each with a delimiter behind it, are the source (with a delimiter
\* behind it, too, once its last field was found), one behind the other; they are what
\* is before field_begin, and no field has a delimiter left that a C string shows.
\* When memory was short the array is a part of that, never something else.
NextBegin(k) == begins[k] + Len(Fields[k]) + Len(Delimiter)
SplitIsExact ==
  /\ \A k \in DOMAIN Fields :
       /\ \A i \in 1..Len(source) : ~At(Delimiter, Fields[k], 1, i)
       /\ begins[k] = IF k = 1 THEN 1 ELSE NextBegin(k - 1)
       /\ SubSeq(source \o Delimiter, begins[k], NextBegin(k) - 1) = Fields[k] \o Delimiter
  /\ result # "null" /\ Len(Fields) = Len(string_array) =>
       field_begin = IF Fields = <<>> THEN 1 ELSE NextBegin(Len(Fields))
  /\ field_begin + chars_remaining = Len(source) + 1
  /\ result = "array" => chars_remaining <= 0

\* The payload of a request is what lies between the blank line and the next
\* CRLF, or the end of what was read: FileTransfer's Lead.  Where no zero byte is
\* in the way there is one as soon as one byte lies behind the blank line.
BlankLines == {i \in 1..Len(source) : At(Delimiter \o Delimiter, source, 1, i)}
PayloadIsLead ==
  result = "array" /\ Len(Fields) = Len(string_array) /\ BlankLines # {} =>
    LET first == Min(BlankLines) + 2 * Len(Delimiter)
        ends  == {i \in first..Len(source) : At(Delimiter, source, first, i)}
        last  == IF ends = {} THEN Len(source) ELSE Min(ends) - 1
    IN  Payload = IF first > Len(source) THEN Null ELSE SubSeq(source, first, last)
==============================================================================
