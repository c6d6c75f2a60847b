---------------------------- MODULE JsonReports -----------------------------
(***************************************************************************)
(* The JSON reports of the web daemon (services/bb-webd.c): the builder    *)
(* jw_t and the calls that each GET handler makes to it.  The builder adds *)
(* a text piece by piece; a piece that does not fit its buffer is dropped  *)
(* without notice, and the next, shorter one may fit again.                *)
(*                                                                         *)
(* Of the text the model keeps its length and how far a reader of JSON has *)
(* come with it.  The reader sees brackets, commas, "field" for a key with *)
(* its value, "string", and "spoilt" for one of which a piece is missing   *)
(* or whose value holds a character that JSON has escaped.                 *)
(***************************************************************************)
EXTENDS Integers, Sequences

CONSTANTS
  BufSize,     \* 2048 in the code: the bytes of the smallest buffer
  Width,       \* lengths of keys and values
  LineLength,  \* lengths of lines of the log
  MaxRows      \* bound: rows of a report

VARIABLES
  report,  \* the handler that runs
  phase,   \* "new", "open" within the outermost brackets, "row", "done"
  jw,      \* jw_t: pos, first; history: lost (a piece was dropped), text (the reader)
  keys,    \* fields of the current object so far
  rows,    \* rows so far
  unread,  \* bytes of the log's end not in the report yet
  odd      \* history: a value held a character that was not escaped

reportVars == <<report, phase, jw, keys, rows, unread, odd>>

\* The handlers.  Each has a buffer of so many times BufSize bytes and writes one
\* object; or a table of objects with commas between them; or, of the partitions,
\* objects without keys or commas inside an object; or a list of lines.  fields
\* are the numbers of fields an object may have, as some cannot always be read.
System     == [units |-> 2, kind |-> "object", fields |-> 2 .. 23]
Cpu        == [units |-> 2, kind |-> "table",  fields |-> {5}]
Partitions == [units |-> 1, kind |-> "bare",   fields |-> {5}]
Network    == [units |-> 2, kind |-> "table",  fields |-> 5 .. 6]
Processes  == [units |-> 2, kind |-> "table",  fields |-> 2 .. 3]
Logs       == [units |-> 4, kind |-> "lines",  fields |-> {}]
Health     == [units |-> 1, kind |-> "object", fields |-> 5 .. 6]
Leds       == [units |-> 1, kind |-> "table",  fields |-> 1 .. 4]
Gpio       == [units |-> 2, kind |-> "table",  fields |-> 1 .. 2]

Reports == {System, Cpu, Partitions, Network, Processes, Logs, Health, Leds, Gpio}

Cap == report.units * BufSize

\* The log handler reads the last BufSize - 1 bytes, and starts no line in the
\* last eighth of BufSize.
Window  == BufSize - 1
Reserve == BufSize \div 8

-----------------------------------------------------------------------------
(* A reader of JSON: the brackets that are open and what was read last *)

Nothing == [stack |-> <<>>, last |-> "start"]

Read(r, token) ==
  LET in == IF r.stack = <<>> THEN "nothing" ELSE r.stack[Len(r.stack)]
      Outer == SubSeq(r.stack, 1, Len(r.stack) - 1)
  IN CASE token = "field" /\ in = "obj" /\ r.last \in {"obj", "comma"}
            -> [r EXCEPT !.last = "value"]
       [] token = "string" /\ in = "arr" /\ r.last \in {"arr", "comma"}
            -> [r EXCEPT !.last = "value"]
       [] token \in {"obj", "arr"}
          /\ (r.last = "start" \/ (in = "arr" /\ r.last \in {"arr", "comma"}))
            -> [stack |-> Append(r.stack, token), last |-> token]
       [] token = "comma" /\ in # "nothing" /\ r.last = "value"
            -> [r EXCEPT !.last = "comma"]
       [] token = "endobj" /\ in = "obj" /\ r.last \in {"obj", "value"}
            -> [stack |-> Outer, last |-> "value"]
       [] token = "endarr" /\ in = "arr" /\ r.last \in {"arr", "value"}
            -> [stack |-> Outer, last |-> "value"]
       [] OTHER -> [r EXCEPT !.last = "wrong"]

IsJson(r) == r.stack = <<>> /\ r.last = "value"

-----------------------------------------------------------------------------
(* The builder *)

\* jw_raw of a piece of w bytes; one byte is kept for the terminating NUL.
Raw(b, w) == IF b.pos + w < Cap THEN [b EXCEPT !.pos = @ + w] ELSE [b EXCEPT !.lost = TRUE]

\* What the reader sees of the w bytes that turned b into c.
Seen(b, c, w, token) ==
  IF c.pos = b.pos THEN c
  ELSE [c EXCEPT !.text = Read(@, IF c.pos = b.pos + w THEN token ELSE "spoilt")]

Mark(b, token) == Seen(b, Raw(b, 1), 1, token)

\* Variant: the end of an object does not note that something was written.
ObjEndFirst(b) == [Mark(b, "endobj") EXCEPT !.first = TRUE]

ObjStart(b) == [Mark(b, "obj") EXCEPT !.first = TRUE]
ObjEnd(b)   == [Mark(b, "endobj") EXCEPT !.first = FALSE]
ArrStart(b) == [Mark(b, "arr") EXCEPT !.first = TRUE]
ArrEnd(b)   == [Mark(b, "endarr") EXCEPT !.first = FALSE]
Comma(b)    == [(IF b.first THEN b ELSE Mark(b, "comma")) EXCEPT !.first = FALSE]

\* A key of k and a value of v bytes, behind a comma: the opening quote, the key,
\* a quote and a colon, then the number or the quoted string.
KvNum(b, k, v) ==
  LET c == Comma(b)
  IN Seen(c, Raw(Raw(Raw(Raw(c, 1), k), 2), v), k + v + 3, "field")

\* The string is written as it is, escaped or not.
KvStr(b, k, v, escapes) ==
  LET c == Comma(b)
  IN Seen(c, Raw(Raw(Raw(Raw(Raw(c, 1), k), 3), v), 1), k + v + 5,
          IF escapes THEN "spoilt" ELSE "field")

\* json_escape_str of a line of n characters, e of which take two bytes; control
\* characters other than \n, \r and \t are written as they are.  Characters that
\* do not fit are dropped one by one, here all at once.
EscapeStr(b, n, e, control) ==
  Seen(b, Raw(Raw(Raw(b, 1), n + e), 1), n + e + 2, IF control THEN "spoilt" ELSE "string")

-----------------------------------------------------------------------------
Init ==
  /\ report \in Reports /\ phase = "new"
  /\ jw = [pos |-> 0, first |-> TRUE, lost |-> FALSE, text |-> Nothing]
  /\ keys = 0 /\ rows = 0 /\ unread = Window /\ odd = FALSE

Start ==
  /\ phase = "new"
  /\ phase' = "open"
  /\ jw' = IF report.kind \in {"object", "bare"} THEN ObjStart(jw) ELSE ArrStart(jw)
  /\ UNCHANGED <<report, keys, rows, unread, odd>>

\* A field of the object or of the row.
InObject == phase = "row" \/ (phase = "open" /\ report.kind = "object")

Field ==
  /\ InObject /\ \E n \in report.fields : keys < n
  /\ \E k, v \in Width :
       \/ jw' = KvNum(jw, k, v) /\ UNCHANGED odd
       \/ \E escapes \in BOOLEAN :
            /\ jw' = KvStr(jw, k, v, escapes)
            /\ odd' = (odd \/ escapes)
  /\ keys' = keys + 1
  /\ UNCHANGED <<report, phase, rows, unread>>

RowStart ==
  /\ phase = "open" /\ report.kind \in {"table", "bare"} /\ rows < MaxRows
  /\ phase' = "row"
  /\ jw' = ObjStart(IF report.kind = "table" THEN Comma(jw) ELSE jw)
  /\ keys' = 0 /\ rows' = rows + 1
  /\ UNCHANGED <<report, unread, odd>>

RowEnd ==
  /\ phase = "row" /\ keys \in report.fields
  /\ phase' = "open"
  /\ jw' = ObjEnd(jw)
  /\ UNCHANGED <<report, keys, rows, unread, odd>>

\* A line of the log and the newline behind it, which the last one may not have.
LogLine ==
  /\ phase = "open" /\ report.kind = "lines"
  /\ jw.pos < Cap - Reserve
  /\ \E n \in LineLength : \E e \in 0 .. n : \E control \in BOOLEAN :
       /\ n <= unread
       /\ unread' = IF n < unread THEN unread - n - 1 ELSE 0
       /\ jw' = EscapeStr(Comma(jw), n, e, control)
       /\ odd' = (odd \/ control)
  /\ UNCHANGED <<report, phase, keys, rows>>

End ==
  /\ phase = "open" /\ (report.kind = "object" => keys \in report.fields)
  /\ phase' = "done"
  /\ jw' = IF report.kind \in {"object", "bare"} THEN ObjEnd(jw) ELSE ArrEnd(jw)
  /\ UNCHANGED <<report, keys, rows, unread, odd>>

Next == Start \/ Field \/ RowStart \/ RowEnd \/ LogLine \/ End

Spec == Init /\ [][Next]_reportVars

-----------------------------------------------------------------------------
\* A finished report is JSON, unless a piece was dropped, a value would have needed
\* escaping, or it lists partitions.  Of the log nothing is ever dropped: its buffer
\* has room for the longest text that the end of the log can come to.
ReportsParse ==
  (phase = "done" /\ ~odd /\ (report.kind = "bare" => rows = 0)
     /\ (jw.lost => report.kind = "lines"))
    => ~jw.lost /\ IsJson(jw.text)
=============================================================================
