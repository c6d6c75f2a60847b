----------------------------- MODULE JsonFields -----------------------------
(***************************************************************************)
(* The JSON writer and getters (libbb/bb_json.c): an object is written     *)
(* field by field into a buffer, and a field is found again at the first   *)
(* quoted text equal to its key, wherever that stands.                     *)
(*                                                                         *)
(* The text is a sequence of tokens.  Keys and string values are words     *)
(* that need no escaping and fit the getter's 256 bytes, three bytes long  *)
(* with their quotes; the marks, each token of punctuation by its name,    *)
(* and the other values are one byte.  A field that does not fit ends the  *)
(* model: pos passes size and what the writer does next is undefined.      *)
(***************************************************************************)
EXTENDS Integers, Sequences

CONSTANTS Word,      \* keys and string values
          Number,    \* values of bb_json_add_int
          None,      \* NULL, or the caller's default
          Size,      \* bytes in the buffer
          MaxFields  \* bound: fields in an object

VARIABLES text,    \* tokens written so far
          pos,     \* bytes written so far
          fields,  \* history: the fields added, in order
          stage    \* "new", "open", "done" or "overrun"

jsonVars == <<text, pos, fields, stage>>

Quoted(w) == [kind |-> "string", word |-> w]
Whole(n)   == [kind |-> "int", word |-> n]
Bool(b)   == [kind |-> "bool", word |-> b]
Mark(m)   == [kind |-> "mark", word |-> m]

Init ==
  /\ text = <<>> /\ pos = 0 /\ fields = <<>> /\ stage = "new"

\* bb_json_init and bb_json_start_object
StartObject ==
  /\ stage = "new"
  /\ text' = <<Mark("lbrace")>> /\ pos' = 1
  /\ stage' = "open"
  /\ UNCHANGED fields

\* add_key, then the value and its comma; each snprintf needs a byte more for
\* the terminating NUL.
AddField(k, value) ==
  LET bytes == 3 + 1 + (IF value.kind = "string" THEN 3 ELSE 1) + 1
  IN /\ stage = "open" /\ Len(fields) < MaxFields
     /\ IF pos + bytes < Size
        THEN /\ text' = text \o <<Quoted(k), Mark("colon"), value, Mark("comma")>>
             /\ pos' = pos + bytes
             /\ fields' = Append(fields, [key |-> k, value |-> value])
             /\ UNCHANGED stage
        ELSE /\ stage' = "overrun"
             /\ UNCHANGED <<text, pos, fields>>

AddString == \E k, w \in Word : AddField(k, Quoted(w))
AddInt    == \E k \in Word, n \in Number : AddField(k, Whole(n))
AddBool   == \E k \in Word, b \in BOOLEAN : AddField(k, Bool(b))

\* bb_json_end_object: the brace takes the place of the last comma.
EndObject ==
  /\ stage = "open"
  /\ LET comma == pos > 1 /\ text[Len(text)] = Mark("comma")
     IN /\ text' = Append(IF comma THEN SubSeq(text, 1, Len(text) - 1) ELSE text, Mark("rbrace"))
        /\ pos' = (IF comma THEN pos ELSE pos + 1)
  /\ stage' = "done"
  /\ UNCHANGED fields

Next == StartObject \/ AddString \/ AddInt \/ AddBool \/ EndObject

Spec == Init /\ [][Next]_jsonVars

-----------------------------------------------------------------------------
Places(k) == {i \in 1 .. Len(text) : text[i] = Quoted(k)}

\* Variant: the last place wins.
FindKeyLast(k) ==
  IF Places(k) = {} THEN Mark("end")
  ELSE LET i == CHOOSE i \in Places(k) : \A j \in Places(k) : j <= i
       IN IF text[i + 1] = Mark("colon") THEN text[i + 2] ELSE text[i + 1]

\* find_key: the token behind the first place of the key and its colon.
FindKey(k) ==
  IF Places(k) = {} THEN Mark("end")
  ELSE LET i == CHOOSE i \in Places(k) : \A j \in Places(k) : i <= j
       IN IF text[i + 1] = Mark("colon") THEN text[i + 2] ELSE text[i + 1]

GetString(k) == IF FindKey(k).kind = "string" THEN FindKey(k).word ELSE None

\* atoi of anything but a number is 0.
GetInt(k) ==
  IF FindKey(k) = Mark("end") THEN None
  ELSE IF FindKey(k).kind = "int" THEN FindKey(k).word ELSE 0

GetBool(k) == IF FindKey(k).kind = "bool" THEN FindKey(k).word ELSE None

\* Every field of a finished object is read back as it was added, and a key
\* without a field is not found; the exception is a key that is also an
\* earlier field's key or string value, since the search looks at every
\* quoted text (bb_json.c:56).
FieldsReadBack ==
  LET Same(f)  == CASE f.value.kind = "string" -> GetString(f.key) = f.value.word
                    [] f.value.kind = "int"    -> GetInt(f.key) = f.value.word
                    [] f.value.kind = "bool"   -> GetBool(f.key) = f.value.word
      Says(f, k) == f.key = k \/ f.value = Quoted(k)
  IN stage = "done" =>
       /\ \A i \in 1 .. Len(fields) :
            (\A j \in 1 .. i - 1 : ~Says(fields[j], fields[i].key)) => Same(fields[i])
       /\ \A k \in Word :
            (\A i \in 1 .. Len(fields) : ~Says(fields[i], k)) =>
              GetString(k) = None /\ GetInt(k) = None /\ GetBool(k) = None
=============================================================================
