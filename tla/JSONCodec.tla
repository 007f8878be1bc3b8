----------------------------- MODULE JSONCodec -----------------------------
(***************************************************************************)
(* The streaming JSON encoder of the crash recorder (BSG_KSJSONCodec.c)    *)
(* and the writer callbacks above it (BSG_KSCrashReport.c, 126-319), which *)
(* throw the encoder's results away.                                       *)
(*                                                                         *)
(* A token is what one call of addJSONData writes: punctuation, "quote",   *)
(* "scalar" (a number, a literal), a text, "raw" (a whole JSON value copied *)
(* from elsewhere) or "junk" (bytes that are not JSON).  The file is an    *)
(* acceptor that has read the tokens so far.                               *)
(***************************************************************************)
EXTENDS Integers, Sequences, SequencesExt

CONSTANTS
  NoName,    \* a NULL name
  Texts      \* the strings: what is a name, a value or a token

Tokens == {"quote", "scalar", "text", "raw", "junk", "{", "}", "[", "]", ",", ":"}

ASSUME TextsAssumption ==
  /\ Tokens \cup {"", "blank", "word", "item", "error", "json_data"} \subseteq Texts
  /\ NoName \notin Texts

Unlimited == -1     \* the file system never fails

-----------------------------------------------------------------------------
(* The acceptor, external to the code: what a JSON parser makes of the     *)
(* tokens.  members are the paths of the members of the outer objects and  *)
(* of the elements of the outer arrays, in order.                          *)

Levels == Seq([object : BOOLEAN, key : Texts])
Paths == Seq(Texts)
Places == {"value", "first", "next", "key", "inKey", "colon", "inText", "end", "bad"}
Docs == [stack : Levels, at : Places, key : Texts, members : Seq(Paths)]

EmptyDoc == [stack |-> <<>>, at |-> "value", key |-> "", members |-> <<>>]

Parses(d) == d.at = "end"

InObjectText(d) == d.stack # <<>> /\ Last(d.stack).object

(* The path without the outermost object, which has no name. *)
Noted(d, name) ==
  LET path == [i \in 1 .. Len(d.stack) - 1 |-> d.stack[i + 1].key] \o <<name>>
  IN  IF Len(path) <= 2 \/ (Len(path) = 3 /\ name = "item")
      THEN [d EXCEPT !.members = Append(@, path)] ELSE d

Closed(d) == [d EXCEPT !.at = IF d.stack = <<>> THEN "end" ELSE "next"]

(* A value begins here: in an array it is an element. *)
Element(d) ==
  IF d.stack # <<>> /\ ~Last(d.stack).object THEN Noted([d EXCEPT !.key = "item"], "item") ELSE d

FeedValue(d, tok) ==
  LET v == Element(d)
      Opened(object) == [v EXCEPT !.stack = Append(@, [object |-> object, key |-> v.key]), !.at = "first"]
  IN  CASE tok = "quote" -> [v EXCEPT !.at = "inText"]
        [] tok \in {"scalar", "raw"} -> Closed(v)
        [] tok = "{" -> Opened(TRUE)
        [] tok = "[" -> Opened(FALSE)
        [] OTHER -> [v EXCEPT !.at = "bad"]

Feed(d, tok) ==
  LET close == IF InObjectText(d) THEN "}" ELSE "]"
      Popped == Closed([d EXCEPT !.stack = Front(@)])
  IN  CASE d.at = "inKey" -> IF tok = "quote" THEN [d EXCEPT !.at = "colon"] ELSE [d EXCEPT !.key = tok]
        [] d.at = "inText" -> IF tok = "quote" THEN Closed(d) ELSE d
        [] d.at \in {"first", "next"} /\ tok = close -> Popped
        [] d.at = "next" /\ tok = "," -> [d EXCEPT !.at = IF InObjectText(d) THEN "key" ELSE "value"]
        [] d.at \in {"first", "key"} /\ InObjectText(d) /\ tok = "quote" -> [d EXCEPT !.at = "inKey"]
        [] d.at = "colon" /\ tok = ":" -> [Noted(d, d.key) EXCEPT !.at = "value"]
        [] d.at = "value" \/ (d.at = "first" /\ ~InObjectText(d) /\ tok # close) -> FeedValue(d, tok)
        [] OTHER -> [d EXCEPT !.at = "bad"]

-----------------------------------------------------------------------------
(* The encoder: open is isObject[1 .. containerLevel], first is            *)
(* containerFirstEntry, room the number of tokens that still fit the disk, *)
(* ok the result of the last call.                                         *)

Encoders ==
  [open : Seq(BOOLEAN), first : BOOLEAN, doc : Docs, room : Nat \cup {Unlimited}, ok : BOOLEAN]

(* memset, then containerFirstEntry := true. *)
BeginEncode(room) ==
  [open |-> <<>>, first |-> TRUE, doc |-> EmptyDoc, room |-> room, ok |-> TRUE]

(* addJSONData: bsg_ksfuwriteBytesToFD retries what was interrupted and    *)
(* fails for good when the disk is full.                                   *)
AddJSONData(e, tok) ==
  IF ~e.ok THEN e
  ELSE IF e.room = 0 THEN [e EXCEPT !.ok = FALSE]
  ELSE [e EXCEPT !.doc = Feed(@, tok), !.room = IF @ = Unlimited THEN @ ELSE @ - 1]

(* Several calls, each only if the one before succeeded. *)
Write(e, toks) ==
  LET after[i \in 0 .. Len(toks)] == IF i = 0 THEN e ELSE AddJSONData(after[i - 1], toks[i])
  IN  after[Len(toks)]

QuotedText(text) == <<"quote", text, "quote">>

InObject(e) == e.open # <<>> /\ Last(e.open)

BeginElement(e, name) ==
  LET fresh == [e EXCEPT !.ok = TRUE]
      separated == IF e.first THEN [fresh EXCEPT !.first = FALSE] ELSE AddJSONData(fresh, ",")
  IN  IF ~InObject(e) \/ ~separated.ok THEN separated
      ELSE IF name = NoName THEN [separated EXCEPT !.ok = FALSE]
      ELSE Write(separated, Append(QuotedText(name), ":"))

AddElement(e, name, toks) == Write(BeginElement(e, name), toks)

AddStringElement(e, name, value) ==
  AddElement(e, name, IF value = NoName THEN <<"scalar">> ELSE QuotedText(value))

(* nan and inf are printed as such, which is not JSON. *)
AddFloatingPointElement(e, name, value) ==
  AddElement(e, name, IF value = "finite" THEN <<"scalar">> ELSE <<"junk">>)

(* The first character that is not blank decides what is taken for JSON. *)
AddJSONElement(e, name, json) ==
  IF json \in {"blank", "word"} THEN [e EXCEPT !.ok = FALSE]
  ELSE AddElement(e, name, <<json>>)        \* "raw" or "junk"

BeginContainer(e, name, isObject) ==
  LET b == BeginElement(e, name)
  IN  IF ~b.ok THEN b
      ELSE AddJSONData([b EXCEPT !.open = Append(@, isObject), !.first = TRUE],
                       IF isObject THEN "{" ELSE "[")

(* Mutant: an empty container leaves its containerFirstEntry behind. *)
MutEndContainer(e) ==
  LET fresh == [e EXCEPT !.ok = TRUE]
  IN  IF e.open = <<>> THEN fresh
      ELSE AddJSONData([fresh EXCEPT !.open = Front(@)], IF Last(e.open) THEN "}" ELSE "]")

EndContainer(e) ==
  LET fresh == [e EXCEPT !.ok = TRUE]
  IN  IF e.open = <<>> THEN fresh
      ELSE AddJSONData([fresh EXCEPT !.open = Front(@), !.first = FALSE],
                       IF Last(e.open) THEN "}" ELSE "]")

(* One level after the other, until a call fails. *)
EndEncode(e) ==
  LET closed[n \in 0 .. Len(e.open)] ==
        IF n = 0 THEN [e EXCEPT !.ok = TRUE]
        ELSE LET inner == closed[n - 1] IN IF inner.ok THEN EndContainer(inner) ELSE inner
  IN  closed[Len(e.open)]

-----------------------------------------------------------------------------
(* The callbacks of the report writer.  A call is a record [op, name, arg]. *)
(* A text is any but the token "quote": quotation marks in it are escaped. *)

Names == (Texts \ {"quote"}) \cup {NoName}
Calls ==
       [op : {"beginObject", "beginArray", "endContainer", "addNumber"}, name : Names, arg : {NoName}]
  \cup [op : {"addString", "addUUID"}, name : Names, arg : {"text", NoName}]
  \cup [op : {"addDouble"}, name : Names, arg : {"finite", "nan"}]
  \cup [op : {"addJSON"}, name : Names, arg : {"raw", "junk", "blank", "word"}]
  \cup [op : {"addJSONFile"}, name : Names, arg : {"absent", "empty", "raw", "junk"}]
  \cup [op : {"addTextFile"}, name : Names, arg : {"absent", "text"}]

Obj(name) == [op |-> "beginObject", name |-> name, arg |-> NoName]
Arr(name) == [op |-> "beginArray", name |-> name, arg |-> NoName]
EndC == [op |-> "endContainer", name |-> NoName, arg |-> NoName]
Str(name, value) == [op |-> "addString", name |-> name, arg |-> value]
Num(name) == [op |-> "addNumber", name |-> name, arg |-> NoName]
Dbl(name, value) == [op |-> "addDouble", name |-> name, arg |-> value]
Json(name, json) == [op |-> "addJSON", name |-> name, arg |-> json]
File(name, content) == [op |-> "addJSONFile", name |-> name, arg |-> content]
Text(name, content) == [op |-> "addTextFile", name |-> name, arg |-> content]
Uuid(name, value) == [op |-> "addUUID", name |-> name, arg |-> value]

(* What was not taken for JSON is written as an error and a string.  The   *)
(* length is taken first: a NULL pointer may not be passed.                *)
WriteJSONElement(e, name, json) ==
  LET added == AddJSONElement(e, name, json)
      begun == BeginContainer(added, name, TRUE)
      error == AddStringElement(begun, "error", "text")
      data == AddStringElement(error, "json_data", "text")
  IN  IF added.ok THEN added ELSE EndContainer(data)

(* A file that cannot be opened leaves no trace; one that can is copied    *)
(* unseen after its name.                                                  *)
WriteJSONFile(e, name, content) ==
  CASE content = "absent" -> e
    [] content = "empty" -> BeginElement(e, name)
    [] OTHER -> AddElement(e, name, <<content>>)

(* The closing quote is written whether or not the element was begun. *)
WriteTextFile(e, name, content) ==
  IF content = "absent" THEN e
  ELSE AddJSONData([AddElement(e, name, <<"quote", content>>) EXCEPT !.ok = TRUE], "quote")

Call(e, c) ==
  CASE c.op = "beginObject" -> BeginContainer(e, c.name, TRUE)
    [] c.op = "beginArray" -> BeginContainer(e, c.name, FALSE)
    [] c.op = "endContainer" -> EndContainer(e)
    [] c.op = "addString" -> AddStringElement(e, c.name, c.arg)
    [] c.op = "addNumber" -> AddElement(e, c.name, <<"scalar">>)
    [] c.op = "addDouble" -> AddFloatingPointElement(e, c.name, c.arg)
    [] c.op = "addUUID" -> AddStringElement(e, c.name, c.arg)
    [] c.op = "addJSON" -> WriteJSONElement(e, c.name, c.arg)
    [] c.op = "addJSONFile" -> WriteJSONFile(e, c.name, c.arg)
    [] c.op = "addTextFile" -> WriteTextFile(e, c.name, c.arg)

(* The calls of a program, one after the other.  (The condition, which     *)
(* holds, has TLC evaluate them in their order and not from the last.)     *)
Run(e, program) ==
  LET after[i \in 0 .. Len(program)] ==
        IF i = 0 THEN e
        ELSE LET before == after[i - 1]
             IN  IF before.ok \in BOOLEAN THEN Call(before, program[i]) ELSE before
  IN  after[Len(program)]
=============================================================================
