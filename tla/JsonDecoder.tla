---------------------------- MODULE JsonDecoder ----------------------------
(***************************************************************************)
(* Comm/JsonDecoder.cpp: the parser of the Duet's answers and what it      *)
(* reports to the subscribers.  A sender (the Duet, external) produces      *)
(* well-formed lines token by token; the line may lose or spoil tokens, or  *)
(* be cut off.  CheckInput consumes each token.  A token stands for the     *)
(* characters of one name with its colon, one number, one string or one     *)
(* structural character; a field id is the sequence of its names and        *)
(* separators.  The monitor compares what the decoder reports with what     *)
(* the sender meant.                                                        *)
(***************************************************************************)
EXTENDS Integers, FiniteSets, SequencesExt

CONSTANTS
  Keys,               \* the values of "key", dots already colons: << >>, <<"tools">>, <<"move", ":", "axes">>
  Names,              \* the names of the fields of other answers and inside a result
  MAX_ARRAY_NESTING,
  MAX_JSON_ID_LENGTH, \* in names and separators
  MaxDepth,           \* bound: objects and arrays open at once
  MaxElements,        \* bound: elements of an array
  MaxSpoiled          \* bound: tokens sent from the first fault in a line to its end

Separators == {":", "^"}
Marks == {"{", "}", "[", "]", ",", "number", "garbage"}

\* The names and keys are those of the object model: names of members and, for a key,
\* such names joined by colons.
ASSUME DecoderAssumption ==
  /\ {MAX_ARRAY_NESTING, MAX_JSON_ID_LENGTH, MaxDepth, MaxElements, MaxSpoiled} \subseteq Nat
  /\ Names \cap ({"key", "result", "next", "string", "none"} \cup Separators \cup Marks) = {}
  /\ << >> \in Keys
  /\ \A k \in Keys \ {<< >>} : /\ k \in Seq(Range(k) \ {"^"})
                              /\ k[1] \notin {"key", "result", ":"} /\ Last(k) # ":"

VARIABLES
  \* the sender and the line
  stack,        \* the open objects (with the field they are at, or "none") and arrays (with their elements so far)
  want,         \* what the grammar allows next
  lineKey,      \* the key this line is the answer to
  spoiled,      \* how many tokens of this line were sent from its first fault on
  \* JsonDecoder
  state, fieldId, arrayIndices, arrayDepth, m_key,
  reports,      \* what ProcessReceivedValue and ProcessArrayEnd got for the last token
  \* the monitor
  owed,         \* what the sender meant and the decoder has still to report
  wrong,        \* a report differed
  unnamed,      \* an array end was reported under "result" and not under the key
  ended         \* how often EndReceivedMessage ran for this line

sender == <<stack, want, lineKey>>
decoder == <<state, fieldId, arrayIndices, arrayDepth, m_key, reports>>
monitor == <<owed, wrong, unnamed, ended>>
vars == <<sender, spoiled, decoder, monitor>>

FieldNames == Names \cup {"key", "result", "next"}

\* A token; only a string has a text that matters, as a key.
Token(is) == [is |-> is, text |-> << >>]
Tokens == {Token(t) : t \in FieldNames \cup Marks} \cup [is : {"string"}, text : Keys]
States == {"jsBegin", "jsExpectId", "jsHadId", "jsVal", "jsIntVal", "jsEndVal", "jsError"}

Value(id, indices) == [kind |-> "value", id |-> id, indices |-> indices]
ArrayEnd(id, indices) == [kind |-> "arrayEnd", id |-> id, indices |-> indices]

Init ==
  /\ stack = << >> /\ want = "first" /\ lineKey = << >> /\ spoiled = 0
  /\ state = "jsBegin" /\ fieldId = << >> /\ arrayDepth = 0 /\ m_key = << >>
  /\ arrayIndices = [i \in 1..MAX_ARRAY_NESTING |-> 0]
  /\ reports = << >> /\ owed = << >> /\ wrong = FALSE /\ unnamed = FALSE /\ ended = 0

-----------------------------------------------------------------------------
(* The decoder.                                                              *)

\* ProcessReceivedValue edits its id argument, which refers to m_fieldId itself:
\* "result" gives way to the key, or vanishes with its separator.
Named(id) ==
  IF id = << >> \/ id[1] # "result" THEN id
  ELSE IF m_key = << >> THEN SubSeq(id, 3, Len(id))
  ELSE m_key \o Tail(id)

\* Mutant: asks whether any array is open.
InArray_AtAnyDepth(id) == arrayDepth > 0

InArray(id) == id # << >> /\ Last(id) = "^"

RemoveLastId(id) ==
  SubSeq(id, 1, Max({0} \cup {i \in DOMAIN id : id[i] \in Separators}))

\* RemoveLastIdChar: the last character is a separator at every call.
RemoveLastIdChar(id) == IF id = << >> THEN id ELSE Front(id)

Indices == SubSeq(arrayIndices, 1, arrayDepth)

Report(r) == reports' = r

Become(s) == state' = s

Fail == Become("jsError") /\ UNCHANGED <<fieldId, arrayIndices, arrayDepth, m_key, ended>>

\* m_fieldId.cat: the id grows, or the line is in error.
Extend(part, next) ==
  IF Len(fieldId) < MAX_JSON_ID_LENGTH
  THEN Become(next) /\ fieldId' = Append(fieldId, part)
  ELSE Become("jsError") /\ UNCHANGED fieldId

EndReceivedMessage == m_key' = << >> /\ ended' = ended + 1

\* The brace that ends an object; with no id left it ends the message.
CloseObject(id) ==
  LET rest == RemoveLastId(id) IN
  /\ IF rest = << >>
     THEN EndReceivedMessage /\ Become("jsBegin") /\ fieldId' = rest
     ELSE /\ Become("jsEndVal") /\ fieldId' = RemoveLastIdChar(rest)
          /\ UNCHANGED <<m_key, ended>>
  /\ UNCHANGED <<arrayIndices, arrayDepth>>

\* EndArray: indices is what the subscribers of the array's end see.
EndArray(id, indices) ==
  /\ IF arrayDepth # 0
     THEN /\ arrayIndices' = [indices EXCEPT ![arrayDepth] = 0]
          /\ arrayDepth' = arrayDepth - 1
          /\ fieldId' = RemoveLastIdChar(id)
     ELSE UNCHANGED <<arrayIndices, arrayDepth>> /\ fieldId' = id
  /\ UNCHANGED <<m_key, ended>>

EndOf(id, indices) == ArrayEnd(id, SubSeq(indices, 1, arrayDepth))

CountedUp == [arrayIndices EXCEPT ![arrayDepth] = @ + 1]

\* CheckValueCompleted.  process says that a number is still to be reported.
CheckValueCompleted(c, process) ==
  LET id == IF process THEN Named(fieldId) ELSE fieldId
      value == IF process THEN <<Value(id, Indices)>> ELSE << >>
  IN
  \/ /\ c.is = "," /\ Report(value)
     /\ IF InArray(id)
        THEN Become("jsVal") /\ arrayIndices' = CountedUp /\ fieldId' = id
        ELSE Become("jsExpectId") /\ fieldId' = RemoveLastId(id) /\ UNCHANGED arrayIndices
     /\ UNCHANGED <<arrayDepth, m_key, ended>>
  \/ /\ c.is = "]" /\ InArray(fieldId) /\ Report(Append(value, EndOf(id, CountedUp)))
     /\ Become("jsEndVal") /\ EndArray(id, CountedUp)
  \/ /\ c.is = "}" /\ ~InArray(fieldId) /\ Report(value) /\ CloseObject(id)
  \/ /\ c.is = IF InArray(fieldId) THEN "}" ELSE "]"
     /\ Report(<< >>) /\ Fail

\* Mutant: the id of an abandoned line stays.
Begin_KeepsId(c) ==
  /\ state = "jsBegin" /\ Report(<< >>)
  /\ IF c.is = "{" THEN Become("jsExpectId") /\ arrayDepth' = 0 ELSE UNCHANGED <<state, arrayDepth>>
  /\ UNCHANGED <<fieldId, arrayIndices, m_key, ended>>

Begin(c) ==
  /\ state = "jsBegin" /\ Report(<< >>)
  /\ IF c.is = "{" THEN Become("jsExpectId") /\ fieldId' = << >> /\ arrayDepth' = 0
     ELSE UNCHANGED <<state, fieldId, arrayDepth>>
  /\ UNCHANGED <<arrayIndices, m_key, ended>>

\* jsExpectId, and the name with its colon (jsId, jsHadId) in one step.
ExpectId(c) ==
  /\ state = "jsExpectId" /\ Report(<< >>)
  /\ \/ /\ c.is \in FieldNames /\ Extend(c.is, "jsVal")
        /\ UNCHANGED <<arrayIndices, arrayDepth, m_key, ended>>
     \/ /\ c.is = "string" /\ Extend("string", "jsHadId")
        /\ UNCHANGED <<arrayIndices, arrayDepth, m_key, ended>>
     \/ c.is = "}" /\ CloseObject(fieldId)
     \/ c.is \in Marks \ {"}"} /\ Fail

\* A string that stands where a name should is taken for one; the colon is missing.
HadId(c) == state = "jsHadId" /\ Report(<< >>) /\ Fail

\* A string value, reported at its closing quote; a "key" is remembered.
StringVal(c) ==
  LET id == Named(fieldId) IN
  /\ Report(<<Value(id, Indices)>>) /\ fieldId' = id
  /\ m_key' = IF id = <<"key">> /\ c.is = "string" THEN c.text ELSE m_key
  /\ UNCHANGED <<arrayIndices, arrayDepth, ended>>

\* Mutant: one array too many.
OpenArray_OneMore ==
  /\ Extend("^", "jsVal") /\ arrayDepth' = arrayDepth + 1
  /\ UNCHANGED <<arrayIndices, m_key, ended>>

\* Mutant: counting on EndArray to have cleared the index.
OpenArray_KeepsIndex ==
  IF arrayDepth < MAX_ARRAY_NESTING /\ Len(fieldId) < MAX_JSON_ID_LENGTH
  THEN Extend("^", "jsVal") /\ arrayDepth' = arrayDepth + 1 /\ UNCHANGED <<arrayIndices, m_key, ended>>
  ELSE Fail

OpenArray ==
  IF arrayDepth < MAX_ARRAY_NESTING
  THEN /\ Extend("^", "jsVal") /\ UNCHANGED <<m_key, ended>>
       /\ IF Len(fieldId) < MAX_JSON_ID_LENGTH
          THEN /\ arrayIndices' = [arrayIndices EXCEPT ![arrayDepth + 1] = 0]
               /\ arrayDepth' = arrayDepth + 1
          ELSE UNCHANGED <<arrayIndices, arrayDepth>>
  ELSE Fail

Val(c) ==
  /\ state = "jsVal"
  /\ \/ c.is = "string" /\ Become("jsEndVal") /\ StringVal(c)
     \/ c.is \in FieldNames /\ Become("jsError") /\ StringVal(c)  \* the colon after a string
     \/ c.is = "[" /\ Report(<< >>) /\ OpenArray
     \/ /\ c.is = "]" /\ InArray(fieldId) /\ Report(<<EndOf(fieldId, arrayIndices)>>)
        /\ Become("jsEndVal") /\ EndArray(fieldId, arrayIndices)
     \/ /\ c.is = "number" /\ Report(<< >>) /\ Become("jsIntVal")
        /\ UNCHANGED <<fieldId, arrayIndices, arrayDepth, m_key, ended>>
     \/ /\ c.is = "{" /\ Report(<< >>) /\ Extend(":", "jsExpectId")
        /\ UNCHANGED <<arrayIndices, arrayDepth, m_key, ended>>
     \/ /\ c.is \in {",", "}", "garbage"} \/ (c.is = "]" /\ ~InArray(fieldId))
        /\ Report(<< >>) /\ Fail

\* jsIntVal and the other states of a number or a word: more digits, or its end.
IntVal(c) ==
  /\ state = "jsIntVal"
  /\ \/ CheckValueCompleted(c, TRUE)
     \/ c.is = "number" /\ Report(<< >>) /\ UNCHANGED <<state, fieldId, arrayIndices, arrayDepth, m_key, ended>>
     \/ c.is \notin {",", "]", "}", "number"} /\ Report(<< >>) /\ Fail

EndVal(c) ==
  /\ state = "jsEndVal"
  /\ \/ CheckValueCompleted(c, FALSE)
     \/ c.is \notin {",", "]", "}"} /\ Report(<< >>) /\ Fail

InError(c) == state = "jsError" /\ Report(<< >>) /\ Fail

\* One token through CheckInput.
CheckInput(c) ==
  Begin(c) \/ ExpectId(c) \/ HadId(c) \/ Val(c) \/ IntVal(c) \/ EndVal(c) \/ InError(c)

\* Mutant: only a line in error is abandoned.
NewLine_AfterErrors ==
  /\ IF state = "jsError" THEN Become("jsBegin") ELSE UNCHANGED state
  /\ Report(<< >>) /\ UNCHANGED <<fieldId, arrayIndices, arrayDepth, m_key>>

\* The newline abandons whatever is under way.
NewLine == Become("jsBegin") /\ Report(<< >>) /\ UNCHANGED <<fieldId, arrayIndices, arrayDepth, m_key>>

-----------------------------------------------------------------------------
(* The sender: JSON as the Duet writes it.                                   *)

Top == Last(stack)
InObject == stack # << >> /\ Top.kind = "object"
InList == stack # << >> /\ Top.kind = "array"
AtResult == Len(stack) = 1 /\ Top.name = "result"

\* What an open object (with the field it is at) or array adds to the id.
Segment(i, f) ==
  IF f.kind = "array" THEN <<"^">>
  ELSE (IF i = 1 THEN << >> ELSE <<":">>) \o (IF f.name = "none" THEN << >> ELSE <<f.name>>)

\* The id of the sender's place, and the id its subscribers are registered for.
Path == FlattenSeq([i \in DOMAIN stack |-> Segment(i, stack[i])])

Keyed(id) ==
  IF id = << >> \/ id[1] # "result" THEN id
  ELSE IF lineKey = << >> THEN SubSeq(id, 3, Len(id))
  ELSE lineKey \o Tail(id)

Meant == Keyed(Path)

\* The place among the elements of each open array, one more in the last one.
Counts == FlattenSeq([i \in DOMAIN stack |->
            IF stack[i].kind = "array" THEN <<stack[i].count>> ELSE << >>])

Places(more) == [i \in DOMAIN Counts |-> Counts[i] + (IF i = Len(Counts) THEN more ELSE 0)]

\* An answer from the object model is {"key", "result", "next"}; other answers and
\* the objects in a result have fields of Names.  "next" goes with a part of the model.
NextFields ==
  IF Len(stack) > 1 THEN Names
  ELSE CASE Top.name = "none" -> Names \cup {"key"}
         [] Top.name = "key" -> {"result"}
         [] Top.name = "result" -> IF lineKey = << >> THEN {} ELSE {"next"}
         [] Top.name = "next" -> {}
         [] OTHER -> Names

MaySendValue == (InObject /\ want = "value") \/ (InList /\ want \in {"first", "next"})

\* A value in an array; the whole model, whose key is empty, is an object.
MayOpenArray == MaySendValue /\ ~(AtResult /\ lineKey = << >>) /\ ~(Len(stack) = 1 /\ Top.name = "key")
MayOpenObject == (stack = << >> /\ want = "first") \/ (MaySendValue /\ ~(Len(stack) = 1 /\ Top.name = "key"))

After(n) == want' = n /\ UNCHANGED lineKey

\* The sender's step for one token.
Open(c) ==
  /\ Len(stack) < MaxDepth
  /\ \/ c.is = "{" /\ MayOpenObject /\ stack' = Append(stack, [kind |-> "object", name |-> "none", count |-> 0])
     \/ c.is = "[" /\ MayOpenArray /\ stack' = Append(stack, [kind |-> "array", name |-> "none", count |-> 0])
  /\ After("first")

Field(c) ==
  /\ InObject /\ want \in {"first", "next"}
  /\ c.is \in NextFields
  /\ stack' = [stack EXCEPT ![Len(stack)].name = c.is]
  /\ After("value")

Scalar(c) ==
  /\ MaySendValue
  /\ IF Len(stack) = 1 /\ Top.name = "key" THEN c.is = "string" /\ lineKey' = c.text
     ELSE c \in {Token("number"), Token("string")} /\ UNCHANGED lineKey
  /\ want' = "after" /\ UNCHANGED stack

Comma(c) ==
  /\ c.is = "," /\ want = "after"
  /\ \/ InList /\ Top.count + 1 < MaxElements /\ stack' = [stack EXCEPT ![Len(stack)].count = @ + 1]
     \/ InObject /\ NextFields # {} /\ UNCHANGED stack
  /\ After("next")

CloseSent(c) ==
  /\ want \in {"first", "after"}
  /\ \/ c.is = "}" /\ InObject
     \/ c.is = "]" /\ InList
  /\ stack' = Front(stack)
  /\ After("after")

Send(c) ==
  \/ Open(c) \/ Field(c) \/ Scalar(c)
  \/ Comma(c) \/ CloseSent(c)

\* What the sender means by the token: a scalar, the end of an array, or nothing yet.
Meaning(c) ==
  IF c.is = "]" THEN <<ArrayEnd(Meant, Places(IF want = "after" THEN 1 ELSE 0))>>
  ELSE IF c.is \in {"number", "string"} THEN <<Value(Meant, Places(0))>>
  ELSE << >>

-----------------------------------------------------------------------------
(* The line and the monitor.                                                 *)

\* The reports with the key put where it belongs.
Renamed(r) == [i \in DOMAIN r |-> [r[i] EXCEPT !.id = Named(@)]]

Compare(c) ==
  LET due == owed \o Meaning(c)
      told == Renamed(reports')
      right == IsPrefix(told, due) /\ (told # << >> => ended = 0)
  IN  /\ wrong' = (wrong \/ ~right)
      /\ unnamed' = (unnamed \/ told # reports')
      /\ owed' = IF wrong' \/ state' = "jsError" THEN << >> ELSE SubSeq(due, Len(told) + 1, Len(due))

\* A token arrives as it was sent.  Nothing is compared after a fault.
Deliver(c) ==
  /\ Send(c) /\ CheckInput(c)
  /\ IF spoiled = 0 THEN Compare(c) /\ UNCHANGED spoiled
     ELSE spoiled < MaxSpoiled /\ spoiled' = spoiled + 1 /\ UNCHANGED <<owed, wrong, unnamed>>

\* A token is lost, or its characters make no sense.
Damage(c) ==
  /\ Send(c) /\ spoiled < MaxSpoiled /\ spoiled' = spoiled + 1
  /\ owed' = << >> /\ wrong' = FALSE /\ unnamed' = FALSE
  /\ \/ CheckInput(Token("garbage"))
     \/ Report(<< >>) /\ UNCHANGED <<state, fieldId, arrayIndices, arrayDepth, m_key, ended>>

Done == stack = << >> /\ want = "after"

\* The end of the line, where it belongs or early.
EndLine ==
  /\ stack # << >> \/ want = "after"
  /\ NewLine
  /\ stack' = << >> /\ want' = "first" /\ lineKey' = << >> /\ spoiled' = 0
  /\ owed' = << >> /\ wrong' = FALSE /\ unnamed' = FALSE /\ ended' = 0

Next ==
  \/ \E c \in Tokens : Deliver(c) \/ Damage(c)
  \/ EndLine

Spec == Init /\ [][Next]_vars

-----------------------------------------------------------------------------
(* Properties.                                                               *)

\* The decoder's and the sender's variables have their types.
TypeOK ==
  /\ state \in States /\ spoiled \in 0..MaxSpoiled /\ m_key \in Keys /\ lineKey \in Keys
  /\ fieldId \in Seq(FieldNames \cup Separators \cup {"string"} \cup UNION {Range(k) : k \in Keys})
  /\ arrayDepth \in 0..MAX_ARRAY_NESTING
  /\ arrayIndices \in [1..MAX_ARRAY_NESTING -> Nat]
  /\ Cardinality({i \in DOMAIN fieldId : fieldId[i] = "^"}) <= arrayDepth
  /\ ended \in Nat /\ {wrong, unnamed} \subseteq BOOLEAN

Dotted == Len(lineKey) > 1

\* Past the result of a dotted key the decoder's ids are off by the parts of the key.
PastDottedResult == Dotted /\ (Done \/ (stack # << >> /\ stack[1].name = "next"))

\* A line that arrives whole, also the first one after any broken one, is reported value
\* by value and array by array, under the ids the subscribers are registered for and with
\* the right places and counts, and nothing is reported after its end.
ReportsAreMeant == ~PastDottedResult => ~wrong

\* At the end of such a line everything has been reported and the message was ended once.
EndsOnce == Done /\ spoiled = 0 /\ ~Dotted /\ state # "jsError" => owed = << >> /\ ended = 1

\* A line that arrives whole is given up only because it nests deeper than the decoder's
\* arrays or its id (with the key, and the separators of a dotted one) can hold.
RejectsOnlyTheDeep ==
  [][state' = "jsError" /\ state # "jsError" /\ spoiled' = 0 /\ ~PastDottedResult =>
       \/ Len(Counts') > MAX_ARRAY_NESTING
       \/ Len(Path') + (IF Dotted THEN Len(lineKey) - 1 ELSE 0) > MAX_JSON_ID_LENGTH]_vars

\* "Public function called when the serial I/O module finishes receiving an array of
\* values": the subscribers of an array's end are found under the name of the array.
ArrayEndNamesItsArray == ~unnamed

-----------------------------------------------------------------------------
(* The strengthening of ReportsAreMeant and EndsOnce: how the decoder's      *)
(* place follows the sender's, token by token.                               *)

Frames == [kind : {"object", "array"}, name : FieldNames \cup {"none"}, count : Nat]

\* What the sender writes is JSON, and an answer names its key before its result.
GrammarOK ==
  /\ stack \in Seq(Frames) /\ want \in {"first", "value", "after", "next"}
  /\ stack = << >> => want \in {"first", "after"} /\ (want = "first" => lineKey = << >>)
  /\ want = "value" => InObject
  /\ InObject => (Top.name = "none" <=> want = "first")
  /\ \A i \in DOMAIN stack :
        /\ i < Len(stack) /\ stack[i].kind = "object" => stack[i].name # "none"
        /\ i = 1 => /\ stack[i].kind = "object"
                    /\ stack[i].name = "key" => Len(stack) = 1
                    /\ \/ lineKey = << >> \/ stack[i].name \in {"result", "next"}
                       \/ stack[i].name = "key" /\ want # "value"
        /\ i > 1 => stack[i].name \in Names \cup {"none"}
        /\ i = 2 /\ stack[1].name = "result" /\ lineKey = << >> => stack[i].kind = "object"

\* The id the decoder is at: after a comma the name of the field is gone.
Expected == IF InObject /\ want = "next" THEN Front(Path) ELSE Path

AfterDotted == Dotted /\ Len(stack) = 1 /\ Top.name = "result" /\ want = "next"

\* Inside a message.  The id is the sender's or already has the key for "result".
FollowsInside ==
  /\ stack # << >> /\ ended = 0
  /\ state \in CASE want = "after" -> {"jsIntVal", "jsEndVal"}
                [] want = "value" \/ (InList /\ want # "after") -> {"jsVal"}
                [] OTHER -> {"jsExpectId"}
  /\ owed = IF state = "jsIntVal" THEN <<Value(Meant, Counts)>> ELSE << >>
  /\ fieldId \in {Expected, Keyed(Expected)} \/ (AfterDotted /\ Len(fieldId) < Len(lineKey))
  /\ (Len(stack) = 1 /\ want = "value") \/ (Len(stack) = 2 /\ want = "first") => fieldId = Path
  /\ arrayDepth = Len(Counts) /\ Indices = Counts
  /\ stack[1].name = "result" \/ (stack[1].name = "key" /\ want # "value") => m_key = lineKey

FollowsBefore ==
  stack = << >> /\ want = "first" /\ state = "jsBegin" /\ owed = << >> /\ ended = 0

\* With an empty key the id may be used up before the last brace.
FollowsAfter ==
  /\ want = "after" /\ state = "jsBegin" /\ owed = << >> /\ ended = 1
  /\ stack = << >> \/ (Len(stack) = 1 /\ Top.name = "result" /\ lineKey = << >>)

Follows ==
  /\ spoiled # 0 => ~wrong
  /\ spoiled = 0 /\ ~PastDottedResult =>
       ~wrong /\ IF state = "jsError" THEN owed = << >>
                ELSE FollowsBefore \/ FollowsInside \/ FollowsAfter

DecoderInv == TypeOK /\ GrammarOK /\ Follows
=============================================================================
