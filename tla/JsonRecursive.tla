--------------------------- MODULE JsonRecursive ----------------------------
(***************************************************************************)
(* The recursive parser of rapidjson's reader (reader.h), with which       *)
(* ConfigReader reads its file, building a document: the stack of the      *)
(* calls of Parse, ParseObject and ParseArray that have not returned.  A   *)
(* call has its memberCount or elementCount and the place of its next      *)
(* Peek().  One step reads one lexeme; a call that returns takes its       *)
(* caller to the caller's next Peek() with it.                             *)
(***************************************************************************)
EXTENDS JsonBuilder

VARIABLES
    flags,      \* the parse flags
    calls,      \* the calls, that of Parse first
    result,     \* "none" while they go on, "ok", or the code of the error
    doc         \* the document's stack

parsing == <<flags, calls, result, doc>>

Call(type) == [type |-> type, count |-> 0, place |-> "first"]
Current == calls[Len(calls)]

RecursiveInit ==
    /\ flags \in SUBSET {"TrailingCommas", "StopWhenDone"}
    /\ calls = <<[Call("Root") EXCEPT !.place = "value"]>>
    /\ result = "none"
    /\ doc = <<>>

Trailing == "TrailingCommas" \in flags

\* The last of the calls goes on at a place.
MoveTo(place) == calls' = [calls EXCEPT ![Len(calls)].place = place]

\* ParseValue returns to the last of the calls cs.
\* Uncounted: its count is forgotten.
Uncounted(c) ==
    IF c.type = "Root" THEN [c EXCEPT !.place = "end"] ELSE [c EXCEPT !.place = "next"]
WithValue(c) ==
    IF c.type = "Root" THEN [c EXCEPT !.place = "end"]
    ELSE [type |-> c.type, count |-> c.count + 1, place |-> "next"]
ReturnTo(cs) ==
    /\ calls' = [cs EXCEPT ![Len(cs)] = WithValue(@)]
    /\ result' = IF Len(cs) = 1 /\ "StopWhenDone" \in flags THEN "ok" ELSE "none"

Stop(code) ==
    /\ result' = code
    /\ UNCHANGED <<calls, doc>>

-----------------------------------------------------------------------------
(* ParseValue.                                                             *)

\* Where the bracket that closes the current call may stand.
\* MayCloseAlways: behind a comma in any case.
MayCloseAlways == Current.place \in {"first", "comma", "next"}
MayClose == Current.place \in {"first", "next"} \/ (Current.place = "comma" /\ Trailing)
Closes(x) == Current.type # "Root" /\ MayClose /\ x = ClosingOf(Current.type)

AwaitsValue ==
    \/ Current.place = "value"
    \/ Current.type = "Array" /\ Current.place \in {"first", "comma"}

ParseContainer(x) ==
    /\ AwaitsValue
    /\ x \in {"[", "{"}
    /\ calls' = Append([calls EXCEPT ![Len(calls)].place = "value"], Call(TypeOpenedBy(x)))
    /\ doc' = Pushed(doc, Started(TypeOpenedBy(x)))
    /\ UNCHANGED result

ParseScalar(x) ==
    /\ AwaitsValue
    /\ x \in {"String", "Scalar"}
    /\ doc' = Pushed(doc, Simple(x))
    /\ ReturnTo(calls)

\* What is none of these is a bad number, and an empty text no document.
ParseNoValue(x) ==
    /\ AwaitsValue
    /\ x \notin {"[", "{", "String", "Scalar"}
    /\ ~Closes(x)
    /\ Stop(CASE x \in Bad -> x
              [] x = "End" /\ Current.type = "Root" -> "DocumentEmpty"
              [] OTHER -> "ValueInvalid")

-----------------------------------------------------------------------------
(* ParseObject and ParseArray, between the values.                         *)

AwaitsName == Current.type = "Object" /\ Current.place \in {"first", "comma"}

ParseName(x) ==
    /\ AwaitsName
    /\ ~Closes(x)
    /\ IF x = "String"
       THEN /\ doc' = Pushed(doc, Simple(x))
            /\ MoveTo("colon")
            /\ UNCHANGED result
       ELSE Stop(IF x = "BadString" THEN x ELSE "ObjectMissName")

ParseColon(x) ==
    /\ Current.place = "colon"
    /\ IF x = ":" THEN MoveTo("value") /\ UNCHANGED <<result, doc>>
       ELSE Stop("ObjectMissColon")

ParseComma(x) ==
    /\ Current.place = "next"
    /\ ~Closes(x)
    /\ IF x = "," THEN MoveTo("comma") /\ UNCHANGED <<result, doc>>
       ELSE Stop(IF Current.type = "Object" THEN "ObjectMissCommaOrCurlyBracket"
                 ELSE "ArrayMissCommaOrSquareBracket")

ParseClose(x) ==
    /\ Closes(x)
    /\ doc' = EndContainer(doc, Current.type, Current.count)
    /\ ReturnTo(SubSeq(calls, 1, Len(calls) - 1))

\* Parse, behind the root.
ParseEnd(x) ==
    /\ Current.place = "end"
    /\ Stop(IF x = "End" THEN "ok" ELSE "DocumentRootNotSingular")

RecursiveStep(x) ==
    \/ ParseContainer(x) \/ ParseScalar(x) \/ ParseNoValue(x)
    \/ ParseName(x) \/ ParseColon(x) \/ ParseComma(x) \/ ParseClose(x) \/ ParseEnd(x)

RecursiveNext ==
    /\ result = "none"
    /\ \E x \in Lexemes : RecursiveStep(x)
    /\ UNCHANGED flags

RecursiveSpec == RecursiveInit /\ [][RecursiveNext]_parsing

-----------------------------------------------------------------------------
\* The values of the document d between two places.
AreWhole(d, first, last) == \A i \in first .. last : d[i].whole

\* Whenever a bracket can close a container, what EndObject or EndArray pops
\* are its members or elements, whole, and each member's name is a string;
\* below them is the container that was started for them, and the stack
\* never runs out.  When the parse succeeds, the stack has the root and
\* nothing else: the assertion of ParseStream (document.h:2265, :2465-2477).
BuildsOneRoot ==
    LET base == Len(doc) - PoppedOf(Current.type, Current.count)
    IN  /\ result = "none" /\ Current.type # "Root" /\ MayClose =>
              /\ base >= 1
              /\ doc[base] = Started(Current.type)
              /\ AreWhole(doc, base + 1, Len(doc))
              /\ Current.type = "Object" =>
                   \A k \in 1 .. Current.count : doc[base + 2 * k - 1].type = "String"
        /\ result = "ok" => Len(doc) = 1 /\ doc[1].whole

\* What the iterative parser has when the recursive one is in these calls: the
\* state of the last call, and of each other call what it goes on with.
StateOf(c) ==
    CASE c.type = "Root" -> IF c.place = "end" THEN "Finish" ELSE "Start"
      [] c.type = "Object" ->
            (CASE c.place = "first" -> "ObjectInitial" [] c.place = "colon" -> "MemberKey"
               [] c.place = "value" -> "KeyValueDelimiter" [] c.place = "next" -> "MemberValue"
               [] OTHER -> "MemberDelimiter")
      [] OTHER ->
            (CASE c.place = "first" -> "ArrayInitial" [] c.place = "next" -> "Element"
               [] OTHER -> "ElementDelimiter")
BackTo(c) ==
    CASE c.type = "Root" -> "Start" [] c.type = "Object" -> "MemberValue" [] OTHER -> "Element"
Counted(c) == IF c.place = "next" THEN c.count - 1 ELSE c.count

StackOf(cs) ==
    [i \in 1 .. Len(cs) - 1 |-> [back |-> BackTo(cs[i]), count |-> Counted(cs[i + 1])]]
ResultOf(cs, r) == IF r = "ValueInvalid" /\ Len(cs) = 1 THEN "DocumentEmpty" ELSE r

Iterative == INSTANCE JsonIterative WITH
    state <- StateOf(Current), stack <- StackOf(calls), result <- ResultOf(calls, result)

\* The two parsers read the same texts and build the same document from
\* them, value by value, although one keeps its place in the calls of its
\* functions and counts a value when it has been read, and the other keeps
\* it in a table's state and counts it at the comma behind it or at the
\* bracket; and they end with the same error, except that a text that begins
\* with one of "]},:" is an invalid value for one, and empty for the other
\* (reader.h:738, :806, :1995, :2147, :2176).
ParsersAgree == Iterative!IterativeSpec

-----------------------------------------------------------------------------
(* The inductive invariant behind them.                                    *)

PlacesOf(type) ==
    CASE type = "Root" -> {"value", "end"}
      [] type = "Object" -> {"first", "colon", "value", "next", "comma"}
      [] OTHER -> {"first", "value", "next", "comma"}
Calls ==
    [type : {"Root", "Object", "Array"}, count : Nat,
     place : {"first", "colon", "value", "next", "comma", "end"}]
IsCall(c) ==
    /\ c.place \in PlacesOf(c.type)
    /\ c.place = "first" => c.count = 0
    /\ c.place = "next" => c.count > 0

Results ==
    {"none", "ok", "BadString", "BadScalar", "DocumentEmpty", "ValueInvalid",
     "DocumentRootNotSingular", "ObjectMissName", "ObjectMissColon",
     "ObjectMissCommaOrCurlyBracket", "ArrayMissCommaOrSquareBracket"}

ParsingTypeOK ==
    /\ flags \in SUBSET {"TrailingCommas", "StopWhenDone"}
    /\ calls \in Seq(Calls)
    /\ doc \in Seq(Json)
    /\ result \in Results

\* Parse called ParseValue, and so did every other call but the last.
Nested(cs) ==
    /\ Len(cs) > 0
    /\ \A i \in 1 .. Len(cs) :
           /\ IsCall(cs[i])
           /\ cs[i].type = "Root" <=> i = 1
           /\ i < Len(cs) => cs[i].place = "value"
CallsNest ==
    /\ Nested(calls)
    /\ Current.type = "Array" => Current.place # "value"
    /\ result = "ok" => Current.place = "end"

\* How many values a call has put on the stack, and how many are names.
Names(c) ==
    IF c.type # "Object" THEN 0
    ELSE IF c.place \in {"colon", "value"} THEN c.count + 1 ELSE c.count
Values(c) ==
    IF c.type = "Root" THEN (IF c.place = "end" THEN 1 ELSE 0) ELSE c.count + Names(c)

\* The call c has its container at b of the document d, and its values
\* behind that.
Holds(c, d, b) ==
    /\ c.type # "Root" => b >= 1 /\ d[b] = Started(c.type)
    /\ AreWhole(d, b + 1, b + Values(c))
    /\ \A k \in 1 .. Names(c) : d[b + 2 * k - 1].type = "String"
LaidOut(cs, d, base) ==
    /\ base \in [1 .. Len(cs) -> 0 .. Len(d)]
    /\ base[1] = 0
    /\ Len(d) = base[Len(cs)] + Values(cs[Len(cs)])
    /\ \A i \in 1 .. Len(cs) : Holds(cs[i], d, base[i])
    /\ \A i \in 1 .. Len(cs) - 1 : base[i + 1] = base[i] + Values(cs[i]) + 1
    /\ \A i, j \in 1 .. Len(cs) : i < j => base[i] + Values(cs[i]) < base[j]
DocumentLaidOut == \E base \in [1 .. Len(calls) -> 0 .. Len(doc)] : LaidOut(calls, doc, base)

ParsingIInv == ParsingTypeOK /\ CallsNest /\ DocumentLaidOut
=============================================================================
