--------------------------- MODULE JsonIterative ----------------------------
(***************************************************************************)
(* IterativeParse of rapidjson's reader (reader.h), building a document:   *)
(* a state, and a stack of what to come back to behind each of the values  *)
(* that are open, with the count of their elements or members.  One step   *)
(* reads one lexeme.                                                       *)
(***************************************************************************)
EXTENDS JsonStates, JsonBuilder

VARIABLES
    flags,      \* the parse flags
    state,      \* of the loop
    stack,      \* of the reader
    result,     \* "none" while it goes on, "ok", or the code of the error
    doc         \* the document's stack

vars == <<flags, state, stack, result, doc>>

IterativeInit ==
    /\ flags \in SUBSET {"TrailingCommas", "StopWhenDone"}
    /\ state = "Start"
    /\ stack = <<>>
    /\ result = "none"
    /\ doc = <<>>

TokenOf(x) ==
    CASE x = "BadString" -> "String"
      [] x \in {"Scalar", "BadScalar"} -> "Number"
      [] OTHER -> x
Predicted(x) == Predict(state, TokenOf(x))

\* The loop goes on in a state, or is left with the root or with an error.
Enter(s) ==
    /\ state' = s
    /\ result' = IF s = "Finish" /\ "StopWhenDone" \in flags THEN "ok" ELSE "none"
Fail(code) ==
    /\ result' = code
    /\ UNCHANGED <<state, stack, doc>>

Top == stack[Len(stack)]

OpenValue(x) ==
    /\ Predicted(x) \in {"ObjectInitial", "ArrayInitial"}
    /\ stack' = Append(stack, [back |-> Back(state), count |-> 0])
    /\ doc' = Pushed(doc, Started(TypeOpenedBy(x)))
    /\ Enter(Predicted(x))

ReadScalar(x) ==
    /\ Predicted(x) \in {"Value", "MemberValue", "Element", "MemberKey"}
    /\ IF x \in Bad THEN Fail(x)
       ELSE /\ doc' = Pushed(doc, Simple(x))
            /\ Enter(IF Predicted(x) = "Value" THEN "Finish" ELSE Predicted(x))
            /\ UNCHANGED stack

ReadColon(x) ==
    /\ Predicted(x) = "KeyValueDelimiter"
    /\ Enter(Predicted(x))
    /\ UNCHANGED <<stack, doc>>

ReadComma(x) ==
    /\ Predicted(x) \in {"MemberDelimiter", "ElementDelimiter"}
    /\ stack' = [stack EXCEPT ![Len(stack)].count = @ + 1]
    /\ Enter(Predicted(x))
    /\ UNCHANGED doc

\* A comma before the bracket is read only when it is allowed.
CloseValue(x) ==
    LET type == IF Predicted(x) = "ObjectFinish" THEN "Object" ELSE "Array"
    IN  /\ Predicted(x) \in {"ObjectFinish", "ArrayFinish"}
        /\ IF state \in {"MemberDelimiter", "ElementDelimiter"} /\ "TrailingCommas" \notin flags
           THEN Fail(IF type = "Object" THEN "ObjectMissName" ELSE "ValueInvalid")
           ELSE /\ doc' = EndContainer(doc, type, Top.count + CountOf(state))
                /\ stack' = SubSeq(stack, 1, Len(stack) - 1)
                /\ Enter(IF Top.back = "Start" THEN "Finish" ELSE Top.back)

NoWayOn(x) ==
    /\ x # "End"
    /\ Predicted(x) = "Error"
    /\ Fail(Missing(state))

AtEnd(x) ==
    /\ x = "End"
    /\ Fail(IF state = "Finish" THEN "ok" ELSE Missing(state))

IterativeNext ==
    /\ result = "none"
    /\ \E x \in Lexemes :
           \/ OpenValue(x) \/ ReadScalar(x) \/ ReadColon(x) \/ ReadComma(x) \/ CloseValue(x)
           \/ NoWayOn(x) \/ AtEnd(x)
    /\ UNCHANGED flags

IterativeSpec == IterativeInit /\ [][IterativeNext]_vars
=============================================================================
