----------------------------- MODULE JsonStates -----------------------------
(***************************************************************************)
(* The states of rapidjson's iterative parser (reader.h): where a token    *)
(* leads from a state, what a nested value comes back to, and what is      *)
(* missing where no token leads on.                                        *)
(***************************************************************************)

\* Where a token leads from a state; a scalar where a value may stand leads
\* to scalar.
Opening(token, scalar) ==
    CASE token = "[" -> "ArrayInitial" [] token = "{" -> "ObjectInitial"
      [] token \in {"String", "False", "True", "Null", "Number"} -> scalar
      [] OTHER -> "Error"
Predict(state, token) ==
    CASE state = "Start" -> Opening(token, "Value")
      [] state \in {"ArrayInitial", "ElementDelimiter"} ->
            IF token = "]" THEN "ArrayFinish" ELSE Opening(token, "Element")
      [] state = "KeyValueDelimiter" -> Opening(token, "MemberValue")
      [] state \in {"ObjectInitial", "MemberDelimiter"} ->
            IF token = "}" THEN "ObjectFinish"
            ELSE IF token = "String" THEN "MemberKey" ELSE "Error"
      [] state = "MemberKey" -> IF token = ":" THEN "KeyValueDelimiter" ELSE "Error"
      [] state = "MemberValue" ->
            IF token = "}" THEN "ObjectFinish"
            ELSE IF token = "," THEN "MemberDelimiter" ELSE "Error"
      [] state = "Element" ->
            IF token = "]" THEN "ArrayFinish"
            ELSE IF token = "," THEN "ElementDelimiter" ELSE "Error"
      [] OTHER -> "Error"     \* Finish, Error, ObjectFinish, ArrayFinish, Value

\* The state behind a value that starts in the state src.
Back(src) ==
    CASE src \in {"ArrayInitial", "ElementDelimiter"} -> "Element"
      [] src = "KeyValueDelimiter" -> "MemberValue"
      [] OTHER -> src

\* The last value is counted when the bracket closes, if it was not by the
\* comma behind it.  CountAlways: counted also then.
CountAlways(src) == 1
CountOf(src) == IF src \in {"MemberValue", "Element"} THEN 1 ELSE 0

\* What HandleError says of the state src.
Missing(src) ==
    CASE src = "Start" -> "DocumentEmpty"
      [] src = "Finish" -> "DocumentRootNotSingular"
      [] src \in {"ObjectInitial", "MemberDelimiter"} -> "ObjectMissName"
      [] src = "MemberKey" -> "ObjectMissColon"
      [] src = "MemberValue" -> "ObjectMissCommaOrCurlyBracket"
      [] src = "Element" -> "ArrayMissCommaOrSquareBracket"
      [] OTHER -> "ValueInvalid"
=============================================================================
