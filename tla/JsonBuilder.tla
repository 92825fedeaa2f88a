---------------------------- MODULE JsonBuilder -----------------------------
(***************************************************************************)
(* What the parsers of rapidjson see of a text, and the document that they *)
(* build from it: the handler's part of GenericDocument (document.h).      *)
(*                                                                         *)
(* A text is read lexeme by lexeme: the six structural characters, a whole *)
(* string, another scalar (a number or one of the three words), one of     *)
(* either that is wrong in itself, and the end.  JsonReader has what is    *)
(* inside them and between them.                                           *)
(*                                                                         *)
(* A value on the document's stack is its type, how many elements or       *)
(* members it has, and whether they have been put into it: those of an     *)
(* array or object lie above it until then.                                *)
(***************************************************************************)
EXTENDS Integers, Sequences

Lexemes == {"[", "]", "{", "}", ",", ":", "String", "BadString", "Scalar", "BadScalar", "End"}
Bad == {"BadString", "BadScalar"}

TypeOpenedBy(x) == IF x = "{" THEN "Object" ELSE "Array"
ClosingOf(type) == IF type = "Object" THEN "}" ELSE "]"

Json == [type : {"String", "Scalar", "Object", "Array"}, size : Nat, whole : BOOLEAN]
Simple(x) == [type |-> x, size |-> 0, whole |-> TRUE]
Started(type) == [type |-> type, size |-> 0, whole |-> FALSE]
Complete(type, n) == [type |-> type, size |-> n, whole |-> TRUE]

\* Null, Bool, the numbers, String, Key; StartObject and StartArray.
Pushed(d, v) == Append(d, v)

\* EndObject pops members, which are two values each, and EndArray elements;
\* what is on top then becomes the object or the array of them.
\* PoppedOf1: a member is one value.
PoppedOf1(type, n) == n
PoppedOf(type, n) == IF type = "Object" THEN 2 * n ELSE n
EndContainer(d, type, n) ==
    LET top == Len(d) - PoppedOf(type, n)
    IN  Append(SubSeq(d, 1, top - 1), Complete(type, n))
=============================================================================
