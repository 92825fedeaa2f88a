---------------------------- MODULE HttpSymbols ----------------------------
(***************************************************************************)
(* What the texts of HTTP are made of here: the characters that the code   *)
(* and its clients look for, and one symbol for every word in which they   *)
(* look for nothing.                                                       *)
(***************************************************************************)
CR == "\r"
LF == "\n"
SP == " "
HTTP == "HTTP/"
Digit == <<"0", "1", "2", "3", "4", "5", "6", "7", "8", "9">>
Digits == {"0", "1", "2", "3", "4", "5", "6", "7", "8", "9"}
=============================================================================
