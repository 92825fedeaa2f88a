--------------------------- MODULE ConfigVersion ---------------------------
(***************************************************************************)
(* IsValidVersion of src/config/config.cpp: the version of a configuration *)
(* file is read number by number from a string stream into two variables   *)
(* that are never initialised, and no failure of the stream is looked at.  *)
(*                                                                         *)
(* A text is a sequence of characters.  A variable is the set of the value *)
(* that was read into it; that of one nothing was read into is empty, and  *)
(* every comparison of it a choice.                                        *)
(***************************************************************************)
EXTENDS Integers, Sequences, FiniteSets, SequencesExt

CONSTANT MaxInt     \* the greatest number that an int holds
MinInt == -MaxInt - 1

Digits == <<"0", "1", "2", "3", "4", "5", "6", "7", "8", "9">>
Signs == {"+", "-"}
Least(S) == CHOOSE m \in S : \A n \in S : m <= n
RECURSIVE Value(_)
Value(s) ==
    IF s = <<>> THEN 0
    ELSE 10 * Value(Front(s)) + (CHOOSE n \in 0 .. 9 : Digits[n + 1] = Last(s))

\* The stream: what is left of the text, and whether reading has failed,
\* after which nothing more is read and nothing written.
Skipped(s) ==
    SubSeq(s, Least({k \in 1 .. Len(s) + 1 : k > Len(s) \/ s[k] # " "}), Len(s))
Failed(st) == [st EXCEPT !.fail = TRUE]

\* iss >> dot
TakeDot(st) ==
    LET s == Skipped(st.left)
    IN  IF st.fail \/ s = <<>> THEN Failed(st)
        ELSE [st EXCEPT !.left = Tail(s), !.dot = {Head(s)}]

\* A number at the start of a text: where its digits begin and where they end,
\* behind a sign perhaps, and its value.
Signed(s) == s # <<>> /\ s[1] \in Signs
DigitsAt(s) == IF Signed(s) THEN 2 ELSE 1
NumberEnd(s) ==
    Least({k \in DigitsAt(s) .. Len(s) + 1 : k > Len(s) \/ s[k] \notin ToSet(Digits)})
NumberAt(s) ==
    LET n == Value(SubSeq(s, DigitsAt(s), NumberEnd(s) - 1))
    IN  IF s[1] = "-" THEN -n ELSE n

\* iss >> version_num: what is no number gives 0 and fails, what is too great
\* or too small gives the nearest int and fails, and at the end of the text the
\* variable stays.
TakeNumber(st) ==
    LET s == Skipped(st.left)
        n == NumberAt(s)
        rest == [st EXCEPT !.left = SubSeq(s, NumberEnd(s), Len(s))]
    IN  IF st.fail \/ s = <<>> THEN Failed(st)
        ELSE IF NumberEnd(s) = DigitsAt(s) THEN Failed([rest EXCEPT !.num = {0}])
        ELSE IF n > MaxInt THEN Failed([rest EXCEPT !.num = {MaxInt}])
        ELSE IF n < MinInt THEN Failed([rest EXCEPT !.num = {MinInt}])
        ELSE [rest EXCEPT !.num = {n}]

\* The loop from its turn i on: the values that may be returned.
RECURSIVE Turn(_, _, _)
Turn(i, cur, st) ==
    LET dotted == IF i = 0 THEN st ELSE TakeDot(st)
        read == TakeNumber(dotted)
        wrongDot == IF i = 0 THEN {FALSE}
                    ELSE IF dotted.dot = {} THEN BOOLEAN ELSE {dotted.dot # {"."}}
        higher == IF read.num = {} THEN BOOLEAN ELSE {n > cur[i + 1] : n \in read.num}
    IN  IF i = 3 THEN {TRUE}
        ELSE UNION {IF w \/ h THEN {FALSE} ELSE Turn(i + 1, cur, read) :
                        w \in wrongDot, h \in higher}
IsValidVersion(cur, text) ==
    Turn(0, cur, [left |-> text, fail |-> FALSE, dot |-> {}, num |-> {}])

-----------------------------------------------------------------------------
\* "configuration file version is too high" (config.cpp:124): of three
\* numbers with dots between, a version is refused if and only if one of them
\* is greater than the program's; that is the order of versions as long as the
\* program's first two numbers are 0, as they are.  A text that has no number
\* in front, or one too small for an int, or nothing behind a first one that
\* no number of the program is less than, is judged by what happens to be in
\* the variables; and no other text is.
Higher(v, cur) ==
    \E k \in 1 .. 3 : v[k] > cur[k] /\ \A j \in 1 .. k - 1 : v[j] = cur[j]
Written(v) ==
    <<Digits[v[1] + 1], ".", Digits[v[2] + 1], ".", Digits[v[3] + 1]>>
OrdersVersions(cur, v) ==
    /\ IsValidVersion(cur, Written(v)) = {\A k \in 1 .. 3 : v[k] <= cur[k]}
    /\ cur[1] = 0 /\ cur[2] = 0 => IsValidVersion(cur, Written(v)) = {~Higher(v, cur)}

JudgesByChance(cur, text) ==
    LET s == Skipped(text)
        first == IF s # <<>> /\ s[1] \in {"+", "-"} THEN 1 ELSE 0
        digits == {k \in DOMAIN s : k > first /\ \A j \in first + 1 .. k : s[j] \in ToSet(Digits)}
        behind == first + Cardinality(digits) + 1
        n == Value(SubSeq(s, first + 1, behind - 1)) * (IF s[1] = "-" THEN -1 ELSE 1)
    IN  IsValidVersion(cur, text) = BOOLEAN
        <=> \/ digits = {}
            \/ n < MinInt
            \/ /\ Skipped(SubSeq(s, behind, Len(s))) = <<>>
               /\ \A k \in 1 .. 3 : n <= cur[k]
=============================================================================
