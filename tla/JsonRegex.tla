------------------------------ MODULE JsonRegex ------------------------------
(***************************************************************************)
(* The regular expressions of rapidjson (internal/regex.h): an expression  *)
(* is parsed with a stack of operands and one of operators into the states *)
(* of an automaton, and a text is matched by following the set of the      *)
(* states that it can be in.                                               *)
(*                                                                         *)
(* An expression and a text are sequences of code points, "bad" a place    *)
(* that does not decode.  A parse p has the text that is left, the stacks, *)
(* the states (their indices from 1, 0 for kRegexInvalidState) and status: *)
(* "refused" after a return that leaves the expression invalid, "asserted" *)
(* after an assertion that failed.                                         *)
(***************************************************************************)
EXTENDS Integers, Sequences, FiniteSets, SequencesExt, FiniteSetsExt

CONSTANTS
    Alphabet,           \* the code points, a sequence in their order
    RegexBits           \* of unsigned: 32

Code(c) == CHOOSE k \in DOMAIN Alphabet : Alphabet[k] = c
None == 0
Infinity == 2^RegexBits - 1

\* DecodedStream: what does not decode reads as the end.
Decoded(s) == SubSeq(s, 1, Min({Len(s)} \cup {k - 1 : k \in {i \in DOMAIN s : s[i] = "bad"}}))
Peek(s) == IF s = <<>> THEN "end" ELSE Head(s)
Take(s) == IF s = <<>> THEN s ELSE Tail(s)

-----------------------------------------------------------------------------
(* The automaton.                                                          *)

State(out, out1, class) == [out |-> out, out1 |-> out1, class |-> class]
Frag(start, out, minIndex) == [start |-> start, out |-> out, minIndex |-> minIndex]

NewState(p, out, out1, class) == [p EXCEPT !.states = Append(@, State(out, out1, class))]
Push(p, frag) == [p EXCEPT !.operands = Append(@, frag)]
Replace(p, n, frag) == [p EXCEPT !.operands = Append(SubSeq(@, 1, Len(@) - n), frag)]

\* The states of which out is to be patched are a list linked by their out.
RECURSIVE Linked(_, _)
Linked(states, l) == IF l = None THEN <<>> ELSE <<l>> \o Linked(states, states[l].out)
Patched(states, l, s) ==
    LET list == ToSet(Linked(states, l))
    IN  [k \in DOMAIN states |-> IF k \in list THEN [states[k] EXCEPT !.out = s] ELSE states[k]]
Patch(p, l, s) == [p EXCEPT !.states = Patched(@, l, s)]
Joined(p, l1, l2) == [p EXCEPT !.states[Last(Linked(p.states, l1))].out = l2]

Refused(p) == [p EXCEPT !.status = "refused"]
Asserted(p) == [p EXCEPT !.status = "asserted"]

PushOperand(p, class) ==
    LET s == Len(p.states) + 1 IN Push(NewState(p, None, None, class), Frag(s, s, s))

ImplicitConcatenation(p) ==
    [p EXCEPT !.operators = IF Last(p.atoms) > 0 THEN Append(@, "Concatenation") ELSE @,
              !.atoms[Len(p.atoms)] = @ + 1]

Eval(p, op) ==
    LET n == Len(p.operands)
        e == p.operands[n]
        e1 == p.operands[n - 1]
        s == Len(p.states) + 1
        lower == Min({e1.minIndex, e.minIndex})
    IN  CASE op = "Concatenation" ->
                 IF n < 2 THEN Asserted(p)
                 ELSE Replace(Patch(p, e1.out, e.start), 2, Frag(e1.start, e.out, lower))
          [] op = "Alternation" /\ n >= 2 ->
                 Replace(Joined(NewState(p, e1.start, e.start, <<"Split">>), e1.out, e.out), 2,
                         Frag(s, e1.out, lower))
          [] op = "ZeroOrOne" /\ n >= 1 ->
                 Replace(Joined(NewState(p, None, e.start, <<"Split">>), e.out, s), 1,
                         Frag(s, e.out, e.minIndex))
          [] op = "ZeroOrMore" /\ n >= 1 ->
                 Replace(Patch(NewState(p, None, e.start, <<"Split">>), e.out, s), 1,
                         Frag(s, s, e.minIndex))
          [] op = "OneOrMore" /\ n >= 1 ->
                 Replace(Patch(NewState(p, None, e.start, <<"Split">>), e.out, s), 1,
                         Frag(e.start, s, e.minIndex))
          [] OTHER -> Refused(p)

\* A copy of the states from the operand's least to the last.  (CloneFrom:
\* with the target of a split left in the original, a mutant.)
CloneFrom(p) ==
    LET e == Last(p.operands)
        count == Len(p.states) + 1 - e.minIndex
        Copy(st) == [st EXCEPT !.out = IF @ = None THEN None ELSE @ + count]
    IN  Push([p EXCEPT !.states = @ \o [k \in 1 .. count |-> Copy(@[e.minIndex + k - 1])]],
             Frag(e.start + count, e.out + count, e.minIndex + count))
CloneTopOperand(p) ==
    LET e == Last(p.operands)
        count == Len(p.states) + 1 - e.minIndex
        Moved(k) == IF k = None THEN None ELSE k + count
        Copy(st) == State(Moved(st.out), Moved(st.out1), st.class)
    IN  Push([p EXCEPT !.states = @ \o [k \in 1 .. count |-> Copy(@[e.minIndex + k - 1])]],
             Frag(e.start + count, e.out + count, e.minIndex + count))

Repeat(n, F(_), p) == FoldLeft(LAMBDA q, k : F(q), p, [k \in 1 .. n |-> k])
Concatenate(p) == Eval(p, "Concatenation")

EvalQuantifier(p, n, m) ==
    LET copies == Repeat(n - 1, CloneTopOperand, p)
        optional == Eval(IF n = 0 THEN p ELSE CloneTopOperand(copies), "ZeroOrOne")
    IN  CASE p.operands = <<>> -> Asserted(p)
          [] p.operands # <<>> /\ n = 0 /\ m = 0 -> Refused(p)
          [] p.operands # <<>> /\ n = 0 /\ m = Infinity -> Eval(p, "ZeroOrMore")
          [] p.operands # <<>> /\ n = 0 /\ m \notin {0, Infinity} ->
                 Repeat(m - 1, Concatenate, Repeat(m - 1, CloneTopOperand, optional))
          [] p.operands # <<>> /\ n > 0 /\ m = Infinity ->
                 Repeat(n - 1, Concatenate, Eval(copies, "OneOrMore"))
          [] p.operands # <<>> /\ n > 0 /\ m = n -> Repeat(n - 1, Concatenate, copies)
          [] OTHER -> Repeat(m - 1, Concatenate, Repeat(m - 1 - n, CloneTopOperand, optional))

-----------------------------------------------------------------------------
(* The parts of an expression that are read ahead.                         *)

Digits == <<"0", "1", "2", "3", "4", "5", "6", "7", "8", "9">>
DigitOf(c) == (CHOOSE k \in DOMAIN Digits : Digits[k] = c) - 1
IsDigit(c) == c \in ToSet(Digits)

\* The number at the head of s, -1 when it is refused.  The test for an
\* overflow (regex.h:476) looks at the last digit alone, so a number may wrap.
RECURSIVE ReadUnsigned(_, _)
ReadUnsigned(s, r) ==
    IF ~IsDigit(Peek(s)) THEN <<r, s>>
    ELSE IF r >= Infinity \div 10 /\ DigitOf(Head(s)) > Infinity % 10 THEN <<-1, s>>
    ELSE ReadUnsigned(Tail(s), (r * 10 + DigitOf(Head(s))) % 2^RegexBits)
ParseUnsigned(s) == IF IsDigit(Peek(s)) THEN ReadUnsigned(s, 0) ELSE <<-1, s>>

Special == {"^", "$", "|", "(", ")", "?", "*", "+", ".", "[", "]", "{", "}", "\\"}
Control == [f |-> "FF", n |-> "LF", r |-> "CR", t |-> "HT", v |-> "VT"]
Escapes == [c \in Special |-> c] @@ Control
CharacterEscape(s) == IF Peek(s) \in DOMAIN Escapes THEN Escapes[Peek(s)] ELSE "none"

\* What follows '[': <<whether it is a class, the class, the rest>>.  step is
\* 1 after a character, 2 after its '-'.
RECURSIVE Ranges(_, _, _, _)
Ranges(s, step, negate, ranges) ==
    LET c == Peek(s)
        escaped == c = "\\"
        boundary == escaped /\ Peek(Take(s)) = "b"
        point == IF boundary THEN "BS" ELSE IF escaped THEN CharacterEscape(Take(s)) ELSE c
        rest == IF escaped THEN Take(Take(s)) ELSE Take(s)
        failed == <<FALSE, <<"Split">>, s>>
    IN  CASE c = "end" \/ (c = "]" /\ ranges = <<>>) -> failed
          [] c = "]" /\ ranges # <<>> ->
                 <<TRUE, <<"Range", negate, IF step = 2 THEN Append(ranges, <<"-", "-">>) ELSE ranges>>,
                   rest>>
          [] c \notin {"end", "]"} /\ point = "none" -> failed
          [] c \notin {"end", "]"} /\ step = 1 /\ point = "-" -> Ranges(rest, 2, negate, ranges)
          [] c \notin {"end", "]"} /\ point # "none" /\ step < 2 /\ ~(step = 1 /\ point = "-") ->
                 Ranges(rest, 1, negate, Append(ranges, <<point, point>>))
          [] OTHER -> Ranges(rest, 0, negate, [ranges EXCEPT ![Len(ranges)] = <<@[1], point>>])
ParseRange(s) ==
    IF Peek(s) = "^" THEN Ranges(Take(s), 0, TRUE, <<>>) ELSE Ranges(s, 0, FALSE, <<>>)

-----------------------------------------------------------------------------
(* The expression.                                                         *)

\* The operators above stop are evaluated, up to the first that is not.
RECURSIVE Unwind(_, _)
Unwind(p, those) ==
    IF p.status # "" \/ p.operators = <<>> \/ Last(p.operators) \notin those THEN p
    ELSE Unwind(Eval([p EXCEPT !.operators = Front(@)], Last(p.operators)), those)

Operators == {"Concatenation", "Alternation"}

Bar(p) ==
    [Unwind(p, {"Concatenation"}) EXCEPT !.operators = Append(@, "Alternation"),
                                         !.atoms[Len(p.atoms)] = 0]
Open(p) == [p EXCEPT !.operators = Append(@, "LeftParenthesis"), !.atoms = Append(@, 0)]
Grouped(q) ==
    IF q.status # "" THEN q
    ELSE IF q.operators = <<>> THEN Refused(q)
    ELSE ImplicitConcatenation([q EXCEPT !.operators = Front(@), !.atoms = Front(@)])
Shut(p) == Grouped(Unwind(p, Operators))
Quantifier(p) ==
    LET n == ParseUnsigned(p.rest)
        more == Peek(n[2]) = ","
        open == more /\ Peek(Take(n[2])) = "}"
        m == IF ~more THEN n ELSE IF open THEN <<Infinity, Take(n[2])>> ELSE ParseUnsigned(Take(n[2]))
        done == EvalQuantifier(p, n[1], m[1])
    IN  IF n[1] < 0 \/ m[1] < n[1] THEN Refused(p)
        ELSE IF done.status = "" /\ Peek(m[2]) # "}" THEN Refused(done)
        ELSE [done EXCEPT !.rest = Take(m[2])]
Class(p) ==
    LET c == ParseRange(p.rest)
    IN  IF ~c[1] THEN Refused(p)
        ELSE ImplicitConcatenation(PushOperand([p EXCEPT !.rest = c[3]], c[2]))
Pattern(p, point) == ImplicitConcatenation(PushOperand(p, <<"Char", point>>))

Step(p, c) ==
    CASE c = "^" -> [p EXCEPT !.anchorBegin = TRUE]
      [] c = "$" -> [p EXCEPT !.anchorEnd = TRUE]
      [] c = "|" -> Bar(p)
      [] c = "(" -> Open(p)
      [] c = ")" -> Shut(p)
      [] c = "?" -> Eval(p, "ZeroOrOne")
      [] c = "*" -> Eval(p, "ZeroOrMore")
      [] c = "+" -> Eval(p, "OneOrMore")
      [] c = "{" -> Quantifier(p)
      [] c = "." -> ImplicitConcatenation(PushOperand(p, <<"Any">>))
      [] c = "[" -> Class(p)
      [] c = "\\" -> IF CharacterEscape(p.rest) = "none" THEN Refused(p)
                     ELSE Pattern([p EXCEPT !.rest = Take(@)], CharacterEscape(p.rest))
      [] OTHER -> Pattern(p, c)

RECURSIVE Reading(_)
Reading(p) ==
    IF p.status # "" \/ p.rest = <<>> THEN p
    ELSE Reading(Step([p EXCEPT !.rest = Tail(@)], Head(p.rest)))

\* The regular expression of that source; root stays None when it is invalid.
Rooted(p) ==
    LET e == p.operands[1]
        match == Len(p.states) + 1
    IN  IF p.status # "" \/ Len(p.operands) # 1 THEN p
        ELSE [Patch(NewState(p, None, None, <<"Match">>), e.out, match) EXCEPT !.root = e.start]
Blank(source) ==
    [rest |-> source, operands |-> <<>>, operators |-> <<>>, atoms |-> <<0>>, states |-> <<>>,
     status |-> "", root |-> None, anchorBegin |-> FALSE, anchorEnd |-> FALSE]
Regex(source) ==
    Rooted(Unwind(Reading(Blank(Decoded(source))), Operators \cup {"LeftParenthesis"}))
IsValid(p) == p.root # None

-----------------------------------------------------------------------------
(* Matching.                                                               *)

MatchRange(class, c) ==
    (\E r \in ToSet(class[3]) : Code(r[1]) <= Code(c) /\ Code(c) <= Code(r[2])) # class[2]
Accepts(state, c) ==
    CASE state.class[1] = "Char" -> state.class[2] = c
      [] state.class[1] = "Any" -> TRUE
      [] state.class[1] = "Range" -> MatchRange(state.class, c)
      [] OTHER -> FALSE

\* AddState calls itself for the two targets of a split, and remembers only
\* the states that are not one: a split on the way to itself has no end.
Targets(p, index) == IF p.states[index].out1 = None THEN {}
                     ELSE {p.states[index].out, p.states[index].out1}
RECURSIVE Returns(_, _, _)
Returns(p, index, above) ==
    index \notin above /\ \A k \in Targets(p, index) : Returns(p, k, above \cup {index})
RECURSIVE AddState(_, _)
AddState(p, index) ==
    IF Targets(p, index) = {} THEN {index} ELSE UNION {AddState(p, k) : k \in Targets(p, index)}
IsMatch(p, states) == \E k \in states : p.states[k].out = None

RECURSIVE SearchFrom(_, _, _, _, _)
SearchFrom(p, current, matched, s, anchors) ==
    LET reached == UNION {AddState(p, p.states[k].out) : k \in {j \in current : Accepts(p.states[j], Head(s))}}
        next == reached \cup (IF anchors[1] THEN {} ELSE AddState(p, p.root))
    IN  IF current = {} \/ s = <<>> THEN matched
        ELSE IF ~anchors[2] /\ IsMatch(p, reached) THEN TRUE
        ELSE SearchFrom(p, next, IsMatch(p, reached), Tail(s), anchors)

SearchWithAnchoring(p, text, anchors) ==
    LET root == AddState(p, p.root) IN SearchFrom(p, root, IsMatch(p, root), Decoded(text), anchors)
Match(p, text) == SearchWithAnchoring(p, text, <<TRUE, TRUE>>)
Search(p, text) == SearchWithAnchoring(p, text, <<p.anchorBegin, p.anchorEnd>>)

-----------------------------------------------------------------------------
(* What an expression means: expressions as trees, their text and their    *)
(* language, from the list of what is supported (regex.h:80-104).          *)

Primary == {"Char", "Any", "Class"}
Many == -1          \* no upper bound
Group(text) == <<"(">> \o text \o <<")">>
RECURSIVE TextOf(_)
TextOf(e) ==
    LET Part(d) == IF d[1] \in Primary THEN TextOf(d) ELSE Group(TextOf(d))
        Low(d) == IF d[1] = "Alt" THEN Group(TextOf(d)) ELSE TextOf(d)
    IN  CASE e[1] = "Char" -> IF e[2] \in Special THEN <<"\\", e[2]>> ELSE <<e[2]>>
          [] e[1] = "Any" -> <<".">>
          [] e[1] = "Class" -> <<"[">> \o (IF e[2] THEN <<"^">> ELSE <<>>)
                 \o FlattenSeq([k \in DOMAIN e[3] |->
                        IF e[3][k][1] = e[3][k][2] THEN <<e[3][k][1]>>
                        ELSE <<e[3][k][1], "-", e[3][k][2]>>]) \o <<"]">>
          [] e[1] = "Cat" -> Low(e[2]) \o Low(e[3])
          [] e[1] = "Alt" -> TextOf(e[2]) \o <<"|">> \o TextOf(e[3])
          [] e[1] = "Times" -> Part(e[2]) \o e[5]

\* Whether s is lo to hi words of e, one after the other.
RECURSIVE In(_, _), Times(_, _, _, _)
Times(e, lo, hi, s) ==
    \/ lo = 0 /\ s = <<>>
    \/ hi > 0 /\ \E k \in (IF lo = 0 THEN 1 ELSE 0) .. Len(s) :
           In(e, SubSeq(s, 1, k)) /\ Times(e, Max({lo - 1, 0}), hi - 1, SubSeq(s, k + 1, Len(s)))
In(e, s) ==
    CASE e[1] = "Char" -> s = <<e[2]>>
      [] e[1] = "Any" -> Len(s) = 1
      [] e[1] = "Class" ->
             Len(s) = 1 /\ (e[2] # \E r \in ToSet(e[3]) : Code(s[1]) \in Code(r[1]) .. Code(r[2]))
      [] e[1] = "Cat" -> \E k \in 0 .. Len(s) :
             In(e[2], SubSeq(s, 1, k)) /\ In(e[3], SubSeq(s, k + 1, Len(s)))
      [] e[1] = "Alt" -> In(e[2], s) \/ In(e[3], s)
      [] e[1] = "Times" -> Times(e[2], e[3], IF e[4] = Many THEN e[3] + Len(s) ELSE e[4], s)

\* An expression repeated without end that holds the empty text.
RECURSIVE LoopsOnNothing(_)
LoopsOnNothing(e) ==
    CASE e[1] \in Primary -> FALSE
      [] e[1] \in {"Cat", "Alt"} -> LoopsOnNothing(e[2]) \/ LoopsOnNothing(e[3])
      [] e[1] = "Times" -> LoopsOnNothing(e[2]) \/ (e[4] = Many /\ In(e[2], <<>>))

\* The automaton of an expression accepts its language, and a search finds a
\* word of it.  It does not find the empty word in a text that is not empty
\* (regex.h:667 forgets a match at the start, 679 does not look at one later):
\* "a*" is not found in "b".  Matching comes back unless a part that may be
\* empty is repeated without end.
Accepting(p, e, begin, end, texts) ==
    LET Found(s) == \E j \in 0 .. Len(s) : \E k \in j .. Len(s) :
                        /\ begin => j = 0
                        /\ end => k = Len(s)
                        /\ j < k \/ s = <<>>
                        /\ In(e, SubSeq(s, j + 1, k))
    IN  /\ IsValid(p)
        /\ Returns(p, p.root, {}) \/ LoopsOnNothing(e)
        /\ (\A k \in DOMAIN p.states : Returns(p, k, {})) <=> ~LoopsOnNothing(e)
        /\ ~LoopsOnNothing(e) => \A s \in texts :
               /\ Match(p, s) <=> In(e, Decoded(s))
               /\ Search(p, s) <=> Found(Decoded(s))
MatchesLanguage(e, begin, end, texts) ==
    LET text == (IF begin THEN <<"^">> ELSE <<>>) \o TextOf(e) \o (IF end THEN <<"$">> ELSE <<>>)
    IN  Accepting(Regex(text), e, begin, end, texts)

\* Of a text of letters, bars, parentheses and stars those are expressions
\* that have no empty group or alternative and match their parentheses, and no
\* star before the first letter; a star elsewhere without an operand of its
\* own takes the one before.
RefusesTheRest(s) ==
    LET plain == SelectSeq(s, LAMBDA c : c # "*")
        depth(k) == Cardinality({i \in 1 .. k : plain[i] = "("}) - Cardinality({i \in 1 .. k : plain[i] = ")"})
        begins(k) == k = 1 \/ plain[k - 1] \in {"(", "|"}
        written == /\ plain # <<>> /\ Last(plain) # "|" /\ depth(Len(plain)) = 0
                   /\ \A k \in DOMAIN plain : depth(k) >= 0 /\ (begins(k) => plain[k] \notin {")", "|"})
        letters == {k \in DOMAIN s : s[k] \notin {"*", "(", ")", "|"}}
        stars == {k \in DOMAIN s : s[k] = "*"}
    IN  IsValid(Regex(s)) <=> written /\ \A k \in stars : \E j \in letters : j < k

\* A number in braces is the one that is written, unless it does not fit and
\* its last digits hide it.
CountsAsWritten(ds) ==
    LET n == FoldLeft(LAMBDA r, c : 10 * r + DigitOf(c), 0, ds)
        r == ParseUnsigned(ds)[1]
    IN  /\ n <= Infinity => r = n
        /\ (n > Infinity /\ r >= 0) => n \div 10 > Infinity \div 10 /\ r = n % 2^RegexBits
=============================================================================
