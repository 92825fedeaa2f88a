----------------------------- MODULE JsonPointer -----------------------------
(***************************************************************************)
(* The JSON pointers of rapidjson (pointer.h): parsing a pointer from its  *)
(* text or its URI fragment, writing it back, comparing two, resolving one *)
(* in a document and creating, setting, swapping and erasing what it names,*)
(* and the memory that a pointer itself owns.                              *)
(*                                                                         *)
(* A text is a sequence of code units, a token [name, index].  Byte gives  *)
(* the number of each unit that is used; one of 192 and more begins a      *)
(* UTF-8 character of two units, one of 128 to 191 ends it.                *)
(***************************************************************************)
EXTENDS JsonDocument

CONSTANTS
    Byte,               \* the number of each code unit
    IndexBits           \* of SizeType: 32

InvalidIndex == 2^IndexBits - 1
Token(name, index) == [name |-> name, index |-> index]

IsDigit(c) == Byte[c] \in 48 .. 57
DigitOf(c) == Byte[c] - 48
Leads(c) == Byte[c] >= 192
Continues(c) == Byte[c] \in 128 .. 191
NeedPercentEncode(c) ==
    ~(IsDigit(c) \/ Byte[c] \in 65 .. 90 \cup 97 .. 122 \/ c \in {"-", ".", "_", "~"})

-----------------------------------------------------------------------------
(* Parsing.                                                                *)

Lower == [a |-> "A", b |-> "B", c |-> "C", d |-> "D", e |-> "E", f |-> "F"]
Hex == <<"0", "1", "2", "3", "4", "5", "6", "7", "8", "9", "A", "B", "C", "D", "E", "F">>
HexOf(c) ==
    LET u == IF c \in DOMAIN Lower THEN Lower[c] ELSE c
    IN  IF u \in ToSet(Hex) THEN (CHOOSE k \in DOMAIN Hex : Hex[k] = u) - 1 ELSE -1

\* PercentDecodeStream: the unit of the triplet at i, if there is one.
Triplet(s, i) ==
    IF i + 2 > Len(s) \/ s[i] # "%" \/ HexOf(s[i + 1]) < 0 \/ HexOf(s[i + 2]) < 0 THEN "none"
    ELSE CHOOSE u \in DOMAIN Byte : Byte[u] = 16 * HexOf(s[i + 1]) + HexOf(s[i + 2])
\* The units of the character at i, <<>> when it is not a valid one.
Character(first, second) ==
    CASE first = "none" -> <<>>
      [] first # "none" /\ Leads(first) /\ second # "none" ->
             IF Continues(second) THEN <<first, second>> ELSE <<>>
      [] first # "none" /\ ~Leads(first) /\ ~Continues(first) -> <<first>>
      [] OTHER -> <<>>
PercentDecode(s, i) == Character(Triplet(s, i), Triplet(s, i + 3))

\* The overflow is detected only when the number that wrapped is the smaller.
IndexOf(name) ==
    LET Add(n, c) == IF n = InvalidIndex THEN n
                     ELSE LET m == (n * 10 + DigitOf(c)) % 2^IndexBits
                          IN  IF m < n THEN InvalidIndex ELSE m
    IN  FoldLeft(Add, 0, name)

Bad(i, error) == [i |-> i, name |-> <<>>, number |-> FALSE, error |-> error]
\* The name from i on, up to the next '/'; number says that it can be an
\* index.  Decoded: after the triplet at i; Unescaped: c was read, what follows
\* is at i.
RECURSIVE NameFrom(_, _, _, _, _), Decoded(_, _, _, _, _), Unescaped(_, _, _, _, _, _)
NameFrom(s, i, uri, name, number) ==
    IF i > Len(s) \/ s[i] = "/" THEN [i |-> i, name |-> name, number |-> number, error |-> ""]
    ELSE IF uri /\ s[i] = "%" THEN Decoded(s, i, PercentDecode(s, i), name, number)
    ELSE IF uri /\ NeedPercentEncode(s[i]) THEN Bad(i, "CharacterMustPercentEncode")
    ELSE Unescaped(s, i + 1, s[i], uri, name, number)
Decoded(s, i, units, name, number) ==
    IF units = <<>> THEN Bad(i, "InvalidPercentEncoding")
    ELSE IF Len(units) = 2 THEN NameFrom(s, i + 6, TRUE, name \o units, FALSE)
    ELSE Unescaped(s, i + 3, units[1], TRUE, name, number)
Unescaped(s, i, c, uri, name, number) ==
    LET escape == IF i > Len(s) THEN "none" ELSE s[i]
        With(d, j) == NameFrom(s, j, uri, Append(name, d), number /\ IsDigit(d))
    IN  IF c # "~" THEN With(c, i)
        ELSE IF escape = "0" THEN With("~", i + 1)
        ELSE IF escape = "1" THEN With("/", i + 1)
        ELSE Bad(i, "InvalidEscape")

\* A pointer that was parsed: its tokens, or an error and its offset from 1.
Parsed(tokens) == [tokens |-> tokens, error |-> "", offset |-> 0]
Failed(error, offset) == [tokens |-> <<>>, error |-> error, offset |-> offset]
IsValid(p) == p.error = ""

\* The tokens from the '/' at i on; Named: the name after it is read.
RECURSIVE Tokens(_, _, _, _), Named(_, _, _, _)
Tokens(s, i, uri, tokens) ==
    IF i > Len(s) THEN Parsed(tokens)
    ELSE Named(s, NameFrom(s, i + 1, uri, <<>>, TRUE), uri, tokens)
Named(s, t, uri, tokens) ==
    LET index == t.number /\ t.name # <<>> /\ ~(Len(t.name) > 1 /\ t.name[1] = "0")
    IN  IF t.error # "" THEN Failed(t.error, t.i)
        ELSE Tokens(s, t.i, uri,
                    Append(tokens, Token(t.name, IF index THEN IndexOf(t.name) ELSE InvalidIndex)))
Parse(s) ==
    LET uri == s # <<>> /\ s[1] = "#"
        i == IF uri THEN 2 ELSE 1
    IN  IF i <= Len(s) /\ s[i] # "/" THEN Failed("TokenMustBeginWithSolidus", i)
        ELSE Tokens(s, i, uri, <<>>)

-----------------------------------------------------------------------------
(* Writing and comparing.                                                  *)

PercentEncode(c) == <<"%", Hex[Byte[c] \div 16 + 1], Hex[(Byte[c] % 16) + 1]>>
Whole(name, k) == k < Len(name) /\ Leads(name[k]) /\ Continues(name[k + 1])
Written(name, k, uri) ==
    CASE name[k] = "~" -> <<"~", "0">>
      [] name[k] = "/" -> <<"~", "1">>
      [] name[k] \notin {"~", "/"} /\ uri /\ NeedPercentEncode(name[k]) -> PercentEncode(name[k])
      [] OTHER -> <<name[k]>>
StringifyToken(t, uri) ==
    <<"/">> \o FlattenSeq([k \in DOMAIN t.name |-> Written(t.name, k, uri)])
\* Whether the names are UTF-8, without which a fragment is not written.
Encodable(tokens) == \A t \in ToSet(tokens) : \A k \in DOMAIN t.name :
    /\ Leads(t.name[k]) => Whole(t.name, k)
    /\ Continues(t.name[k]) => k > 1 /\ Whole(t.name, k - 1)
Stringify(tokens, uri) ==
    (IF uri THEN <<"#">> ELSE <<>>)
    \o FlattenSeq([k \in DOMAIN tokens |-> StringifyToken(tokens[k], uri)])

Same(p, q) == IsValid(p) /\ IsValid(q) /\ p.tokens = q.tokens
NameLess(a, b) == \E k \in DOMAIN a : /\ Byte[a[k]] < Byte[b[k]]
                                      /\ \A j \in 1 .. k - 1 : a[j] = b[j]
TokenLess(a, b) ==
    IF a.index # b.index THEN a.index < b.index
    ELSE IF Len(a.name) # Len(b.name) THEN Len(a.name) < Len(b.name)
    ELSE NameLess(a.name, b.name)
Less(p, q) ==
    /\ IsValid(p)
    /\ IsValid(q) =>
           IF Len(p.tokens) # Len(q.tokens) THEN Len(p.tokens) < Len(q.tokens)
           ELSE \E k \in DOMAIN p.tokens : /\ TokenLess(p.tokens[k], q.tokens[k])
                                           /\ \A j \in 1 .. k - 1 : p.tokens[j] = q.tokens[j]

-----------------------------------------------------------------------------
(* Resolving in a value.  A place in a value is the sequence of the        *)
(* positions of the elements and members that lead to it.                  *)

Children(v) == CASE v.t = "Array" -> v.elems
                 [] v.t = "Object" -> [k \in DOMAIN v.members |-> v.members[k].value]
                 [] OTHER -> <<>>
WithChild(v, k, w) == IF v.t = "Array" THEN [v EXCEPT !.elems[k] = w]
                      ELSE [v EXCEPT !.members[k].value = w]
RECURSIVE At(_, _), Put(_, _, _)
At(v, place) == IF place = <<>> THEN v ELSE At(Children(v)[place[1]], Tail(place))
Put(v, place, w) ==
    IF place = <<>> THEN w
    ELSE WithChild(v, place[1], Put(Children(v)[place[1]], Tail(place), w))

\* The child that a token names, 0 when there is none.
ChildOf(v, t) ==
    CASE v.t = "Object" /\ HasMember(v, ConstString(t.name)) -> FindMember(v, ConstString(t.name))
      [] v.t = "Array" /\ t.index # InvalidIndex /\ t.index < Len(v.elems) -> t.index + 1
      [] OTHER -> 0

\* Get: <<place, the index of the token that is not resolved or -1>>.
RECURSIVE GetFrom(_, _, _)
GetFrom(v, tokens, place) ==
    LET k == ChildOf(v, tokens[Len(place) + 1])
    IN  IF Len(place) = Len(tokens) THEN <<place, -1>>
        ELSE IF k = 0 THEN <<place, Len(place)>>
        ELSE GetFrom(Children(v)[k], tokens, Append(place, k))
Get(v, tokens) == GetFrom(v, tokens, <<>>)

\* One step of Create: [heap, value, k, exist], the value made what the token
\* asks for and its child k.  Nulls: the elements up to an index.
RECURSIVE Nulls(_, _)
Nulls(r, size) == IF Len(r[2].elems) >= size THEN r ELSE Nulls(PushBack(r[1], r[2], Null), size)
Turned(h, v, to) == <<Destroy(h, v), to>>
Coerced(h, v, t) ==
    CASE t.index = InvalidIndex /\ v.t # "Object" -> Turned(h, v, EmptyObject)
      [] t.index # InvalidIndex /\ v.t \notin {"Object", "Array"} -> Turned(h, v, EmptyArray)
      [] OTHER -> <<h, v>>
Made(r, child, exist) == [heap |-> r[1], value |-> r[2], k |-> child, exist |-> exist]
Pushed(r) == Made(r, Len(r[2].elems), FALSE)
Added(name, v) ==
    Made(AddMember(name[1], v, name[2], Null), Len(v.members) + 1, FALSE)
ChildIn(c, t) ==
    LET k == ChildOf(c[2], t)
    IN  IF k > 0 THEN Made(c, k, TRUE)
        ELSE IF c[2].t = "Array"
             THEN Made(Nulls(Reserve(c[1], c[2], t.index + 1), t.index + 1), t.index + 1, FALSE)
        ELSE Added(CopyString(c[1], t.name), c[2])
CreateChild(h, v, t) ==
    IF v.t = "Array" /\ t.name = <<"-">> THEN Pushed(PushBack(h, v, Null))
    ELSE ChildIn(Coerced(h, v, t), t)

\* Create: [heap, value, place, exist].
Around(c, r) ==
    [heap |-> r.heap, value |-> WithChild(c.value, c.k, r.value),
     place |-> <<c.k>> \o r.place, exist |-> c.exist /\ r.exist]
RECURSIVE Create(_, _, _), CreateBelow(_, _)
Create(h, v, tokens) ==
    IF tokens = <<>> THEN [heap |-> h, value |-> v, place |-> <<>>, exist |-> TRUE]
    ELSE CreateBelow(CreateChild(h, v, tokens[1]), Tail(tokens))
CreateBelow(c, tokens) == Around(c, Create(c.heap, Children(c.value)[c.k], tokens))

\* A state is [heap, a, b], the root and the value that is given; c is what
\* Create has made.  Reached: with that place in place of the root; Stored:
\* what has become of the place is in the root again.
Reached(c, given) == [heap |-> c.heap, a |-> At(c.value, c.place), b |-> given]
Stored(c, done) == [done EXCEPT !.a = Put(c.value, c.place, @)]
SetIn(c, given) == Stored(c, Assign(Reached(c, given)))
SetCopyIn(c, given) == Stored(c, CopyFrom(Reached(c, given), FALSE))
SwapIn(c, given) == Stored(c, Swap(Reached(c, given)))
DefaultIn(c, given) ==
    IF c.exist THEN [heap |-> c.heap, a |-> c.value, b |-> given] ELSE SetCopyIn(c, given)
SetAt(st, tokens) == SetIn(Create(st.heap, st.a, tokens), st.b)
SetCopyAt(st, tokens) == SetCopyIn(Create(st.heap, st.a, tokens), st.b)
SwapAt(st, tokens) == SwapIn(Create(st.heap, st.a, tokens), st.b)
GetWithDefault(st, tokens) == DefaultIn(Create(st.heap, st.a, tokens), st.b)

\* Erase: <<whether it was found, state>>.
Erased(st, place, r) == <<TRUE, [st EXCEPT !.heap = r[1], !.a = Put(@, place, r[2])]>>
EraseIn(st, place, v, k) ==
    IF k = 0 THEN <<FALSE, st>>
    ELSE Erased(st, place, IF v.t = "Array" THEN Erase(st.heap, v, k, k + 1)
                           ELSE EraseMember(st.heap, v, v.members[k].name))
EraseChild(st, place, v, t) == EraseIn(st, place, v, ChildOf(v, t))
EraseUnder(st, parent, t) ==
    IF parent[2] # -1 THEN <<FALSE, st>>
    ELSE EraseChild(st, parent[1], At(st.a, parent[1]), t)
EraseAt(st, tokens) ==
    IF tokens = <<>> THEN <<FALSE, st>>
    ELSE EraseUnder(st, Get(st.a, Front(tokens)), Last(tokens))

-----------------------------------------------------------------------------
(* The memory of pointers.  A pointer has the allocator it uses, the one   *)
(* it owns, the block of its tokens and names, and whether the tokens are  *)
(* the user's; 0 is null.  A store is [heap, dead, stale, crash, a, b]: the*)
(* blocks, the allocators deleted, whether a deleted one was used, whether *)
(* names were copied from a null buffer, and two pointers.                 *)

Blank == [allocator |-> 0, own |-> 0, id |-> 0, count |-> 0, users |-> FALSE]
Store == [heap |-> Heap, dead |-> {}, stale |-> FALSE, crash |-> FALSE, a |-> Blank, b |-> Blank]

\* A block for p, after the allocator if it has none.
WithBlock(st, p, count) ==
    LET h == st.heap
        made == IF p.allocator = 0 THEN [p EXCEPT !.allocator = h.next, !.own = h.next] ELSE p
        h2 == IF p.allocator = 0 THEN Allocated(h) ELSE h
    IN  <<[st EXCEPT !.heap = Allocated(h2), !.stale = @ \/ made.allocator \in st.dead],
          [made EXCEPT !.id = h2.next, !.count = count, !.users = FALSE]>>
FreedBlock(st, p) == [st EXCEPT !.heap = Freed(@, <<p.id>>)]
DestroyPointer(st, p) ==
    [FreedBlock(st, p) EXCEPT !.heap = Freed(@, <<p.own>>), !.dead = @ \cup ({p.own} \ {0})]

\* The names are copied from the buffer of q, which a user's tokens have not.
CopyFromRaw(st, p, q, extra) ==
    LET r == WithBlock(st, p, q.count + extra)
    IN  <<[r[1] EXCEPT !.crash = @ \/ (q.count > 0 /\ q.id = 0)], r[2]>>
\* operator=.
AssignPointer(st, p, q) ==
    LET freed == FreedBlock(st, p)
    IN  IF q.id # 0 THEN CopyFromRaw(freed, p, q, 0)
        ELSE <<freed, [p EXCEPT !.id = 0, !.count = q.count, !.users = q.users]>>

Copied(st, q) == AssignPointer(st, [Blank EXCEPT !.allocator = q.allocator], q)
Appended(st, q) == CopyFromRaw(st, Blank, q, 1)

\* An operation makes a from nothing or changes it; what was in a is destroyed
\* when it is made anew.
Remade(st, r) == [DestroyPointer(r[1], st.a) EXCEPT !.a = r[2]]
PointerOperate(st, o) ==
    LET valid == WithBlock(st, Blank, 2)
        invalid == <<FreedBlock(valid[1], valid[2]), [valid[2] EXCEPT !.id = 0, !.count = 0]>>
        kept(r) == [r[1] EXCEPT !.a = r[2]]
    IN  CASE o = "Parse" -> Remade(st, valid)
          [] o = "ParseInvalid" -> Remade(st, invalid)
          [] o = "Users" -> Remade(st, <<st, [Blank EXCEPT !.count = 2, !.users = TRUE]>>)
          [] o = "Copy" -> Remade(st, Copied(st, st.b))
          [] o = "Assign" -> kept(AssignPointer(st, st.a, st.b))
          [] o = "Append" -> Remade(st, Appended(st, st.b))
          [] o = "Swap" -> [st EXCEPT !.a = st.b, !.b = st.a]

-----------------------------------------------------------------------------
(* What is asked of them.                                                  *)

ValueOf(ds) == FoldLeft(LAMBDA n, c : 10 * n + DigitOf(c), 0, ds)
\* The index of a name: the number that it writes without a leading zero, if
\* it fits; of one that does not fit, nothing but by an overflow that is not
\* seen, when the number that wrapped is not below the one before its digit
\* (pointer.h:969, although pointer.h:90-92 says it is only a name then).
IndexIsRight(t) ==
    LET plain == t.name # <<>> /\ (\A c \in ToSet(t.name) : IsDigit(c))
                 /\ (t.name[1] = "0" => Len(t.name) = 1)
        Hidden(k) == LET n == ValueOf(SubSeq(t.name, 1, k))
                     IN  n > InvalidIndex /\ n % 2^IndexBits >= n \div 10
    IN  IF plain /\ ValueOf(t.name) <= InvalidIndex THEN t.index = ValueOf(t.name)
        ELSE t.index # InvalidIndex => plain /\ \E k \in DOMAIN t.name : Hidden(k)

\* A text that parses is the text of its tokens, and its fragment, when there
\* is one, has the same tokens; one that does not parse has an error at the
\* first place where it is wrong.
IsReadAs(s, p) ==
    LET uri == s # <<>> /\ s[1] = "#"
        wrong == {k \in DOMAIN s : IF k = 1 THEN s[1] # "/"
                                   ELSE s[k - 1] = "~" /\ s[k] \notin {"0", "1"}}
                 \cup (IF s # <<>> /\ Last(s) = "~" THEN {Len(s) + 1} ELSE {})
    IN  /\ IsValid(p) => /\ \A t \in ToSet(p.tokens) : IndexIsRight(t)
                         /\ Parse(Stringify(p.tokens, FALSE)) = p
                         /\ Encodable(p.tokens) => Parse(Stringify(p.tokens, TRUE)) = p
        /\ (uri /\ IsValid(p)) => Encodable(p.tokens)
        /\ ~uri => IF wrong = {} THEN IsValid(p) /\ Stringify(p.tokens, FALSE) = s
                   ELSE ~IsValid(p) /\ p.offset = Min(wrong)
ReadsPointer(s) == IsReadAs(s, Parse(s))

\* Pointers are in a strict total order with those that do not parse, which
\* are equal to none, at its end.
OrdersPointers(p, q, r) ==
    /\ (IsValid(p) /\ IsValid(q)) =>
           Cardinality({k \in 1 .. 3 : <<Less(p, q), Same(p, q), Less(q, p)>>[k]}) = 1
    /\ ~IsValid(p) => ~Less(p, q) /\ ~Same(p, q) /\ (IsValid(q) => Less(q, p))
    /\ (Less(p, q) /\ Less(q, r)) => Less(p, r)

\* Of what a value had before, all is there that is not on the way to place,
\* and what was added to an array beside it is null.
RECURSIVE KeptBeside(_, _, _)
KeptBeside(old, new, place) ==
    LET k == place[1]
        before == IF old.t = new.t THEN Children(old) ELSE <<>>
        after == Children(new)
    IN  place # <<>> =>
            /\ \A j \in DOMAIN after \ {k} : after[j] = IF j \in DOMAIN before THEN before[j] ELSE Null
            /\ (old.t = "Object" /\ new.t = "Object") => \A j \in DOMAIN before :
                   new.members[j].name = old.members[j].name
            /\ Len(after) = IF k > Len(before) THEN k ELSE Len(before)
            /\ old.t # new.t => \/ new.t = "Object"
                                \/ new.t = "Array" /\ old.t # "Object"
            /\ KeptBeside(IF k \in DOMAIN before THEN before[k] ELSE Null, after[k], Tail(place))

\* Setting gives the value to the place that the tokens name, where Get finds
\* it, keeps all that is beside and loses no memory; a place that Get finds is
\* there for Create, which then changes nothing, and only those.  Erasing what
\* Get finds takes it out alone; nothing else is erased.
SetsThere(st, c, set, copied, swapped, tokens) ==
    /\ At(set.a, c.place) = st.b /\ set.b = Null /\ KeptBeside(st.a, set.a, c.place)
    /\ (\A t \in ToSet(tokens) : t.name # <<"-">>) => Get(set.a, tokens) = <<c.place, -1>>
    /\ Meaning(copied.a) = Meaning(set.a) /\ copied.b = st.b
    /\ swapped.a = set.a /\ swapped.b = (IF c.exist THEN At(st.a, c.place) ELSE Null)
    /\ Sound(set) /\ Sound(copied) /\ Sound(swapped)
FindsThere(st, c, got, default, copied) ==
    /\ c.exist <=> got[2] = -1
    /\ c.exist => c.value = st.a /\ c.heap = st.heap /\ c.place = got[1] /\ default = st
    /\ ~c.exist => default = copied
    /\ Sound(default)
TakesOut(st, got, tokens, erased) ==
    LET above == Front(got[1])
        k == Last(got[1])
        all == Children(At(st.a, above))
    IN  /\ Sound(erased[2])
        /\ erased[1] <=> got[2] = -1 /\ tokens # <<>>
        /\ ~erased[1] => erased[2] = st
        /\ erased[1] =>
               /\ Children(At(erased[2].a, above)) = SubSeq(all, 1, k - 1) \o SubSeq(all, k + 1, Len(all))
               /\ Put(erased[2].a, above, Null) = Put(st.a, above, Null)
PointsIn(st, c, tokens) ==
    /\ SetsThere(st, c, SetAt(st, tokens), SetCopyAt(st, tokens), SwapAt(st, tokens), tokens)
    /\ FindsThere(st, c, Get(st.a, tokens), GetWithDefault(st, tokens), SetCopyAt(st, tokens))
    /\ TakesOut(st, Get(st.a, tokens), tokens, EraseAt(st, tokens))
Given(root, given) == [heap |-> given[1], a |-> root[2], b |-> given[2]]
Resolved(st, tokens) == PointsIn(st, Create(st.heap, st.a, tokens), tokens)
WithRoot(root, w, tokens) == Resolved(Given(root, CopyOf(root[1], w, TRUE)), tokens)
PointsTo(v, w, tokens) == WithRoot(CopyOf(Heap, v, TRUE), w, tokens)

\* Of two pointers that are parsed, copied, assigned, appended to and swapped,
\* each block has one owner or was freed once.  The exceptions are those of the
\* code: the copy of a pointer goes on with the allocator of the original when
\* that is gone (pointer.h:166), and nothing can be appended to a pointer to
\* the user's tokens (pointer.h:834).
PointersOwn(ops) ==
    LET st == FoldLeft(PointerOperate, Store, ops)
        Owned(p) == SelectSeq(<<p.id, p.own>>, LAMBDA n : n # 0)
        ids == Owned(st.a) \o Owned(st.b) \o st.heap.freed
    IN  /\ ToSet(ids) = 1 .. st.heap.next - 1 /\ Len(ids) = st.heap.next - 1
        /\ \A p \in {st.a, st.b} : p.count > 0 => (p.users <=> p.id = 0)
        /\ st.stale => "Copy" \in ToSet(ops)
        /\ st.crash => {"Users", "Append"} \subseteq ToSet(ops)
=============================================================================
