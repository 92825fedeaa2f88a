---------------------------- MODULE JsonDocument ----------------------------
(***************************************************************************)
(* The values and documents of rapidjson (document.h), in which ConfigReader*)
(* looks up its settings: how a value is made, moved, copied, changed and  *)
(* destroyed, compared and visited, and how a document is built from the   *)
(* events of the reader.                                                   *)
(*                                                                         *)
(* A value is a record with its type t; a number has the flags of the types*)
(* that hold it and the 64 bits that they share; a string is Const, Short  *)
(* (in the value itself) or a Copy; the last of these, an array and an     *)
(* object own a block of memory, id, 0 when there is none.  A heap is the  *)
(* next id and the sequence of the ids that were freed: the allocator is   *)
(* one with kNeedFree, for with the pool a destructor does nothing.        *)
(***************************************************************************)
EXTENDS Integers, Sequences, FiniteSets, SequencesExt, FiniteSetsExt

CONSTANTS
    Bits,               \* of int and unsigned: 32
    Precision,          \* of a double: 53
    MaxSize,            \* of a ShortString: 13
    DefaultCapacity     \* of arrays and objects: 16

-----------------------------------------------------------------------------
(* Numbers.                                                                *)

Wide == 2^(2 * Bits)
AsSigned(raw, bits) == IF raw >= 2^(bits - 1) THEN raw - 2^bits ELSE raw

\* An integer as a double: external, the rounding of IEEE 754.
ToDouble(n) ==
    LET m == IF n < 0 THEN -n ELSE n
        e == Min({k \in 0 .. 2 * Bits : m < 2^(Precision + k)})
        unit == 2^e
        low == m % unit
        up == 2 * low > unit \/ (2 * low = unit /\ (m \div unit) % 2 = 1)
        r == IF up THEN m - low + unit ELSE m - low
    IN  IF n < 0 THEN -r ELSE r

Number(flags, raw) == [t |-> "Number", flags |-> flags, raw |-> raw]
OfInt(i) ==
    Number({"Int", "Int64"} \cup (IF i >= 0 THEN {"Uint", "Uint64"} ELSE {}), i % Wide)
OfUint(u) ==
    Number({"Uint", "Uint64", "Int64"} \cup (IF u < 2^(Bits - 1) THEN {"Int"} ELSE {}), u)
\* The bit of the sign of an int taken for one of its value (a mutant).
OfInt64Wrong(i) ==
    Number({"Int64"} \cup (IF i >= 0 THEN {"Uint64"} ELSE {})
           \cup (IF i \in 0 .. 2^Bits - 1 THEN {"Uint", "Int"} ELSE {})
           \cup (IF i < 0 /\ i >= -(2^(Bits - 1)) THEN {"Int"} ELSE {}), i % Wide)
OfInt64(i) ==
    Number({"Int64"} \cup (IF i >= 0 THEN {"Uint64"} ELSE {})
           \cup (IF i \in 0 .. 2^Bits - 1 THEN {"Uint"} ELSE {})
           \cup (IF i \in 0 .. 2^(Bits - 1) - 1 THEN {"Int"} ELSE {})
           \cup (IF i < 0 /\ i >= -(2^(Bits - 1)) THEN {"Int"} ELSE {}), i % Wide)
OfUint64(u) ==
    Number({"Uint64"} \cup (IF u < Wide \div 2 THEN {"Int64"} ELSE {})
           \cup (IF u < 2^Bits THEN {"Uint"} ELSE {})
           \cup (IF u < 2^(Bits - 1) THEN {"Int"} ELSE {}), u)
OfDouble(d, p) == Number({"Double"}, <<d, p>>)

IsDouble(v) == "Double" \in v.flags
GetInt(v) == AsSigned(v.raw % 2^Bits, Bits)
GetUint(v) == v.raw % 2^Bits
GetInt64(v) == AsSigned(v.raw, 2 * Bits)
GetUint64(v) == v.raw
GetDouble(v) ==
    IF IsDouble(v) THEN v.raw
    ELSE <<ToDouble(CASE "Int" \in v.flags -> GetInt(v)
                      [] "Int" \notin v.flags /\ "Uint" \in v.flags -> GetUint(v)
                      [] v.flags \cap {"Int", "Uint"} = {} /\ "Int64" \in v.flags -> GetInt64(v)
                      [] OTHER -> GetUint64(v)), 0>>

SameDouble(a, b) ==
    LET p == Min({a[2], b[2]}) IN a[1] * 10^(a[2] - p) = b[1] * 10^(b[2] - p)

IsLosslessDouble(v) ==
    CASE "Uint64" \in v.flags ->
             LET d == ToDouble(GetUint64(v)) IN d < ToDouble(Wide - 1) /\ d = GetUint64(v)
      [] "Uint64" \notin v.flags /\ "Int64" \in v.flags ->
             LET d == ToDouble(GetInt64(v))
             IN  d >= ToDouble(-(Wide \div 2)) /\ d < ToDouble(Wide \div 2 - 1) /\ d = GetInt64(v)
      [] OTHER -> TRUE

-----------------------------------------------------------------------------
(* The other values, and the memory that they own.                         *)

Heap == [next |-> 1, freed |-> <<>>]
Allocated(h) == [h EXCEPT !.next = @ + 1]
Freed(h, ids) == [h EXCEPT !.freed = @ \o SelectSeq(ids, LAMBDA n : n # 0)]

Null == [t |-> "Null"]
Bool(b) == [t |-> "Bool", b |-> b]
EmptyArray == [t |-> "Array", elems |-> <<>>, capacity |-> 0, id |-> 0]
EmptyObject == [t |-> "Object", members |-> <<>>, capacity |-> 0, id |-> 0]
Pair(name, value) == [name |-> name, value |-> value]

ConstString(s) == [t |-> "String", kind |-> "Const", s |-> s, id |-> 0]
Usable(length) == length <= MaxSize
\* SetStringRaw with an allocator: <<heap, string>>.
CopyString(h, s) ==
    IF Usable(Len(s)) THEN <<h, [t |-> "String", kind |-> "Short", s |-> s, id |-> 0]>>
    ELSE <<Allocated(h), [t |-> "String", kind |-> "Copy", s |-> s, id |-> h.next]>>

\* The blocks that the destructor of v frees, elements and members first.
RECURSIVE Blocks(_)
Blocks(v) ==
    CASE v.t = "Array" -> FlattenSeq([k \in DOMAIN v.elems |-> Blocks(v.elems[k])]) \o <<v.id>>
      [] v.t = "Object" ->
             FlattenSeq([k \in DOMAIN v.members |->
                 Blocks(v.members[k].value) \o Blocks(v.members[k].name)]) \o <<v.id>>
      [] v.t = "String" -> <<v.id>>
      [] OTHER -> <<>>
Destroy(h, v) == Freed(h, Blocks(v))
DestroyAll(h, vs) == FoldLeft(Destroy, h, vs)
DestroyMembers(h, ms) == FoldLeft(LAMBDA g, m : Destroy(Destroy(g, m.value), m.name), h, ms)

\* The copy constructor with an allocator: <<heap, copy>>.
RECURSIVE CopyOf(_, _, _)
CopyOf(h, v, copyConstStrings) ==
    LET Block(g, count) == IF count = 0 THEN <<g, 0>> ELSE <<Allocated(g), g.next>>
        AddTo(acc, e) == LET c == CopyOf(acc[1], e, copyConstStrings)
                         IN  <<c[1], Append(acc[2], c[2])>>
        AddMemberTo(acc, m) ==
            LET n == CopyOf(acc[1], m.name, copyConstStrings)
                c == CopyOf(n[1], m.value, copyConstStrings)
            IN  <<c[1], Append(acc[2], Pair(n[2], c[2]))>>
    IN  CASE v.t = "Array" ->
                 LET b == Block(h, Len(v.elems))
                     e == FoldLeft(AddTo, <<b[1], <<>>>>, v.elems)
                 IN  <<e[1], [v EXCEPT !.elems = e[2], !.capacity = Len(e[2]), !.id = b[2]]>>
          [] v.t = "Object" ->
                 LET b == Block(h, Len(v.members))
                     e == FoldLeft(AddMemberTo, <<b[1], <<>>>>, v.members)
                 IN  <<e[1], [v EXCEPT !.members = e[2], !.capacity = Len(e[2]), !.id = b[2]]>>
          [] v.t = "String" /\ (v.kind # "Const" \/ copyConstStrings) -> CopyString(h, v.s)
          [] OTHER -> <<h, v>>

-----------------------------------------------------------------------------
(* Arrays and objects: each operation gives <<heap, value>>.               *)

Grown(capacity) ==
    IF capacity = 0 THEN DefaultCapacity ELSE capacity + (capacity + 1) \div 2

\* Realloc keeps the block that there is, under its id, or makes one.
Reserve(h, v, newCapacity) ==
    IF newCapacity <= v.capacity THEN <<h, v>>
    ELSE IF v.id # 0 THEN <<h, [v EXCEPT !.capacity = newCapacity]>>
    ELSE <<Allocated(h), [v EXCEPT !.capacity = newCapacity, !.id = h.next]>>

PushBack(h, v, value) ==
    LET r == IF Len(v.elems) >= v.capacity THEN Reserve(h, v, Grown(v.capacity)) ELSE <<h, v>>
    IN  <<r[1], [r[2] EXCEPT !.elems = Append(@, value)]>>
PopBack(h, v) == <<Destroy(h, Last(v.elems)), [v EXCEPT !.elems = Front(@)]>>
Clear(h, v) == <<DestroyAll(h, v.elems), [v EXCEPT !.elems = <<>>]>>
\* Erase the elements from first up to last, not included.
Erase(h, v, first, last) ==
    <<DestroyAll(h, SubSeq(v.elems, first, last - 1)),
      [v EXCEPT !.elems = SubSeq(@, 1, first - 1) \o SubSeq(@, last, Len(@))]>>

StringEqual(a, b) == Len(a.s) = Len(b.s) /\ a.s = b.s
\* The index of the first member of that name, or the end.
FindMember(v, name) ==
    Min({Len(v.members) + 1} \cup
        {k \in DOMAIN v.members : StringEqual(name, v.members[k].name)})
HasMember(v, name) == FindMember(v, name) <= Len(v.members)

AddMember(h, v, name, value) ==
    LET r == IF Len(v.members) >= v.capacity THEN Reserve(h, v, Grown(v.capacity)) ELSE <<h, v>>
    IN  <<r[1], [r[2] EXCEPT !.members = Append(@, Pair(name, value))]>>
RemoveAllMembers(h, v) == <<DestroyMembers(h, v.members), [v EXCEPT !.members = <<>>]>>
\* The last member takes the place of the one that goes, which is destroyed
\* by the assignment.
RemoveMoving(h, v, m) ==
    <<DestroyMembers(h, <<v.members[m]>>),
      [v EXCEPT !.members = Front([@ EXCEPT ![m] = Last(v.members)])]>>
EraseMembers(h, v, first, last) ==
    <<DestroyMembers(h, SubSeq(v.members, first, last - 1)),
      [v EXCEPT !.members = SubSeq(@, 1, first - 1) \o SubSeq(@, last, Len(@))]>>
RemoveMember(h, v, name) ==
    IF HasMember(v, name) THEN RemoveMoving(h, v, FindMember(v, name)) ELSE <<h, v>>
EraseMember(h, v, name) ==
    LET m == FindMember(v, name) IN
    IF HasMember(v, name) THEN EraseMembers(h, v, m, m + 1) ELSE <<h, v>>

-----------------------------------------------------------------------------
(* Two values of a program, and an operation on the first; the one given   *)
(* to it is the second, and is Null after it has been taken.  A state is   *)
(* [heap, a, b]; an operation whose assertion fails is not called.         *)

Change(st, r) == [st EXCEPT !.heap = r[1], !.a = r[2]]
SetTo(st, v) == [st EXCEPT !.heap = Destroy(@, st.a), !.a = v]
SetString(st, s) ==
    LET c == CopyString(Destroy(st.heap, st.a), s) IN Change(st, c)

\* operator=: what was in the target is destroyed, what was in the source is
\* given up; onto itself it is nothing.
Assign(st) == [st EXCEPT !.heap = Destroy(@, st.a), !.a = st.b, !.b = Null]
Swap(st) == [st EXCEPT !.a = st.b, !.b = st.a]
CopyFrom(st, copyConstStrings) ==
    LET c == CopyOf(Destroy(st.heap, st.a), st.b, copyConstStrings) IN Change(st, c)

Taking(st, r) == [st EXCEPT !.heap = r[1], !.a = r[2], !.b = Null]

Operate(st, o) ==
    LET v == st.a
        array == v.t = "Array"
        object == v.t = "Object"
        named == IF object THEN CopyString(st.heap, o[2]) ELSE <<st.heap, Null>>
    IN  CASE o[1] = "Set" -> SetTo(st, o[2])
          [] o[1] = "SetString" -> SetString(st, o[2])
          [] o[1] = "Assign" -> Assign(st)
          [] o[1] = "Swap" -> Swap(st)
          [] o[1] = "CopyFrom" -> CopyFrom(st, o[2])
          [] o[1] = "Reserve" /\ (array \/ object) -> Change(st, Reserve(st.heap, v, o[2]))
          [] o[1] = "PushBack" /\ array -> Taking(st, PushBack(st.heap, v, st.b))
          [] o[1] = "PopBack" /\ array /\ v.elems # <<>> -> Change(st, PopBack(st.heap, v))
          [] o[1] = "Erase" /\ array /\ v.elems # <<>> /\ o[3] <= Len(v.elems) + 1 ->
                 Change(st, Erase(st.heap, v, o[2], o[3]))
          [] o[1] = "Clear" /\ array -> Change(st, Clear(st.heap, v))
          [] o[1] = "Clear" /\ object -> Change(st, RemoveAllMembers(st.heap, v))
          [] o[1] = "AddMember" /\ object -> Taking(st, AddMember(named[1], v, named[2], st.b))
          [] o[1] = "RemoveMember" /\ object ->
                 Change(st, RemoveMember(st.heap, v, ConstString(o[2])))
          [] o[1] = "EraseMember" /\ object ->
                 Change(st, EraseMember(st.heap, v, ConstString(o[2])))
          [] OTHER -> st

-----------------------------------------------------------------------------
(* Comparison.                                                             *)

RECURSIVE Equal(_, _)
Equal(v, w) ==
    /\ v.t = w.t
    /\ CASE v.t = "Object" ->
                /\ Len(v.members) = Len(w.members)
                /\ \A k \in DOMAIN v.members :
                       /\ HasMember(w, v.members[k].name)
                       /\ Equal(v.members[k].value, w.members[FindMember(w, v.members[k].name)].value)
         [] v.t = "Array" -> Len(v.elems) = Len(w.elems)
                             /\ \A k \in DOMAIN v.elems : Equal(v.elems[k], w.elems[k])
         [] v.t = "String" -> StringEqual(v, w)
         [] v.t = "Number" -> IF IsDouble(v) \/ IsDouble(w) THEN SameDouble(GetDouble(v), GetDouble(w))
                              ELSE v.raw = w.raw
         [] v.t = "Bool" -> v.b = w.b
         [] OTHER -> TRUE

-----------------------------------------------------------------------------
(* Visiting a value, and building a document.                              *)

NumberEvent(v) ==
    CASE IsDouble(v) -> <<"Double", v.raw[1], v.raw[2]>>
      [] ~IsDouble(v) /\ "Int" \in v.flags -> <<"Int", GetInt(v)>>
      [] v.flags \cap {"Double", "Int"} = {} /\ "Uint" \in v.flags -> <<"Uint", GetUint(v)>>
      [] v.flags \cap {"Double", "Int", "Uint"} = {} /\ "Int64" \in v.flags -> <<"Int64", GetInt64(v)>>
      [] OTHER -> <<"Uint64", GetUint64(v)>>

\* The events that Accept gives to a handler that never refuses one.
RECURSIVE Accept(_)
Accept(v) ==
    CASE v.t = "Object" ->
             <<<<"StartObject">>>>
             \o FlattenSeq([k \in DOMAIN v.members |->
                    <<<<"Key", v.members[k].name.s>>>> \o Accept(v.members[k].value)])
             \o <<<<"EndObject", Len(v.members)>>>>
      [] v.t = "Array" ->
             <<<<"StartArray">>>> \o FlattenSeq([k \in DOMAIN v.elems |-> Accept(v.elems[k])])
             \o <<<<"EndArray", Len(v.elems)>>>>
      [] v.t = "String" -> <<<<"String", v.s>>>>
      [] v.t = "Number" -> <<NumberEvent(v)>>
      [] v.t = "Bool" -> <<<<"Bool", v.b>>>>
      [] OTHER -> <<<<"Null">>>>

\* A document: its value, the stack of the values read so far, and the heap.
Document == [heap |-> Heap, value |-> Null, stack |-> <<>>]

PushValue(d, v) == [d EXCEPT !.stack = Append(@, v)]
PushString(d, s) ==
    LET c == CopyString(d.heap, s) IN [d EXCEPT !.heap = c[1], !.stack = Append(@, c[2])]
Popped(d, n) == SubSeq(d.stack, 1, Len(d.stack) - n)
TopOf(d, n) == SubSeq(d.stack, Len(d.stack) - n + 1, Len(d.stack))
\* The top of the stack becomes the array or the object of what was above it.
SetRaw(d, n, v) ==
    LET below == Popped(d, n)
        owned == IF v.capacity = 0 THEN v ELSE [v EXCEPT !.id = d.heap.next]
    IN  [d EXCEPT !.heap = IF v.capacity = 0 THEN @ ELSE Allocated(@),
                  !.stack = Append(Front(below), owned)]
EndArray(d, count) ==
    SetRaw(d, count, [EmptyArray EXCEPT !.elems = TopOf(d, count), !.capacity = count])
EndObject(d, count) ==
    LET top == TopOf(d, 2 * count) IN
    SetRaw(d, 2 * count, [EmptyObject EXCEPT !.capacity = count,
               !.members = [k \in 1 .. count |-> Pair(top[2 * k - 1], top[2 * k])]])

Handle(d, e) ==
    CASE e[1] = "Null" -> PushValue(d, Null)
      [] e[1] = "Bool" -> PushValue(d, Bool(e[2]))
      [] e[1] = "Int" -> PushValue(d, OfInt(e[2]))
      [] e[1] = "Uint" -> PushValue(d, OfUint(e[2]))
      [] e[1] = "Int64" -> PushValue(d, OfInt64(e[2]))
      [] e[1] = "Uint64" -> PushValue(d, OfUint64(e[2]))
      [] e[1] = "Double" -> PushValue(d, OfDouble(e[2], e[3]))
      [] e[1] \in {"String", "Key"} -> PushString(d, e[2])
      [] e[1] = "StartObject" -> PushValue(d, EmptyObject)
      [] e[1] = "StartArray" -> PushValue(d, EmptyArray)
      [] e[1] = "EndObject" -> EndObject(d, e[2])
      [] e[1] = "EndArray" -> EndArray(d, e[2])

\* ClearStackOnExit: what a failed parse left is destroyed.
ClearStack(d) == [d EXCEPT !.heap = DestroyAll(@, Reverse(d.stack)), !.stack = <<>>]

\* ParseStream with what the reader told: the value changes only if the parse
\* went well.
ParseStream(d, events, failed) ==
    LET told == FoldLeft(Handle, d, events) IN
    IF failed THEN ClearStack(told)
    ELSE ClearStack([told EXCEPT !.heap = Destroy(@, told.value), !.value = Last(told.stack),
                                 !.stack = Front(@)])

-----------------------------------------------------------------------------
(* What is asked of them.                                                  *)

BagOf(s) == [e \in ToSet(s) |-> Cardinality({k \in DOMAIN s : s[k] = e})]

\* A number has the flags of exactly the types that hold it, whatever it was
\* made from; each gives it back, and a double does if it says so.
HoldsNumber(n) ==
    LET int == -(2^(Bits - 1)) .. 2^(Bits - 1) - 1
        types == (IF n \in int THEN {"Int"} ELSE {})
                 \cup (IF n \in 0 .. 2^Bits - 1 THEN {"Uint"} ELSE {})
                 \cup (IF n < Wide \div 2 THEN {"Int64"} ELSE {})
                 \cup (IF n >= 0 THEN {"Uint64"} ELSE {})
        Made(f) == CASE f = "Int" -> OfInt(n) [] f = "Uint" -> OfUint(n)
                     [] f = "Int64" -> OfInt64(n) [] f = "Uint64" -> OfUint64(n)
    IN  \A v \in {Made(f) : f \in types} :
            /\ v.flags = types
            /\ "Int" \in types => GetInt(v) = n
            /\ "Uint" \in types => GetUint(v) = n
            /\ "Int64" \in types => GetInt64(v) = n
            /\ "Uint64" \in types => GetUint64(v) = n
            /\ GetDouble(v) = <<ToDouble(n), 0>>
            /\ IsLosslessDouble(v) <=> ToDouble(n) = n

\* Each block that was allocated is owned by one value, or was freed once:
\* nothing leaks, nothing is freed twice, whatever the operations on two
\* values that move, copy, grow and shrink.  A container keeps within its
\* capacity, and the members that a removal leaves are the others.
OwnedOnce(ids, heap) == ToSet(ids) = 1 .. heap.next - 1 /\ Len(ids) = heap.next - 1
WithoutMember(members, k, kept, moves) ==
    LET order == SubSeq(members, 1, k - 1) \o SubSeq(members, k + 1, Len(members))
    IN  IF k > Len(members) THEN kept = members
        ELSE IF moves THEN BagOf(kept) = BagOf(order) ELSE kept = order
Sound(st) ==
    /\ OwnedOnce(SelectSeq(Blocks(st.a) \o Blocks(st.b), LAMBDA n : n # 0) \o st.heap.freed, st.heap)
    /\ st.a.t = "Array" => Len(st.a.elems) <= st.a.capacity
    /\ st.a.t = "Object" => Len(st.a.members) <= st.a.capacity
SoundAfter(before, last, st) ==
    /\ Sound(st)
    /\ (last[1] \in {"RemoveMember", "EraseMember"} /\ st.a.t = "Object") =>
           WithoutMember(before.a.members, FindMember(before.a, ConstString(last[2])), st.a.members,
                         last[1] = "RemoveMember")
StepFrom(before, last) == SoundAfter(before, last, Operate(before, last))
OwnsOnce(ops) ==
    StepFrom(FoldLeft(Operate, [heap |-> Heap, a |-> Null, b |-> Null], Front(ops)), Last(ops))

\* The JSON value, without the ways of writing it.
RECURSIVE Meaning(_)
Meaning(v) ==
    CASE v.t = "Object" ->
             <<"Object", BagOf([k \in DOMAIN v.members |->
                 <<v.members[k].name.s, Meaning(v.members[k].value)>>])>>
      [] v.t = "Array" -> <<"Array", [k \in DOMAIN v.elems |-> Meaning(v.elems[k])]>>
      [] v.t = "String" -> <<"String", v.s>>
      [] v.t = "Number" -> <<"Number", IF IsDouble(v) THEN <<"Double", v.raw>>
                                       ELSE <<"Int", IF "Uint64" \in v.flags THEN v.raw ELSE v.raw - Wide>>>>
      [] v.t = "Bool" -> <<"Bool", v.b>>
      [] OTHER -> <<"Null">>

RECURSIVE Unique(_)
Unique(v) ==
    CASE v.t = "Object" -> /\ \A j, k \in DOMAIN v.members :
                                  v.members[j].name.s = v.members[k].name.s => j = k
                           /\ \A k \in DOMAIN v.members : Unique(v.members[k].value)
      [] v.t = "Array" -> \A k \in DOMAIN v.elems : Unique(v.elems[k])
      [] OTHER -> TRUE

\* Two values without doubles are equal if and only if they mean the same,
\* but that a negative integer is taken for the unsigned one of the same bits
\* (document.h:969).  With two members of one name the comparison depends on
\* its side, and may hold, though document.h:931 says that it is false.
ComparesMeanings(v, w, pun) ==
    /\ Unique(v) => Equal(v, v) /\ Equal(CopyOf(Heap, v, FALSE)[2], v)
    /\ (Unique(v) /\ Unique(w) /\ ~pun) => (Equal(v, w) <=> Meaning(v) = Meaning(w))
    /\ (Unique(v) /\ Unique(w)) => (Equal(v, w) <=> Equal(w, v))
    /\ Meaning(CopyOf(Heap, v, TRUE)[2]) = Meaning(v)

\* The document that is built from the events of a value means that value, and
\* gives its events when it is visited, a number as the narrowest type.  A
\* parse that fails leaves the document as it was; neither leaves memory.
KeepsTheFirst(v, one, two, whole) ==
    /\ Meaning(one.value) = Meaning(v)
    /\ ~whole => two.value = one.value
    /\ Meaning(two.value) = Meaning(v) /\ two.stack = <<>>
    /\ OwnedOnce(SelectSeq(Blocks(two.value), LAMBDA n : n # 0) \o two.heap.freed, two.heap)
ThenParses(v, one, events, cut) ==
    /\ Accept(one.value) = events
    /\ KeepsTheFirst(v, one, ParseStream(one, SubSeq(events, 1, cut), cut < Len(events)),
                     cut = Len(events))
BuiltOf(v, events, cut) == ThenParses(v, ParseStream(Document, events, FALSE), events, cut)
BuildsWhatIsTold(v, cut) == BuiltOf(v, Accept(v), cut)
=============================================================================
