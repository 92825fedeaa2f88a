----------------------------- MODULE JsonProofs -----------------------------
(***************************************************************************)
(* Proofs about the JSON library: JsonRecursive, for texts of any length   *)
(* and of any depth, and JsonEncodings, for all sequences of bytes and of  *)
(* code units.                                                             *)
(***************************************************************************)
EXTENDS JsonRecursive, JsonCharacters, SequenceTheorems, FiniteSetTheorems,
        WellFoundedInduction, TLAPS

-----------------------------------------------------------------------------
(* One call.                                                               *)

LEMMA CallFields ==
    ASSUME NEW c \in Calls
    PROVE  /\ c.type \in {"Root", "Object", "Array"}
           /\ c.count \in Nat
           /\ c.place \in {"first", "colon", "value", "next", "comma", "end"}
           /\ c = [type |-> c.type, count |-> c.count, place |-> c.place]
BY DEF Calls

LEMMA ValuesAreNat ==
    ASSUME NEW c \in Calls
    PROVE  /\ Values(c) \in Nat /\ Names(c) \in Nat
           /\ Names(c) = 0 \/ 2 * Names(c) - 1 <= Values(c)
BY CallFields DEF Values, Names

LEMMA PlacesOfCalls ==
    ASSUME NEW c \in Calls
    PROVE  IsCall(c) <=>
              /\ c.type = "Root" => c.place \in {"value", "end"}
              /\ c.type = "Object" => c.place \in {"first", "colon", "value", "next", "comma"}
              /\ c.type = "Array" => c.place \in {"first", "value", "next", "comma"}
              /\ c.place = "first" => c.count = 0
              /\ c.place = "next" => c.count > 0
<1>1. CASE c.type = "Root"
  BY <1>1 DEF IsCall, PlacesOf
<1>2. CASE c.type = "Object"
  BY <1>2 DEF IsCall, PlacesOf
<1>3. CASE c.type = "Array"
  BY <1>3 DEF IsCall, PlacesOf
<1> QED
  BY <1>1, <1>2, <1>3, CallFields

\* A call that moves to another place.
LEMMA MovedCall ==
    ASSUME NEW c \in Calls,
           NEW p \in {"first", "colon", "value", "next", "comma", "end"}
    PROVE  /\ [c EXCEPT !.place = p] \in Calls
           /\ [c EXCEPT !.place = p] = [type |-> c.type, count |-> c.count, place |-> p]
BY DEF Calls

\* ParseValue returns to a call.
LEMMA ReturnedCall ==
    ASSUME NEW c \in Calls
    PROVE  /\ WithValue(c) \in Calls
           /\ WithValue(c) = IF c.type = "Root"
                             THEN [type |-> c.type, count |-> c.count, place |-> "end"]
                             ELSE [type |-> c.type, count |-> c.count + 1, place |-> "next"]
<1>1. CASE c.type = "Root"
  <2>1. WithValue(c) = [c EXCEPT !.place = "end"]
    BY <1>1 DEF WithValue
  <2> QED
    BY <1>1, <2>1, MovedCall
<1>2. CASE c.type # "Root"
  BY <1>2, CallFields DEF WithValue, Calls
<1> QED
  BY <1>1, <1>2

-----------------------------------------------------------------------------
(* The values of one call.                                                 *)

LEMMA SameHolds ==
    ASSUME NEW c \in Calls, NEW d, NEW e, NEW b \in Nat, Holds(c, d, b),
           \A k \in 1 .. b + Values(c) : e[k] = d[k]
    PROVE  Holds(c, e, b)
<1>1. Values(c) \in Nat /\ Names(c) \in Nat /\ (Names(c) = 0 \/ 2 * Names(c) - 1 <= Values(c))
  BY ValuesAreNat
<1>2. c.type # "Root" => b >= 1 /\ e[b] = Started(c.type)
  BY <1>1 DEF Holds
<1>3. AreWhole(e, b + 1, b + Values(c))
  BY <1>1 DEF Holds, AreWhole
<1>4. ASSUME NEW k \in 1 .. Names(c)
      PROVE  e[b + 2 * k - 1].type = "String"
  <2>1. b + 2 * k - 1 \in 1 .. b + Values(c)
    BY <1>1
  <2>2. d[b + 2 * k - 1].type = "String"
    BY DEF Holds
  <2> QED
    BY <2>1, <2>2
<1> QED
  BY <1>2, <1>3, <1>4 DEF Holds

\* A call c that has become f holds the value v too.
Gets(c, f, v) ==
    /\ f.type = c.type
    /\ Values(f) = Values(c) + 1
    /\ \/ Names(f) = Names(c)
       \/ Names(f) = Names(c) + 1 /\ v.type = "String" /\ 2 * Names(c) = Values(c)

LEMMA HoldsOneMore ==
    ASSUME NEW c \in Calls, NEW f \in Calls, NEW v, v.whole, Gets(c, f, v),
           NEW d, NEW b \in Nat, Holds(c, d, b), d[b + Values(c) + 1] = v
    PROVE  Holds(f, d, b)
<1>1. Values(c) \in Nat /\ Names(c) \in Nat
  BY ValuesAreNat
<1>2. f.type # "Root" => b >= 1 /\ d[b] = Started(f.type)
  BY DEF Holds, Gets
<1>3. AreWhole(d, b + 1, b + Values(f))
  <2>1. ASSUME NEW k \in b + 1 .. b + Values(f)
        PROVE  d[k].whole
    <3>1. k \in b + 1 .. b + Values(c) \/ k = b + Values(c) + 1
      BY <1>1 DEF Gets
    <3> QED
      BY <3>1 DEF Holds, AreWhole
  <2> QED
    BY <2>1 DEF AreWhole
<1>4. ASSUME NEW k \in 1 .. Names(f)
      PROVE  d[b + 2 * k - 1].type = "String"
  <2>1. CASE k \in 1 .. Names(c)
    BY <2>1 DEF Holds
  <2>2. CASE k \notin 1 .. Names(c)
    <3>1. k = Names(c) + 1 /\ v.type = "String" /\ 2 * Names(c) = Values(c)
      BY <1>1, <2>2 DEF Gets
    <3>2. b + 2 * k - 1 = b + Values(c) + 1
      BY <1>1, <3>1
    <3> QED
      BY <3>1, <3>2
  <2> QED
    BY <2>1, <2>2
<1> QED
  BY <1>2, <1>3, <1>4 DEF Holds

\* A call that ParseValue returns to has the value.
LEMMA ReturnedValue ==
    ASSUME NEW c \in Calls, IsCall(c),
           \/ c.place = "value"
           \/ c.type = "Array" /\ c.place \in {"first", "comma"},
           NEW v
    PROVE  /\ WithValue(c) \in Calls /\ IsCall(WithValue(c)) /\ Gets(c, WithValue(c), v)
           /\ WithValue(c).type = c.type
           /\ WithValue(c).place = IF c.type = "Root" THEN "end" ELSE "next"
           /\ WithValue(c).place # "value"
<1> DEFINE f == WithValue(c)
<1>1. f \in Calls
  BY ReturnedCall
<1>2. f = IF c.type = "Root" THEN [type |-> c.type, count |-> c.count, place |-> "end"]
          ELSE [type |-> c.type, count |-> c.count + 1, place |-> "next"]
  BY ReturnedCall
<1>3. /\ c.type \in {"Root", "Object", "Array"} /\ c.count \in Nat
      /\ c.type = "Root" => c.place = "value"
      /\ c.type = "Object" => c.place = "value"
      /\ c.place \in {"first", "value", "comma"}
  BY CallFields, PlacesOfCalls
<1> HIDE DEF f
<1>4. IsCall(f)
  BY <1>1, <1>2, <1>3, PlacesOfCalls
<1>5. Gets(c, f, v)
  BY <1>2, <1>3 DEF Gets, Values, Names
<1> QED
  BY <1>1, <1>2, <1>3, <1>4, <1>5 DEF f

-----------------------------------------------------------------------------
(* The document of all calls.                                              *)

\* What is laid out, in numbers.
LEMMA LaidOutParts ==
    ASSUME NEW cs \in Seq(Calls), Len(cs) > 0, NEW d \in Seq(Json), NEW base,
           LaidOut(cs, d, base)
    PROVE  /\ Len(cs) \in Nat /\ Len(d) \in Nat
           /\ \A i \in 1 .. Len(cs) :
                 /\ cs[i] \in Calls /\ Values(cs[i]) \in Nat
                 /\ base[i] \in Nat /\ base[i] + Values(cs[i]) <= Len(d)
                 /\ i < Len(cs) => base[i] + Values(cs[i]) < base[Len(cs)]
<1>1. Len(cs) \in Nat /\ Len(d) \in Nat
  OBVIOUS
<1>2. ASSUME NEW i \in 1 .. Len(cs)
      PROVE  /\ cs[i] \in Calls /\ Values(cs[i]) \in Nat
             /\ base[i] \in Nat /\ base[i] + Values(cs[i]) <= Len(d)
             /\ i < Len(cs) => base[i] + Values(cs[i]) < base[Len(cs)]
  <2>1. cs[i] \in Calls /\ cs[Len(cs)] \in Calls
    OBVIOUS
  <2>2. Values(cs[i]) \in Nat /\ Values(cs[Len(cs)]) \in Nat
    BY <2>1, ValuesAreNat
  <2>3. base[i] \in Nat /\ base[Len(cs)] \in Nat
    BY <1>1 DEF LaidOut
  <2>4. i < Len(cs) => base[i] + Values(cs[i]) < base[Len(cs)]
    BY <1>1 DEF LaidOut
  <2>5. Len(d) = base[Len(cs)] + Values(cs[Len(cs)])
    BY DEF LaidOut
  <2>6. base[i] + Values(cs[i]) <= Len(d)
    BY <1>1, <2>2, <2>3, <2>4, <2>5
  <2> QED
    BY <2>1, <2>2, <2>3, <2>4, <2>6
<1> QED
  BY <1>1, <1>2

\* The last call changes, and keeps its values.
LEMMA LayoutKept ==
    ASSUME NEW cs \in Seq(Calls), Len(cs) > 0, NEW d \in Seq(Json), NEW base,
           LaidOut(cs, d, base), NEW f \in Calls,
           f.type = cs[Len(cs)].type, Values(f) = Values(cs[Len(cs)]),
           Names(f) = Names(cs[Len(cs)])
    PROVE  LaidOut([cs EXCEPT ![Len(cs)] = f], d, base)
<1> DEFINE es == [cs EXCEPT ![Len(cs)] = f]
<1>1. /\ Len(es) = Len(cs) /\ Len(cs) \in Nat
      /\ \A i \in 1 .. Len(cs) : es[i] = IF i = Len(cs) THEN f ELSE cs[i]
  OBVIOUS
<1> HIDE DEF es
<1>2. \A i \in 1 .. Len(cs) : /\ es[i].type = cs[i].type /\ Values(es[i]) = Values(cs[i])
                              /\ Names(es[i]) = Names(cs[i])
  BY <1>1
<1>3. \A i \in 1 .. Len(cs) : Holds(es[i], d, base[i])
  BY <1>2 DEF LaidOut, Holds
<1>4. LaidOut(es, d, base)
  BY <1>1, <1>2, <1>3 DEF LaidOut
<1> QED
  BY <1>4 DEF es

\* The last call gets one value more.
LEMMA LayoutGrows ==
    ASSUME NEW cs \in Seq(Calls), Len(cs) > 0, NEW d \in Seq(Json), NEW base,
           LaidOut(cs, d, base), NEW f \in Calls, NEW v \in Json, v.whole,
           Gets(cs[Len(cs)], f, v)
    PROVE  LaidOut([cs EXCEPT ![Len(cs)] = f], Append(d, v), base)
<1> DEFINE es == [cs EXCEPT ![Len(cs)] = f]
           e == Append(d, v)
<1>1. /\ Len(es) = Len(cs)
      /\ \A i \in 1 .. Len(cs) : es[i] = IF i = Len(cs) THEN f ELSE cs[i]
  OBVIOUS
<1>2. Len(e) = Len(d) + 1 /\ e[Len(d) + 1] = v /\ \A k \in 1 .. Len(d) : e[k] = d[k]
  OBVIOUS
<1> HIDE DEF es, e
<1>3. /\ Len(cs) \in Nat /\ Len(d) \in Nat
      /\ \A i \in 1 .. Len(cs) :
                 /\ cs[i] \in Calls /\ Values(cs[i]) \in Nat
                 /\ base[i] \in Nat /\ base[i] + Values(cs[i]) <= Len(d)
                 /\ i < Len(cs) => base[i] + Values(cs[i]) < base[Len(cs)]
  BY LaidOutParts
<1>4. ASSUME NEW i \in 1 .. Len(cs)
      PROVE  Holds(cs[i], e, base[i])
  <2>1. Holds(cs[i], d, base[i])
    BY DEF LaidOut
  <2>2. \A k \in 1 .. base[i] + Values(cs[i]) : e[k] = d[k]
    BY <1>2, <1>3
  <2> QED
    BY <1>3, <2>1, <2>2, SameHolds
<1>5. /\ Len(d) = base[Len(cs)] + Values(cs[Len(cs)])
      /\ Values(f) = Values(cs[Len(cs)]) + 1 /\ f.type = cs[Len(cs)].type
  BY DEF LaidOut, Gets
<1>6. Holds(f, e, base[Len(cs)])
  BY <1>2, <1>3, <1>4, <1>5, HoldsOneMore
<1>7. \A i \in 1 .. Len(es) : Holds(es[i], e, base[i])
  BY <1>1, <1>4, <1>6
<1>8. base \in [1 .. Len(es) -> 0 .. Len(e)] /\ base[1] = 0
  BY <1>1, <1>2, <1>3 DEF LaidOut
<1>9. Len(e) = base[Len(es)] + Values(es[Len(es)])
  BY <1>1, <1>2, <1>3, <1>5
<1>10. /\ \A i \in 1 .. Len(es) - 1 : base[i + 1] = base[i] + Values(es[i]) + 1
       /\ \A i, j \in 1 .. Len(es) : i < j => base[i] + Values(es[i]) < base[j]
  <2>1. \A i \in 1 .. Len(cs) : i < Len(cs) => es[i] = cs[i]
    BY <1>1, <1>3
  <2>2. \A i \in 1 .. Len(cs) - 1 : es[i] = cs[i] /\ base[i + 1] = base[i] + Values(cs[i]) + 1
    BY <1>3, <2>1 DEF LaidOut
  <2>3. \A i, j \in 1 .. Len(cs) :
           i < j => es[i] = cs[i] /\ base[i] + Values(cs[i]) < base[j]
    BY <1>3, <2>1 DEF LaidOut
  <2> QED
    BY <1>1, <2>2, <2>3
<1>11. LaidOut(es, e, base)
  BY <1>7, <1>8, <1>9, <1>10 DEF LaidOut
<1> QED
  BY <1>11 DEF es, e

\* The last call calls ParseValue, which starts a container.
LEMMA LayoutOpens ==
    ASSUME NEW cs \in Seq(Calls), Len(cs) > 0, NEW d \in Seq(Json), NEW base,
           LaidOut(cs, d, base), NEW type \in {"Object", "Array"}
    PROVE  \E above : LaidOut(Append(cs, Call(type)), Append(d, Started(type)), above)
<1> DEFINE es == Append(cs, Call(type))
           e == Append(d, Started(type))
           n == Len(cs)
           above == [i \in 1 .. n + 1 |-> IF i = n + 1 THEN Len(d) + 1 ELSE base[i]]
<1>1. /\ Len(es) = n + 1 /\ es[n + 1] = Call(type)
      /\ \A i \in 1 .. n : es[i] = cs[i]
  OBVIOUS
<1>2. Len(e) = Len(d) + 1 /\ e[Len(d) + 1] = Started(type) /\ \A k \in 1 .. Len(d) : e[k] = d[k]
  OBVIOUS
<1>3. /\ n \in Nat /\ Len(d) \in Nat
      /\ \A i \in 1 .. n :
                 /\ cs[i] \in Calls /\ Values(cs[i]) \in Nat
                 /\ base[i] \in Nat /\ base[i] + Values(cs[i]) <= Len(d)
                 /\ i < n => base[i] + Values(cs[i]) < base[n]
  BY LaidOutParts
<1>4. /\ Call(type).type = type /\ Values(Call(type)) = 0 /\ Names(Call(type)) = 0
      /\ type # "Root"
  BY DEF Call, Values, Names
<1>5. above[n + 1] = Len(d) + 1 /\ \A i \in 1 .. n : above[i] = base[i]
  BY <1>3
<1>6. /\ base[1] = 0 /\ Len(d) = base[n] + Values(cs[n])
      /\ \A i \in 1 .. n - 1 : base[i + 1] = base[i] + Values(cs[i]) + 1
      /\ \A i, j \in 1 .. n : i < j => base[i] + Values(cs[i]) < base[j]
  BY DEF LaidOut
<1>7. above \in [1 .. Len(es) -> 0 .. Len(e)]
  BY <1>1, <1>2, <1>3
<1> HIDE DEF es, e, n, above
<1>8. ASSUME NEW i \in 1 .. n
      PROVE  Holds(cs[i], e, base[i])
  <2>1. Holds(cs[i], d, base[i])
    BY DEF LaidOut, n
  <2>2. \A k \in 1 .. base[i] + Values(cs[i]) : e[k] = d[k]
    BY <1>2, <1>3
  <2> QED
    BY <1>3, <2>1, <2>2, SameHolds
<1>9. Holds(Call(type), e, Len(d) + 1)
  BY <1>2, <1>3, <1>4 DEF Holds, AreWhole
<1>10. \A i \in 1 .. Len(es) : Holds(es[i], e, above[i])
  BY <1>1, <1>3, <1>5, <1>8, <1>9
<1>11. above[1] = 0 /\ Len(e) = above[Len(es)] + Values(es[Len(es)])
  BY <1>1, <1>2, <1>3, <1>4, <1>5, <1>6, 1 \in 1 .. n DEF n
<1>12. \A i \in 1 .. Len(es) - 1 : above[i + 1] = above[i] + Values(es[i]) + 1
  <2>1. SUFFICES ASSUME NEW i \in 1 .. n
                 PROVE  above[i + 1] = above[i] + Values(es[i]) + 1
    BY <1>1, <1>3
  <2>2. CASE i = n
    BY <1>1, <1>3, <1>5, <1>6, <2>2
  <2>3. CASE i # n
    <3>1. i \in 1 .. n - 1 /\ i + 1 \in 1 .. n
      BY <1>3, <2>3
    <3> QED
      BY <1>1, <1>5, <1>6, <3>1
  <2> QED
    BY <2>2, <2>3
<1>13. \A i, j \in 1 .. Len(es) : i < j => above[i] + Values(es[i]) < above[j]
  <2>1. SUFFICES ASSUME NEW i \in 1 .. n, NEW j \in 1 .. n + 1, i < j
                 PROVE  above[i] + Values(es[i]) < above[j]
    BY <1>1, <1>3
  <2>2. CASE j = n + 1
    <3>1. above[j] = Len(d) + 1 /\ above[i] = base[i] /\ es[i] = cs[i]
      BY <1>1, <1>5, <2>2
    <3>2. base[i] \in Nat /\ Values(cs[i]) \in Nat /\ base[i] + Values(cs[i]) <= Len(d)
      BY <1>3
    <3> QED
      BY <1>3, <3>1, <3>2
  <2>3. CASE j \in 1 .. n
    BY <1>1, <1>5, <1>6, <2>1, <2>3
  <2> QED
    BY <1>3, <2>2, <2>3
<1>14. LaidOut(es, e, above)
  BY <1>7, <1>10, <1>11, <1>12, <1>13 DEF LaidOut
<1> QED
  BY <1>14 DEF es, e

\* The last call returns, and takes its values with it.
LEMMA LayoutCloses ==
    ASSUME NEW cs \in Seq(Calls), Len(cs) > 1, NEW d \in Seq(Json), NEW base,
           LaidOut(cs, d, base)
    PROVE  /\ base[Len(cs)] \in 1 .. Len(d)
           /\ \E below : LaidOut(SubSeq(cs, 1, Len(cs) - 1),
                                 SubSeq(d, 1, base[Len(cs)] - 1), below)
<1> DEFINE n == Len(cs) - 1
           es == SubSeq(cs, 1, n)
           m == base[Len(cs)] - 1
           e == SubSeq(d, 1, m)
           below == [i \in 1 .. n |-> base[i]]
<1>1. /\ Len(cs) \in Nat /\ Len(d) \in Nat
      /\ \A i \in 1 .. Len(cs) :
                 /\ cs[i] \in Calls /\ Values(cs[i]) \in Nat
                 /\ base[i] \in Nat /\ base[i] + Values(cs[i]) <= Len(d)
                 /\ i < Len(cs) => base[i] + Values(cs[i]) < base[Len(cs)]
  BY LaidOutParts
<1>2. n \in Nat /\ n > 0 /\ n + 1 = Len(cs)
  BY <1>1
<1>3. Len(es) = n /\ \A i \in 1 .. n : es[i] = cs[i]
  BY <1>1, <1>2
<1>4. /\ base[1] = 0
      /\ \A i \in 1 .. n : base[i + 1] = base[i] + Values(cs[i]) + 1
      /\ \A i, j \in 1 .. n : i < j => base[i] + Values(cs[i]) < base[j]
  BY <1>1 DEF LaidOut
<1>5. /\ m \in Nat /\ m <= Len(d) /\ m = base[n] + Values(cs[n])
      /\ base[Len(cs)] \in 1 .. Len(d)
  <2>1. base[n + 1] = base[n] + Values(cs[n]) + 1
    BY <1>2, <1>4
  <2>2. /\ base[n] \in Nat /\ Values(cs[n]) \in Nat /\ base[n + 1] \in Nat
        /\ base[n + 1] + Values(cs[n + 1]) <= Len(d) /\ Values(cs[n + 1]) \in Nat
    BY <1>1, <1>2
  <2>3. m = base[n + 1] - 1 /\ base[Len(cs)] = base[n + 1]
    BY <1>2
  <2> HIDE DEF n, m
  <2> QED
    BY <1>1, <2>1, <2>2, <2>3
<1>6. Len(e) = m /\ \A k \in 1 .. m : e[k] = d[k]
  BY <1>1, <1>5
<1>7. \A i \in 1 .. n : base[i] + Values(cs[i]) <= m
  <2>1. SUFFICES ASSUME NEW i \in 1 .. n
                 PROVE  base[i] + Values(cs[i]) <= m
    OBVIOUS
  <2>2. i \in 1 .. Len(cs) /\ i < Len(cs)
    BY <1>2
  <2>3. base[i] + Values(cs[i]) < base[Len(cs)] /\ base[i] \in Nat /\ Values(cs[i]) \in Nat
    BY <1>1, <2>2
  <2> QED
    BY <1>5, <2>3
<1> HIDE DEF n, es, m, e
<1>8. \A i \in 1 .. n : base[i] \in 0 .. m /\ below[i] = base[i]
  <2>1. SUFFICES ASSUME NEW i \in 1 .. n
                 PROVE  base[i] \in 0 .. m
    OBVIOUS
  <2>2. base[i] + Values(cs[i]) <= m /\ base[i] \in Nat /\ Values(cs[i]) \in Nat
    BY <1>1, <1>2, <1>7
  <2> QED
    BY <1>5, <2>2
<1>9. ASSUME NEW i \in 1 .. n
      PROVE  Holds(es[i], e, below[i])
  <2>1. Holds(cs[i], d, base[i])
    BY <1>2 DEF LaidOut
  <2>2. \A k \in 1 .. base[i] + Values(cs[i]) : e[k] = d[k]
    BY <1>1, <1>2, <1>5, <1>6, <1>7
  <2>3. cs[i] \in Calls /\ base[i] \in Nat
    BY <1>1, <1>2
  <2> QED
    BY <1>3, <1>8, <2>1, <2>2, <2>3, SameHolds
<1>10. LaidOut(es, e, below)
  <2>1. below \in [1 .. Len(es) -> 0 .. Len(e)]
    BY <1>3, <1>6, <1>8
  <2>2. below[1] = 0 /\ Len(e) = below[Len(es)] + Values(es[Len(es)])
    BY <1>2, <1>3, <1>4, <1>5, <1>6, <1>8
  <2>3. \A i \in 1 .. Len(es) - 1 : below[i + 1] = below[i] + Values(es[i]) + 1
    BY <1>2, <1>3, <1>4, <1>8
  <2>4. \A i, j \in 1 .. Len(es) : i < j => below[i] + Values(es[i]) < below[j]
    BY <1>2, <1>3, <1>4, <1>8
  <2> QED
    BY <1>3, <1>9, <2>1, <2>2, <2>3, <2>4 DEF LaidOut
<1>11. \E x : LaidOut(es, e, x)
  BY <1>10
<1> QED
  BY <1>5, <1>11 DEF n, es, m, e

-----------------------------------------------------------------------------
(* The calls.                                                              *)

LEMMA NestChanges ==
    ASSUME NEW cs \in Seq(Calls), Nested(cs),
           NEW f \in Calls, IsCall(f), f.type = cs[Len(cs)].type
    PROVE  [cs EXCEPT ![Len(cs)] = f] \in Seq(Calls) /\ Nested([cs EXCEPT ![Len(cs)] = f])
<1> DEFINE es == [cs EXCEPT ![Len(cs)] = f]
<1>1. /\ Len(es) = Len(cs) /\ Len(cs) \in Nat /\ Len(cs) > 0
      /\ \A i \in 1 .. Len(cs) : es[i] = IF i = Len(cs) THEN f ELSE cs[i]
  BY DEF Nested
<1> HIDE DEF es
<1>2. \A i \in 1 .. Len(cs) : es[i].type = cs[i].type
  BY <1>1
<1>3. \A i \in 1 .. Len(es) : IsCall(es[i])
  BY <1>1 DEF Nested
<1>4. \A i \in 1 .. Len(es) : (es[i].type = "Root" <=> i = 1)
  BY <1>1, <1>2 DEF Nested
<1>5. \A i \in 1 .. Len(es) : i < Len(es) => es[i].place = "value"
  BY <1>1 DEF Nested
<1>6. Nested(es)
  BY <1>1, <1>3, <1>4, <1>5 DEF Nested
<1>7. es \in Seq(Calls)
  BY <1>1 DEF es
<1> QED
  BY <1>6, <1>7 DEF es

LEMMA NestOpens ==
    ASSUME NEW cs \in Seq(Calls), Nested(cs), cs[Len(cs)].place = "value",
           NEW type \in {"Object", "Array"}
    PROVE  Nested(Append(cs, Call(type))) /\ Call(type) \in Calls
<1> DEFINE es == Append(cs, Call(type))
<1>1. Call(type) \in Calls /\ IsCall(Call(type)) /\ Call(type).type = type /\ type # "Root"
  <2>1. Call(type) \in Calls /\ Call(type) = [type |-> type, count |-> 0, place |-> "first"]
    BY DEF Call, Calls
  <2> QED
    BY <2>1, PlacesOfCalls
<1>2. /\ Len(es) = Len(cs) + 1 /\ Len(cs) \in Nat /\ Len(cs) > 0 /\ es[Len(cs) + 1] = Call(type)
      /\ \A i \in 1 .. Len(cs) : es[i] = cs[i]
  BY DEF Nested
<1> HIDE DEF es
<1>3. \A i \in 1 .. Len(es) : IsCall(es[i])
  BY <1>1, <1>2 DEF Nested
<1>4. \A i \in 1 .. Len(es) : (es[i].type = "Root" <=> i = 1)
  BY <1>1, <1>2 DEF Nested
<1>5. \A i \in 1 .. Len(es) : i < Len(es) => es[i].place = "value"
  BY <1>2 DEF Nested
<1>6. Nested(es)
  BY <1>2, <1>3, <1>4, <1>5 DEF Nested
<1> QED
  BY <1>1, <1>6 DEF es

LEMMA NestCloses ==
    ASSUME NEW cs \in Seq(Calls), Nested(cs), Len(cs) > 1
    PROVE  /\ SubSeq(cs, 1, Len(cs) - 1) \in Seq(Calls)
           /\ Nested(SubSeq(cs, 1, Len(cs) - 1))
           /\ Len(SubSeq(cs, 1, Len(cs) - 1)) = Len(cs) - 1
           /\ SubSeq(cs, 1, Len(cs) - 1)[Len(cs) - 1] = cs[Len(cs) - 1]
           /\ cs[Len(cs) - 1].place = "value" /\ cs[Len(cs) - 1] \in Calls
           /\ IsCall(cs[Len(cs) - 1])
<1> DEFINE n == Len(cs) - 1
           es == SubSeq(cs, 1, n)
<1>1. n \in Nat /\ n > 0 /\ n + 1 = Len(cs)
  OBVIOUS
<1>2. es \in Seq(Calls) /\ Len(es) = n /\ \A i \in 1 .. n : es[i] = cs[i]
  BY <1>1
<1> HIDE DEF n, es
<1>3. /\ \A i \in 1 .. n : IsCall(cs[i]) /\ cs[i].place = "value" /\ cs[i] \in Calls
      /\ \A i \in 1 .. n : (cs[i].type = "Root" <=> i = 1)
  BY <1>1 DEF Nested
<1>4. Nested(es)
  BY <1>1, <1>2, <1>3 DEF Nested
<1> QED
  BY <1>1, <1>2, <1>3, <1>4 DEF n, es

\* What the invariant says of the current call.
LEMMA CurrentParts ==
    ASSUME ParsingTypeOK, CallsNest
    PROVE  /\ calls \in Seq(Calls) /\ Len(calls) \in Nat /\ Len(calls) > 0 /\ Nested(calls)
           /\ Current \in Calls /\ IsCall(Current) /\ Current = calls[Len(calls)]
           /\ Current.type = "Root" <=> Len(calls) = 1
           /\ doc \in Seq(Json)
<1>1. calls \in Seq(Calls) /\ doc \in Seq(Json) /\ Nested(calls) /\ Current = calls[Len(calls)]
  BY DEF ParsingTypeOK, CallsNest, Current
<1>2. Len(calls) \in Nat /\ Len(calls) > 0
  BY <1>1 DEF Nested
<1>3. Current \in Calls
  BY <1>1, <1>2
<1>4. Len(calls) \in 1 .. Len(calls)
  BY <1>2
<1>5. IsCall(calls[Len(calls)]) /\ (calls[Len(calls)].type = "Root" <=> Len(calls) = 1)
  BY <1>1, <1>4 DEF Nested
<1> QED
  BY <1>1, <1>2, <1>3, <1>5

-----------------------------------------------------------------------------
(* What the steps do to the calls and the document.                        *)

\* The parse stops.
LEMMA StopKeeps ==
    ASSUME ParsingIInv, NEW code \in Results, code = "ok" => Current.place = "end",
           Stop(code), UNCHANGED flags
    PROVE  ParsingIInv'
BY DEF ParsingIInv, Stop, ParsingTypeOK, CallsNest, DocumentLaidOut, Current

\* The current call becomes f, the same values in it.
LEMMA MoveKeeps ==
    ASSUME ParsingIInv, NEW f \in Calls, calls' = [calls EXCEPT ![Len(calls)] = f],
           IsCall(f), f.type = Current.type, Values(f) = Values(Current),
           Names(f) = Names(Current), f.type = "Array" => f.place # "value",
           UNCHANGED <<result, doc, flags>>, result = "none"
    PROVE  ParsingIInv'
<1>1. /\ calls \in Seq(Calls) /\ Len(calls) \in Nat /\ Len(calls) > 0 /\ Nested(calls)
      /\ Current = calls[Len(calls)] /\ doc \in Seq(Json)
  BY CurrentParts DEF ParsingIInv
<1>2. calls' \in Seq(Calls) /\ Current' = f
  BY <1>1 DEF Current
<1>3. Nested(calls')
  BY <1>1, NestChanges
<1>4. PICK base : LaidOut(calls, doc, base)
  BY DEF ParsingIInv, DocumentLaidOut
<1>5. LaidOut(calls', doc', base)
  <2>1. LaidOut([calls EXCEPT ![Len(calls)] = f], doc, base)
    BY <1>1, <1>4, LayoutKept
  <2> QED
    BY <2>1
<1>6. DocumentLaidOut'
  BY <1>5 DEF DocumentLaidOut, LaidOut
<1> QED
  BY <1>2, <1>3, <1>6 DEF ParsingIInv, ParsingTypeOK, CallsNest

\* The current call becomes f, which has the value v too.
LEMMA ValueKeeps ==
    ASSUME ParsingIInv, NEW f \in Calls, calls' = [calls EXCEPT ![Len(calls)] = f],
           NEW v \in Json, v.whole, doc' = Append(doc, v), Gets(Current, f, v),
           IsCall(f), f.type = "Array" => f.place # "value",
           result' \in {"none", "ok"}, result' = "ok" => f.place = "end", UNCHANGED flags
    PROVE  ParsingIInv'
<1>1. /\ calls \in Seq(Calls) /\ Len(calls) \in Nat /\ Len(calls) > 0 /\ Nested(calls)
      /\ Current = calls[Len(calls)] /\ doc \in Seq(Json)
  BY CurrentParts DEF ParsingIInv
<1>2. calls' \in Seq(Calls) /\ Current' = f /\ doc' \in Seq(Json)
  BY <1>1 DEF Current
<1>3. Nested(calls')
  BY <1>1, NestChanges DEF Gets
<1>4. PICK base : LaidOut(calls, doc, base)
  BY DEF ParsingIInv, DocumentLaidOut
<1>5. LaidOut(calls', doc', base)
  <2>1. LaidOut([calls EXCEPT ![Len(calls)] = f], Append(doc, v), base)
    BY <1>1, <1>4, LayoutGrows
  <2> QED
    BY <2>1
<1>6. DocumentLaidOut'
  BY <1>5 DEF DocumentLaidOut, LaidOut
<1> QED
  BY <1>2, <1>3, <1>6 DEF ParsingIInv, ParsingTypeOK, CallsNest, Results

\* The current call becomes f, the same values in it, and calls ParseValue,
\* which starts a container.
LEMMA OpeningKeeps ==
    ASSUME ParsingIInv, NEW f \in Calls, NEW type \in {"Object", "Array"},
           calls' = Append([calls EXCEPT ![Len(calls)] = f], Call(type)),
           doc' = Append(doc, Started(type)),
           IsCall(f), f.type = Current.type, Values(f) = Values(Current),
           Names(f) = Names(Current), f.place = "value",
           UNCHANGED <<result, flags>>, result = "none"
    PROVE  ParsingIInv'
<1> DEFINE es == [calls EXCEPT ![Len(calls)] = f]
<1>1. /\ calls \in Seq(Calls) /\ Len(calls) \in Nat /\ Len(calls) > 0 /\ Nested(calls)
      /\ Current = calls[Len(calls)] /\ doc \in Seq(Json)
  BY CurrentParts DEF ParsingIInv
<1>2. es \in Seq(Calls) /\ Len(es) = Len(calls) /\ es[Len(es)] = f
  BY <1>1
<1>3. Nested(es)
  BY <1>1, NestChanges
<1>4. PICK base : LaidOut(calls, doc, base)
  BY DEF ParsingIInv, DocumentLaidOut
<1>5. LaidOut(es, doc, base)
  BY <1>1, <1>4, LayoutKept
<1> HIDE DEF es
<1>6. Nested(Append(es, Call(type))) /\ Call(type) \in Calls
  BY <1>2, <1>3, NestOpens
<1>7. PICK above : LaidOut(Append(es, Call(type)), Append(doc, Started(type)), above)
  BY <1>1, <1>2, <1>5, Len(es) > 0, LayoutOpens
<1>8. calls' = Append(es, Call(type))
  BY DEF es
<1>9. /\ calls' \in Seq(Calls) /\ Current' = Call(type) /\ Nested(calls')
      /\ LaidOut(calls', doc', above)
  <2>1. calls'[Len(calls')] = Call(type)
    BY <1>2, <1>8
  <2>2. calls' \in Seq(Calls)
    <3>1. Append(es, Call(type)) \in Seq(Calls)
      BY <1>2, <1>6
    <3> QED
      BY <1>8, <3>1
  <2>3. Nested(calls')
    BY <1>6, <1>8
  <2>4. LaidOut(calls', doc', above)
    BY <1>7, <1>8
  <2> QED
    BY <2>1, <2>2, <2>3, <2>4 DEF Current
<1>10. doc' \in Seq(Json)
  BY <1>1 DEF Started, Json
<1>11. DocumentLaidOut'
  BY <1>9 DEF DocumentLaidOut, LaidOut
<1>12. Current'.place # "value"
  BY <1>9 DEF Call
<1> QED
  BY <1>9, <1>10, <1>11, <1>12 DEF ParsingIInv, ParsingTypeOK, CallsNest

\* What stands in the document when the current call can return, with n for
\* its count.
LEMMA WhatCloses ==
    ASSUME ParsingIInv, Current.type # "Root", Current.place \in {"first", "comma", "next"},
           NEW base, LaidOut(calls, doc, base)
    PROVE  /\ Len(calls) > 1 /\ Current.count \in Nat
           /\ base[Len(calls)] = Len(doc) - PoppedOf(Current.type, Current.count)
           /\ base[Len(calls)] \in 1 .. Len(doc)
           /\ Len(doc) = base[Len(calls)] + Values(Current)
           /\ Holds(Current, doc, base[Len(calls)])
           /\ Current.type = "Object" => Names(Current) = Current.count
<1>1. /\ calls \in Seq(Calls) /\ Len(calls) \in Nat /\ Len(calls) > 0 /\ Nested(calls)
      /\ Current = calls[Len(calls)] /\ doc \in Seq(Json) /\ Current \in Calls
      /\ Current.type = "Root" <=> Len(calls) = 1
  BY CurrentParts DEF ParsingIInv
<1>2. Current.count \in Nat /\ Current.type \in {"Object", "Array"}
  BY <1>1, CallFields
<1>3. /\ Current.type = "Object" => Names(Current) = Current.count
      /\ Values(Current) = PoppedOf(Current.type, Current.count)
  BY <1>2 DEF Values, Names, PoppedOf
<1>4. /\ Len(doc) = base[Len(calls)] + Values(Current)
      /\ Holds(Current, doc, base[Len(calls)])
  BY <1>1 DEF LaidOut
<1>5. Len(calls) > 1
  <2>1. \A k \in Nat : k > 0 => k = 1 \/ k > 1
    OBVIOUS
  <2> QED
    BY <1>1, <2>1
<1>6. base[Len(calls)] \in 1 .. Len(doc)
  BY <1>1, <1>5, LayoutCloses
<1>7. Values(Current) \in Nat
  BY <1>1, ValuesAreNat
<1> QED
  BY <1>1, <1>2, <1>3, <1>4, <1>5, <1>6, <1>7

\* The current call returns, and its caller, f then, has one value more.
LEMMA ClosingKeeps ==
    ASSUME ParsingIInv, Current.type # "Root", Current.place \in {"first", "comma", "next"},
           NEW f, f = WithValue(calls[Len(calls) - 1]),
           calls' = [SubSeq(calls, 1, Len(calls) - 1) EXCEPT ![Len(calls) - 1] = f],
           doc' = EndContainer(doc, Current.type, Current.count),
           result' \in {"none", "ok"}, result' = "ok" => f.place = "end", UNCHANGED flags
    PROVE  ParsingIInv'
<1> DEFINE n == Len(calls) - 1
           es == SubSeq(calls, 1, n)
           v == Complete(Current.type, Current.count)
<1>1. /\ calls \in Seq(Calls) /\ Len(calls) \in Nat /\ Nested(calls)
      /\ doc \in Seq(Json) /\ Len(doc) \in Nat /\ Current \in Calls
  BY CurrentParts DEF ParsingIInv
<1>2. PICK base : LaidOut(calls, doc, base)
  BY DEF ParsingIInv, DocumentLaidOut
<1> DEFINE top == base[Len(calls)]
           e == SubSeq(doc, 1, top - 1)
<1>3. /\ Len(calls) > 1 /\ Current.count \in Nat
      /\ top = Len(doc) - PoppedOf(Current.type, Current.count)
      /\ top \in 1 .. Len(doc)
  BY <1>2, WhatCloses
<1>4. PICK below : LaidOut(es, e, below)
  BY <1>1, <1>2, <1>3, LayoutCloses
<1>5. /\ es \in Seq(Calls) /\ Nested(es) /\ Len(es) = n /\ es[n] = calls[n]
      /\ calls[n].place = "value" /\ calls[n] \in Calls /\ IsCall(calls[n])
  BY <1>1, <1>3, NestCloses
<1>6. v \in Json /\ v.whole
  <2>1. Current.type \in {"Object", "Array"}
    BY <1>1, CallFields
  <2> QED
    BY <1>3, <2>1 DEF Complete, Json
<1>7. /\ f \in Calls /\ IsCall(f) /\ Gets(es[n], f, v) /\ f.type = es[n].type
      /\ f.place # "value"
  BY <1>5, ReturnedValue
<1>8. e \in Seq(Json) /\ Append(e, v) \in Seq(Json)
  BY <1>1, <1>3, <1>6
<1>9. doc' = Append(e, v)
  BY <1>3 DEF EndContainer
<1> HIDE DEF es, e, v, n
<1>10. calls' = [es EXCEPT ![Len(es)] = f] /\ Len(es) > 0
  BY <1>3, <1>5 DEF es, n
<1>11. calls' \in Seq(Calls) /\ Nested(calls') /\ Current' = f
  <2>1. [es EXCEPT ![Len(es)] = f] \in Seq(Calls) /\ Nested([es EXCEPT ![Len(es)] = f])
    <3>1. es \in Seq(Calls) /\ Nested(es) /\ f \in Calls /\ IsCall(f) /\ f.type = es[Len(es)].type
      BY <1>5, <1>7
    <3> QED
      BY <3>1, NestChanges
  <2>2. Len(calls') = Len(es) /\ calls'[Len(es)] = f
    BY <1>5, <1>10
  <2> QED
    BY <1>10, <2>1, <2>2 DEF Current
<1>12. LaidOut(calls', doc', below)
  <2>1. LaidOut([es EXCEPT ![Len(es)] = f], Append(e, v), below)
    BY <1>4, <1>5, <1>6, <1>7, <1>8, <1>10, LayoutGrows
  <2> QED
    BY <1>9, <1>10, <2>1
<1>13. DocumentLaidOut'
  BY <1>12 DEF DocumentLaidOut, LaidOut
<1>14. doc' \in Seq(Json)
  BY <1>8, <1>9
<1> QED
  BY <1>7, <1>11, <1>13, <1>14 DEF ParsingIInv, ParsingTypeOK, CallsNest, Results

-----------------------------------------------------------------------------
(* Each step keeps the invariant.                                          *)

\* The current call moves to another place of its own.
LEMMA Moved ==
    ASSUME ParsingIInv, NEW p \in {"first", "colon", "value", "next", "comma", "end"}
    PROVE  /\ [calls EXCEPT ![Len(calls)].place = p]
                = [calls EXCEPT ![Len(calls)] = [Current EXCEPT !.place = p]]
           /\ [Current EXCEPT !.place = p] \in Calls
           /\ [Current EXCEPT !.place = p]
                = [type |-> Current.type, count |-> Current.count, place |-> p]
<1>1. /\ calls \in Seq(Calls) /\ Len(calls) \in Nat /\ Len(calls) > 0
      /\ Current \in Calls /\ Current = calls[Len(calls)]
  BY CurrentParts DEF ParsingIInv
<1> QED
  BY <1>1, MovedCall

LEMMA CurrentCall ==
    ASSUME ParsingIInv
    PROVE  /\ Current \in Calls /\ IsCall(Current)
           /\ Current.type \in {"Root", "Object", "Array"} /\ Current.count \in Nat
           /\ Current.type = "Root" => Current.place \in {"value", "end"}
           /\ Current.type = "Object" =>
                 Current.place \in {"first", "colon", "value", "next", "comma"}
           /\ Current.type = "Array" => Current.place \in {"first", "next", "comma"}
           /\ Current.place = "first" => Current.count = 0
           /\ Current.place = "next" => Current.count > 0
           /\ Current.type = "Root" <=> Len(calls) = 1
<1>1. Current \in Calls /\ IsCall(Current) /\ (Current.type = "Root" <=> Len(calls) = 1)
  BY CurrentParts DEF ParsingIInv
<1>2. Current.type = "Array" => Current.place # "value"
  BY DEF ParsingIInv, CallsNest
<1> QED
  BY <1>1, <1>2, CallFields, PlacesOfCalls

LEMMA ContainerStep ==
    ASSUME ParsingIInv, NEW x \in Lexemes, ParseContainer(x), result = "none", UNCHANGED flags
    PROVE  ParsingIInv'
<1> DEFINE f == [Current EXCEPT !.place = "value"]
<1>1. TypeOpenedBy(x) \in {"Object", "Array"}
  BY DEF TypeOpenedBy
<1>2. /\ [calls EXCEPT ![Len(calls)].place = "value"] = [calls EXCEPT ![Len(calls)] = f]
      /\ f \in Calls /\ f = [type |-> Current.type, count |-> Current.count, place |-> "value"]
  BY Moved
<1> HIDE DEF f
<1>3. /\ calls' = Append([calls EXCEPT ![Len(calls)] = f], Call(TypeOpenedBy(x)))
      /\ doc' = Append(doc, Started(TypeOpenedBy(x))) /\ UNCHANGED <<result, flags>>
  BY <1>2 DEF ParseContainer, Pushed
<1>4. IsCall(f)
  BY <1>2, CurrentCall, PlacesOfCalls
<1>5. f.type = Current.type /\ f.place = "value"
  BY <1>2
<1>6. Values(f) = Values(Current) /\ Names(f) = Names(Current)
  BY <1>2, CurrentCall DEF Values, Names, ParseContainer, AwaitsValue
<1> QED
  BY <1>1, <1>2, <1>3, <1>4, <1>5, <1>6, OpeningKeeps

LEMMA ScalarStep ==
    ASSUME ParsingIInv, NEW x \in Lexemes, ParseScalar(x), result = "none", UNCHANGED flags
    PROVE  ParsingIInv'
<1> DEFINE f == WithValue(Current)
           v == Simple(x)
<1>1. v \in Json /\ v.whole
  BY DEF ParseScalar, Simple, Json
<1>2. /\ f \in Calls /\ IsCall(f) /\ Gets(Current, f, v)
      /\ f.place = IF Current.type = "Root" THEN "end" ELSE "next"
  BY CurrentCall, ReturnedValue DEF ParseScalar, AwaitsValue
<1>3. /\ calls' = [calls EXCEPT ![Len(calls)] = f] /\ doc' = Append(doc, v)
      /\ result' \in {"none", "ok"}
      /\ result' = "ok" => Len(calls) = 1
  BY DEF ParseScalar, ReturnTo, Pushed, Current
<1>4. (result' = "ok" => f.place = "end") /\ f.place # "value"
  BY <1>2, <1>3, CurrentCall
<1> HIDE DEF f, v
<1> QED
  BY <1>1, <1>2, <1>3, <1>4, ValueKeeps

LEMMA NameStep ==
    ASSUME ParsingIInv, NEW x \in Lexemes, ParseName(x), result = "none", UNCHANGED flags
    PROVE  ParsingIInv'
<1>1. CASE x = "String"
  <2> DEFINE f == [Current EXCEPT !.place = "colon"]
             v == Simple(x)
  <2>1. v \in Json /\ v.whole /\ v.type = "String"
    BY <1>1 DEF Simple, Json
  <2>2. /\ [calls EXCEPT ![Len(calls)].place = "colon"] = [calls EXCEPT ![Len(calls)] = f]
        /\ f \in Calls /\ f = [type |-> Current.type, count |-> Current.count, place |-> "colon"]
    BY Moved
  <2> HIDE DEF f
  <2>3. /\ calls' = [calls EXCEPT ![Len(calls)] = f] /\ doc' = Append(doc, v)
        /\ result' = "none"
    BY <1>1, <2>2 DEF ParseName, MoveTo, Pushed
  <2>4. IsCall(f) /\ f.place # "value"
    BY <2>2, CurrentCall, PlacesOfCalls DEF ParseName, AwaitsName
  <2>5. Gets(Current, f, v)
    BY <2>1, <2>2, CurrentCall DEF Gets, Values, Names, ParseName, AwaitsName
  <2> HIDE DEF v
  <2> QED
    BY <2>1, <2>2, <2>3, <2>4, <2>5, ValueKeeps
<1>2. CASE x # "String"
  <2>1. PICK code \in {"BadString", "ObjectMissName"} : Stop(code)
    BY <1>2 DEF ParseName
  <2> QED
    BY <2>1, StopKeeps DEF Results
<1> QED
  BY <1>1, <1>2

LEMMA ColonStep ==
    ASSUME ParsingIInv, NEW x \in Lexemes, ParseColon(x), result = "none", UNCHANGED flags
    PROVE  ParsingIInv'
<1>1. CASE x = ":"
  <2> DEFINE f == [Current EXCEPT !.place = "value"]
  <2>1. /\ [calls EXCEPT ![Len(calls)].place = "value"] = [calls EXCEPT ![Len(calls)] = f]
        /\ f \in Calls /\ f = [type |-> Current.type, count |-> Current.count, place |-> "value"]
    BY Moved
  <2> HIDE DEF f
  <2>2. calls' = [calls EXCEPT ![Len(calls)] = f] /\ UNCHANGED <<result, doc, flags>>
    BY <1>1, <2>1 DEF ParseColon, MoveTo
  <2>3. Current.type = "Object" /\ f.type = Current.type
    BY <2>1, CurrentCall DEF ParseColon
  <2>4. IsCall(f)
    BY <2>1, <2>3, PlacesOfCalls
  <2>5. Values(f) = Values(Current) /\ Names(f) = Names(Current)
    BY <2>1, <2>3, CurrentCall DEF Values, Names, ParseColon
  <2> QED
    BY <2>1, <2>2, <2>3, <2>4, <2>5, MoveKeeps
<1>2. CASE x # ":"
  <2>1. Stop("ObjectMissColon")
    BY <1>2 DEF ParseColon
  <2> QED
    BY <2>1, StopKeeps DEF Results
<1> QED
  BY <1>1, <1>2

LEMMA CommaStep ==
    ASSUME ParsingIInv, NEW x \in Lexemes, ParseComma(x), result = "none", UNCHANGED flags
    PROVE  ParsingIInv'
<1>1. CASE x = ","
  <2> DEFINE f == [Current EXCEPT !.place = "comma"]
  <2>1. /\ [calls EXCEPT ![Len(calls)].place = "comma"] = [calls EXCEPT ![Len(calls)] = f]
        /\ f \in Calls /\ f = [type |-> Current.type, count |-> Current.count, place |-> "comma"]
    BY Moved
  <2> HIDE DEF f
  <2>2. calls' = [calls EXCEPT ![Len(calls)] = f] /\ UNCHANGED <<result, doc, flags>>
    BY <1>1, <2>1 DEF ParseComma, MoveTo
  <2>3. /\ Current.type \in {"Object", "Array"} /\ f.type = Current.type
        /\ f.place # "value"
    BY <2>1, CurrentCall DEF ParseComma
  <2>4. IsCall(f)
    BY <2>1, <2>3, PlacesOfCalls
  <2>5. Values(f) = Values(Current) /\ Names(f) = Names(Current)
    BY <2>1, <2>3, CurrentCall DEF Values, Names, ParseComma
  <2> QED
    BY <2>1, <2>2, <2>3, <2>4, <2>5, MoveKeeps
<1>2. CASE x # ","
  <2>1. PICK code \in {"ObjectMissCommaOrCurlyBracket", "ArrayMissCommaOrSquareBracket"} :
           Stop(code)
    BY <1>2 DEF ParseComma
  <2> QED
    BY <2>1, StopKeeps DEF Results
<1> QED
  BY <1>1, <1>2

LEMMA CloseStep ==
    ASSUME ParsingIInv, NEW x \in Lexemes, ParseClose(x), result = "none", UNCHANGED flags
    PROVE  ParsingIInv'
<1> DEFINE n == Len(calls) - 1
           es == SubSeq(calls, 1, n)
           f == WithValue(calls[n])
<1>1. Current.type # "Root" /\ Current.place \in {"first", "comma", "next"}
  BY DEF ParseClose, Closes, MayClose
<1>2. calls \in Seq(Calls) /\ Nested(calls) /\ Len(calls) > 1
  <2>1. /\ calls \in Seq(Calls) /\ Nested(calls) /\ Len(calls) \in Nat /\ Len(calls) > 0
        /\ Len(calls) # 1
    BY <1>1, CurrentParts DEF ParsingIInv
  <2>2. \A k \in Nat : k > 0 => k = 1 \/ k > 1
    OBVIOUS
  <2> QED
    BY <2>1, <2>2
<1>3. /\ Nested(es) /\ Len(es) = n /\ es[n] = calls[n]
      /\ calls[n].place = "value" /\ calls[n] \in Calls /\ IsCall(calls[n])
      /\ es \in Seq(Calls)
  BY <1>2, NestCloses
<1>4. /\ f.place = IF calls[n].type = "Root" THEN "end" ELSE "next"
  BY <1>3, ReturnedValue
<1> HIDE DEF es
<1>5. /\ calls' = [es EXCEPT ![n] = f]
      /\ result' \in {"none", "ok"}
      /\ result' = "ok" => n = 1
      /\ doc' = EndContainer(doc, Current.type, Current.count)
  <2>1. /\ ReturnTo(es)
        /\ doc' = EndContainer(doc, Current.type, Current.count)
    BY DEF ParseClose, es
  <2>2. /\ calls' = [es EXCEPT ![Len(es)] = WithValue(es[Len(es)])]
        /\ result' = IF Len(es) = 1 /\ "StopWhenDone" \in flags THEN "ok" ELSE "none"
    BY <2>1 DEF ReturnTo
  <2> QED
    BY <1>3, <2>1, <2>2
<1>6. result' = "ok" => f.place = "end"
  <2>1. n = 1 => calls[n].type = "Root"
    BY <1>3, 1 \in 1 .. 1 DEF Nested
  <2> QED
    BY <1>4, <1>5, <2>1
<1>7. calls' = [SubSeq(calls, 1, Len(calls) - 1) EXCEPT ![Len(calls) - 1] = f]
  BY <1>5 DEF es
<1> HIDE DEF f
<1>8. f = WithValue(calls[Len(calls) - 1])
  BY DEF f
<1> QED
  BY <1>1, <1>5, <1>6, <1>7, <1>8, ClosingKeeps

LEMMA StoppingStep ==
    ASSUME ParsingIInv, NEW x \in Lexemes, ParseNoValue(x) \/ ParseEnd(x), UNCHANGED flags
    PROVE  ParsingIInv'
<1>1. CASE ParseNoValue(x)
  <2>1. PICK code \in {"BadString", "BadScalar", "DocumentEmpty", "ValueInvalid"} : Stop(code)
    BY <1>1 DEF ParseNoValue, Bad
  <2> QED
    BY <2>1, StopKeeps DEF Results
<1>2. CASE ParseEnd(x)
  <2>1. PICK code \in {"ok", "DocumentRootNotSingular"} : Stop(code)
    BY <1>2 DEF ParseEnd
  <2> QED
    BY <1>2, <2>1, StopKeeps DEF Results, ParseEnd
<1> QED
  BY <1>1, <1>2

LEMMA InitKeeps == RecursiveInit => ParsingIInv
<1> SUFFICES ASSUME RecursiveInit
             PROVE  ParsingIInv
  OBVIOUS
<1> DEFINE c == [Call("Root") EXCEPT !.place = "value"]
<1>1. c = [type |-> "Root", count |-> 0, place |-> "value"] /\ c \in Calls
  BY DEF Call, Calls
<1> HIDE DEF c
<1>2. calls = <<c>> /\ doc = <<>> /\ result = "none"
  BY DEF RecursiveInit, c
<1>3. IsCall(c) /\ Values(c) = 0 /\ Names(c) = 0
  BY <1>1, PlacesOfCalls DEF Values, Names
<1>4. ParsingTypeOK
  BY <1>1, <1>2 DEF RecursiveInit, ParsingTypeOK, Results
<1>5. CallsNest
  BY <1>1, <1>2, <1>3 DEF CallsNest, Nested, Current
<1>6. LaidOut(calls, doc, [i \in 1 .. 1 |-> 0])
  BY <1>1, <1>2, <1>3 DEF LaidOut, Holds, AreWhole
<1>7. DocumentLaidOut
  BY <1>6 DEF DocumentLaidOut, LaidOut
<1> QED
  BY <1>4, <1>5, <1>7 DEF ParsingIInv

LEMMA NextKeeps == ParsingIInv /\ [RecursiveNext]_parsing => ParsingIInv'
<1> SUFFICES ASSUME ParsingIInv, [RecursiveNext]_parsing
             PROVE  ParsingIInv'
  OBVIOUS
<1>1. CASE RecursiveNext
  <2>1. PICK x \in Lexemes : RecursiveStep(x)
    BY <1>1 DEF RecursiveNext
  <2>2. result = "none" /\ UNCHANGED flags
    BY <1>1 DEF RecursiveNext
  <2> QED
    BY <2>1, <2>2, ContainerStep, ScalarStep, StoppingStep, NameStep, ColonStep, CommaStep,
       CloseStep DEF RecursiveStep
<1>2. CASE UNCHANGED parsing
  BY <1>2 DEF parsing, ParsingIInv, ParsingTypeOK, CallsNest, DocumentLaidOut, Current
<1> QED
  BY <1>1, <1>2

\* The calls of the parser nest as its functions do, each with its container
\* on the document's stack and its values, and names, behind that.
THEOREM CallsAndDocument == RecursiveSpec => []ParsingIInv
BY InitKeeps, NextKeeps, PTL DEF RecursiveSpec

LEMMA InvariantBuilds == ParsingIInv => BuildsOneRoot
<1> SUFFICES ASSUME ParsingIInv
             PROVE  BuildsOneRoot
  OBVIOUS
<1>1. PICK base : LaidOut(calls, doc, base)
  BY DEF ParsingIInv, DocumentLaidOut
<1> DEFINE b == Len(doc) - PoppedOf(Current.type, Current.count)
<1>2. ASSUME result = "none", Current.type # "Root", MayClose
      PROVE  /\ b >= 1
             /\ doc[b] = Started(Current.type)
             /\ AreWhole(doc, b + 1, Len(doc))
             /\ Current.type = "Object" =>
                   \A k \in 1 .. Current.count : doc[b + 2 * k - 1].type = "String"
  <2>1. Current.place \in {"first", "comma", "next"}
    BY <1>2 DEF MayClose
  <2>2. /\ base[Len(calls)] = b
        /\ base[Len(calls)] \in 1 .. Len(doc)
        /\ Len(doc) = base[Len(calls)] + Values(Current)
        /\ Holds(Current, doc, base[Len(calls)])
        /\ Current.type = "Object" => Names(Current) = Current.count
    BY <1>1, <1>2, <2>1, WhatCloses
  <2> HIDE DEF b
  <2>3. Len(doc) \in Nat
    BY DEF ParsingIInv, ParsingTypeOK
  <2> QED
    BY <1>2, <2>2, <2>3 DEF Holds
<1>3. ASSUME result = "ok"
      PROVE  Len(doc) = 1 /\ doc[1].whole
  <2>1. Current.place = "end"
    BY <1>3 DEF ParsingIInv, CallsNest
  <2>2. Current.type = "Root" /\ Len(calls) = 1 /\ Current = calls[1]
    BY <2>1, CurrentCall DEF Current
  <2>3. Values(Current) = 1
    BY <2>1, <2>2 DEF Values
  <2>4. base[1] = 0 /\ Len(doc) = base[1] + Values(Current) /\ Holds(Current, doc, base[1])
    BY <1>1, <2>2, 1 \in 1 .. 1 DEF LaidOut
  <2> QED
    BY <2>3, <2>4 DEF Holds, AreWhole
<1> QED
  BY <1>2, <1>3 DEF BuildsOneRoot

\* What a closing bracket takes from the document's stack is the container
\* that it closes and all that is in it, and a parse that succeeds leaves
\* one whole root.
THEOREM OneRootIsBuilt == RecursiveSpec => []BuildsOneRoot
BY CallsAndDocument, InvariantBuilds, PTL

-----------------------------------------------------------------------------
(* The stack of the iterative parser.                                      *)

LEMMA StackParts ==
    ASSUME NEW cs \in Seq(Calls), Len(cs) > 0
    PROVE  /\ Len(StackOf(cs)) = Len(cs) - 1 /\ Len(cs) \in Nat
           /\ \A i \in 1 .. Len(cs) - 1 :
                 StackOf(cs)[i] = [back |-> BackTo(cs[i]), count |-> Counted(cs[i + 1])]
BY DEF StackOf

LEMMA StackStays ==
    ASSUME NEW cs \in Seq(Calls), Len(cs) > 0, NEW f \in Calls,
           Counted(f) = Counted(cs[Len(cs)])
    PROVE  StackOf([cs EXCEPT ![Len(cs)] = f]) = StackOf(cs)
<1> DEFINE es == [cs EXCEPT ![Len(cs)] = f]
<1>1. /\ Len(es) = Len(cs) /\ Len(cs) \in Nat
      /\ \A i \in 1 .. Len(cs) : es[i] = IF i = Len(cs) THEN f ELSE cs[i]
  OBVIOUS
<1> HIDE DEF es
<1>2. ASSUME NEW i \in 1 .. Len(cs) - 1
      PROVE  BackTo(es[i]) = BackTo(cs[i]) /\ Counted(es[i + 1]) = Counted(cs[i + 1])
  BY <1>1
<1>3. StackOf(es) = StackOf(cs)
  BY <1>1, <1>2 DEF StackOf
<1> QED
  BY <1>3 DEF es

LEMMA StackCounts ==
    ASSUME NEW cs \in Seq(Calls), Len(cs) > 1, NEW f \in Calls,
           Counted(f) = Counted(cs[Len(cs)]) + 1
    PROVE  StackOf([cs EXCEPT ![Len(cs)] = f])
             = [StackOf(cs) EXCEPT ![Len(StackOf(cs))].count = @ + 1]
<1> DEFINE es == [cs EXCEPT ![Len(cs)] = f]
           n == Len(cs) - 1
<1>1. /\ Len(es) = Len(cs) /\ Len(cs) \in Nat
      /\ \A i \in 1 .. Len(cs) : es[i] = IF i = Len(cs) THEN f ELSE cs[i]
  OBVIOUS
<1>2. n \in Nat /\ n > 0 /\ n + 1 = Len(cs)
  BY <1>1
<1> HIDE DEF es, n
<1>3. ASSUME NEW i \in 1 .. n
      PROVE  /\ BackTo(es[i]) = BackTo(cs[i])
             /\ Counted(es[i + 1])
                   = IF i = n THEN Counted(cs[i + 1]) + 1 ELSE Counted(cs[i + 1])
  BY <1>1, <1>2
<1>4. /\ Len(StackOf(cs)) = n
      /\ \A i \in 1 .. n :
            StackOf(cs)[i] = [back |-> BackTo(cs[i]), count |-> Counted(cs[i + 1])]
  <2>1. Len(cs) > 0
    BY <1>1
  <2> QED
    BY <1>2, <2>1, StackParts DEF n
<1>5. StackOf(es)
        = [i \in 1 .. n |-> [back |-> BackTo(cs[i]),
                             count |-> IF i = n THEN Counted(cs[i + 1]) + 1
                                       ELSE Counted(cs[i + 1])]]
  BY <1>1, <1>2, <1>3 DEF StackOf, n
<1>6. [StackOf(cs) EXCEPT ![n].count = @ + 1]
        = [i \in 1 .. n |-> [back |-> BackTo(cs[i]),
                             count |-> IF i = n THEN Counted(cs[i + 1]) + 1
                                       ELSE Counted(cs[i + 1])]]
  <2> DEFINE s == StackOf(cs)
             top == [back |-> BackTo(cs[n]), count |-> Counted(cs[n + 1])]
             more == [back |-> BackTo(cs[n]), count |-> Counted(cs[n + 1]) + 1]
  <2>1. s = [i \in 1 .. n |-> [back |-> BackTo(cs[i]), count |-> Counted(cs[i + 1])]]
    BY DEF StackOf, n
  <2>2. s[n] = top
    BY <1>2, <1>4
  <2> HIDE DEF s
  <2>3. [top EXCEPT !.count = top.count + 1] = more
    OBVIOUS
  <2>4. [s EXCEPT ![n].count = s[n].count + 1] = [s EXCEPT ![n] = [top EXCEPT !.count = top.count + 1]]
    BY <1>2, <2>1, <2>2
  <2>5. [s EXCEPT ![n] = more]
          = [i \in 1 .. n |-> [back |-> BackTo(cs[i]),
                               count |-> IF i = n THEN Counted(cs[i + 1]) + 1
                                         ELSE Counted(cs[i + 1])]]
    BY <1>2, <2>1
  <2> QED
    BY <2>3, <2>4, <2>5 DEF s
<1> QED
  BY <1>4, <1>5, <1>6 DEF es

LEMMA StackOpens ==
    ASSUME NEW cs \in Seq(Calls), Len(cs) > 0, NEW c \in Calls
    PROVE  StackOf(Append(cs, c))
             = Append(StackOf(cs), [back |-> BackTo(cs[Len(cs)]), count |-> Counted(c)])
<1> DEFINE es == Append(cs, c)
           n == Len(cs)
           top == [back |-> BackTo(cs[n]), count |-> Counted(c)]
<1>1. /\ Len(es) = n + 1 /\ n \in Nat /\ n > 0 /\ es[n + 1] = c
      /\ \A i \in 1 .. n : es[i] = cs[i]
  OBVIOUS
<1>2. /\ Len(StackOf(cs)) = n - 1
      /\ \A i \in 1 .. n - 1 :
            StackOf(cs)[i] = [back |-> BackTo(cs[i]), count |-> Counted(cs[i + 1])]
  BY StackParts
<1> HIDE DEF es, n, top
<1>3. StackOf(es)
        = [i \in 1 .. n |-> IF i = n THEN top
                            ELSE [back |-> BackTo(cs[i]), count |-> Counted(cs[i + 1])]]
  BY <1>1 DEF StackOf, top
<1>4. Append(StackOf(cs), top)
        = [i \in 1 .. n |-> IF i = n THEN top
                            ELSE [back |-> BackTo(cs[i]), count |-> Counted(cs[i + 1])]]
  BY <1>1, <1>2 DEF StackOf
<1> QED
  BY <1>3, <1>4 DEF es, n, top

LEMMA StackCloses ==
    ASSUME NEW cs \in Seq(Calls), Len(cs) > 1
    PROVE  StackOf(SubSeq(cs, 1, Len(cs) - 1))
             = SubSeq(StackOf(cs), 1, Len(StackOf(cs)) - 1)
<1> DEFINE n == Len(cs) - 1
           es == SubSeq(cs, 1, n)
<1>1. n \in Nat /\ n > 0 /\ n + 1 = Len(cs)
  OBVIOUS
<1>2. Len(es) = n /\ \A i \in 1 .. n : es[i] = cs[i]
  BY <1>1
<1>3. /\ Len(StackOf(cs)) = n
      /\ \A i \in 1 .. n :
            StackOf(cs)[i] = [back |-> BackTo(cs[i]), count |-> Counted(cs[i + 1])]
  <2>1. Len(cs) > 0
    OBVIOUS
  <2> QED
    BY <1>1, <2>1, StackParts
<1> HIDE DEF es, n
<1>4. StackOf(es)
        = [i \in 1 .. n - 1 |-> [back |-> BackTo(cs[i]), count |-> Counted(cs[i + 1])]]
  BY <1>1, <1>2 DEF StackOf
<1>5. SubSeq(StackOf(cs), 1, n - 1)
        = [i \in 1 .. n - 1 |-> [back |-> BackTo(cs[i]), count |-> Counted(cs[i + 1])]]
  BY <1>1, <1>3
<1> QED
  BY <1>3, <1>4, <1>5 DEF es, n

-----------------------------------------------------------------------------
(* Each step is one of the iterative parser.                               *)

\* Its state.
LEMMA StateTable ==
    ASSUME NEW c \in Calls
    PROVE  /\ c.type = "Root" => StateOf(c) = IF c.place = "end" THEN "Finish" ELSE "Start"
           /\ c.type = "Object" =>
                 /\ c.place = "first" => StateOf(c) = "ObjectInitial"
                 /\ c.place = "colon" => StateOf(c) = "MemberKey"
                 /\ c.place = "value" => StateOf(c) = "KeyValueDelimiter"
                 /\ c.place = "next" => StateOf(c) = "MemberValue"
                 /\ c.place = "comma" => StateOf(c) = "MemberDelimiter"
           /\ c.type = "Array" =>
                 /\ c.place = "first" => StateOf(c) = "ArrayInitial"
                 /\ c.place = "next" => StateOf(c) = "Element"
                 /\ c.place = "comma" => StateOf(c) = "ElementDelimiter"
<1>1. CASE c.type = "Root"
  BY <1>1 DEF StateOf
<1>2. CASE c.type = "Object"
  BY <1>2 DEF StateOf
<1>3. CASE c.type = "Array"
  BY <1>3 DEF StateOf
<1> QED
  BY <1>1, <1>2, <1>3, CallFields

\* Its tokens.
LEMMA Tokens ==
    /\ Iterative!TokenOf("BadString") = "String" /\ Iterative!TokenOf("String") = "String"
    /\ Iterative!TokenOf("Scalar") = "Number" /\ Iterative!TokenOf("BadScalar") = "Number"
    /\ \A x \in {"[", "]", "{", "}", ",", ":", "End"} : Iterative!TokenOf(x) = x
BY DEF Iterative!TokenOf

\* Where they lead from its states.
Token == {"[", "]", "{", "}", ",", ":", "String", "Number", "End"}
LEMMA PredictTable ==
    ASSUME NEW t \in Token
    PROVE  /\ Iterative!Predict("Start", t)
                = IF t = "{" THEN "ObjectInitial" ELSE IF t = "[" THEN "ArrayInitial"
                  ELSE IF t \in {"String", "Number"} THEN "Value" ELSE "Error"
           /\ Iterative!Predict("KeyValueDelimiter", t)
                = IF t = "{" THEN "ObjectInitial" ELSE IF t = "[" THEN "ArrayInitial"
                  ELSE IF t \in {"String", "Number"} THEN "MemberValue" ELSE "Error"
           /\ \A s \in {"ArrayInitial", "ElementDelimiter"} :
                 Iterative!Predict(s, t)
                   = IF t = "]" THEN "ArrayFinish"
                     ELSE IF t = "{" THEN "ObjectInitial" ELSE IF t = "[" THEN "ArrayInitial"
                     ELSE IF t \in {"String", "Number"} THEN "Element" ELSE "Error"
           /\ \A s \in {"ObjectInitial", "MemberDelimiter"} :
                 Iterative!Predict(s, t)
                   = IF t = "}" THEN "ObjectFinish" ELSE IF t = "String" THEN "MemberKey"
                     ELSE "Error"
           /\ Iterative!Predict("MemberKey", t)
                = IF t = ":" THEN "KeyValueDelimiter" ELSE "Error"
           /\ Iterative!Predict("MemberValue", t)
                = IF t = "}" THEN "ObjectFinish" ELSE IF t = "," THEN "MemberDelimiter"
                  ELSE "Error"
           /\ Iterative!Predict("Element", t)
                = IF t = "]" THEN "ArrayFinish" ELSE IF t = "," THEN "ElementDelimiter"
                  ELSE "Error"
           /\ Iterative!Predict("Finish", t) = "Error"
<1>1. \A v : Iterative!Opening(t, v)
                = IF t = "{" THEN "ObjectInitial" ELSE IF t = "[" THEN "ArrayInitial"
                  ELSE IF t \in {"String", "Number"} THEN v ELSE "Error"
  BY DEF Token, Iterative!Opening
<1>2. Iterative!Predict("Start", t) = Iterative!Opening(t, "Value")
  BY DEF Iterative!Predict
<1>3. Iterative!Predict("KeyValueDelimiter", t) = Iterative!Opening(t, "MemberValue")
  BY DEF Iterative!Predict
<1>4. \A s \in {"ArrayInitial", "ElementDelimiter"} :
         Iterative!Predict(s, t)
           = IF t = "]" THEN "ArrayFinish" ELSE Iterative!Opening(t, "Element")
  BY DEF Iterative!Predict
<1>5. \A s \in {"ObjectInitial", "MemberDelimiter"} :
         Iterative!Predict(s, t)
           = IF t = "}" THEN "ObjectFinish" ELSE IF t = "String" THEN "MemberKey" ELSE "Error"
  BY DEF Iterative!Predict
<1>6. Iterative!Predict("MemberKey", t) = IF t = ":" THEN "KeyValueDelimiter" ELSE "Error"
  BY DEF Iterative!Predict
<1>7. /\ Iterative!Predict("MemberValue", t)
           = IF t = "}" THEN "ObjectFinish" ELSE IF t = "," THEN "MemberDelimiter" ELSE "Error"
      /\ Iterative!Predict("Element", t)
           = IF t = "]" THEN "ArrayFinish" ELSE IF t = "," THEN "ElementDelimiter" ELSE "Error"
      /\ Iterative!Predict("Finish", t) = "Error"
  BY DEF Iterative!Predict
<1> QED
  BY <1>1, <1>2, <1>3, <1>4, <1>5, <1>6, <1>7

\* The same, of the lexemes.
NameLexemes == {"String", "BadString"}
ScalarLexemes == {"String", "BadString", "Scalar", "BadScalar"}
LEMMA PredictedTable ==
    ASSUME NEW x \in Lexemes
    PROVE  /\ StateOf(Current) = "Start" =>
                Iterative!Predicted(x)
                   = IF x = "{" THEN "ObjectInitial" ELSE IF x = "[" THEN "ArrayInitial"
                     ELSE IF x \in ScalarLexemes THEN "Value" ELSE "Error"
           /\ StateOf(Current) = "KeyValueDelimiter" =>
                Iterative!Predicted(x)
                   = IF x = "{" THEN "ObjectInitial" ELSE IF x = "[" THEN "ArrayInitial"
                     ELSE IF x \in ScalarLexemes THEN "MemberValue" ELSE "Error"
           /\ StateOf(Current) \in {"ArrayInitial", "ElementDelimiter"} =>
                Iterative!Predicted(x)
                   = IF x = "]" THEN "ArrayFinish"
                     ELSE IF x = "{" THEN "ObjectInitial" ELSE IF x = "[" THEN "ArrayInitial"
                     ELSE IF x \in ScalarLexemes THEN "Element" ELSE "Error"
           /\ StateOf(Current) \in {"ObjectInitial", "MemberDelimiter"} =>
                Iterative!Predicted(x)
                   = IF x = "}" THEN "ObjectFinish" ELSE IF x \in NameLexemes THEN "MemberKey"
                     ELSE "Error"
           /\ StateOf(Current) = "MemberKey" =>
                Iterative!Predicted(x) = IF x = ":" THEN "KeyValueDelimiter" ELSE "Error"
           /\ StateOf(Current) = "MemberValue" =>
                Iterative!Predicted(x)
                   = IF x = "}" THEN "ObjectFinish" ELSE IF x = "," THEN "MemberDelimiter"
                     ELSE "Error"
           /\ StateOf(Current) = "Element" =>
                Iterative!Predicted(x)
                   = IF x = "]" THEN "ArrayFinish" ELSE IF x = "," THEN "ElementDelimiter"
                     ELSE "Error"
           /\ StateOf(Current) = "Finish" => Iterative!Predicted(x) = "Error"
<1> DEFINE t == Iterative!TokenOf(x)
<1>1. /\ t \in Token
      /\ \A y \in {"[", "]", "{", "}", ",", ":"} : (t = y <=> x = y)
      /\ t = "String" <=> x \in NameLexemes
      /\ t \in {"String", "Number"} <=> x \in ScalarLexemes
  BY Tokens DEF Lexemes, Token, NameLexemes, ScalarLexemes
<1>2. Iterative!Predicted(x) = Iterative!Predict(StateOf(Current), t)
  BY DEF Iterative!Predicted
<1> DEFINE s == StateOf(Current)
           p == Iterative!Predicted(x)
<1>3. p = Iterative!Predict(s, t)
  BY <1>2
<1> HIDE DEF t, s, p
<1>4. ASSUME s = "Start"
      PROVE  p = IF x = "{" THEN "ObjectInitial" ELSE IF x = "[" THEN "ArrayInitial"
                 ELSE IF x \in ScalarLexemes THEN "Value" ELSE "Error"
  <2>1. p = IF t = "{" THEN "ObjectInitial" ELSE IF t = "[" THEN "ArrayInitial"
            ELSE IF t \in {"String", "Number"} THEN "Value" ELSE "Error"
    BY <1>1, <1>3, <1>4, PredictTable
  <2> QED
    BY <1>1, <2>1
<1>5. ASSUME s = "KeyValueDelimiter"
      PROVE  p = IF x = "{" THEN "ObjectInitial" ELSE IF x = "[" THEN "ArrayInitial"
                 ELSE IF x \in ScalarLexemes THEN "MemberValue" ELSE "Error"
  <2>1. p = IF t = "{" THEN "ObjectInitial" ELSE IF t = "[" THEN "ArrayInitial"
            ELSE IF t \in {"String", "Number"} THEN "MemberValue" ELSE "Error"
    BY <1>1, <1>3, <1>5, PredictTable
  <2> QED
    BY <1>1, <2>1
<1>6. ASSUME s \in {"ArrayInitial", "ElementDelimiter"}
      PROVE  p = IF x = "]" THEN "ArrayFinish"
                 ELSE IF x = "{" THEN "ObjectInitial" ELSE IF x = "[" THEN "ArrayInitial"
                 ELSE IF x \in ScalarLexemes THEN "Element" ELSE "Error"
  <2>1. p = IF t = "]" THEN "ArrayFinish"
            ELSE IF t = "{" THEN "ObjectInitial" ELSE IF t = "[" THEN "ArrayInitial"
            ELSE IF t \in {"String", "Number"} THEN "Element" ELSE "Error"
    BY <1>1, <1>3, <1>6, PredictTable
  <2> QED
    BY <1>1, <2>1
<1>7. ASSUME s \in {"ObjectInitial", "MemberDelimiter"}
      PROVE  p = IF x = "}" THEN "ObjectFinish" ELSE IF x \in NameLexemes THEN "MemberKey"
                 ELSE "Error"
  <2>1. p = IF t = "}" THEN "ObjectFinish" ELSE IF t = "String" THEN "MemberKey" ELSE "Error"
    BY <1>1, <1>3, <1>7, PredictTable
  <2> QED
    BY <1>1, <2>1
<1>8. ASSUME s = "MemberKey"
      PROVE  p = IF x = ":" THEN "KeyValueDelimiter" ELSE "Error"
  <2>1. p = IF t = ":" THEN "KeyValueDelimiter" ELSE "Error"
    BY <1>1, <1>3, <1>8, PredictTable
  <2> QED
    BY <1>1, <2>1
<1>9. ASSUME s = "MemberValue"
      PROVE  p = IF x = "}" THEN "ObjectFinish"
                 ELSE IF x = "," THEN "MemberDelimiter" ELSE "Error"
  <2>1. p = IF t = "}" THEN "ObjectFinish" ELSE IF t = "," THEN "MemberDelimiter" ELSE "Error"
    BY <1>1, <1>3, <1>9, PredictTable
  <2> QED
    BY <1>1, <2>1
<1>10. ASSUME s = "Element"
       PROVE  p = IF x = "]" THEN "ArrayFinish"
                  ELSE IF x = "," THEN "ElementDelimiter" ELSE "Error"
  <2>1. p = IF t = "]" THEN "ArrayFinish" ELSE IF t = "," THEN "ElementDelimiter" ELSE "Error"
    BY <1>1, <1>3, <1>10, PredictTable
  <2> QED
    BY <1>1, <2>1
<1>11. s = "Finish" => p = "Error"
  BY <1>1, <1>3, PredictTable
<1> QED
  BY <1>4, <1>5, <1>6, <1>7, <1>8, <1>9, <1>10, <1>11 DEF s, p

LEMMA MissingTable ==
    /\ Iterative!Missing("Start") = "DocumentEmpty"
    /\ Iterative!Missing("Finish") = "DocumentRootNotSingular"
    /\ Iterative!Missing("ObjectInitial") = "ObjectMissName"
    /\ Iterative!Missing("MemberDelimiter") = "ObjectMissName"
    /\ Iterative!Missing("MemberKey") = "ObjectMissColon"
    /\ Iterative!Missing("MemberValue") = "ObjectMissCommaOrCurlyBracket"
    /\ Iterative!Missing("Element") = "ArrayMissCommaOrSquareBracket"
    /\ \A s \in {"ArrayInitial", "ElementDelimiter", "KeyValueDelimiter"} :
          Iterative!Missing(s) = "ValueInvalid"
BY DEF Iterative!Missing

\* A step of one operation is a step of the parser.
LEMMA IsStep ==
    ASSUME NEW x \in Lexemes, result = "none", UNCHANGED flags,
           \/ Iterative!OpenValue(x) \/ Iterative!ReadScalar(x) \/ Iterative!ReadColon(x)
           \/ Iterative!ReadComma(x) \/ Iterative!CloseValue(x)
           \/ Iterative!NoWayOn(x) \/ Iterative!AtEnd(x)
    PROVE  Iterative!IterativeNext
BY DEF Iterative!IterativeNext, Iterative!Lexemes, Lexemes, ResultOf

\* Where a step goes on or ends.
LEMMA Enters ==
    ASSUME NEW s, StateOf(Current)' = s,
           result' = IF s = "Finish" /\ "StopWhenDone" \in flags THEN "ok" ELSE "none"
    PROVE  Iterative!Enter(s)
BY DEF Iterative!Enter, ResultOf

LEMMA Fails ==
    ASSUME NEW code, Stop(code)
    PROVE  Iterative!Fail(ResultOf(calls, code))
<1>1. calls' = calls /\ doc' = doc /\ result' = code
  BY DEF Stop
<1>2. ResultOf(calls, result)' = ResultOf(calls, code)
  BY <1>1
<1>3. StateOf(Current)' = StateOf(Current) /\ StackOf(calls)' = StackOf(calls)
  BY <1>1 DEF Current
<1> QED
  BY <1>1, <1>2, <1>3 DEF Iterative!Fail

\* What reads a lexeme, in terms of the state it is read in.
LEMMA ContainerAgrees ==
    ASSUME ParsingIInv, NEW x \in Lexemes, ParseContainer(x), result = "none", UNCHANGED flags
    PROVE  Iterative!IterativeNext
<1> DEFINE f == [Current EXCEPT !.place = "value"]
           type == TypeOpenedBy(x)
           es == [calls EXCEPT ![Len(calls)] = f]
           opened == IF x = "{" THEN "ObjectInitial" ELSE "ArrayInitial"
<1>1. /\ [calls EXCEPT ![Len(calls)].place = "value"] = es
      /\ f \in Calls /\ f = [type |-> Current.type, count |-> Current.count, place |-> "value"]
  BY Moved
<1>2. /\ calls \in Seq(Calls) /\ Len(calls) \in Nat /\ Len(calls) > 0
      /\ Current = calls[Len(calls)] /\ Current \in Calls
  BY CurrentParts DEF ParsingIInv
<1> HIDE DEF f
<1>3. /\ calls' = Append(es, Call(type)) /\ doc' = Append(doc, Started(type))
      /\ result' = "none" /\ AwaitsValue /\ x \in {"[", "{"}
  BY <1>1 DEF ParseContainer, Pushed
<1>4. es \in Seq(Calls) /\ Len(es) = Len(calls) /\ es[Len(es)] = f
  BY <1>1, <1>2
<1>5. StackOf(es) = StackOf(calls)
  <2>1. Counted(f) = Counted(Current)
    BY <1>1, <1>3, CurrentCall DEF Counted, AwaitsValue
  <2> QED
    BY <1>1, <1>2, <2>1, StackStays
<1>6. /\ Call(type) \in Calls
      /\ Call(type).type = type /\ Call(type).place = "first" /\ Call(type).count = 0
      /\ type = IF x = "{" THEN "Object" ELSE "Array"
  BY DEF Call, Calls, TypeOpenedBy
<1> HIDE DEF es
<1>7. Current' = Call(type)
  <2>1. Append(es, Call(type))[Len(Append(es, Call(type)))] = Call(type)
    BY <1>4
  <2> QED
    BY <1>3, <2>1 DEF Current
<1>8. StateOf(Current)' = opened /\ opened # "Finish"
  <2>1. StateOf(Call(type)) = IF x = "{" THEN "ObjectInitial" ELSE "ArrayInitial"
    <3> DEFINE c == Call(type)
    <3>1. c \in Calls /\ c.type = type /\ c.place = "first"
      BY <1>6
    <3> HIDE DEF c, type
    <3>2. StateOf(c) = IF x = "{" THEN "ObjectInitial" ELSE "ArrayInitial"
      BY <1>6, <3>1, StateTable
    <3> QED
      BY <3>2 DEF c
  <2> QED
    BY <1>7, <2>1
<1> HIDE DEF type
<1>9. BackTo(f) = BackTo(Current) /\ Counted(Call(type)) = 0
  <2>1. f.type = Current.type /\ Call(type).place = "first" /\ Call(type).count = 0
    BY <1>1, <1>6
  <2> QED
    BY <2>1 DEF Counted, BackTo
<1>10. StackOf(calls)' = Append(StackOf(calls), [back |-> BackTo(Current), count |-> 0])
  <2>1. StackOf(Append(es, Call(type)))
          = Append(StackOf(es), [back |-> BackTo(f), count |-> Counted(Call(type))])
    BY <1>2, <1>4, <1>6, StackOpens
  <2> QED
    BY <1>3, <1>9, <1>5, <2>1
<1>11. /\ StateOf(Current) \in {"Start", "KeyValueDelimiter", "ArrayInitial", "ElementDelimiter"}
       /\ Iterative!Back(StateOf(Current)) = BackTo(Current)
  <2>1. CASE Current.type = "Root"
    BY <1>2, <1>3, <2>1, CurrentCall, StateTable DEF Iterative!Back, BackTo, AwaitsValue
  <2>2. CASE Current.type = "Object"
    BY <1>2, <1>3, <2>2, CurrentCall, StateTable DEF Iterative!Back, BackTo, AwaitsValue
  <2>3. CASE Current.type = "Array"
    BY <1>2, <1>3, <2>3, CurrentCall, StateTable DEF Iterative!Back, BackTo, AwaitsValue
  <2> QED
    BY <2>1, <2>2, <2>3, CurrentCall
<1>12. Iterative!Predicted(x) = opened
  BY <1>3, <1>11, PredictedTable DEF ScalarLexemes, NameLexemes
<1>13. doc' = Iterative!Pushed(doc, Iterative!Started(Iterative!TypeOpenedBy(x)))
  BY <1>3 DEF type, Iterative!Pushed, Iterative!Started, Iterative!TypeOpenedBy, Started,
     TypeOpenedBy
<1>14. Iterative!Enter(Iterative!Predicted(x))
  BY <1>3, <1>8, <1>12, Enters
<1>15. Iterative!OpenValue(x)
  BY <1>10, <1>11, <1>12, <1>13, <1>14 DEF Iterative!OpenValue
<1> QED
  BY <1>15, IsStep

LEMMA ScalarAgrees ==
    ASSUME ParsingIInv, NEW x \in Lexemes, ParseScalar(x), result = "none", UNCHANGED flags
    PROVE  Iterative!IterativeNext
<1> DEFINE f == WithValue(Current)
<1>1. /\ calls \in Seq(Calls) /\ Len(calls) \in Nat /\ Len(calls) > 0
      /\ Current = calls[Len(calls)] /\ Current \in Calls
  BY CurrentParts DEF ParsingIInv
<1>2. /\ f \in Calls
      /\ f = IF Current.type = "Root"
             THEN [type |-> Current.type, count |-> Current.count, place |-> "end"]
             ELSE [type |-> Current.type, count |-> Current.count + 1, place |-> "next"]
  BY <1>1, ReturnedCall
<1>3. /\ AwaitsValue /\ x \in {"String", "Scalar"}
      /\ calls' = [calls EXCEPT ![Len(calls)] = f]
      /\ doc' = Append(doc, Simple(x))
      /\ result' = IF Len(calls) = 1 /\ "StopWhenDone" \in flags THEN "ok" ELSE "none"
  BY DEF ParseScalar, ReturnTo, Pushed, Current
<1> HIDE DEF f
<1>4. Current' = f
  BY <1>1, <1>2, <1>3 DEF Current
<1>5. Counted(f) = Counted(Current)
  BY <1>2, <1>3, CurrentCall DEF Counted, AwaitsValue
<1>6. StackOf(calls)' = StackOf(calls)
  <2>1. StackOf([calls EXCEPT ![Len(calls)] = f]) = StackOf(calls)
    BY <1>1, <1>2, <1>5, StackStays
  <2> QED
    BY <1>3, <2>1
<1>7. /\ Iterative!Predicted(x) \in {"Value", "MemberValue", "Element"}
      /\ StateOf(f) = IF Iterative!Predicted(x) = "Value" THEN "Finish" ELSE Iterative!Predicted(x)
      /\ Iterative!Predicted(x) = "Value" <=> Len(calls) = 1
  <2>1. CASE Current.type = "Root"
    <3>1. StateOf(Current) = "Start" /\ StateOf(f) = "Finish"
      BY <1>1, <1>2, <1>3, <2>1, CurrentCall, StateTable DEF AwaitsValue
    <3> QED
      BY <1>3, <2>1, <3>1, CurrentCall, PredictedTable DEF ScalarLexemes, NameLexemes
  <2>2. CASE Current.type = "Object"
    <3>1. StateOf(Current) = "KeyValueDelimiter" /\ StateOf(f) = "MemberValue"
      BY <1>1, <1>2, <1>3, <2>2, CurrentCall, StateTable DEF AwaitsValue
    <3> QED
      BY <1>3, <2>2, <3>1, CurrentCall, PredictedTable DEF ScalarLexemes, NameLexemes
  <2>3. CASE Current.type = "Array"
    <3>1. StateOf(Current) \in {"ArrayInitial", "ElementDelimiter"} /\ StateOf(f) = "Element"
      BY <1>1, <1>2, <1>3, <2>3, CurrentCall, StateTable DEF AwaitsValue
    <3> QED
      BY <1>3, <2>3, <3>1, CurrentCall, PredictedTable DEF ScalarLexemes, NameLexemes
  <2> QED
    BY <2>1, <2>2, <2>3, CurrentCall
<1>8. Iterative!Enter(IF Iterative!Predicted(x) = "Value" THEN "Finish" ELSE Iterative!Predicted(x))
  BY <1>3, <1>4, <1>7, Enters
<1>9. doc' = Iterative!Pushed(doc, Iterative!Simple(x)) /\ x \notin Iterative!Bad
  BY <1>3 DEF Iterative!Pushed, Iterative!Simple, Simple, Iterative!Bad
<1>10. Iterative!ReadScalar(x)
  BY <1>6, <1>7, <1>8, <1>9 DEF Iterative!ReadScalar
<1> QED
  BY <1>10, IsStep

LEMMA NoValueAgrees ==
    ASSUME ParsingIInv, NEW x \in Lexemes, ParseNoValue(x), result = "none", UNCHANGED flags
    PROVE  Iterative!IterativeNext
<1> DEFINE code == CASE x \in Bad -> x
                     [] x = "End" /\ Current.type = "Root" -> "DocumentEmpty"
                     [] OTHER -> "ValueInvalid"
<1>1. /\ AwaitsValue /\ x \in {"]", "}", ",", ":", "BadString", "BadScalar", "End"}
      /\ ~Closes(x) /\ Stop(code) /\ Current \in Calls
  BY CurrentCall DEF ParseNoValue, Lexemes
<1>2. /\ x \in Bad => code = x
      /\ x \notin Bad => code = IF x = "End" /\ Current.type = "Root" THEN "DocumentEmpty"
                               ELSE "ValueInvalid"
      /\ x \in Bad <=> x \in {"BadString", "BadScalar"}
  BY DEF Bad
<1> HIDE DEF code
<1>3. Iterative!Fail(ResultOf(calls, code))
  BY <1>1, Fails
<1>4. /\ Current.type = "Root" => StateOf(Current) = "Start" /\ Len(calls) = 1
      /\ Current.type = "Object" => StateOf(Current) = "KeyValueDelimiter" /\ Len(calls) # 1
      /\ Current.type = "Array" =>
            /\ StateOf(Current) \in {"ArrayInitial", "ElementDelimiter"}
            /\ Len(calls) # 1
  BY <1>1, CurrentCall, StateTable DEF AwaitsValue
<1>5. Current.type \in {"Root", "Object", "Array"}
  BY CurrentCall
<1>6. CASE x \in Bad
  <2>1. Iterative!Predicted(x) \in {"Value", "MemberValue", "Element"}
    BY <1>2, <1>4, <1>5, <1>6, PredictedTable DEF ScalarLexemes, NameLexemes
  <2>2. ResultOf(calls, code) = x /\ x \in Iterative!Bad
    BY <1>2, <1>6 DEF ResultOf, Iterative!Bad
  <2>3. Iterative!ReadScalar(x)
    BY <1>3, <2>1, <2>2 DEF Iterative!ReadScalar
  <2> QED
    BY <2>3, IsStep
<1>7. CASE x \notin Bad
  <2>1. ResultOf(calls, code) = Iterative!Missing(StateOf(Current))
    BY <1>2, <1>4, <1>5, <1>7, MissingTable DEF ResultOf
  <2>2. CASE x = "End"
    <3>1. StateOf(Current) # "Finish"
      BY <1>4, <1>5
    <3>2. Iterative!AtEnd(x)
      BY <1>3, <2>1, <2>2, <3>1 DEF Iterative!AtEnd
    <3> QED
      BY <3>2, IsStep
  <2>3. CASE x = "]" /\ Current.type = "Array"
    <3>1. Iterative!Predicted(x) = "ArrayFinish"
      BY <1>4, <2>3, PredictedTable DEF ScalarLexemes, NameLexemes
    <3>2. Current.place = "comma" /\ "TrailingCommas" \notin flags
      BY <1>1, <2>3, CurrentCall DEF Closes, ClosingOf, MayClose, Trailing
    <3>3. StateOf(Current) = "ElementDelimiter"
      BY <1>1, <2>3, <3>2, StateTable
    <3>4. ResultOf(calls, code) = "ValueInvalid"
      BY <1>2, <1>4, <1>7, <2>3 DEF ResultOf
    <3>5. Iterative!CloseValue(x)
      BY <1>3, <3>1, <3>2, <3>3, <3>4 DEF Iterative!CloseValue
    <3> QED
      BY <3>5, IsStep
  <2>4. CASE x # "End" /\ ~(x = "]" /\ Current.type = "Array")
    <3>1. x \in {"]", "}", ",", ":"}
      BY <1>1, <1>2, <1>7, <2>4
    <3>2. Iterative!Predicted(x) = "Error"
      BY <1>4, <1>5, <2>4, <3>1, PredictedTable DEF ScalarLexemes, NameLexemes
    <3>3. Iterative!NoWayOn(x)
      BY <1>3, <2>1, <2>4, <3>2 DEF Iterative!NoWayOn
    <3> QED
      BY <3>3, IsStep
  <2> QED
    BY <2>2, <2>3, <2>4
<1> QED
  BY <1>6, <1>7

LEMMA NameAgrees ==
    ASSUME ParsingIInv, NEW x \in Lexemes, ParseName(x), result = "none", UNCHANGED flags
    PROVE  Iterative!IterativeNext
<1>1. /\ calls \in Seq(Calls) /\ Len(calls) \in Nat /\ Len(calls) > 0
      /\ Current = calls[Len(calls)] /\ Current \in Calls
  BY CurrentParts DEF ParsingIInv
<1>2. /\ Current.type = "Object" /\ Current.place \in {"first", "comma"}
      /\ Len(calls) # 1
  BY CurrentCall DEF ParseName, AwaitsName
<1>3. /\ Current.place = "first" => StateOf(Current) = "ObjectInitial"
      /\ Current.place = "comma" => StateOf(Current) = "MemberDelimiter"
  BY <1>1, <1>2, StateTable
<1>4. Iterative!Predicted(x) = IF x = "}" THEN "ObjectFinish"
                               ELSE IF x \in NameLexemes THEN "MemberKey" ELSE "Error"
  BY <1>2, <1>3, PredictedTable
<1>5. CASE x = "String"
  <2> DEFINE f == [Current EXCEPT !.place = "colon"]
  <2>1. /\ [calls EXCEPT ![Len(calls)].place = "colon"] = [calls EXCEPT ![Len(calls)] = f]
        /\ f \in Calls /\ f = [type |-> Current.type, count |-> Current.count, place |-> "colon"]
    BY Moved
  <2> HIDE DEF f
  <2>2. /\ calls' = [calls EXCEPT ![Len(calls)] = f] /\ doc' = Append(doc, Simple(x))
        /\ result' = "none"
    BY <1>5, <2>1 DEF ParseName, MoveTo, Pushed
  <2>3. f.type = "Object" /\ f.place = "colon" /\ Counted(f) = Counted(Current)
    BY <1>2, <2>1 DEF Counted
  <2>4. StackOf(calls)' = StackOf(calls)
    <3>1. StackOf([calls EXCEPT ![Len(calls)] = f]) = StackOf(calls)
      BY <1>1, <2>1, <2>3, StackStays
    <3> QED
      BY <2>2, <3>1
  <2>5. StateOf(Current)' = "MemberKey"
    <3>1. Current' = f
      BY <1>1, <2>1, <2>2 DEF Current
    <3>2. StateOf(f) = "MemberKey"
      BY <2>1, <2>3, StateTable
    <3> QED
      BY <3>1, <3>2
  <2>6. Iterative!Predicted(x) = "MemberKey"
    BY <1>4, <1>5 DEF NameLexemes
  <2>7. Iterative!Enter(IF Iterative!Predicted(x) = "Value" THEN "Finish"
                        ELSE Iterative!Predicted(x))
    BY <2>2, <2>5, <2>6, Enters
  <2>8. doc' = Iterative!Pushed(doc, Iterative!Simple(x)) /\ x \notin Iterative!Bad
    BY <1>5, <2>2 DEF Iterative!Pushed, Iterative!Simple, Simple, Iterative!Bad
  <2>9. Iterative!ReadScalar(x)
    BY <2>4, <2>6, <2>7, <2>8 DEF Iterative!ReadScalar
  <2> QED
    BY <2>9, IsStep
<1>6. CASE x = "BadString"
  <2>1. Stop(x)
    BY <1>6 DEF ParseName
  <2>2. Iterative!Fail(x)
    BY <1>6, <2>1, Fails DEF ResultOf
  <2>3. Iterative!Predicted(x) = "MemberKey" /\ x \in Iterative!Bad
    BY <1>4, <1>6 DEF NameLexemes, Iterative!Bad
  <2>4. Iterative!ReadScalar(x)
    BY <2>2, <2>3 DEF Iterative!ReadScalar
  <2> QED
    BY <2>4, IsStep
<1>7. CASE x \notin {"String", "BadString"}
  <2>1. Stop("ObjectMissName")
    BY <1>7 DEF ParseName
  <2>2. Iterative!Fail("ObjectMissName")
    BY <2>1, Fails DEF ResultOf
  <2>3. /\ Iterative!Missing(StateOf(Current)) = "ObjectMissName"
        /\ StateOf(Current) # "Finish"
    BY <1>2, <1>3, MissingTable
  <2>4. CASE x = "End"
    <3>1. Iterative!AtEnd(x)
      BY <2>2, <2>3, <2>4 DEF Iterative!AtEnd
    <3> QED
      BY <3>1, IsStep
  <2>5. CASE x = "}"
    <3>1. Current.place = "comma" /\ "TrailingCommas" \notin flags
      BY <1>2, <2>5 DEF ParseName, Closes, ClosingOf, MayClose, Trailing
    <3>2. Iterative!Predicted(x) = "ObjectFinish" /\ StateOf(Current) = "MemberDelimiter"
      BY <1>3, <1>4, <2>5, <3>1
    <3>3. Iterative!CloseValue(x)
      BY <2>2, <3>1, <3>2 DEF Iterative!CloseValue
    <3> QED
      BY <3>3, IsStep
  <2>6. CASE x \notin {"End", "}"}
    <3>1. Iterative!Predicted(x) = "Error"
      BY <1>4, <1>7, <2>6 DEF NameLexemes
    <3>2. Iterative!NoWayOn(x)
      BY <2>2, <2>3, <2>6, <3>1 DEF Iterative!NoWayOn
    <3> QED
      BY <3>2, IsStep
  <2> QED
    BY <2>4, <2>5, <2>6
<1> QED
  BY <1>5, <1>6, <1>7

LEMMA ColonAgrees ==
    ASSUME ParsingIInv, NEW x \in Lexemes, ParseColon(x), result = "none", UNCHANGED flags
    PROVE  Iterative!IterativeNext
<1>1. /\ calls \in Seq(Calls) /\ Len(calls) \in Nat /\ Len(calls) > 0
      /\ Current = calls[Len(calls)] /\ Current \in Calls
  BY CurrentParts DEF ParsingIInv
<1>2. Current.type = "Object" /\ Current.place = "colon"
  BY CurrentCall DEF ParseColon
<1>3. StateOf(Current) = "MemberKey"
  BY <1>1, <1>2, StateTable
<1>4. Iterative!Predicted(x) = IF x = ":" THEN "KeyValueDelimiter" ELSE "Error"
  BY <1>3, PredictedTable
<1>5. CASE x = ":"
  <2> DEFINE f == [Current EXCEPT !.place = "value"]
  <2>1. /\ [calls EXCEPT ![Len(calls)].place = "value"] = [calls EXCEPT ![Len(calls)] = f]
        /\ f \in Calls /\ f = [type |-> Current.type, count |-> Current.count, place |-> "value"]
    BY Moved
  <2> HIDE DEF f
  <2>2. calls' = [calls EXCEPT ![Len(calls)] = f] /\ doc' = doc /\ result' = "none"
    BY <1>5, <2>1 DEF ParseColon, MoveTo
  <2>3. f.type = "Object" /\ f.place = "value" /\ Counted(f) = Counted(Current)
    BY <1>2, <2>1 DEF Counted
  <2>4. StackOf(calls)' = StackOf(calls)
    <3>1. StackOf([calls EXCEPT ![Len(calls)] = f]) = StackOf(calls)
      BY <1>1, <2>1, <2>3, StackStays
    <3> QED
      BY <2>2, <3>1
  <2>5. StateOf(Current)' = "KeyValueDelimiter"
    <3>1. Current' = f
      BY <1>1, <2>1, <2>2 DEF Current
    <3>2. StateOf(f) = "KeyValueDelimiter"
      BY <2>1, <2>3, StateTable
    <3> QED
      BY <3>1, <3>2
  <2>6. Iterative!Predicted(x) = "KeyValueDelimiter"
    BY <1>4, <1>5
  <2>7. Iterative!Enter(Iterative!Predicted(x))
    BY <2>2, <2>5, <2>6, Enters
  <2>8. Iterative!ReadColon(x)
    BY <2>2, <2>4, <2>6, <2>7 DEF Iterative!ReadColon
  <2> QED
    BY <2>8, IsStep
<1>6. CASE x # ":"
  <2>1. Stop("ObjectMissColon")
    BY <1>6 DEF ParseColon
  <2>2. Iterative!Fail("ObjectMissColon")
    BY <2>1, Fails DEF ResultOf
  <2>3. Iterative!Missing(StateOf(Current)) = "ObjectMissColon" /\ StateOf(Current) # "Finish"
    BY <1>3, MissingTable
  <2>4. CASE x = "End"
    <3>1. Iterative!AtEnd(x)
      BY <2>2, <2>3, <2>4 DEF Iterative!AtEnd
    <3> QED
      BY <3>1, IsStep
  <2>5. CASE x # "End"
    <3>1. Iterative!NoWayOn(x)
      BY <1>4, <1>6, <2>2, <2>3, <2>5 DEF Iterative!NoWayOn
    <3> QED
      BY <3>1, IsStep
  <2> QED
    BY <2>4, <2>5
<1> QED
  BY <1>5, <1>6

LEMMA CommaAgrees ==
    ASSUME ParsingIInv, NEW x \in Lexemes, ParseComma(x), result = "none", UNCHANGED flags
    PROVE  Iterative!IterativeNext
<1>1. /\ calls \in Seq(Calls) /\ Len(calls) \in Nat /\ Len(calls) > 0
      /\ Current = calls[Len(calls)] /\ Current \in Calls
  BY CurrentParts DEF ParsingIInv
<1>2. /\ Current.type \in {"Object", "Array"} /\ Current.place = "next" /\ Len(calls) > 1
      /\ Current.count \in Nat
  <2>1. Current.type \in {"Object", "Array"} /\ Current.place = "next" /\ Len(calls) # 1
    BY CurrentCall DEF ParseComma
  <2>2. \A k \in Nat : k > 0 => k = 1 \/ k > 1
    OBVIOUS
  <2> QED
    BY <1>1, <2>1, <2>2, CurrentCall
<1>3. StateOf(Current) = IF Current.type = "Object" THEN "MemberValue" ELSE "Element"
  BY <1>1, <1>2, StateTable
<1>4. Iterative!Predicted(x)
        = IF x = "," THEN (IF Current.type = "Object" THEN "MemberDelimiter" ELSE "ElementDelimiter")
          ELSE IF Current.type = "Object" /\ x = "}" THEN "ObjectFinish"
          ELSE IF Current.type = "Array" /\ x = "]" THEN "ArrayFinish"
          ELSE "Error"
  <2>1. CASE Current.type = "Object"
    BY <1>3, <2>1, PredictedTable
  <2>2. CASE Current.type = "Array"
    BY <1>3, <2>2, PredictedTable
  <2> QED
    BY <1>2, <2>1, <2>2
<1>5. CASE x = ","
  <2> DEFINE f == [Current EXCEPT !.place = "comma"]
  <2>1. /\ [calls EXCEPT ![Len(calls)].place = "comma"] = [calls EXCEPT ![Len(calls)] = f]
        /\ f \in Calls /\ f = [type |-> Current.type, count |-> Current.count, place |-> "comma"]
    BY Moved
  <2> HIDE DEF f
  <2>2. calls' = [calls EXCEPT ![Len(calls)] = f] /\ doc' = doc /\ result' = "none"
    BY <1>5, <2>1 DEF ParseComma, MoveTo
  <2>3. f.type = Current.type /\ f.place = "comma" /\ Counted(f) = Counted(Current) + 1
    BY <1>2, <2>1 DEF Counted
  <2>4. StackOf(calls)' = [StackOf(calls) EXCEPT ![Len(StackOf(calls))].count = @ + 1]
    <3>1. StackOf([calls EXCEPT ![Len(calls)] = f])
            = [StackOf(calls) EXCEPT ![Len(StackOf(calls))].count = @ + 1]
      BY <1>1, <1>2, <2>1, <2>3, StackCounts
    <3> QED
      BY <2>2, <3>1
  <2>5. StateOf(Current)' = Iterative!Predicted(x)
    <3>1. Current' = f
      BY <1>1, <2>1, <2>2 DEF Current
    <3>2. StateOf(f) = IF Current.type = "Object" THEN "MemberDelimiter" ELSE "ElementDelimiter"
      BY <1>2, <2>1, <2>3, StateTable
    <3> QED
      BY <1>4, <1>5, <3>1, <3>2
  <2>6. Iterative!Predicted(x) \in {"MemberDelimiter", "ElementDelimiter"}
    BY <1>4, <1>5
  <2>7. Iterative!Enter(Iterative!Predicted(x))
    BY <2>2, <2>5, <2>6, Enters
  <2>8. Iterative!ReadComma(x)
    BY <2>2, <2>4, <2>6, <2>7 DEF Iterative!ReadComma
  <2> QED
    BY <2>8, IsStep
<1>6. CASE x # ","
  <2> DEFINE code == IF Current.type = "Object" THEN "ObjectMissCommaOrCurlyBracket"
                     ELSE "ArrayMissCommaOrSquareBracket"
  <2>1. Stop(code)
    BY <1>6 DEF ParseComma
  <2>2. Iterative!Fail(code)
    <3>1. ResultOf(calls, code) = code
      BY DEF ResultOf
    <3> HIDE DEF code
    <3> QED
      BY <2>1, <3>1, Fails
  <2>3. Iterative!Missing(StateOf(Current)) = code /\ StateOf(Current) # "Finish"
    BY <1>2, <1>3, MissingTable
  <2>4. CASE x = "End"
    <3>1. Iterative!AtEnd(x)
      BY <2>2, <2>3, <2>4 DEF Iterative!AtEnd
    <3> QED
      BY <3>1, IsStep
  <2>5. CASE x # "End"
    <3>1. ~(Current.type = "Object" /\ x = "}") /\ ~(Current.type = "Array" /\ x = "]")
      BY <1>2 DEF ParseComma, Closes, ClosingOf, MayClose
    <3>2. Iterative!Predicted(x) = "Error"
      BY <1>4, <1>6, <3>1
    <3>3. Iterative!NoWayOn(x)
      BY <2>2, <2>3, <2>5, <3>2 DEF Iterative!NoWayOn
    <3> QED
      BY <3>3, IsStep
  <2> QED
    BY <2>4, <2>5
<1> QED
  BY <1>5, <1>6

LEMMA CloseAgrees ==
    ASSUME ParsingIInv, NEW x \in Lexemes, ParseClose(x), result = "none", UNCHANGED flags
    PROVE  Iterative!IterativeNext
<1> DEFINE n == Len(calls) - 1
           es == SubSeq(calls, 1, n)
           c == calls[n]
           f == WithValue(c)
<1>1. /\ Current.type \in {"Object", "Array"} /\ Current.place \in {"first", "comma", "next"}
      /\ Current.place = "comma" => "TrailingCommas" \in flags
      /\ x = IF Current.type = "Object" THEN "}" ELSE "]"
      /\ Current.count \in Nat
  BY CurrentCall DEF ParseClose, Closes, MayClose, ClosingOf, Trailing
<1>2. /\ calls \in Seq(Calls) /\ Nested(calls) /\ Len(calls) > 1 /\ Len(calls) \in Nat
      /\ Current = calls[Len(calls)] /\ Current \in Calls
  <2>1. /\ calls \in Seq(Calls) /\ Nested(calls) /\ Len(calls) \in Nat /\ Len(calls) > 0
        /\ Len(calls) # 1 /\ Current = calls[Len(calls)] /\ Current \in Calls
    BY <1>1, CurrentParts DEF ParsingIInv
  <2>2. \A k \in Nat : k > 0 => k = 1 \/ k > 1
    OBVIOUS
  <2> QED
    BY <2>1, <2>2
<1>3. /\ es \in Seq(Calls) /\ Nested(es) /\ Len(es) = n /\ es[n] = c
      /\ c.place = "value" /\ c \in Calls
  BY <1>2, NestCloses
<1>4. n \in Nat /\ n > 0 /\ n + 1 = Len(calls)
  BY <1>2
<1>5. c.type = "Root" <=> n = 1
  <2> HIDE DEF es, c, n
  <2>1. n \in 1 .. Len(es)
    BY <1>3, <1>4
  <2> QED
    BY <1>3, <2>1 DEF Nested
<1>6. /\ f \in Calls
      /\ f = IF c.type = "Root" THEN [type |-> c.type, count |-> c.count, place |-> "end"]
             ELSE [type |-> c.type, count |-> c.count + 1, place |-> "next"]
  BY <1>3, ReturnedCall
<1>7. /\ calls' = [es EXCEPT ![n] = f]
      /\ result' = IF n = 1 /\ "StopWhenDone" \in flags THEN "ok" ELSE "none"
      /\ doc' = EndContainer(doc, Current.type, Current.count)
  <2>1. ReturnTo(es) /\ doc' = EndContainer(doc, Current.type, Current.count)
    BY DEF ParseClose
  <2> HIDE DEF es, f
  <2>2. f = WithValue(es[n])
    BY <1>3 DEF f
  <2> QED
    BY <1>3, <2>1, <2>2 DEF ReturnTo
<1>8. /\ Len(StackOf(calls)) = n
      /\ StackOf(calls)[n] = [back |-> BackTo(c), count |-> Counted(Current)]
  <2>1. /\ Len(StackOf(calls)) = Len(calls) - 1
        /\ \A i \in 1 .. Len(calls) - 1 :
              StackOf(calls)[i] = [back |-> BackTo(calls[i]), count |-> Counted(calls[i + 1])]
    <3>1. Len(calls) > 0
      BY <1>2
    <3> QED
      BY <1>2, <3>1, StackParts
  <2>2. n = Len(calls) - 1 /\ calls[n + 1] = Current /\ n \in 1 .. n
    BY <1>2, <1>4
  <2> HIDE DEF n
  <2> QED
    BY <2>1, <2>2
<1>9. StackOf(es) = SubSeq(StackOf(calls), 1, Len(StackOf(calls)) - 1)
  BY <1>2, StackCloses
<1> HIDE DEF es, c, f, n
<1>10. Counted(f) = Counted(c) /\ c.type \in {"Root", "Object", "Array"}
  BY <1>3, <1>6, CallFields DEF Counted
<1>11. StackOf(calls)' = SubSeq(StackOf(calls), 1, Len(StackOf(calls)) - 1)
  <2>1. StackOf([es EXCEPT ![Len(es)] = f]) = StackOf(es)
    BY <1>3, <1>4, <1>6, <1>10, StackStays
  <2> QED
    BY <1>3, <1>7, <1>9, <2>1
<1>12. Current' = f
  <2>1. calls'[Len(calls')] = f
    BY <1>3, <1>4, <1>6, <1>7
  <2> QED
    BY <2>1 DEF Current
<1>13. /\ StateOf(f) = IF BackTo(c) = "Start" THEN "Finish" ELSE BackTo(c)
       /\ StateOf(f) = "Finish" <=> n = 1
  <2>1. CASE c.type = "Root"
    BY <1>5, <1>6, <2>1, StateTable DEF BackTo
  <2>2. CASE c.type = "Object"
    BY <1>5, <1>6, <2>2, StateTable DEF BackTo
  <2>3. CASE c.type = "Array"
    BY <1>5, <1>6, <2>3, StateTable DEF BackTo
  <2> QED
    BY <1>10, <2>1, <2>2, <2>3
<1>14. /\ StateOf(Current) \in {"MemberDelimiter", "ElementDelimiter"} => "TrailingCommas" \in flags
       /\ Iterative!Predicted(x) = IF Current.type = "Object" THEN "ObjectFinish" ELSE "ArrayFinish"
       /\ Counted(Current) + Iterative!CountOf(StateOf(Current)) = Current.count
  <2>1. CASE Current.type = "Object"
    <3>1. /\ Current.place = "first" => StateOf(Current) = "ObjectInitial"
          /\ Current.place = "next" => StateOf(Current) = "MemberValue"
          /\ Current.place = "comma" => StateOf(Current) = "MemberDelimiter"
      BY <1>2, <2>1, StateTable
    <3>2. Iterative!Predicted(x) = "ObjectFinish"
      BY <1>1, <2>1, <3>1, PredictedTable
    <3>3. Counted(Current) + Iterative!CountOf(StateOf(Current)) = Current.count
      <4>1. CASE Current.place = "next"
        <5>1. StateOf(Current) \in {"MemberValue", "Element"}
          BY <3>1, <4>1
        <5>2. Counted(Current) = Current.count - 1 /\ Iterative!CountOf(StateOf(Current)) = 1
          BY <4>1, <5>1 DEF Counted, Iterative!CountOf
        <5>3. \A k \in Nat : (k - 1) + 1 = k /\ k + 0 = k
          OBVIOUS
        <5> QED
          BY <1>1, <5>2, <5>3
      <4>2. CASE Current.place # "next"
        <5>1. StateOf(Current) \notin {"MemberValue", "Element"}
          BY <1>1, <3>1, <4>2
        <5>2. Counted(Current) = Current.count /\ Iterative!CountOf(StateOf(Current)) = 0
          BY <4>2, <5>1 DEF Counted, Iterative!CountOf
        <5>3. \A k \in Nat : (k - 1) + 1 = k /\ k + 0 = k
          OBVIOUS
        <5> QED
          BY <1>1, <5>2, <5>3
      <4> QED
        BY <4>1, <4>2
    <3>4. StateOf(Current) \in {"MemberDelimiter", "ElementDelimiter"} => Current.place = "comma"
      BY <1>1, <3>1
    <3> QED
      BY <1>1, <2>1, <3>2, <3>3, <3>4
  <2>2. CASE Current.type = "Array"
    <3>1. /\ Current.place = "first" => StateOf(Current) = "ArrayInitial"
          /\ Current.place = "next" => StateOf(Current) = "Element"
          /\ Current.place = "comma" => StateOf(Current) = "ElementDelimiter"
      BY <1>2, <2>2, StateTable
    <3>2. Iterative!Predicted(x) = "ArrayFinish"
      BY <1>1, <2>2, <3>1, PredictedTable
    <3>3. Counted(Current) + Iterative!CountOf(StateOf(Current)) = Current.count
      <4>1. CASE Current.place = "next"
        <5>1. StateOf(Current) \in {"MemberValue", "Element"}
          BY <3>1, <4>1
        <5>2. Counted(Current) = Current.count - 1 /\ Iterative!CountOf(StateOf(Current)) = 1
          BY <4>1, <5>1 DEF Counted, Iterative!CountOf
        <5>3. \A k \in Nat : (k - 1) + 1 = k /\ k + 0 = k
          OBVIOUS
        <5> QED
          BY <1>1, <5>2, <5>3
      <4>2. CASE Current.place # "next"
        <5>1. StateOf(Current) \notin {"MemberValue", "Element"}
          BY <1>1, <3>1, <4>2
        <5>2. Counted(Current) = Current.count /\ Iterative!CountOf(StateOf(Current)) = 0
          BY <4>2, <5>1 DEF Counted, Iterative!CountOf
        <5>3. \A k \in Nat : (k - 1) + 1 = k /\ k + 0 = k
          OBVIOUS
        <5> QED
          BY <1>1, <5>2, <5>3
      <4> QED
        BY <4>1, <4>2
    <3>4. StateOf(Current) \in {"MemberDelimiter", "ElementDelimiter"} => Current.place = "comma"
      BY <1>1, <3>1
    <3> QED
      BY <1>1, <2>2, <3>2, <3>3, <3>4
  <2> QED
    BY <1>1, <2>1, <2>2
<1>15. Iterative!Top = [back |-> BackTo(c), count |-> Counted(Current)]
  BY <1>8 DEF Iterative!Top
<1>16. Iterative!Enter(IF Iterative!Top.back = "Start" THEN "Finish" ELSE Iterative!Top.back)
  BY <1>7, <1>12, <1>13, <1>15, Enters
<1>17. doc' = Iterative!EndContainer(doc, Current.type,
                 Iterative!Top.count + Iterative!CountOf(StateOf(Current)))
  <2>1. Iterative!Top.count + Iterative!CountOf(StateOf(Current)) = Current.count
    BY <1>14, <1>15
  <2>2. \A t, k : Iterative!EndContainer(doc, t, k) = EndContainer(doc, t, k)
    BY DEF Iterative!EndContainer, EndContainer, Iterative!PoppedOf, PoppedOf,
       Iterative!Complete, Complete
  <2> QED
    BY <1>7, <2>1, <2>2
<1>18. Current.type = IF Iterative!Predicted(x) = "ObjectFinish" THEN "Object" ELSE "Array"
  BY <1>1, <1>14
<1>19. Iterative!CloseValue(x)
  BY <1>1, <1>11, <1>14, <1>16, <1>17, <1>18 DEF Iterative!CloseValue
<1> QED
  BY <1>19, IsStep

LEMMA EndAgrees ==
    ASSUME ParsingIInv, NEW x \in Lexemes, ParseEnd(x), result = "none", UNCHANGED flags
    PROVE  Iterative!IterativeNext
<1>1. StateOf(Current) = "Finish"
  BY CurrentCall, StateTable DEF ParseEnd
<1>2. CASE x = "End"
  <2>1. Iterative!Fail("ok")
    BY <1>2, Fails DEF ParseEnd, ResultOf
  <2>2. Iterative!AtEnd(x)
    BY <1>1, <1>2, <2>1 DEF Iterative!AtEnd
  <2> QED
    BY <2>2, IsStep
<1>3. CASE x # "End"
  <2>1. Iterative!Fail("DocumentRootNotSingular")
    BY <1>3, Fails DEF ParseEnd, ResultOf
  <2>2. Iterative!Predicted(x) = "Error"
    BY <1>1, PredictedTable
  <2>3. Iterative!NoWayOn(x)
    BY <1>1, <1>3, <2>1, <2>2, MissingTable DEF Iterative!NoWayOn
  <2> QED
    BY <2>3, IsStep
<1> QED
  BY <1>2, <1>3

LEMMA InitAgrees == RecursiveInit => Iterative!IterativeInit
<1> SUFFICES ASSUME RecursiveInit
             PROVE  Iterative!IterativeInit
  OBVIOUS
<1> DEFINE c == [Call("Root") EXCEPT !.place = "value"]
<1>1. c \in Calls /\ c.type = "Root" /\ c.place = "value"
  BY DEF Call, Calls
<1> HIDE DEF c
<1>2. calls = <<c>> /\ doc = <<>> /\ result = "none"
  BY DEF RecursiveInit, c
<1>3. StateOf(Current) = "Start"
  BY <1>1, <1>2, StateTable DEF Current
<1>4. StackOf(calls) = <<>>
  BY <1>2 DEF StackOf
<1> QED
  BY <1>2, <1>3, <1>4 DEF Iterative!IterativeInit, RecursiveInit, ResultOf

LEMMA NextAgrees ==
    ParsingIInv /\ [RecursiveNext]_parsing => [Iterative!IterativeNext]_Iterative!vars
<1> SUFFICES ASSUME ParsingIInv, [RecursiveNext]_parsing
             PROVE  [Iterative!IterativeNext]_Iterative!vars
  OBVIOUS
<1>1. CASE RecursiveNext
  <2>1. PICK x \in Lexemes : RecursiveStep(x)
    BY <1>1 DEF RecursiveNext
  <2>2. result = "none" /\ UNCHANGED flags
    BY <1>1 DEF RecursiveNext
  <2> QED
    BY <2>1, <2>2, ContainerAgrees, ScalarAgrees, NoValueAgrees, NameAgrees, ColonAgrees,
       CommaAgrees, CloseAgrees, EndAgrees DEF RecursiveStep
<1>2. CASE UNCHANGED parsing
  BY <1>2 DEF parsing, Iterative!vars, Current
<1> QED
  BY <1>1, <1>2

\* The recursive parser is the iterative one: at every lexeme of every text
\* they are in the same place, say the same error, and have built the same
\* document.
THEOREM ParsersBuildTheSame == RecursiveSpec => ParsersAgree
<1>1. RecursiveInit => Iterative!IterativeInit
  BY InitAgrees
<1>2. ParsingIInv /\ [RecursiveNext]_parsing => [Iterative!IterativeNext]_Iterative!vars
  BY NextAgrees
<1> QED
  BY <1>1, <1>2, CallsAndDocument, PTL
     DEF RecursiveSpec, ParsersAgree, Iterative!IterativeSpec

-----------------------------------------------------------------------------
(* Characters: what UTF-8 and UTF-16 decode (JsonEncodings).               *)

LEMMA ByteClasses ==
    ASSUME NEW b \in Byte
    PROVE  /\ b <= 127 => GetRange(b) = 0
           /\ b \in 128 .. 143 => GetRange(b) = 16
           /\ b \in 144 .. 159 => GetRange(b) = 64
           /\ b \in 160 .. 191 => GetRange(b) = 32
           /\ b \in {192, 193} \cup 245 .. 255 => GetRange(b) = 8
           /\ b \in 194 .. 223 => GetRange(b) = 2
           /\ b = 224 => GetRange(b) = 10
           /\ b \in 225 .. 239 /\ b # 237 => GetRange(b) = 3
           /\ b = 237 => GetRange(b) = 4
           /\ b = 240 => GetRange(b) = 11
           /\ b \in 241 .. 243 => GetRange(b) = 6
           /\ b = 244 => GetRange(b) = 5
<1>1. ASSUME b <= 127 PROVE GetRange(b) = 0
  BY <1>1 DEF GetRange, Byte
<1>2. ASSUME b \in 128 .. 143 PROVE GetRange(b) = 16
  BY <1>2 DEF GetRange, Byte
<1>3. ASSUME b \in 144 .. 159 PROVE GetRange(b) = 64
  BY <1>3 DEF GetRange, Byte
<1>4. ASSUME b \in 160 .. 191 PROVE GetRange(b) = 32
  BY <1>4 DEF GetRange, Byte
<1>5. ASSUME b \in {192, 193} \cup 245 .. 255 PROVE GetRange(b) = 8
  BY <1>5 DEF GetRange, Byte
<1>6. ASSUME b \in 194 .. 223 PROVE GetRange(b) = 2
  BY <1>6 DEF GetRange, Byte
<1>7. ASSUME b = 224 PROVE GetRange(b) = 10
  BY <1>7 DEF GetRange, Byte
<1>8. ASSUME b \in 225 .. 239 /\ b # 237 PROVE GetRange(b) = 3
  BY <1>8 DEF GetRange, Byte
<1>9. ASSUME b = 237 PROVE GetRange(b) = 4
  BY <1>9 DEF GetRange, Byte
<1>10. ASSUME b = 240 PROVE GetRange(b) = 11
  BY <1>10 DEF GetRange, Byte
<1>11. ASSUME b \in 241 .. 243 PROVE GetRange(b) = 6
  BY <1>11 DEF GetRange, Byte
<1>12. ASSUME b = 244 PROVE GetRange(b) = 5
  BY <1>12 DEF GetRange, Byte
<1> QED BY <1>1, <1>2, <1>3, <1>4, <1>5, <1>6, <1>7, <1>8, <1>9, <1>10, <1>11, <1>12

\* The bytes of each class, and what may follow them.
LEMMA TailClasses ==
    ASSUME NEW b \in Byte
    PROVE  /\ GetRange(b) \in AnyTail <=> b \in 128 .. 191
           /\ GetRange(b) \in NoSurrogate <=> b \in 128 .. 159
           /\ GetRange(b) \in {16} <=> b \in 128 .. 143
           /\ GetRange(b) \in {32} <=> b \in 160 .. 191
           /\ GetRange(b) \in {32, 64} <=> b \in 144 .. 191
<1>1. \/ b <= 127 \/ b \in 128 .. 143 \/ b \in 144 .. 159 \/ b \in 160 .. 191
      \/ b \in {192, 193} \cup 245 .. 255 \/ b \in 194 .. 223 \/ b = 224
      \/ (b \in 225 .. 239 /\ b # 237) \/ b = 237 \/ b = 240 \/ b \in 241 .. 243 \/ b = 244
  BY DEF Byte
<1> QED BY <1>1, ByteClasses DEF AnyTail, NoSurrogate, Byte

\* How many bytes follow each lead byte, which, and what it says of the code.
LEMMA LeadBytes ==
    ASSUME NEW b \in Byte
    PROVE  /\ b \notin 194 .. 244 => Tails(GetRange(b)) = <<>>
           /\ b \in 194 .. 223 => Tails(GetRange(b)) = <<AnyTail>> /\ LeadBits(b) = b - 192
           /\ b = 224 => Tails(GetRange(b)) = <<{32}, AnyTail>> /\ LeadBits(b) = 0
           /\ b \in 225 .. 239 /\ b # 237 => Tails(GetRange(b)) = <<AnyTail, AnyTail>> /\ LeadBits(b) = b - 224
           /\ b = 237 => Tails(GetRange(b)) = <<NoSurrogate, AnyTail>> /\ LeadBits(b) = 13
           /\ b = 240 => Tails(GetRange(b)) = <<{32, 64}, AnyTail, AnyTail>> /\ LeadBits(b) = 0
           /\ b \in 241 .. 243 => Tails(GetRange(b)) = <<AnyTail, AnyTail, AnyTail>> /\ LeadBits(b) = b - 240
           /\ b = 244 => Tails(GetRange(b)) = <<{16}, AnyTail, AnyTail>> /\ LeadBits(b) = 4
<1>1. ASSUME b \notin 194 .. 244 PROVE Tails(GetRange(b)) = <<>>
  <2>1. GetRange(b) \in {0, 16, 64, 32, 8}
    BY <1>1, ByteClasses DEF Byte
  <2> QED BY <2>1 DEF Tails
<1>2. ASSUME b \in 194 .. 223 PROVE Tails(GetRange(b)) = <<AnyTail>> /\ LeadBits(b) = b - 192
  <2>1. GetRange(b) = 2
    BY <1>2, ByteClasses
  <2>2. Tails(2) = <<AnyTail>> /\ LeadMask(2) + 1 = 64
    BY DEF Tails, LeadMask
  <2>3. b % 64 = b - 192
    BY <1>2
  <2> QED BY <2>1, <2>2, <2>3 DEF LeadBits
<1>3. ASSUME b = 224 PROVE Tails(GetRange(b)) = <<{32}, AnyTail>> /\ LeadBits(b) = 0
  <2>1. GetRange(b) = 10
    BY <1>3, ByteClasses
  <2>2. Tails(10) = <<{32}, AnyTail>> /\ LeadMask(10) + 1 = 1
    BY DEF Tails, LeadMask
  <2>3. b % 1 = 0
    BY <1>3
  <2> QED BY <2>1, <2>2, <2>3 DEF LeadBits
<1>4. ASSUME b \in 225 .. 239 /\ b # 237 PROVE Tails(GetRange(b)) = <<AnyTail, AnyTail>> /\ LeadBits(b) = b - 224
  <2>1. GetRange(b) = 3
    BY <1>4, ByteClasses
  <2>2. Tails(3) = <<AnyTail, AnyTail>> /\ LeadMask(3) + 1 = 32
    BY DEF Tails, LeadMask
  <2>3. b % 32 = b - 224
    BY <1>4
  <2> QED BY <2>1, <2>2, <2>3 DEF LeadBits
<1>5. ASSUME b = 237 PROVE Tails(GetRange(b)) = <<NoSurrogate, AnyTail>> /\ LeadBits(b) = 13
  <2>1. GetRange(b) = 4
    BY <1>5, ByteClasses
  <2>2. Tails(4) = <<NoSurrogate, AnyTail>> /\ LeadMask(4) + 1 = 16
    BY DEF Tails, LeadMask
  <2>3. b % 16 = 13
    BY <1>5
  <2> QED BY <2>1, <2>2, <2>3 DEF LeadBits
<1>6. ASSUME b = 240 PROVE Tails(GetRange(b)) = <<{32, 64}, AnyTail, AnyTail>> /\ LeadBits(b) = 0
  <2>1. GetRange(b) = 11
    BY <1>6, ByteClasses
  <2>2. Tails(11) = <<{32, 64}, AnyTail, AnyTail>> /\ LeadMask(11) + 1 = 1
    BY DEF Tails, LeadMask
  <2>3. b % 1 = 0
    BY <1>6
  <2> QED BY <2>1, <2>2, <2>3 DEF LeadBits
<1>7. ASSUME b \in 241 .. 243 PROVE Tails(GetRange(b)) = <<AnyTail, AnyTail, AnyTail>> /\ LeadBits(b) = b - 240
  <2>1. GetRange(b) = 6
    BY <1>7, ByteClasses
  <2>2. Tails(6) = <<AnyTail, AnyTail, AnyTail>> /\ LeadMask(6) + 1 = 4
    BY DEF Tails, LeadMask
  <2>3. b % 4 = b - 240
    BY <1>7
  <2> QED BY <2>1, <2>2, <2>3 DEF LeadBits
<1>8. ASSUME b = 244 PROVE Tails(GetRange(b)) = <<{16}, AnyTail, AnyTail>> /\ LeadBits(b) = 4
  <2>1. GetRange(b) = 5
    BY <1>8, ByteClasses
  <2>2. Tails(5) = <<{16}, AnyTail, AnyTail>> /\ LeadMask(5) + 1 = 8
    BY DEF Tails, LeadMask
  <2>3. b % 8 = 4
    BY <1>8
  <2> QED BY <2>1, <2>2, <2>3 DEF LeadBits
<1> QED BY <1>1, <1>2, <1>3, <1>4, <1>5, <1>6, <1>7, <1>8

\* What EncodeUTF8 makes of the codes of each length.
LEMMA EncodedForms ==
    ASSUME NEW c \in Nat
    PROVE  /\ c <= 127 => EncodeUTF8(c) = <<c>>
           /\ 128 <= c /\ c <= 2047 => EncodeUTF8(c) = <<192 + c \div 64, TailByte(c)>>
           /\ 2048 <= c /\ c <= 65535 =>
                EncodeUTF8(c) = <<224 + c \div 4096, TailByte(c \div 64), TailByte(c)>>
           /\ 65536 <= c =>
                EncodeUTF8(c) = <<240 + c \div 262144, TailByte(c \div 4096),
                                  TailByte(c \div 64), TailByte(c)>>
BY SMT DEF EncodeUTF8

\* Well-formed sequences of two, three and four bytes are the forms of what
\* they decode to, and are what that is encoded as.
LEMMA TwoByteForm ==
    ASSUME NEW b \in 194 .. 223, NEW c \in 128 .. 191
    PROVE  /\ IsFormOf(<<b, c>>, AddTail(b - 192, c))
           /\ EncodeUTF8(AddTail(b - 192, c)) = <<b, c>>
<1> DEFINE code == AddTail(b - 192, c)
           t == <<b, c>>
<1>1. code = (b - 192) * 64 + (c - 128)
  BY SMT DEF AddTail
<1>2. 128 <= code /\ code <= 2047 /\ code \in Nat
  BY <1>1, SMT
<1>3. code \div 64 = b - 192 /\ code % 64 = c - 128
  BY <1>1, SMT
<1>4. Len(t) = 2 /\ t[1] = b /\ t[2] = c
  OBVIOUS
<1> HIDE DEF t, code
<1>5. FormValue(t) = code
  BY <1>1, <1>4, SMT DEF FormValue
<1>6. IsFormOf(t, code)
  BY <1>2, <1>4, <1>5, SMT DEF IsFormOf, IsSurrogate, IsHigh, IsLow
<1>7. EncodeUTF8(code) = <<192 + code \div 64, TailByte(code)>>
  BY <1>2, EncodedForms, SMT
<1>8. EncodeUTF8(code) = <<b, c>>
  BY <1>3, <1>7, SMT DEF TailByte
<1> QED BY <1>6, <1>8 DEF code, t

LEMMA ThreeByteForm ==
    ASSUME NEW b \in 224 .. 239, NEW c \in 128 .. 191, NEW d \in 128 .. 191,
           b = 224 => c >= 160, b = 237 => c <= 159
    PROVE  /\ IsFormOf(<<b, c, d>>, AddTail(AddTail(b - 224, c), d))
           /\ EncodeUTF8(AddTail(AddTail(b - 224, c), d)) = <<b, c, d>>
<1> DEFINE code == AddTail(AddTail(b - 224, c), d)
           t == <<b, c, d>>
           p == b - 224
           q == c - 128
           r == d - 128
<1>1. code = (p * 64 + q) * 64 + r
  <2>1. c % 64 = q /\ d % 64 = r
    BY SMT
  <2> QED BY <2>1, SMT DEF AddTail
<1>2. p \in 0 .. 15 /\ q \in 0 .. 63 /\ r \in 0 .. 63 /\ b = 224 + p /\ c = 128 + q /\ d = 128 + r
  BY SMT
<1>3. Len(t) = 3 /\ t[1] = b /\ t[2] = c /\ t[3] = d
  OBVIOUS
<1>4. p = 0 => q >= 32
  BY SMT
<1>5. p = 13 => q < 32
  BY SMT
<1> HIDE DEF t, code, p, q, r
<1>6. 2048 <= code /\ code <= 65535 /\ code \in Nat
  BY <1>1, <1>2, <1>4, SMT
<1>7. code < 55296 \/ code > 57343
  BY <1>1, <1>2, <1>5, SMT
<1>8. code \div 4096 = p /\ code \div 64 = p * 64 + q /\ code % 64 = r /\ (p * 64 + q) % 64 = q
  BY <1>1, <1>2, SMT
<1>9. FormValue(t) = code
  BY <1>1, <1>2, <1>3, SMT DEF FormValue
<1>10. IsFormOf(t, code)
  <2>1. \A k \in 2 .. 3 : t[k] \in 128 .. 191
    BY <1>3, SMT
  <2>2. ~IsSurrogate(code)
    BY <1>6, <1>7, SMT DEF IsSurrogate, IsHigh, IsLow
  <2>3. t[1] >= <<0, 192, 224, 240>>[Len(t)]
    BY <1>3, SMT
  <2>4. <<0, 128, 2048, 65536>>[Len(t)] <= code /\ code <= <<127, 2047, 65535, LastCode>>[Len(t)]
    BY <1>3, <1>6, SMT
  <2> QED BY <1>3, <1>9, <2>1, <2>2, <2>3, <2>4, SMT DEF IsFormOf
<1>11. EncodeUTF8(code) = <<224 + code \div 4096, TailByte(code \div 64), TailByte(code)>>
  BY <1>6, EncodedForms, SMT
<1>12. EncodeUTF8(code) = <<b, c, d>>
  BY <1>2, <1>8, <1>11, SMT DEF TailByte
<1> QED BY <1>10, <1>12 DEF code, t

LEMMA FourByteForm ==
    ASSUME NEW b \in 240 .. 244, NEW c \in 128 .. 191, NEW d \in 128 .. 191, NEW e \in 128 .. 191,
           b = 240 => c >= 144, b = 244 => c <= 143
    PROVE  /\ IsFormOf(<<b, c, d, e>>, AddTail(AddTail(AddTail(b - 240, c), d), e))
           /\ EncodeUTF8(AddTail(AddTail(AddTail(b - 240, c), d), e)) = <<b, c, d, e>>
<1> DEFINE code == AddTail(AddTail(AddTail(b - 240, c), d), e)
           t == <<b, c, d, e>>
           o == b - 240
           p == c - 128
           q == d - 128
           r == e - 128
<1>1. code = ((o * 64 + p) * 64 + q) * 64 + r
  <2>1. c % 64 = p /\ d % 64 = q /\ e % 64 = r
    BY SMT
  <2> QED BY <2>1, SMT DEF AddTail
<1>2. /\ o \in 0 .. 4 /\ p \in 0 .. 63 /\ q \in 0 .. 63 /\ r \in 0 .. 63
      /\ b = 240 + o /\ c = 128 + p /\ d = 128 + q /\ e = 128 + r
      /\ o = 0 => p >= 16
      /\ o = 4 => p < 16
  BY SMT
<1>3. Len(t) = 4 /\ t[1] = b /\ t[2] = c /\ t[3] = d /\ t[4] = e
  OBVIOUS
<1> HIDE DEF t, code, o, p, q, r
<1>4. 65536 <= code /\ code <= 1114111 /\ code \in Nat
  BY <1>1, <1>2, SMT
<1>5. /\ code \div 262144 = o /\ code \div 4096 = o * 64 + p
      /\ code \div 64 = (o * 64 + p) * 64 + q /\ code % 64 = r
      /\ (o * 64 + p) % 64 = p /\ ((o * 64 + p) * 64 + q) % 64 = q
  BY <1>1, <1>2, SMT
<1>6. FormValue(t) = code
  BY <1>1, <1>2, <1>3, SMT DEF FormValue
<1>7. IsFormOf(t, code)
  <2>1. \A k \in 2 .. 4 : t[k] \in 128 .. 191
    BY <1>3, SMT
  <2>2. code <= LastCode /\ LastCode \in Nat
    BY <1>4, SMT DEF LastCode
  <2>3. ~IsSurrogate(code)
    BY <1>4, SMT DEF IsSurrogate, IsHigh, IsLow
  <2> QED BY <1>2, <1>3, <1>4, <1>6, <2>1, <2>2, <2>3, SMT DEF IsFormOf
<1>8. EncodeUTF8(code) = <<240 + code \div 262144, TailByte(code \div 4096),
                           TailByte(code \div 64), TailByte(code)>>
  BY <1>4, EncodedForms, SMT
<1>9. EncodeUTF8(code) = <<b, c, d, e>>
  BY <1>2, <1>5, <1>8, SMT DEF TailByte
<1> QED BY <1>7, <1>9 DEF code, t
LEMMA OneByteForm ==
    ASSUME NEW b \in 0 .. 127
    PROVE  IsFormOf(<<b>>, b) /\ EncodeUTF8(b) = <<b>>
<1> DEFINE t == <<b>>
<1>1. Len(t) = 1 /\ t[1] = b
  OBVIOUS
<1> HIDE DEF t
<1>2. FormValue(t) = b
  BY <1>1, SMT DEF FormValue
<1>3. IsFormOf(t, b)
  BY <1>1, <1>2, SMT DEF IsFormOf, IsSurrogate, IsHigh, IsLow
<1> QED BY <1>3, EncodedForms, SMT DEF t

-----------------------------------------------------------------------------
\* The first units of a stream.
LEMMA Taken ==
    ASSUME NEW U, 0 \in U, NEW s \in Seq(U), NEW n \in Nat
    PROVE  /\ Take(s, n) \in Seq(U)
           /\ Len(Take(s, n)) = n
           /\ \A k \in 1 .. n : Take(s, n)[k] = IF k <= Len(s) THEN s[k] ELSE 0
           /\ \A k \in 1 .. n : Take(s, n)[k] \in U
BY DEF Take

LEMMA FirstUnits ==
    ASSUME NEW U, 0 \in U, NEW s \in Seq(U)
    PROVE  \E a, b, c, d \in U :
               /\ Take(s, 1) = <<a>> /\ Take(s, 2) = <<a, b>>
               /\ Take(s, 3) = <<a, b, c>> /\ Take(s, 4) = <<a, b, c, d>>
<1> DEFINE u(k) == IF k <= Len(s) THEN s[k] ELSE 0
<1>1. \A k \in 1 .. 4 : u(k) \in U
  BY SMT
<1>2. Take(s, 1) = <<u(1)>>
  BY SMT DEF Take
<1>3. Take(s, 2) = <<u(1), u(2)>>
  BY SMT DEF Take
<1>4. Take(s, 3) = <<u(1), u(2), u(3)>>
  BY SMT DEF Take
<1>5. Take(s, 4) = <<u(1), u(2), u(3), u(4)>>
  BY SMT DEF Take
<1>6. u(1) \in U /\ u(2) \in U /\ u(3) \in U /\ u(4) \in U
  BY <1>1, SMT
<1> HIDE DEF u
<1> QED BY <1>2, <1>3, <1>4, <1>5, <1>6, Zenon

\* s begins with the bytes a, b, c and d, or ends before and is read on as
\* zeros.
Begins(s, a, b, c, d) ==
    /\ a \in Byte /\ b \in Byte /\ c \in Byte /\ d \in Byte
    /\ Take(s, 1) = <<a>> /\ Take(s, 2) = <<a, b>>
    /\ Take(s, 3) = <<a, b, c>> /\ Take(s, 4) = <<a, b, c, d>>

LEMMA DecodedFields ==
    ASSUME NEW code, NEW ok, NEW taken
    PROVE  /\ Decoded(code, ok, taken).code = code
           /\ Decoded(code, ok, taken).ok = ok
           /\ Decoded(code, ok, taken).taken = taken
BY DEF Decoded

LEMMA DecodedWithTails ==
    ASSUME NEW s, NEW a, NEW b, NEW c, NEW d, Begins(s, a, b, c, d), a >= 128,
           NEW tails, Tails(GetRange(a)) = tails,
           NEW t, Take(s, 1 + Len(tails)) = t
    PROVE  /\ DecodeUTF8(s).code = CodeOf(t) /\ DecodeUTF8(s).taken = t
           /\ DecodeUTF8(s).ok <=>
                tails # <<>> /\ \A k \in DOMAIN tails : GetRange(t[k + 1]) \in tails[k]
<1>1. Take(s, 1)[1] = a /\ ~(a < 128)
  BY SMT DEF Begins, Byte
<1> DEFINE ok == tails # <<>> /\ \A k \in DOMAIN tails : GetRange(t[k + 1]) \in tails[k]
<1>2. DecodeUTF8(s) = Decoded(CodeOf(t), ok, t)
  BY <1>1, Zenon DEF DecodeUTF8
<1> HIDE DEF ok
<1>3. DecodeUTF8(s).code = CodeOf(t) /\ DecodeUTF8(s).taken = t /\ DecodeUTF8(s).ok = ok
  BY <1>2, DecodedFields
<1> QED BY <1>3, Zenon DEF ok

LEMMA OneDecoded ==
    ASSUME NEW s, NEW a, NEW b, NEW c, NEW d, Begins(s, a, b, c, d), a <= 127
    PROVE  DecodeUTF8(s).code = a /\ DecodeUTF8(s).taken = <<a>> /\ DecodeUTF8(s).ok = TRUE
<1>1. Take(s, 1)[1] = a /\ a < 128
  BY SMT DEF Begins, Byte
<1> DEFINE ok == TRUE
<1>2. DecodeUTF8(s) = Decoded(a, ok, <<a>>)
  BY <1>1, Zenon DEF DecodeUTF8
<1> HIDE DEF ok
<1>3. DecodeUTF8(s).code = a /\ DecodeUTF8(s).taken = <<a>> /\ DecodeUTF8(s).ok = ok
  BY <1>2, DecodedFields
<1> QED BY <1>3, Zenon DEF ok

LEMMA TwoDecoded ==
    ASSUME NEW s, NEW a, NEW b, NEW c, NEW d, Begins(s, a, b, c, d), a \in 194 .. 223
    PROVE  /\ DecodeUTF8(s).code = AddTail(a - 192, b)
           /\ DecodeUTF8(s).taken = <<a, b>>
           /\ DecodeUTF8(s).ok <=> b \in 128 .. 191
<1> DEFINE tails == Tails(GetRange(a))
           t == <<a, b>>
<1>1. a \in Byte /\ b \in Byte /\ a >= 128
  BY SMT DEF Begins
<1>2. tails = <<AnyTail>> /\ LeadBits(a) = a - 192
  BY <1>1, LeadBytes, SMT
<1>3. Len(tails) = 1 /\ DOMAIN tails = {1} /\ tails[1] = AnyTail /\ tails # <<>>
  BY <1>2, SMT
<1>4. Take(s, 1 + Len(tails)) = t
  BY <1>3 DEF Begins
<1>5. CodeOf(t) = AddTail(a - 192, b)
  BY <1>2, SMT DEF CodeOf
<1>6. t[1 + 1] = b
  OBVIOUS
<1>7. GetRange(b) \in AnyTail <=> b \in 128 .. 191
  BY <1>1, TailClasses
<1> HIDE DEF tails, t
<1>8. /\ DecodeUTF8(s).code = CodeOf(t) /\ DecodeUTF8(s).taken = t
      /\ DecodeUTF8(s).ok <=> tails # <<>> /\ \A k \in DOMAIN tails : GetRange(t[k + 1]) \in tails[k]
  BY <1>1, <1>4, DecodedWithTails DEF tails
<1> QED BY <1>3, <1>5, <1>6, <1>7, <1>8 DEF t

LEMMA ThreeDecoded ==
    ASSUME NEW s, NEW a, NEW b, NEW c, NEW d, Begins(s, a, b, c, d), a \in 224 .. 239
    PROVE  /\ DecodeUTF8(s).code = AddTail(AddTail(a - 224, b), c)
           /\ DecodeUTF8(s).taken = <<a, b, c>>
           /\ DecodeUTF8(s).ok <=>
                /\ b \in 128 .. 191 /\ c \in 128 .. 191
                /\ a = 224 => b >= 160
                /\ a = 237 => b <= 159
<1> DEFINE first == IF a = 224 THEN {32} ELSE IF a = 237 THEN NoSurrogate ELSE AnyTail
           tails == Tails(GetRange(a))
           t == <<a, b, c>>
<1>1. a \in Byte /\ b \in Byte /\ c \in Byte /\ a >= 128
  BY SMT DEF Begins
<1>2. tails = <<first, AnyTail>> /\ LeadBits(a) = a - 224
  BY <1>1, LeadBytes, SMT
<1>3. GetRange(b) \in first <=>
          b \in 128 .. 191 /\ (a = 224 => b >= 160) /\ (a = 237 => b <= 159)
  BY <1>1, TailClasses, SMT DEF Byte
<1> HIDE DEF first
<1>4. Len(tails) = 2 /\ DOMAIN tails = 1 .. 2 /\ tails[1] = first /\ tails[2] = AnyTail /\ tails # <<>>
  BY <1>2, SMT
<1>5. Take(s, 1 + Len(tails)) = t
  BY <1>4 DEF Begins
<1>6. CodeOf(t) = AddTail(AddTail(a - 224, b), c)
  BY <1>2, SMT DEF CodeOf
<1>7. t[1 + 1] = b /\ t[2 + 1] = c
  OBVIOUS
<1>8. GetRange(c) \in AnyTail <=> c \in 128 .. 191
  BY <1>1, TailClasses
<1> HIDE DEF tails, t
<1>9. /\ DecodeUTF8(s).code = CodeOf(t) /\ DecodeUTF8(s).taken = t
      /\ DecodeUTF8(s).ok <=> tails # <<>> /\ \A k \in DOMAIN tails : GetRange(t[k + 1]) \in tails[k]
  BY <1>1, <1>5, DecodedWithTails DEF tails
<1>10. (\A k \in DOMAIN tails : GetRange(t[k + 1]) \in tails[k]) <=>
          GetRange(b) \in first /\ GetRange(c) \in AnyTail
  BY <1>4, <1>7, SMT
<1> QED BY <1>3, <1>4, <1>6, <1>8, <1>9, <1>10 DEF t

LEMMA FourDecoded ==
    ASSUME NEW s, NEW a, NEW b, NEW c, NEW d, Begins(s, a, b, c, d), a \in 240 .. 244
    PROVE  /\ DecodeUTF8(s).code = AddTail(AddTail(AddTail(a - 240, b), c), d)
           /\ DecodeUTF8(s).taken = <<a, b, c, d>>
           /\ DecodeUTF8(s).ok <=>
                /\ b \in 128 .. 191 /\ c \in 128 .. 191 /\ d \in 128 .. 191
                /\ a = 240 => b >= 144
                /\ a = 244 => b <= 143
<1> DEFINE first == IF a = 240 THEN {32, 64} ELSE IF a = 244 THEN {16} ELSE AnyTail
           tails == Tails(GetRange(a))
           t == <<a, b, c, d>>
<1>1. a \in Byte /\ b \in Byte /\ c \in Byte /\ d \in Byte /\ a >= 128
  BY SMT DEF Begins
<1>2. tails = <<first, AnyTail, AnyTail>> /\ LeadBits(a) = a - 240
  BY <1>1, LeadBytes, SMT
<1>3. GetRange(b) \in first <=>
          b \in 128 .. 191 /\ (a = 240 => b >= 144) /\ (a = 244 => b <= 143)
  BY <1>1, TailClasses, SMT DEF Byte
<1> HIDE DEF first
<1>4. /\ Len(tails) = 3 /\ DOMAIN tails = 1 .. 3
      /\ tails[1] = first /\ tails[2] = AnyTail /\ tails[3] = AnyTail /\ tails # <<>>
  BY <1>2, SMT
<1>5. Take(s, 1 + Len(tails)) = t
  BY <1>4 DEF Begins
<1>6. CodeOf(t) = AddTail(AddTail(AddTail(a - 240, b), c), d)
  BY <1>2, SMT DEF CodeOf
<1>7. t[1 + 1] = b /\ t[2 + 1] = c /\ t[3 + 1] = d
  OBVIOUS
<1>8. GetRange(c) \in AnyTail <=> c \in 128 .. 191
  BY <1>1, TailClasses
<1>9. GetRange(d) \in AnyTail <=> d \in 128 .. 191
  BY <1>1, TailClasses
<1> HIDE DEF tails, t
<1>10. /\ DecodeUTF8(s).code = CodeOf(t) /\ DecodeUTF8(s).taken = t
       /\ DecodeUTF8(s).ok <=> tails # <<>> /\ \A k \in DOMAIN tails : GetRange(t[k + 1]) \in tails[k]
  BY <1>1, <1>5, DecodedWithTails DEF tails
<1>11. (\A k \in DOMAIN tails : GetRange(t[k + 1]) \in tails[k]) <=>
          GetRange(b) \in first /\ GetRange(c) \in AnyTail /\ GetRange(d) \in AnyTail
  BY <1>4, <1>7, SMT
<1> QED BY <1>3, <1>4, <1>6, <1>8, <1>9, <1>10, <1>11 DEF t

LEMMA NoneDecoded ==
    ASSUME NEW s, NEW a, NEW b, NEW c, NEW d, Begins(s, a, b, c, d), a > 127, a \notin 194 .. 244
    PROVE  ~DecodeUTF8(s).ok
<1>1. a \in Byte /\ a >= 128
  BY SMT DEF Begins, Byte
<1>2. Tails(GetRange(a)) = <<>>
  BY <1>1, LeadBytes, SMT
<1> QED BY <1>1, <1>2, DecodedWithTails
-----------------------------------------------------------------------------
\* A form of n bytes is what the decoder accepts.
LEMMA FormsAreDecoded ==
    ASSUME NEW s, NEW a, NEW b, NEW c, NEW d, Begins(s, a, b, c, d),
           NEW n \in 1 .. 4, IsFormOf(Take(s, n), FormValue(Take(s, n)))
    PROVE  DecodeUTF8(s).ok
<1>1. a \in Byte /\ b \in Byte /\ c \in Byte /\ d \in Byte
  BY DEF Begins
<1>2. CASE n = 1
  <2> DEFINE t == <<a>>
  <2>1. Take(s, n) = t /\ Len(t) = 1 /\ t[1] = a
    BY <1>2 DEF Begins
  <2> HIDE DEF t
  <2>2. FormValue(t) = a
    BY <2>1, SMT DEF FormValue
  <2>3. a <= 127
    BY <2>1, <2>2, SMT DEF IsFormOf
  <2> QED BY <2>3, OneDecoded, Zenon
<1>3. CASE n = 2
  <2> DEFINE t == <<a, b>>
  <2>1. Take(s, n) = t /\ Len(t) = 2 /\ t[1] = a /\ t[2] = b
    BY <1>3 DEF Begins
  <2> HIDE DEF t
  <2>2. FormValue(t) = (a - 192) * 64 + (b - 128)
    BY <2>1, SMT DEF FormValue
  <2>3. 128 <= FormValue(t) /\ FormValue(t) <= 2047 /\ a >= 192 /\ b \in 128 .. 191
    BY <2>1, SMT DEF IsFormOf
  <2>4. a \in 194 .. 223
    BY <1>1, <2>2, <2>3, SMT DEF Byte
  <2> QED BY <2>3, <2>4, TwoDecoded
<1>4. CASE n = 3
  <2> DEFINE t == <<a, b, c>>
  <2>1. Take(s, n) = t /\ Len(t) = 3 /\ t[1] = a /\ t[2] = b /\ t[3] = c
    BY <1>4 DEF Begins
  <2> HIDE DEF t
  <2>2. FormValue(t) = (a - 224) * 4096 + (b - 128) * 64 + (c - 128)
    BY <2>1, SMT DEF FormValue
  <2>3. 2048 <= FormValue(t) /\ FormValue(t) <= 65535 /\ a >= 224 /\ ~IsSurrogate(FormValue(t))
    BY <2>1, SMT DEF IsFormOf
  <2>4. b \in 128 .. 191 /\ c \in 128 .. 191
    BY <2>1, SMT DEF IsFormOf
  <2>5. a \in 224 .. 239 /\ (a = 224 => b >= 160)
    BY <1>1, <2>2, <2>3, <2>4, SMT DEF Byte
  <2>6. FormValue(t) < 55296 \/ FormValue(t) > 57343
    BY <1>1, <2>2, <2>3, SMT DEF Byte, IsSurrogate, IsHigh, IsLow
  <2>7. a = 237 => b <= 159
    BY <1>1, <2>2, <2>4, <2>6, SMT DEF Byte
  <2> QED BY <2>4, <2>5, <2>7, ThreeDecoded
<1>5. CASE n = 4
  <2> DEFINE t == <<a, b, c, d>>
  <2>1. Take(s, n) = t /\ Len(t) = 4 /\ t[1] = a /\ t[2] = b /\ t[3] = c /\ t[4] = d
    BY <1>5 DEF Begins
  <2> HIDE DEF t
  <2>2. FormValue(t) = (a - 240) * 262144 + (b - 128) * 4096 + (c - 128) * 64 + (d - 128)
    BY <2>1, SMT DEF FormValue
  <2>3. 65536 <= FormValue(t) /\ FormValue(t) <= LastCode /\ a >= 240
    BY <2>1, SMT DEF IsFormOf
  <2>4. b \in 128 .. 191 /\ c \in 128 .. 191 /\ d \in 128 .. 191
    BY <2>1, SMT DEF IsFormOf
  <2>5. FormValue(t) <= 1114111
    BY <2>3, SMT DEF LastCode
  <2>6. a \in 240 .. 244 /\ (a = 240 => b >= 144) /\ (a = 244 => b <= 143)
    BY <1>1, <2>2, <2>3, <2>4, <2>5, SMT DEF Byte
  <2> QED BY <2>4, <2>6, FourDecoded
<1> QED BY <1>2, <1>3, <1>4, <1>5, SMT

LEMMA DecodedAreForms ==
    ASSUME NEW s, NEW a, NEW b, NEW c, NEW d, Begins(s, a, b, c, d), DecodeUTF8(s).ok
    PROVE  /\ IsFormOf(DecodeUTF8(s).taken, DecodeUTF8(s).code)
           /\ EncodeUTF8(DecodeUTF8(s).code) = DecodeUTF8(s).taken
<1>1. a \in Byte /\ b \in Byte /\ c \in Byte /\ d \in Byte
  BY DEF Begins
<1>2. CASE a <= 127
  <2>1. a \in 0 .. 127
    BY <1>1, <1>2, SMT DEF Byte
  <2>2. DecodeUTF8(s).code = a /\ DecodeUTF8(s).taken = <<a>>
    BY <1>2, OneDecoded, Zenon
  <2> QED BY <2>1, <2>2, OneByteForm
<1>3. CASE a \in 194 .. 223
  <2>1. DecodeUTF8(s).code = AddTail(a - 192, b) /\ DecodeUTF8(s).taken = <<a, b>>
    BY <1>3, TwoDecoded
  <2>2. b \in 128 .. 191
    BY <1>3, TwoDecoded
  <2>3. IsFormOf(<<a, b>>, AddTail(a - 192, b)) /\ EncodeUTF8(AddTail(a - 192, b)) = <<a, b>>
    BY <1>3, <2>2, TwoByteForm
  <2> QED BY <2>1, <2>3
<1>4. CASE a \in 224 .. 239
  <2>1. DecodeUTF8(s).code = AddTail(AddTail(a - 224, b), c) /\ DecodeUTF8(s).taken = <<a, b, c>>
    BY <1>4, ThreeDecoded
  <2>2. b \in 128 .. 191 /\ c \in 128 .. 191 /\ (a = 224 => b >= 160) /\ (a = 237 => b <= 159)
    BY <1>4, ThreeDecoded
  <2>3. /\ IsFormOf(<<a, b, c>>, AddTail(AddTail(a - 224, b), c))
        /\ EncodeUTF8(AddTail(AddTail(a - 224, b), c)) = <<a, b, c>>
    BY <1>4, <2>2, ThreeByteForm
  <2> QED BY <2>1, <2>3
<1>5. CASE a \in 240 .. 244
  <2>1. DecodeUTF8(s).code = AddTail(AddTail(AddTail(a - 240, b), c), d) /\ DecodeUTF8(s).taken = <<a, b, c, d>>
    BY <1>5, FourDecoded
  <2>2. b \in 128 .. 191 /\ c \in 128 .. 191 /\ d \in 128 .. 191
        /\ (a = 240 => b >= 144) /\ (a = 244 => b <= 143)
    BY <1>5, FourDecoded
  <2>3. /\ IsFormOf(<<a, b, c, d>>, AddTail(AddTail(AddTail(a - 240, b), c), d))
        /\ EncodeUTF8(AddTail(AddTail(AddTail(a - 240, b), c), d)) = <<a, b, c, d>>
    BY <1>5, <2>2, FourByteForm, ZenonT(60)
  <2> QED BY <2>1, <2>3
<1>6. CASE a > 127 /\ a \notin 194 .. 244
  BY <1>6, NoneDecoded
<1> QED BY <1>1, <1>2, <1>3, <1>4, <1>5, <1>6, SMT DEF Byte

LEMMA ValidatedOctets ==
    ASSUME NEW s, NEW a, NEW b, NEW c, NEW d, Begins(s, a, b, c, d)
    PROVE  ValidateUTF8(s) = [ok |-> DecodeUTF8(s).ok, put |-> DecodeUTF8(s).taken]
<1> DEFINE tails == Tails(GetRange(a))
           t == Take(s, 1 + Len(tails))
           ok == tails # <<>> /\ \A k \in DOMAIN tails : GetRange(t[k + 1]) \in tails[k]
<1>1. Take(s, 1)[1] = a /\ Take(s, 1) = <<a>> /\ a \in Byte
  BY SMT DEF Begins
<1>2. ValidateUTF8(s) = [ok |-> a < 128 \/ ok, put |-> t]
  BY <1>1, Zenon DEF ValidateUTF8
<1>3. CASE a < 128
  <2>1. a \notin 194 .. 244 /\ a <= 127
    BY <1>1, <1>3, SMT DEF Byte
  <2>2. tails = <<>>
    BY <1>1, <2>1, LeadBytes
  <2>3. t = <<a>>
    BY <1>1, <2>2, SMT
  <2>4. DecodeUTF8(s).ok = TRUE /\ DecodeUTF8(s).taken = <<a>>
    BY <2>1, OneDecoded, Zenon
  <2>5. (a < 128 \/ ok) = TRUE
    BY <1>3
  <2> HIDE DEF ok, t
  <2> QED BY <1>2, <2>3, <2>4, <2>5
<1>4. CASE a >= 128
  <2>1. ~(a < 128)
    BY <1>1, <1>4, SMT DEF Byte
  <2>2. DecodeUTF8(s) = Decoded(CodeOf(t), ok, t)
    BY <1>1, <2>1, Zenon DEF DecodeUTF8
  <2>3. (a < 128 \/ ok) = ok
    BY <2>1, Zenon
  <2> HIDE DEF ok, t
  <2> QED BY <1>2, <2>2, <2>3, DecodedFields
<1> QED BY <1>1, <1>3, <1>4, SMT DEF Byte

\* Of every sequence of bytes, UTF8::Decode accepts exactly what is the form
\* of a scalar value, and gives that value; Encode writes the same bytes for
\* it, and Validate agrees (encodings.h:94-266).
THEOREM OctetsAreDecoded == \A s \in Seq(Byte) : DecodesUTF8(s)
<1> SUFFICES ASSUME NEW s \in Seq(Byte) PROVE DecodesUTF8(s)
  OBVIOUS
<1>1. PICK a, b, c, d \in Byte :
          /\ Take(s, 1) = <<a>> /\ Take(s, 2) = <<a, b>>
          /\ Take(s, 3) = <<a, b, c>> /\ Take(s, 4) = <<a, b, c, d>>
  <2>1. 0 \in Byte
    BY DEF Byte
  <2> QED BY <2>1, FirstUnits
<1>2. Begins(s, a, b, c, d)
  BY <1>1 DEF Begins
<1> QED BY <1>2, FormsAreDecoded, DecodedAreForms, ValidatedOctets, Zenon DEF DecodesUTF8

-----------------------------------------------------------------------------
(* UTF-16.                                                                 *)

LEMMA Words ==
    /\ 0 \in Word
    /\ \A w \in Word : w \in Nat /\ w <= 65535
BY SMT DEF Word

\* The code of a pair of surrogates, and the pair that is written for it.
LEMMA Pairs ==
    ASSUME NEW x \in Nat, NEW y \in Nat, IsHigh(x),
           NEW code, code = PairCode(x, y)
    PROVE  /\ IsScalar(code)
           /\ EncodeUTF16(code) = <<x, 56320 + (y % 1024)>>
           /\ IsLow(y) <=> y = 56320 + (y % 1024)
<1>1. 55296 <= x /\ x <= 56319
  BY DEF IsHigh
<1> DEFINE p == x % 1024
           q == y % 1024
<1>2. p = x - 55296 /\ p \in 0 .. 1023
  BY <1>1, SMT
<1>3. q \in 0 .. 1023
  BY SMT
<1>4. IsLow(y) <=> y = 56320 + q
  BY SMT DEF IsLow
<1>5. code = 65536 + p * 1024 + q
  BY DEF PairCode
<1> HIDE DEF p, q
<1>6. code \in Nat /\ 65536 <= code /\ code <= 1114111
  BY <1>2, <1>3, <1>5, SMT
<1>7. IsScalar(code)
  BY <1>6, SMT DEF IsScalar, IsSurrogate, IsHigh, IsLow, LastCode
<1>8. (code - 65536) \div 1024 = p /\ (code - 65536) % 1024 = q
  BY <1>2, <1>3, <1>5, SMT
<1>9. EncodeUTF16(code) = <<55296 + p, 56320 + q>>
  BY <1>6, <1>8, SMT DEF EncodeUTF16
<1> QED BY <1>1, <1>2, <1>4, <1>7, <1>9, SMT DEF q

LEMMA SurrogatesAreNoOctets ==
    ASSUME NEW x \in Nat, IsSurrogate(x)
    PROVE  ~DecodeUTF8(EncodeUTF8(x)).ok
<1>1. 55296 <= x /\ x <= 57343
  BY SMT DEF IsSurrogate, IsHigh, IsLow
<1> DEFINE b == TailByte(x \div 64)
           c == TailByte(x)
           s == <<237, b, c>>
<1>2. EncodeUTF8(x) = s
  <2>1. EncodeUTF8(x) = <<224 + x \div 4096, TailByte(x \div 64), TailByte(x)>>
    BY <1>1, EncodedForms, SMT
  <2>2. 224 + x \div 4096 = 237
    BY <1>1, SMT
  <2> QED BY <2>1, <2>2
<1>3. b \in 160 .. 191 /\ c \in 128 .. 191
  <2>1. (x \div 64) % 64 \in 32 .. 63 /\ x % 64 \in 0 .. 63
    BY <1>1, SMT
  <2> QED BY <2>1, SMT DEF TailByte
<1>4. Len(s) = 3 /\ s[1] = 237 /\ s[2] = b /\ s[3] = c
  OBVIOUS
<1> HIDE DEF b, c, s
<1>5. Begins(s, 237, b, c, 0)
  BY <1>3, <1>4, SMT DEF Begins, Take, Byte
<1>6. ~DecodeUTF8(s).ok
  BY <1>3, <1>5, ThreeDecoded, SMT
<1> QED BY <1>2, <1>6

\* Of every sequence of code units, UTF16::Decode accepts exactly those that
\* Encode writes for a scalar value, and gives that value; Validate agrees;
\* and what is written in UTF-8 for a lone surrogate is not read again
\* (encodings.h:294-352).
THEOREM UnitsAreDecoded == \A s \in Seq(Word) \ {<<>>} : DecodesUTF16(s)
<1> SUFFICES ASSUME NEW s \in Seq(Word), s # <<>> PROVE DecodesUTF16(s)
  OBVIOUS
<1>1. PICK x, y, z, w \in Word : Take(s, 1) = <<x>> /\ Take(s, 2) = <<x, y>>
  BY Words, FirstUnits
<1>2. x \in Nat /\ y \in Nat /\ x <= 65535
  BY Words
<1>3. s[1] = x
  <2>1. Take(s, 1)[1] = s[1]
    BY SMT DEF Take
  <2> QED BY <1>1, <2>1
<1> DEFINE t == Take(s, 2)
           d == DecodeUTF16(s)
           v == ValidateUTF16(s)
<1>4. t[1] = x /\ t[2] = y /\ t = <<x, y>>
  BY <1>1
<1> HIDE DEF t
<1>5. IsSurrogate(s[1]) => ~DecodeUTF8(EncodeUTF8(s[1])).ok
  BY <1>2, <1>3, SurrogatesAreNoOctets
<1>6. CASE ~IsSurrogate(x)
  <2> DEFINE ok == TRUE
  <2>1. d = Decoded(x, ok, <<x>>)
    BY <1>4, <1>6, Zenon DEF DecodeUTF16, t
  <2>2. ~IsHigh(x)
    BY <1>6 DEF IsSurrogate
  <2>3. v = [ok |-> ok, put |-> <<x>>]
    <3>1. (~IsSurrogate(x) \/ (IsHigh(x) /\ IsLow(y))) = ok
      BY <1>6
    <3> HIDE DEF ok
    <3>2. v = [ok |-> ~IsSurrogate(x) \/ (IsHigh(x) /\ IsLow(y)),
               put |-> IF IsHigh(x) THEN t ELSE <<x>>]
      BY <1>4, Zenon DEF ValidateUTF16, t
    <3> QED BY <2>2, <3>1, <3>2
  <2>4. IsScalar(x)
    BY <1>2, <1>6, SMT DEF IsScalar, LastCode
  <2>5. EncodeUTF16(x) = <<x>>
    BY <1>2, SMT DEF EncodeUTF16
  <2> HIDE DEF ok, d, v
  <2>6. d.ok = ok /\ d.code = x /\ d.taken = <<x>>
    BY <2>1, DecodedFields
  <2>7. ok
    BY DEF ok
  <2> QED BY <1>5, <2>3, <2>4, <2>5, <2>6, <2>7, Zenon DEF DecodesUTF16, d, v
<1>7. CASE IsHigh(x)
  <2> DEFINE code == PairCode(x, y)
             ok == IsLow(y)
  <2>1. IsSurrogate(x)
    BY <1>7 DEF IsSurrogate
  <2>2. d = Decoded(code, ok, t)
    BY <1>4, <1>7, <2>1, Zenon DEF DecodeUTF16, t
  <2>3. v = [ok |-> ok, put |-> t]
    <3>1. (~IsSurrogate(x) \/ (IsHigh(x) /\ IsLow(y))) = ok
      BY <1>7, <2>1, SMT DEF IsLow
    <3> HIDE DEF ok
    <3>2. v = [ok |-> ~IsSurrogate(x) \/ (IsHigh(x) /\ IsLow(y)),
               put |-> IF IsHigh(x) THEN t ELSE <<x>>]
      BY <1>4, Zenon DEF ValidateUTF16, t
    <3> QED BY <1>7, <3>1, <3>2
  <2> DEFINE l == 56320 + (y % 1024)
  <2>4. IsScalar(code) /\ EncodeUTF16(code) = <<x, l>> /\ (ok <=> y = l)
    BY <1>2, <1>7, Pairs, SMT
  <2> HIDE DEF l
  <2>5. <<x, l>> = <<x, y>> <=> y = l
    OBVIOUS
  <2> HIDE DEF ok, d, v, code
  <2>6. d.ok = ok /\ d.code = code /\ d.taken = t
    BY <2>2, DecodedFields
  <2>7. d.ok <=> IsScalar(d.code) /\ EncodeUTF16(d.code) = d.taken
    BY <1>4, <2>4, <2>5, <2>6, Zenon
  <2> QED BY <1>5, <2>3, <2>6, <2>7, Zenon DEF DecodesUTF16, d, v
<1>8. CASE IsLow(x)
  <2> DEFINE ok == FALSE
  <2>1. IsSurrogate(x) /\ ~IsHigh(x) /\ x # 0
    BY <1>2, <1>8, SMT DEF IsSurrogate, IsHigh, IsLow
  <2>2. d = Decoded(0, ok, <<x>>)
    BY <1>4, <2>1, Zenon DEF DecodeUTF16, t
  <2>3. v = [ok |-> ok, put |-> <<x>>]
    <3>1. (~IsSurrogate(x) \/ (IsHigh(x) /\ IsLow(y))) = ok
      BY <2>1, Zenon
    <3>2. v = [ok |-> ~IsSurrogate(x) \/ (IsHigh(x) /\ IsLow(y)),
               put |-> IF IsHigh(x) THEN t ELSE <<x>>]
      BY <1>4, Zenon DEF ValidateUTF16, t
    <3> HIDE DEF ok
    <3> QED BY <2>1, <3>1, <3>2, Zenon
  <2>4. EncodeUTF16(0) = << 0 >> /\ << 0 >> # <<x>>
    BY <2>1, SMT DEF EncodeUTF16
  <2> HIDE DEF ok, d, v
  <2>5. d.ok = ok /\ d.code = 0 /\ d.taken = <<x>>
    BY <2>2, DecodedFields
  <2>6. ~ok
    BY DEF ok
  <2> QED BY <1>5, <2>3, <2>4, <2>5, <2>6, Zenon DEF DecodesUTF16, d, v
<1> QED BY <1>6, <1>7, <1>8 DEF IsSurrogate

-----------------------------------------------------------------------------
(* Parts of sequences.                                                     *)

\* What streams and stacks hold; the proofs need no more of it.
Item == Nat

LEMMA MinOfTwo ==
    ASSUME NEW a \in Int, NEW b \in Int
    PROVE  Min({a, b}) = IF a <= b THEN a ELSE b
<1> DEFINE m == IF a <= b THEN a ELSE b
<1>1. m \in {a, b} /\ \A y \in {a, b} : m <= y
  OBVIOUS
<1>2. \A x \in {a, b} : (\A y \in {a, b} : x <= y) => x = m
  OBVIOUS
<1> HIDE DEF m
<1> QED BY <1>1, <1>2, Zenon DEF Min, m

LEMMA MaxOfTwo ==
    ASSUME NEW a \in Int, NEW b \in Int
    PROVE  Max({a, b}) = IF a >= b THEN a ELSE b
<1> DEFINE m == IF a >= b THEN a ELSE b
<1>1. m \in {a, b} /\ \A y \in {a, b} : m >= y
  OBVIOUS
<1>2. \A x \in {a, b} : (\A y \in {a, b} : x >= y) => x = m
  OBVIOUS
<1> HIDE DEF m
<1> QED BY <1>1, <1>2, Zenon DEF Max, m

\* The n elements behind the first m.
LEMMA PartOf ==
    ASSUME NEW S, NEW s \in Seq(S), NEW m \in Nat, NEW n \in Nat, m + n <= Len(s)
    PROVE  /\ SubSeq(s, m + 1, m + n) \in Seq(S)
           /\ Len(SubSeq(s, m + 1, m + n)) = n
           /\ \A i \in 1 .. n : SubSeq(s, m + 1, m + n)[i] = s[m + i]
<1>1. \A i \in m + 1 .. m + n : s[i] \in S
  OBVIOUS
<1>2. m + 1 \in Int /\ m + n \in Int /\ (m + n) - (m + 1) + 1 = n
  OBVIOUS
<1>3. /\ SubSeq(s, m + 1, m + n) \in Seq(S)
      /\ Len(SubSeq(s, m + 1, m + n)) = IF m + 1 <= m + n THEN (m + n) - (m + 1) + 1 ELSE 0
      /\ \A i \in 1 .. (m + n) - (m + 1) + 1 : SubSeq(s, m + 1, m + n)[i] = s[(m + 1) + i - 1]
  BY <1>1, <1>2, SubSeqProperties
<1>4. \A i \in 1 .. n : (m + 1) + i - 1 = m + i
  OBVIOUS
<1> QED BY <1>2, <1>3, <1>4

LEMMA SamePart ==
    ASSUME NEW S, NEW s \in Seq(S), NEW t \in Seq(S), NEW a \in Nat, NEW b \in Nat, NEW n \in Nat,
           a + n <= Len(s), b + n <= Len(t), \A i \in 1 .. n : s[a + i] = t[b + i]
    PROVE  SubSeq(s, a + 1, a + n) = SubSeq(t, b + 1, b + n)
<1> DEFINE u == SubSeq(s, a + 1, a + n)
           v == SubSeq(t, b + 1, b + n)
<1>1. u \in Seq(S) /\ Len(u) = n /\ \A i \in 1 .. n : u[i] = s[a + i]
  BY PartOf
<1>2. v \in Seq(S) /\ Len(v) = n /\ \A i \in 1 .. n : v[i] = t[b + i]
  BY PartOf
<1> HIDE DEF u, v
<1>3. \A i \in 1 .. Len(u) : u[i] = v[i]
  BY <1>1, <1>2
<1>4. u = v
  BY <1>1, <1>2, <1>3, SeqEqual
<1> QED BY <1>4 DEF u, v

LEMMA Appended ==
    ASSUME NEW S, NEW s \in Seq(S), NEW e \in S, NEW n \in Nat, Len(s) = n
    PROVE  /\ Append(s, e) \in Seq(S) /\ Len(Append(s, e)) = n + 1
           /\ Append(s, e)[n + 1] = e /\ \A i \in 1 .. n : Append(s, e)[i] = s[i]
  OBVIOUS

LEMMA PartOfPart ==
    ASSUME NEW S, NEW s \in Seq(S), NEW m \in Nat, NEW n \in Nat, m + n <= Len(s),
           NEW a \in Nat, NEW b \in Nat, a + b <= n
    PROVE  SubSeq(SubSeq(s, m + 1, m + n), a + 1, a + b) = SubSeq(s, m + a + 1, m + a + b)
<1> DEFINE t == SubSeq(s, m + 1, m + n)
<1>1. t \in Seq(S) /\ Len(t) = n /\ \A i \in 1 .. n : t[i] = s[m + i]
  BY PartOf
<1> HIDE DEF t
<1>2. \A i \in 1 .. b : t[a + i] = s[(m + a) + i]
  BY <1>1
<1>3. m + a \in Nat /\ (m + a) + b <= Len(s) /\ a + b <= Len(t)
  BY <1>1
<1>4. SubSeq(t, a + 1, a + b) = SubSeq(s, (m + a) + 1, (m + a) + b)
  BY <1>1, <1>2, <1>3, SamePart
<1> QED BY <1>4 DEF t

-----------------------------------------------------------------------------
(* The stream that reads.                                                  *)

ReaderRecords ==
    [file : Seq(Item), left : Seq(Item), bufferSize : Nat \ {0}, buffer : Seq(Item), current : Nat,
     last : Nat, readCount : Nat, count : Nat, eof : BOOLEAN]

\* The buffer holds what the file has behind the characters before it.
StandsAt(r, k) ==
    LET end == r.count + r.readCount
        got == SubSeq(r.file, r.count + 1, end)
    IN  /\ r \in ReaderRecords
        /\ end <= Len(r.file)
        /\ r.left = SubSeq(r.file, end + 1, Len(r.file))
        /\ k = r.count + r.current
        /\ r.eof => /\ r.readCount < r.bufferSize /\ end = Len(r.file)
                    /\ r.last = r.readCount /\ r.current <= r.readCount
                    /\ r.buffer = Append(got, 0)
        /\ ~r.eof => /\ r.readCount = r.bufferSize
                     /\ r.last = r.readCount - 1 /\ r.current < r.readCount
                     /\ r.buffer = got

\* What is left of the file gives the next n characters to the buffer.
Takes(f, size, m, left, n) ==
    /\ n <= size /\ m + n <= Len(f) /\ (n < size => m + n = Len(f))
    /\ Min({size, Len(left)}) = n
    /\ SubSeq(left, 1, n) = SubSeq(f, m + 1, m + n)
    /\ SubSeq(left, n + 1, Len(left)) = SubSeq(f, m + n + 1, Len(f))

LEMMA RefillTakes ==
    ASSUME NEW f \in Seq(Item), NEW size \in Nat \ {0}, NEW m \in Nat, m <= Len(f),
           NEW left, left = SubSeq(f, m + 1, Len(f))
    PROVE  \E n \in Nat : Takes(f, size, m, left, n)
<1>1. PICK l \in Nat : m + l = Len(f)
  <2>1. Len(f) \in Nat /\ Len(f) - m \in Nat /\ m + (Len(f) - m) = Len(f)
    OBVIOUS
  <2> QED BY <2>1
<1>2. left = SubSeq(f, m + 1, m + l) /\ Len(left) = l
  <2>1. m + l <= Len(f)
    BY <1>1
  <2>2. Len(SubSeq(f, m + 1, m + l)) = l
    BY <2>1, PartOf, SMT
  <2> QED BY <1>1, <2>2, Zenon
<1>3. PICK n \in Nat : n = IF size <= l THEN size ELSE l
  OBVIOUS
<1>4. n <= size /\ n <= l /\ m + n <= Len(f) /\ (n < size => m + n = Len(f))
  BY <1>1, <1>3
<1>5. Min({size, Len(left)}) = n
  <2>1. size \in Int /\ l \in Int
    OBVIOUS
  <2>2. Min({size, l}) = IF size <= l THEN size ELSE l
    BY <2>1, MinOfTwo, Zenon
  <2> QED BY <1>2, <1>3, <2>2, Zenon
<1>6. SubSeq(left, 0 + 1, 0 + n) = SubSeq(f, m + 0 + 1, m + 0 + n)
  BY <1>1, <1>2, <1>4, PartOfPart
<1>7. PICK rest \in Nat : n + rest = l
  <2>1. l - n \in Nat /\ n + (l - n) = l
    BY <1>4
  <2> QED BY <2>1
<1>8. SubSeq(left, n + 1, n + rest) = SubSeq(f, m + n + 1, m + n + rest)
  BY <1>1, <1>2, <1>4, <1>7, PartOfPart
<1>9. m + n + rest = Len(f) /\ 0 + n = n /\ m + 0 + 1 = m + 1 /\ m + 0 + n = m + n /\ 0 + 1 = 1
  BY <1>1, <1>7
<1> QED BY <1>2, <1>4, <1>5, <1>6, <1>7, <1>8, <1>9 DEF Takes

LEMMA RefillStands ==
    ASSUME NEW r \in ReaderRecords,
           r.count + r.readCount <= Len(r.file),
           r.left = SubSeq(r.file, r.count + r.readCount + 1, Len(r.file))
    PROVE  StandsAt(Refill(r), r.count + r.readCount) /\ Refill(r).file = r.file
<1>1. r.file \in Seq(Item) /\ r.bufferSize \in Nat \ {0} /\ r.count \in Nat /\ r.readCount \in Nat
  BY DEF ReaderRecords
<1>2. PICK f \in Seq(Item), size \in Nat \ {0}, m \in Nat :
         f = r.file /\ size = r.bufferSize /\ m = r.count + r.readCount
  <2>1. r.count + r.readCount \in Nat
    BY <1>1
  <2> QED BY <1>1, <2>1, Zenon
<1>b. PICK n \in Nat : Takes(f, size, m, r.left, n)
  <2>1. m <= Len(f) /\ r.left = SubSeq(f, m + 1, Len(f))
    BY <1>2, Zenon
  <2> QED BY <2>1, RefillTakes
<1>3.    /\ n <= size /\ m + n <= Len(f) /\ (n < size => m + n = Len(f))
         /\ Min({size, Len(r.left)}) = n
         /\ SubSeq(r.left, 1, n) = SubSeq(f, m + 1, m + n)
         /\ SubSeq(r.left, n + 1, Len(r.left)) = SubSeq(f, m + n + 1, Len(f))
  BY <1>b DEF Takes
<1>4. PICK got \in Seq(Item) : got = SubSeq(f, m + 1, m + n)
  BY <1>3, PartOf
<1>5. PICK rest \in Seq(Item) : rest = SubSeq(f, m + n + 1, Len(f))
  <2>1. \A i \in m + n + 1 .. Len(f) : f[i] \in Item
    OBVIOUS
  <2>2. m + n + 1 \in Int /\ Len(f) \in Int
    OBVIOUS
  <2>3. SubSeq(f, m + n + 1, Len(f)) \in Seq(Item)
    BY <2>1, <2>2, SubSeqProperties
  <2> QED BY <2>3
<1>6. PICK buffer \in Seq(Item) : buffer = IF n < size THEN Append(got, 0) ELSE got
  <2>0. 0 \in Item
    BY DEF Item
  <2>1. Append(got, 0) \in Seq(Item)
    BY <2>0
  <2> QED BY <2>1, Zenon
<1>7. PICK last \in Nat : last = IF n < size THEN n ELSE n - 1
  BY <1>3
<1> DEFINE q == [file |-> f, left |-> rest, bufferSize |-> size, buffer |-> buffer, current |-> 0,
                 last |-> last, readCount |-> n, count |-> m, eof |-> n < size]
<1>8. Refill(r) = q
  <2>1. r = [file |-> r.file, left |-> r.left, bufferSize |-> r.bufferSize, buffer |-> r.buffer,
             current |-> r.current, last |-> r.last, readCount |-> r.readCount, count |-> r.count,
             eof |-> r.eof]
    BY DEF ReaderRecords
  <2>2. Refill(r) =
        [r EXCEPT !.count = m, !.readCount = n, !.current = 0, !.left = rest, !.eof = n < size,
                  !.buffer = IF n < size THEN Append(got, 0) ELSE got,
                  !.last = IF n < size THEN n ELSE n - 1]
    BY <1>2, <1>3, <1>4, <1>5, <2>1 DEF Refill, IsShort
  <2> QED BY <1>2, <1>6, <1>7, <2>1, <2>2
<1>9. q \in ReaderRecords
  <2>1. (n < size) \in BOOLEAN
    OBVIOUS
  <2> QED BY <2>1 DEF ReaderRecords
<1>10. /\ q.file = f /\ q.left = rest /\ q.bufferSize = size /\ q.buffer = buffer /\ q.current = 0
       /\ q.last = last /\ q.readCount = n /\ q.count = m /\ (q.eof <=> n < size)
  OBVIOUS
<1> HIDE DEF q
<1>11. StandsAt(q, m)
  BY <1>3, <1>4, <1>5, <1>6, <1>7, <1>9, <1>10 DEF StandsAt
<1> QED BY <1>2, <1>8, <1>10, <1>11

LEMMA OpenStands ==
    ASSUME NEW file \in Seq(Item), NEW size \in Nat \ {0}
    PROVE  StandsAt(Open(file, size), 0) /\ Open(file, size).file = file
<1> DEFINE r == Opened(file, size)
<1>1. r \in ReaderRecords /\ r.file = file /\ r.left = file /\ r.count = 0 /\ r.readCount = 0
  <2>1. << 0 >> \in Seq(Item)
    <3>1. 0 \in Item
      BY DEF Item
    <3> QED BY <3>1
  <2> QED BY <2>1 DEF Opened, ReaderRecords
<1>2. file = SubSeq(file, 1, Len(file))
  BY SubSeqFull
<1> HIDE DEF r
<1>3. StandsAt(Refill(r), 0 + 0) /\ Refill(r).file = file
  BY <1>1, <1>2, RefillStands
<1> QED BY <1>3 DEF Open, r

LEMMA ReadStands ==
    ASSUME NEW r, NEW k, StandsAt(r, k)
    PROVE  StandsAt(Read(r), TakeMemory(r.file, k)) /\ Read(r).file = r.file
<1>1. r \in ReaderRecords
  BY DEF StandsAt
<1>2. CASE r.current < r.last
  <2>1. Read(r) = [r EXCEPT !.current = @ + 1]
    BY <1>2 DEF Read
  <2>2. r.current \in Nat
    BY <1>1 DEF ReaderRecords
  <2> DEFINE q == Read(r)
  <2>3. q \in ReaderRecords
    <3>1. r.current + 1 \in Nat
      BY <2>2
    <3> QED BY <1>1, <2>1, <3>1 DEF ReaderRecords
  <2>4. /\ q.file = r.file /\ q.left = r.left /\ q.bufferSize = r.bufferSize /\ q.buffer = r.buffer
        /\ q.current = r.current + 1 /\ q.last = r.last /\ q.readCount = r.readCount
        /\ q.count = r.count /\ q.eof = r.eof
    BY <1>1, <2>1 DEF ReaderRecords
  <2> HIDE DEF q
  <2>5. /\ Len(r.file) \in Nat /\ r.count \in Nat /\ r.readCount \in Nat /\ r.last \in Nat
        /\ r.count + r.readCount <= Len(r.file) /\ k = r.count + r.current
        /\ (r.eof => r.last = r.readCount) /\ (~r.eof => r.last = r.readCount - 1)
    BY <1>1 DEF StandsAt, ReaderRecords
  <2>6. k # Len(r.file) /\ k + 1 = r.count + (r.current + 1)
    BY <1>2, <2>2, <2>5
  <2>7. TakeMemory(r.file, k) = k + 1
    BY <2>6 DEF TakeMemory
  <2>8. (r.eof => r.current + 1 <= r.readCount) /\ (~r.eof => r.current + 1 < r.readCount)
    BY <1>2, <2>2, <2>5
  <2>9. StandsAt(q, k + 1)
    BY <2>3, <2>4, <2>6, <2>8 DEF StandsAt
  <2> QED BY <2>4, <2>7, <2>9 DEF q
<1>3. CASE ~(r.current < r.last) /\ ~r.eof
  <2>1. Read(r) = Refill(r)
    BY <1>3 DEF Read
  <2>2. k + 1 = r.count + r.readCount /\ k # Len(r.file)
    BY <1>1, <1>3 DEF StandsAt, ReaderRecords
  <2>3. r.count + r.readCount <= Len(r.file)
        /\ r.left = SubSeq(r.file, r.count + r.readCount + 1, Len(r.file))
    BY DEF StandsAt
  <2>4. StandsAt(Refill(r), r.count + r.readCount) /\ Refill(r).file = r.file
    BY <1>1, <2>3, RefillStands
  <2>5. TakeMemory(r.file, k) = k + 1
    BY <2>2 DEF TakeMemory
  <2> QED BY <2>1, <2>2, <2>4, <2>5
<1>4. CASE ~(r.current < r.last) /\ r.eof
  <2>1. Read(r) = r
    BY <1>4 DEF Read
  <2>2. k = Len(r.file)
    BY <1>1, <1>4 DEF StandsAt, ReaderRecords
  <2> QED BY <2>1, <2>2 DEF TakeMemory
<1> QED BY <1>2, <1>3, <1>4

LEMMA StandsWhereItReads ==
    ASSUME NEW r, NEW k, StandsAt(r, k)
    PROVE  /\ k \in 0 .. Len(r.file)
           /\ Peek(r) = PeekMemory(r.file, k) /\ Tell(r) = k
           /\ IF r.current = 0 /\ r.bufferSize >= 4 THEN Peek4(r) = Peek4Memory(r.file, k)
              ELSE Peek4(r) \in {Peek4Memory(r.file, k), <<>>}
<1>1. /\ r \in ReaderRecords /\ r.file \in Seq(Item) /\ Len(r.file) \in Nat
      /\ r.count \in Nat /\ r.readCount \in Nat /\ r.current \in Nat /\ r.bufferSize \in Nat
      /\ r.buffer \in Seq(Item)
      /\ r.count + r.readCount <= Len(r.file) /\ k = r.count + r.current
  BY DEF StandsAt, ReaderRecords
<1>a. PICK f \in Seq(Item), m \in Nat, n \in Nat, j \in Nat, buffer \in Seq(Item) :
         f = r.file /\ m = r.count /\ n = r.readCount /\ j = r.current /\ buffer = r.buffer
  BY <1>1, Zenon
<1>b. m + n <= Len(f) /\ k = m + j /\ Len(f) \in Nat
  BY <1>1, <1>a
<1>c. PICK got \in Seq(Item) :
         /\ got = SubSeq(f, m + 1, m + n)
         /\ Len(got) = n /\ \A i \in 1 .. n : got[i] = f[m + i]
  <2>1. m + n <= Len(f)
    BY <1>b
  <2> DEFINE part == SubSeq(f, m + 1, m + n)
  <2>2. part \in Seq(Item) /\ Len(part) = n /\ \A i \in 1 .. n : part[i] = f[m + i]
    BY <2>1, PartOf, SMT
  <2> HIDE DEF part
  <2>3. \E g \in Seq(Item) : g = part /\ Len(g) = n /\ \A i \in 1 .. n : g[i] = f[m + i]
    BY <2>2, Zenon
  <2> QED BY <2>3 DEF part
<1>d. /\ r.eof => /\ n < r.bufferSize /\ m + n = Len(f) /\ r.last = n /\ j <= n
                  /\ buffer = Append(got, 0)
      /\ ~r.eof => n = r.bufferSize /\ r.last = n - 1 /\ j < n /\ buffer = got
  BY <1>a, <1>c, Zenon DEF StandsAt
<1>f. (r.eof /\ j <= n) \/ (~r.eof /\ j < n)
  <2>1. CASE r.eof
    BY <1>a, <2>1 DEF StandsAt
  <2>2. CASE ~r.eof
    BY <1>a, <2>2 DEF StandsAt
  <2> QED BY <2>1, <2>2
<1>e. 0 \in Item
  BY DEF Item
<1>2. Len(buffer) >= n /\ (\A i \in 1 .. n : buffer[i] = got[i])
      /\ (r.eof => buffer[n + 1] = 0)
  <2>1. Len(Append(got, 0)) = n + 1 /\ Append(got, 0)[n + 1] = 0
        /\ \A i \in 1 .. n : Append(got, 0)[i] = got[i]
    <3>1. /\ Len(Append(got, 0)) = Len(got) + 1 /\ Append(got, 0)[Len(got) + 1] = 0
          /\ \A i \in 1 .. Len(got) : Append(got, 0)[i] = got[i]
      BY <1>e, Appended
    <3>2. Len(got) = n
      BY <1>c
    <3> QED BY <3>1, <3>2, Zenon
  <2>2. CASE buffer = Append(got, 0) /\ r.eof
    BY <2>1, <2>2
  <2>3. CASE buffer = got /\ ~r.eof
    BY <1>c, <2>3
  <2>4. r.eof \in BOOLEAN
    BY <1>1 DEF ReaderRecords
  <2> QED BY <1>d, <2>2, <2>3, <2>4
<1>3. k \in 0 .. Len(f) /\ Tell(r) = k
  <2>2. j <= n
    BY <1>a, <1>f
  <2>3. m + j \in 0 .. Len(f)
    BY <1>b, <2>2
  <2> QED BY <1>a, <1>b, <2>3, Zenon DEF Tell
<1>4. Peek(r) = PeekMemory(f, k)
  <2>1. CASE r.eof /\ j = n
    <3>1. k = Len(f)
      BY <1>b, <1>d, <2>1
    <3> QED BY <1>2, <1>a, <2>1, <3>1 DEF Peek, PeekMemory
  <2>2. CASE j < n
    <3>1. j + 1 \in 1 .. n /\ k # Len(f) /\ k + 1 = m + (j + 1)
      BY <1>b, <2>2
    <3>2. buffer[j + 1] = f[k + 1]
      BY <1>2, <1>c, <3>1
    <3> QED BY <1>a, <3>1, <3>2 DEF Peek, PeekMemory
  <2>4. j < n \/ (r.eof /\ j = n)
    BY <1>a, <1>f
  <2> QED BY <2>1, <2>2, <2>4
<1>5. ASSUME j + 4 <= n
      PROVE  SubSeq(buffer, j + 1, j + 4) = SubSeq(f, k + 1, k + 4) /\ k + 4 <= Len(f)
  <2>1. j + 4 <= Len(buffer) /\ k + 4 <= Len(f) /\ k \in Nat
    BY <1>2, <1>5, <1>b
  <2>2. \A i \in 1 .. 4 : buffer[j + i] = f[k + i]
    <3>1. TAKE i \in 1 .. 4
    <3>2. j + i \in 1 .. n /\ m + (j + i) = k + i
      BY <1>5, <1>b
    <3>3. buffer[j + i] = got[j + i] /\ got[j + i] = f[m + (j + i)]
      BY <1>2, <1>c, <3>2
    <3> QED BY <3>2, <3>3
  <2> DEFINE u == SubSeq(buffer, j + 1, j + 4)
             v == SubSeq(f, k + 1, k + 4)
  <2>3. u \in Seq(Item) /\ Len(u) = 4 /\ \A i \in 1 .. 4 : u[i] = buffer[j + i]
    BY <2>1, PartOf
  <2>4. v \in Seq(Item) /\ Len(v) = 4 /\ \A i \in 1 .. 4 : v[i] = f[k + i]
    BY <2>1, PartOf
  <2> HIDE DEF u, v
  <2>5. \A i \in 1 .. Len(u) : u[i] = v[i]
    BY <2>2, <2>3, <2>4
  <2>6. u = v
    BY <2>3, <2>4, <2>5, SeqEqual
  <2> QED BY <2>1, <2>6 DEF u, v
<1>6. Peek4(r) = IF j + 4 <= n THEN SubSeq(f, k + 1, k + 4) ELSE <<>>
  <2>0. r.eof \in BOOLEAN
    BY <1>1 DEF ReaderRecords
  <2>1. j + 4 - (IF r.eof THEN 0 ELSE 1) <= r.last <=> j + 4 <= n
    BY <1>d, <2>0
  <2>2. Peek4(r) = IF j + 4 <= n THEN SubSeq(buffer, j + 1, j + 4) ELSE <<>>
    BY <1>a, <2>1 DEF Peek4
  <2> QED BY <1>5, <2>2
<1>7. j + 4 <= n => Peek4(r) = Peek4Memory(f, k)
  BY <1>5, <1>6 DEF Peek4Memory
<1>8. ASSUME j = 0, r.bufferSize >= 4, ~(j + 4 <= n)
      PROVE  Peek4(r) = Peek4Memory(f, k)
  <2>0. r.eof \in BOOLEAN
    BY <1>1 DEF ReaderRecords
  <2>1. ~(k + 4 <= Len(f))
    BY <1>1, <1>b, <1>d, <1>8, <2>0
  <2> QED BY <1>6, <1>8, <2>1 DEF Peek4Memory
<1>9. Peek4(r) \in {Peek4Memory(f, k), <<>>}
  BY <1>6, <1>7
<1> QED BY <1>3, <1>4, <1>7, <1>8, <1>9, <1>a

\* The line ends among the first k characters.
LineEnds(file, k) == {i \in 1 .. k : file[i] = NewLine}

LEMMA LineEndsGrow ==
    ASSUME NEW file, NEW k \in Nat
    PROVE  /\ LineEnds(file, 0) = {} /\ Cardinality(LineEnds(file, 0)) = 0
           /\ Cardinality(LineEnds(file, k)) \in Nat
           /\ Cardinality(LineEnds(file, k + 1)) =
                  IF file[k + 1] = NewLine THEN Cardinality(LineEnds(file, k)) + 1
                  ELSE Cardinality(LineEnds(file, k))
<1>1. LineEnds(file, 0) = {}
  BY DEF LineEnds
<1>2. IsFiniteSet(LineEnds(file, k))
  <2>1. IsFiniteSet(1 .. k)
    BY FS_Interval
  <2>2. LineEnds(file, k) \subseteq 1 .. k
    BY DEF LineEnds
  <2> QED BY <2>1, <2>2, FS_Subset
<1>3. k + 1 \notin LineEnds(file, k)
  BY DEF LineEnds
<1>4. CASE file[k + 1] = NewLine
  <2>1. LineEnds(file, k + 1) = LineEnds(file, k) \cup {k + 1}
    BY <1>4 DEF LineEnds
  <2>2. Cardinality(LineEnds(file, k + 1)) = Cardinality(LineEnds(file, k)) + 1
    BY <1>2, <1>3, <2>1, FS_AddElement
  <2> QED BY <1>1, <1>2, <1>4, <2>2, FS_EmptySet, FS_CardinalityType
<1>5. CASE file[k + 1] # NewLine
  <2>1. LineEnds(file, k + 1) = LineEnds(file, k)
    BY <1>5 DEF LineEnds
  <2> QED BY <1>1, <1>2, <1>5, <2>1, FS_EmptySet, FS_CardinalityType
<1> QED BY <1>4, <1>5

\* The cursor after k characters of the file and so many reads of its end.
HasCounted(c, file, k, over) ==
    /\ c \in [line : Int, col : Int] /\ over \in Nat
    /\ k < Len(file) => over = 0
    /\ c.line = 1 + Cardinality(LineEnds(file, k))
    /\ \E b \in 0 .. k :
           /\ b > 0 => file[b] = NewLine
           /\ \A i \in b + 1 .. k : file[i] # NewLine
           /\ c.col = k - b + over

LEMMA TakeCounts ==
    ASSUME NEW file \in Seq(Item), NEW k \in 0 .. Len(file), NEW c, NEW over,
           HasCounted(c, file, k, over)
    PROVE  HasCounted(CursorTake(c, PeekMemory(file, k)), file, TakeMemory(file, k),
                      IF k = Len(file) THEN over + 1 ELSE over)
<1>1. c \in [line : Int, col : Int] /\ over \in Nat /\ k \in Nat /\ Len(file) \in Nat
  BY DEF HasCounted
<1>2. c.line \in Int /\ c.col \in Int
  BY <1>1
<1>3. PICK b \in 0 .. k :
         /\ b > 0 => file[b] = NewLine
         /\ \A i \in b + 1 .. k : file[i] # NewLine
         /\ c.col = k - b + over
  BY DEF HasCounted
<1>a. PICK n \in Nat : n = Len(file)
  BY <1>1
<1>b. b \in 0 .. k /\ c.col = k - b + over
  BY <1>3, Zenon
<1>c. c.line = 1 + Cardinality(LineEnds(file, k))
  BY DEF HasCounted
<1>4. CASE k = Len(file)
  <2>1. CursorTake(c, 0) = [c EXCEPT !.col = @ + 1]
    BY DEF CursorTake, NewLine
  <2> DEFINE d == CursorTake(c, 0)
  <2>2. d \in [line : Int, col : Int] /\ d.line = c.line /\ d.col = c.col + 1
    BY <1>1, <1>2, <2>1
  <2> HIDE DEF d
  <2>3. d.col = k - b + (over + 1) /\ over + 1 \in Nat /\ ~(k < Len(file))
    <3>1. ~(k < n)
      BY <1>4, <1>a
    <3> QED BY <1>1, <1>2, <1>b, <1>a, <2>2, <3>1
  <2>4. HasCounted(d, file, k, over + 1)
    BY <1>3, <2>2, <2>3 DEF HasCounted
  <2> QED BY <1>4, <2>4 DEF PeekMemory, TakeMemory, d
<1>5. CASE k # Len(file) /\ file[k + 1] = NewLine
  <2> DEFINE d == CursorTake(c, file[k + 1])
  <2>1. d = [line |-> c.line + 1, col |-> 0]
    BY <1>5 DEF CursorTake
  <2>2. d \in [line : Int, col : Int] /\ d.line = c.line + 1 /\ d.col = 0
    BY <1>2, <2>1
  <2> HIDE DEF d
  <2>3. over = 0
    BY <1>1, <1>5 DEF HasCounted
  <2>4. d.line = 1 + Cardinality(LineEnds(file, k + 1))
    <3>1. Cardinality(LineEnds(file, k)) \in Nat
          /\ Cardinality(LineEnds(file, k + 1)) = Cardinality(LineEnds(file, k)) + 1
      BY <1>1, <1>5, LineEndsGrow
    <3> QED BY <1>2, <1>c, <2>2, <3>1
  <2>5. /\ k + 1 \in 0 .. k + 1 /\ file[k + 1] = NewLine
        /\ (k + 1) + 1 .. k + 1 = {} /\ d.col = (k + 1) - (k + 1) + over
    BY <1>1, <1>5, <2>2, <2>3
  <2>6. HasCounted(d, file, k + 1, over)
    BY <2>2, <2>3, <2>4, <2>5 DEF HasCounted
  <2> QED BY <1>5, <2>6 DEF PeekMemory, TakeMemory, d
<1>6. CASE k # Len(file) /\ file[k + 1] # NewLine
  <2> DEFINE d == CursorTake(c, file[k + 1])
  <2>1. d = [c EXCEPT !.col = @ + 1]
    BY <1>6 DEF CursorTake
  <2>2. d \in [line : Int, col : Int] /\ d.line = c.line /\ d.col = c.col + 1
    BY <1>1, <1>2, <2>1
  <2> HIDE DEF d
  <2>3. over = 0
    BY <1>1, <1>6 DEF HasCounted
  <2>4. d.line = 1 + Cardinality(LineEnds(file, k + 1))
    BY <1>1, <1>6, <1>c, <2>2, LineEndsGrow
  <2>5. b \in 0 .. k + 1 /\ d.col = (k + 1) - b + over
    BY <1>1, <1>2, <1>b, <2>2, <2>3
  <2>6. \A i \in b + 1 .. k + 1 : file[i] # NewLine
    <3>1. \A i \in b + 1 .. k + 1 : i \in b + 1 .. k \/ i = k + 1
      BY <1>1
    <3> QED BY <1>3, <1>6, <3>1
  <2>7. HasCounted(d, file, k + 1, over)
    BY <1>3, <2>2, <2>3, <2>4, <2>5, <2>6 DEF HasCounted
  <2> QED BY <1>6, <2>7 DEF PeekMemory, TakeMemory, d
<1> QED BY <1>4, <1>5, <1>6

ReaderInv == StandsAt(reader, at) /\ HasCounted(cursor, reader.file, at, overrun)

LEMMA ReaderStarts == ReaderInit => ReaderInv
<1> SUFFICES ASSUME ReaderInit PROVE ReaderInv
  OBVIOUS
<1>1. PICK file \in Files, size \in ReadSizes : reader = Open(file, size)
  BY DEF ReaderInit
<1>2. file \in Seq(Item) /\ size \in Nat \ {0}
  BY StreamsAssumption DEF Item
<1>3. StandsAt(reader, 0) /\ reader.file = file
  BY <1>1, <1>2, OpenStands
<1>4. at = 0 /\ cursor = [line |-> 1, col |-> 0] /\ overrun = 0
  BY DEF ReaderInit
<1>5. Cardinality(LineEnds(file, 0)) = 0
  BY LineEndsGrow
<1>6. cursor \in [line : Int, col : Int] /\ cursor.line = 1 /\ cursor.col = 0
  BY <1>4
<1>7. 0 \in 0 .. 0 /\ (0 + 1 .. 0 = {}) /\ 0 - 0 + 0 = 0 /\ 1 + 0 = 1 /\ ~(0 > 0)
  OBVIOUS
<1>8. HasCounted(cursor, file, 0, 0)
  BY <1>5, <1>6, <1>7 DEF HasCounted
<1> QED BY <1>3, <1>4, <1>8 DEF ReaderInv

LEMMA ReaderTakes == ReaderInv /\ TakeChar => ReaderInv'
<1> SUFFICES ASSUME ReaderInv, TakeChar PROVE ReaderInv'
  OBVIOUS
<1>1. StandsAt(reader, at) /\ HasCounted(cursor, reader.file, at, overrun)
  BY DEF ReaderInv
<1>2. at \in 0 .. Len(reader.file) /\ Peek(reader) = PeekMemory(reader.file, at)
  BY <1>1, StandsWhereItReads
<1>3. StandsAt(Read(reader), TakeMemory(reader.file, at)) /\ Read(reader).file = reader.file
  BY <1>1, ReadStands
<1>4. reader.file \in Seq(Item)
  BY <1>1 DEF StandsAt, ReaderRecords
<1>5. HasCounted(CursorTake(cursor, PeekMemory(reader.file, at)), reader.file,
                 TakeMemory(reader.file, at),
                 IF at = Len(reader.file) THEN overrun + 1 ELSE overrun)
  BY <1>1, <1>2, <1>4, TakeCounts
<1>6. /\ reader' = Read(reader) /\ at' = TakeMemory(reader.file, at)
      /\ cursor' = CursorTake(cursor, PeekMemory(reader.file, at))
      /\ overrun' = IF at = Len(reader.file) THEN overrun + 1 ELSE overrun
  BY <1>2 DEF TakeChar
<1> QED BY <1>3, <1>5, <1>6, Zenon DEF ReaderInv

LEMMA ReaderReads == ReaderInv => ReadsTheFile
<1> SUFFICES ASSUME ReaderInv PROVE ReadsTheFile
  OBVIOUS
<1>1. StandsAt(reader, at) /\ HasCounted(cursor, reader.file, at, overrun)
  BY DEF ReaderInv
<1>2. /\ Peek(reader) = PeekMemory(reader.file, at) /\ Tell(reader) = at
      /\ IF reader.current = 0 /\ reader.bufferSize >= 4
         THEN Peek4(reader) = Peek4Memory(reader.file, at)
         ELSE Peek4(reader) \in {Peek4Memory(reader.file, at), <<>>}
  BY <1>1, StandsWhereItReads
<1>3. /\ cursor.line = 1 + Cardinality({k \in 1 .. at : reader.file[k] = NewLine})
      /\ \E b \in 0 .. at :
             /\ b > 0 => reader.file[b] = NewLine
             /\ \A k \in b + 1 .. at : reader.file[k] # NewLine
             /\ cursor.col = at - b + overrun
  BY <1>1 DEF HasCounted, LineEnds
<1> QED BY <1>2, <1>3, Zenon DEF ReadsTheFile

-----------------------------------------------------------------------------
(* The stream that writes.                                                 *)

LEMMA Empty == <<>> \in Seq(Item) /\ Len(<<>>) = 0
BY EmptySeq

LEMMA ConcatTwice ==
    ASSUME NEW s \in Seq(Item), NEW t \in Seq(Item), NEW u \in Seq(Item)
    PROVE  (s \o t) \o u = s \o (t \o u)
<1>1. PICK S : S = Item
  OBVIOUS
<1>2. s \in Seq(S) /\ t \in Seq(S) /\ u \in Seq(S)
  BY <1>1
<1> QED BY <1>2, ConcatAssociative, SMT

LEMMA FirstPart ==
    ASSUME NEW s \in Seq(Item), NEW n \in Nat, n <= Len(s)
    PROVE  /\ SubSeq(s, 1, n) \in Seq(Item) /\ Len(SubSeq(s, 1, n)) = n
           /\ \A i \in 1 .. n : SubSeq(s, 1, n)[i] = s[i]
<1>1. 0 + n <= Len(s) /\ 0 + 1 = 1 /\ 0 + n = n /\ \A i \in 1 .. n : 0 + i = i
  OBVIOUS
<1>2. /\ SubSeq(s, 0 + 1, 0 + n) \in Seq(Item) /\ Len(SubSeq(s, 0 + 1, 0 + n)) = n
      /\ \A i \in 1 .. n : SubSeq(s, 0 + 1, 0 + n)[i] = s[0 + i]
  BY <1>1, PartOf
<1> QED BY <1>1, <1>2

\* A prefix is what something can be put behind.
LEMMA PrefixOfConcat ==
    ASSUME NEW s \in Seq(Item), NEW u \in Seq(Item)
    PROVE  IsPrefix(s, s \o u)
<1> DEFINE t == s \o u
           n == Len(s)
           a == SubSeq(s, 1, n)
           b == SubSeq(t, 1, n)
<1>1. t \in Seq(Item) /\ Len(t) = n + Len(u) /\ Len(u) \in Nat /\ n \in Nat
      /\ \A i \in 1 .. n : t[i] = s[i]
  BY ConcatProperties
<1> HIDE DEF t
<1>2. n <= Len(s) /\ n <= Len(t)
  BY <1>1
<1> HIDE DEF n
<1>3. a \in Seq(Item) /\ Len(a) = n /\ \A i \in 1 .. n : a[i] = s[i]
  BY <1>1, <1>2, FirstPart
<1>4. b \in Seq(Item) /\ Len(b) = n /\ \A i \in 1 .. n : b[i] = t[i]
  BY <1>1, <1>2, FirstPart
<1> HIDE DEF a, b
<1>5. \A i \in 1 .. Len(a) : a[i] = b[i]
  BY <1>1, <1>3, <1>4
<1>6. a = b
  BY <1>3, <1>4, <1>5, SeqEqual
<1> QED BY <1>2, <1>6 DEF a, b, t, n, IsPrefix

\* A sequence in two parts.
LEMMA TwoParts ==
    ASSUME NEW s \in Seq(Item), NEW n \in Nat, n <= Len(s)
    PROVE  \E p \in Seq(Item), q \in Seq(Item) :
               p = SubSeq(s, 1, n) /\ Len(p) = n /\ s = p \o q /\ Len(s) = n + Len(q)
<1> DEFINE p == SubSeq(s, 1, n)
           q == SubSeq(s, n + 1, Len(s))
<1>1. Len(s) \in Nat /\ 1 \in 1 .. Len(s) + 1 /\ n \in 1 - 1 .. Len(s) /\ Len(s) \in n .. Len(s)
  OBVIOUS
<1>2. p \o q = SubSeq(s, 1, Len(s))
  BY <1>1, ConcatAdjacentSubSeq
<1>3. SubSeq(s, 1, Len(s)) = s
  BY SubSeqFull
<1>4. p \in Seq(Item) /\ Len(p) = n
  BY FirstPart
<1>5. q \in Seq(Item)
  <2>1. \A i \in n + 1 .. Len(s) : s[i] \in Item
    OBVIOUS
  <2>2. n + 1 \in Int /\ Len(s) \in Int
    BY <1>1
  <2> QED BY <2>1, <2>2, SubSeqProperties
<1> HIDE DEF p, q
<1>6. s = p \o q /\ Len(s) = n + Len(q)
  BY <1>2, <1>3, <1>4, <1>5, ConcatProperties
<1>7. \E v \in Seq(Item) : s = p \o v /\ Len(s) = n + Len(v)
  BY <1>5, <1>6
<1> QED BY <1>4, <1>7 DEF p

WriterRecords == [file : Seq(Item), buffer : Seq(Item), bufferSize : Nat \ {0}, room : Nat]

\* What of all that was put the file lacks is in the buffer or yet to come
\* into it; or the disk is full, and there is something to lack.
Lacks(w, rest, lacking) ==
    lacking = w.buffer \o rest \/ (Len(w.file) = w.room /\ lacking # <<>>)
HoldsPut(w, rest, all) ==
    /\ w \in WriterRecords /\ rest \in Seq(Item) /\ all \in Seq(Item)
    /\ Len(w.buffer) <= w.bufferSize /\ Len(w.file) <= w.room
    /\ \E lacking \in Seq(Item) : all = w.file \o lacking /\ Lacks(w, rest, lacking)

\* fwrite() takes all of the buffer, or as much of it as there is room for.
LEMMA FlushTakes ==
    ASSUME NEW w \in WriterRecords, Len(w.file) <= w.room
    PROVE  \E p \in Seq(Item), q \in Seq(Item) :
               /\ w.buffer = p \o q
               /\ Flush(w) = [file |-> w.file \o p, buffer |-> <<>>,
                              bufferSize |-> w.bufferSize, room |-> w.room]
               /\ Len(w.file \o p) <= w.room
               /\ q = <<>> \/ Len(w.file \o p) = w.room
<1>1. PICK f \in Seq(Item), b \in Seq(Item), size \in Nat \ {0}, room \in Nat :
         f = w.file /\ b = w.buffer /\ size = w.bufferSize /\ room = w.room
  BY Zenon DEF WriterRecords
<1>2. PICK lf \in Nat, lb \in Nat : lf = Len(f) /\ lb = Len(b)
  OBVIOUS
<1>3. lf <= room
  BY <1>1, <1>2
<1>4. PICK n \in Nat : n = IF lb <= room - lf THEN lb ELSE room - lf
  <2>1. room - lf \in Nat
    BY <1>3
  <2>2. (IF lb <= room - lf THEN lb ELSE room - lf) \in Nat
    BY <2>1
  <2> QED BY <2>2
<1>5. Min({lb, room - lf}) = n
  <2>1. lb \in Int /\ room - lf \in Int
    OBVIOUS
  <2> QED BY <1>4, <2>1, MinOfTwo, Zenon
<1>6. n <= lb /\ lf + n <= room /\ (n = lb \/ lf + n = room)
  BY <1>3, <1>4
<1>7. PICK p \in Seq(Item), q \in Seq(Item) :
         p = SubSeq(b, 1, n) /\ Len(p) = n /\ b = p \o q /\ Len(b) = n + Len(q)
  <2>1. n <= Len(b)
    BY <1>2, <1>6
  <2> QED BY <2>1, TwoParts
<1>8. Len(f \o p) = lf + n
  BY <1>2, <1>7, ConcatProperties
<1>9. q = <<>> \/ lf + n = room
  <2>1. CASE n = lb
    <3>1. Len(q) = 0
      BY <1>2, <1>7, <2>1
    <3> QED BY <3>1, EmptySeq
  <2> QED BY <1>6, <2>1
<1>10. w = [file |-> f, buffer |-> b, bufferSize |-> size, room |-> room]
  BY <1>1 DEF WriterRecords
<1>11. Flush(w) = [file |-> f \o p, buffer |-> <<>>, bufferSize |-> size, room |-> room]
  <2>1. Flush(w) = [w EXCEPT !.file = f \o p, !.buffer = <<>>]
    BY <1>1, <1>2, <1>5, <1>7, Zenon DEF Flush
  <2> QED BY <1>10, <2>1
<1>12. Len(f \o p) <= room /\ (q = <<>> \/ Len(f \o p) = room)
  BY <1>6, <1>8, <1>9
<1> QED BY <1>1, <1>7, <1>11, <1>12, Zenon

LEMMA FlushHolds ==
    ASSUME NEW w, NEW rest, NEW all, HoldsPut(w, rest, all)
    PROVE  /\ HoldsPut(Flush(w), rest, all) /\ Flush(w).buffer = <<>>
           /\ Flush(w).bufferSize = w.bufferSize /\ Flush(w).room = w.room
<1>1. /\ w \in WriterRecords /\ rest \in Seq(Item) /\ all \in Seq(Item)
      /\ Len(w.file) <= w.room
      /\ w.file \in Seq(Item) /\ w.bufferSize \in Nat \ {0} /\ w.room \in Nat
  BY DEF HoldsPut, WriterRecords
<1>2. PICK lacking \in Seq(Item) : all = w.file \o lacking /\ Lacks(w, rest, lacking)
  BY DEF HoldsPut
<1>3. PICK p \in Seq(Item), q \in Seq(Item) :
         /\ w.buffer = p \o q
         /\ Flush(w) = [file |-> w.file \o p, buffer |-> <<>>,
                        bufferSize |-> w.bufferSize, room |-> w.room]
         /\ Len(w.file \o p) <= w.room
         /\ q = <<>> \/ Len(w.file \o p) = w.room
  BY <1>1, FlushTakes
<1>p. (p \o q) \o rest = p \o (q \o rest)
  <2>1. rest \in Seq(Item)
    BY <1>1
  <2> QED BY <2>1, ConcatTwice
<1>4. PICK f \in Seq(Item) : f = w.file
  BY <1>1
<1> DEFINE v == Flush(w)
<1>5. /\ v \in WriterRecords /\ v.file = f \o p /\ v.buffer = <<>> /\ v.room = w.room
      /\ v.bufferSize = w.bufferSize
  <2>1. f \o p \in Seq(Item)
    BY ConcatProperties
  <2> QED BY <1>1, <1>3, <1>4, <2>1, Empty DEF WriterRecords
<1> HIDE DEF v
<1>6. Len(v.buffer) <= v.bufferSize /\ Len(v.file) <= v.room
  BY <1>1, <1>3, <1>4, <1>5, Empty
<1>7. \E u \in Seq(Item) : all = v.file \o u /\ Lacks(v, rest, u)
  <2>1. CASE lacking = w.buffer \o rest /\ q = <<>>
    <3>1. w.buffer = p
      BY <1>3, <2>1, ConcatEmptySeq
    <3>2. all = (f \o p) \o rest
      <4>1. PICK r \in Seq(Item) : r = rest
        BY <1>1
      <4>2. (f \o p) \o r = f \o (p \o r)
        BY ConcatTwice
      <4> QED BY <1>2, <1>4, <2>1, <3>1, <4>1, <4>2, Zenon
    <3>3. rest = v.buffer \o rest
      BY <1>1, <1>5, ConcatEmptySeq
    <3>4. all = v.file \o rest /\ Lacks(v, rest, rest)
      BY <1>5, <3>2, <3>3, Zenon DEF Lacks
    <3> QED BY <1>1, <3>4, Zenon
  <2>2. CASE lacking = w.buffer \o rest /\ q # <<>>
    <3>1. PICK u \in Seq(Item) : u = q \o rest
      BY <1>1, ConcatProperties
    <3>2. w.buffer \o rest = p \o u
      BY <1>3, <1>p, <3>1, Zenon
    <3>3. all = (f \o p) \o u
      <4>1. (f \o p) \o u = f \o (p \o u)
        BY ConcatTwice
      <4> QED BY <1>2, <1>4, <2>2, <3>2, <4>1, Zenon
    <3>4. u # <<>>
      BY <1>1, <2>2, <3>1, ConcatEqualIffEmpty
    <3>5. Len(v.file) = v.room
      BY <1>3, <1>4, <1>5, <2>2, Zenon
    <3>6. all = v.file \o u /\ Lacks(v, rest, u)
      BY <1>5, <3>3, <3>4, <3>5, Zenon DEF Lacks
    <3> QED BY <3>6, Zenon
  <2>3. CASE Len(w.file) = w.room /\ lacking # <<>>
    <3>1. Len(f) = w.room /\ Len(f \o p) = Len(f) + Len(p) /\ Len(p) \in Nat /\ Len(f) \in Nat
      BY <1>4, <2>3, ConcatProperties
    <3>2. Len(p) = 0
      BY <1>1, <1>3, <1>4, <3>1
    <3>3. f \o p = f
      BY <3>2, EmptySeq, ConcatEmptySeq
    <3>4. all = v.file \o lacking /\ Len(v.file) = v.room
      BY <1>2, <1>4, <1>5, <3>1, <3>3, Zenon
    <3> QED BY <2>3, <3>4, Zenon DEF Lacks
  <2> QED BY <1>2, <2>1, <2>2, <2>3, Zenon DEF Lacks
<1>8. HoldsPut(v, rest, all)
  BY <1>1, <1>5, <1>6, <1>7, Zenon DEF HoldsPut
<1> QED BY <1>5, <1>8 DEF v

LEMMA PutHolds ==
    ASSUME NEW w, NEW all, NEW s \in Seq(Item), HoldsPut(w, <<>>, all)
    PROVE  HoldsPut(w, s, all \o s)
<1>1. PICK f \in Seq(Item), b \in Seq(Item), lacking \in Seq(Item), t \in Seq(Item) :
         /\ f = w.file /\ b = w.buffer /\ t = all
         /\ all = w.file \o lacking /\ Lacks(w, <<>>, lacking)
  <2>1. w.file \in Seq(Item) /\ w.buffer \in Seq(Item) /\ all \in Seq(Item)
    BY DEF HoldsPut, WriterRecords
  <2> QED BY <2>1, Zenon DEF HoldsPut
<1>2. PICK u \in Seq(Item) : u = lacking \o s
  BY ConcatProperties
<1>3. all \o s = f \o u
  <2>1. (f \o lacking) \o s = f \o (lacking \o s)
    BY ConcatTwice
  <2> QED BY <1>1, <1>2, <2>1, Zenon
<1>4. Lacks(w, s, u)
  <2>1. CASE lacking = b \o <<>>
    BY <1>1, <1>2, <2>1, ConcatEmptySeq DEF Lacks
  <2>2. CASE Len(f) = w.room /\ lacking # <<>>
    <3>1. u # <<>>
      BY <1>2, <2>2, ConcatEqualIffEmpty
    <3> QED BY <1>1, <2>2, <3>1, Zenon DEF Lacks
  <2> QED BY <1>1, <2>1, <2>2, Zenon DEF Lacks
<1>5. all \o s \in Seq(Item)
  BY <1>1, ConcatProperties
<1>6. \E v \in Seq(Item) : all \o s = w.file \o v /\ Lacks(w, s, v)
  BY <1>1, <1>3, <1>4, Zenon
<1> QED BY <1>5, <1>6, Zenon DEF HoldsPut

LEMMA AddHolds ==
    ASSUME NEW w, NEW all, NEW s \in Seq(Item), NEW rest \in Seq(Item),
           HoldsPut(w, s \o rest, all), Len(w.buffer) + Len(s) <= w.bufferSize
    PROVE  HoldsPut([w EXCEPT !.buffer = @ \o s], rest, all)
<1>1. PICK f \in Seq(Item), b \in Seq(Item), lacking \in Seq(Item) :
         /\ f = w.file /\ b = w.buffer
         /\ all = w.file \o lacking /\ Lacks(w, s \o rest, lacking)
  <2>1. w.file \in Seq(Item) /\ w.buffer \in Seq(Item)
    BY DEF HoldsPut, WriterRecords
  <2> QED BY <2>1, Zenon DEF HoldsPut
<1> DEFINE v == [w EXCEPT !.buffer = @ \o s]
<1>2. b \o s \in Seq(Item) /\ Len(b \o s) = Len(b) + Len(s)
  BY ConcatProperties
<1>3. w \in WriterRecords
  BY DEF HoldsPut
<1>4. /\ v \in WriterRecords /\ v.file = f /\ v.buffer = b \o s /\ v.room = w.room
      /\ v.bufferSize = w.bufferSize
  BY <1>1, <1>2, <1>3 DEF WriterRecords
<1> HIDE DEF v
<1>5. Len(v.buffer) <= v.bufferSize /\ Len(v.file) <= v.room
  BY <1>1, <1>2, <1>4 DEF HoldsPut
<1>6. Lacks(v, rest, lacking)
  <2>1. b \o (s \o rest) = (b \o s) \o rest
    BY ConcatTwice
  <2> QED BY <1>1, <1>4, <2>1, Zenon DEF Lacks
<1>7. HoldsPut(v, rest, all)
  BY <1>1, <1>4, <1>5, <1>6, Zenon DEF HoldsPut
<1> QED BY <1>7 DEF v

LEMMA FillIs ==
    ASSUME NEW c \in Item, NEW n \in Nat
    PROVE  Fill(c, n) \in Seq(Item) /\ Len(Fill(c, n)) = n /\ \A i \in 1 .. n : Fill(c, n)[i] = c
  BY DEF Fill

LEMMA FillParts ==
    ASSUME NEW c \in Item, NEW n \in Nat, NEW m \in Nat
    PROVE  Fill(c, n + m) = Fill(c, n) \o Fill(c, m) /\ Fill(c, 0) = <<>>
<1> DEFINE u == Fill(c, n + m)
           a == Fill(c, n)
           b == Fill(c, m)
           v == a \o b
<1>1. u \in Seq(Item) /\ Len(u) = n + m /\ \A i \in 1 .. n + m : u[i] = c
  BY FillIs
<1>2. a \in Seq(Item) /\ Len(a) = n /\ \A i \in 1 .. n : a[i] = c
  BY FillIs
<1>3. b \in Seq(Item) /\ Len(b) = m /\ \A i \in 1 .. m : b[i] = c
  BY FillIs
<1>4. Fill(c, 0) \in Seq(Item) /\ Len(Fill(c, 0)) = 0
  BY FillIs
<1> HIDE DEF u, a, b
<1>5. v \in Seq(Item) /\ Len(v) = n + m
      /\ \A i \in 1 .. n + m : v[i] = IF i <= n THEN a[i] ELSE b[i - n]
  BY <1>2, <1>3, ConcatProperties
<1> HIDE DEF v
<1>6. \A i \in 1 .. Len(u) : u[i] = v[i]
  BY <1>1, <1>2, <1>3, <1>5
<1>7. u = v
  BY <1>1, <1>5, <1>6, SeqEqual
<1>8. Fill(c, 0) = <<>>
  BY <1>4, EmptySeq
<1> QED BY <1>7, <1>8 DEF u, v, a, b

WriterInv ==
    /\ filling \in [c : Item, n : Nat]
    /\ HoldsPut(writer, Fill(filling.c, filling.n), put)

LEMMA WriterStarts == WriterInit => WriterInv
<1> SUFFICES ASSUME WriterInit PROVE WriterInv
  OBVIOUS
<1>1. PICK size \in WriteSizes, room \in Rooms : writer = Created(size, room)
  BY DEF WriterInit
<1>2. size \in Nat \ {0} /\ room \in Nat
  BY StreamsAssumption
<1>3. filling = [c |-> 0, n |-> 0] /\ put = <<>>
  BY DEF WriterInit
<1>4. 0 \in Item
  BY DEF Item
<1>5. filling \in [c : Item, n : Nat] /\ filling.c = 0 /\ filling.n = 0
  BY <1>3, <1>4
<1>6. Fill(0, 0) = <<>>
  BY <1>4, FillParts
<1>7. /\ writer \in WriterRecords /\ writer.file = <<>> /\ writer.buffer = <<>>
      /\ writer.bufferSize = size /\ writer.room = room
  BY <1>1, <1>2, Empty DEF Created, WriterRecords
<1>8. <<>> \in Seq(Item) /\ <<>> = <<>> \o <<>>
  BY Empty, ConcatEmptySeq
<1>9. <<>> = writer.file \o <<>> /\ Lacks(writer, <<>>, <<>>)
  BY <1>7, <1>8, Zenon DEF Lacks
<1>10. 0 <= size /\ 0 <= room
  BY <1>2
<1>11. HoldsPut(writer, <<>>, <<>>)
  BY <1>7, <1>8, <1>9, <1>10, Empty, Zenon DEF HoldsPut
<1> QED BY <1>3, <1>5, <1>6, <1>11, Zenon DEF WriterInv

LEMMA NothingToFill ==
    ASSUME WriterInv, filling.n = 0
    PROVE  Fill(filling.c, filling.n) = <<>> /\ HoldsPut(writer, <<>>, put)
<1>1. filling.c \in Item
  BY DEF WriterInv
<1>2. Fill(filling.c, 0) = <<>>
  BY <1>1, FillParts
<1> QED BY <1>2 DEF WriterInv

LEMMA PutCharHolds ==
    ASSUME NEW w, NEW all, HoldsPut(w, <<>>, all), NEW c \in Item
    PROVE  HoldsPut(PutChar(w, c), <<>>, Append(all, c))
<1> DEFINE f == IF Len(w.buffer) >= w.bufferSize THEN Flush(w) ELSE w
<1>1. HoldsPut(f, <<>>, all)
  BY FlushHolds
<1>2. Len(f.buffer) + 1 <= f.bufferSize /\ f.buffer \in Seq(Item)
  <2>1. /\ Len(w.buffer) \in Nat /\ w.bufferSize \in Nat \ {0} /\ w.buffer \in Seq(Item)
        /\ Len(w.buffer) <= w.bufferSize
    BY DEF HoldsPut, WriterRecords
  <2>2. CASE Len(w.buffer) >= w.bufferSize
    <3>1. f.buffer = <<>> /\ f.bufferSize = w.bufferSize
      BY <2>2, FlushHolds
    <3>2. f.buffer \in Seq(Item) /\ Len(f.buffer) = 0
      BY <3>1, Empty, Zenon
    <3> HIDE DEF f
    <3> QED BY <2>1, <3>1, <3>2
  <2>3. CASE ~(Len(w.buffer) >= w.bufferSize)
    <3>1. f = w
      BY <2>3
    <3> QED BY <2>1, <2>3, <3>1
  <2> QED BY <2>2, <2>3
<1>3. PutChar(w, c) = [f EXCEPT !.buffer = Append(@, c)]
  BY DEF PutChar
<1> HIDE DEF f
<1>4. <<c>> \in Seq(Item) /\ Len(<<c>>) = 1
  OBVIOUS
<1>5. HoldsPut(f, <<c>>, all \o <<c>>)
  BY <1>1, <1>4, PutHolds
<1>6. <<c>> \o <<>> = <<c>>
  BY <1>4, ConcatEmptySeq
<1>7. HoldsPut([f EXCEPT !.buffer = @ \o <<c>>], <<>>, all \o <<c>>)
  BY <1>2, <1>4, <1>5, <1>6, Empty, AddHolds
<1>8. all \in Seq(Item)
  BY DEF HoldsPut
<1>9. Append(all, c) = all \o <<c>> /\ Append(f.buffer, c) = f.buffer \o <<c>>
  BY <1>2, <1>8, AppendIsConcat
<1> QED BY <1>3, <1>7, <1>9, Zenon

LEMMA PutOneWrites == WriterInv /\ PutOne => WriterInv'
<1> SUFFICES ASSUME WriterInv, PutOne PROVE WriterInv'
  OBVIOUS
<1>1. PICK c \in PutChars : writer' = PutChar(writer, c) /\ put' = Append(put, c)
  BY DEF PutOne
<1>2. filling' = filling /\ filling.n = 0
  BY DEF PutOne
<1>3. c \in Item
  BY StreamsAssumption DEF Item
<1>4. Fill(filling.c, filling.n) = <<>> /\ HoldsPut(writer, <<>>, put)
  BY <1>2, NothingToFill
<1>5. HoldsPut(PutChar(writer, c), <<>>, Append(put, c))
  BY <1>3, <1>4, PutCharHolds
<1>6. HoldsPut(writer', Fill(filling'.c, filling'.n), put')
  BY <1>1, <1>2, <1>4, <1>5, Zenon
<1>7. filling' \in [c : Item, n : Nat]
  BY <1>2 DEF WriterInv
<1> QED BY <1>6, <1>7 DEF WriterInv

LEMMA FlushFileWrites == WriterInv /\ FlushFile => WriterInv'
<1> SUFFICES ASSUME WriterInv, FlushFile PROVE WriterInv'
  OBVIOUS
<1>1. writer' = Flush(writer) /\ filling' = filling /\ put' = put
  BY DEF FlushFile
<1>2. HoldsPut(Flush(writer), Fill(filling.c, filling.n), put)
  BY FlushHolds DEF WriterInv
<1>3. HoldsPut(writer', Fill(filling'.c, filling'.n), put')
  BY <1>1, <1>2, Zenon
<1> QED BY <1>1, <1>3 DEF WriterInv

LEMMA PutNWrites == WriterInv /\ PutN => WriterInv'
<1> SUFFICES ASSUME WriterInv, PutN PROVE WriterInv'
  OBVIOUS
<1>1. PICK c \in PutChars, n \in Counts :
         filling' = [c |-> c, n |-> n] /\ put' = put \o Fill(c, n)
  BY DEF PutN
<1>2. writer' = writer /\ filling.n = 0
  BY DEF PutN
<1>3. c \in Item /\ n \in Nat
  BY StreamsAssumption DEF Item
<1>4. HoldsPut(writer, <<>>, put)
  BY <1>2, NothingToFill
<1>5. Fill(c, n) \in Seq(Item)
  BY <1>3, FillIs
<1>6. HoldsPut(writer, Fill(c, n), put \o Fill(c, n))
  BY <1>4, <1>5, PutHolds
<1>7. filling' \in [c : Item, n : Nat] /\ filling'.c = c /\ filling'.n = n
  BY <1>1, <1>3
<1>8. HoldsPut(writer', Fill(filling'.c, filling'.n), put')
  BY <1>1, <1>2, <1>6, <1>7, Zenon
<1> QED BY <1>7, <1>8 DEF WriterInv

\* A turn of the loop of PutN: n of the characters go into the buffer.
LEMMA TurnHolds ==
    ASSUME NEW w, NEW all, NEW c \in Item, NEW n \in Nat, NEW m \in Nat,
           HoldsPut(w, Fill(c, n + m), all), Len(w.buffer) + n <= w.bufferSize
    PROVE  HoldsPut(PutFill(w, c, n), Fill(c, m), all)
<1>1. Fill(c, n + m) = Fill(c, n) \o Fill(c, m)
  BY FillParts
<1>2. Fill(c, n) \in Seq(Item) /\ Fill(c, m) \in Seq(Item) /\ Len(Fill(c, n)) = n
  BY FillIs
<1>3. HoldsPut([w EXCEPT !.buffer = @ \o Fill(c, n)], Fill(c, m), all)
  BY <1>1, <1>2, AddHolds
<1> QED BY <1>3 DEF PutFill

LEMMA AvailIs ==
    ASSUME WriterInv
    PROVE  /\ Avail \in Nat /\ Len(writer.buffer) + Avail = writer.bufferSize
           /\ filling.c \in Item /\ filling.n \in Nat
<1>1. /\ Len(writer.buffer) \in Nat /\ writer.bufferSize \in Nat
      /\ Len(writer.buffer) <= writer.bufferSize
  BY DEF WriterInv, HoldsPut, WriterRecords
<1>2. filling.c \in Item /\ filling.n \in Nat
  BY DEF WriterInv
<1> QED BY <1>1, <1>2 DEF Avail

LEMMA FillBufferWrites == WriterInv /\ FillBuffer => WriterInv'
<1> SUFFICES ASSUME WriterInv, FillBuffer PROVE WriterInv'
  OBVIOUS
<1>1. /\ Avail \in Nat /\ Len(writer.buffer) + Avail = writer.bufferSize
      /\ filling.c \in Item /\ filling.n \in Nat
  BY AvailIs
<1>2. PICK n \in Nat, m \in Nat, c \in Item :
         n = Avail /\ m = filling.n - Avail /\ c = filling.c /\ filling.n = n + m
  <2>1. filling.n - Avail \in Nat /\ filling.n = Avail + (filling.n - Avail)
    BY <1>1 DEF FillBuffer
  <2> QED BY <1>1, <2>1
<1>3. /\ writer' = Flush(PutFill(writer, c, n)) /\ put' = put
      /\ filling' = [filling EXCEPT !.n = m]
  BY <1>2 DEF FillBuffer
<1>4. HoldsPut(writer, Fill(c, n + m), put)
  BY <1>2 DEF WriterInv
<1>5. Len(writer.buffer) + n <= writer.bufferSize
  <2>1. writer.bufferSize \in Nat
    BY DEF WriterInv, HoldsPut, WriterRecords
  <2> QED BY <1>1, <1>2, <2>1
<1>6. HoldsPut(PutFill(writer, c, n), Fill(c, m), put)
  BY <1>4, <1>5, TurnHolds
<1>7. HoldsPut(Flush(PutFill(writer, c, n)), Fill(c, m), put)
  BY <1>6, FlushHolds
<1>8. filling' \in [c : Item, n : Nat] /\ filling'.c = c /\ filling'.n = m
  BY <1>2, <1>3 DEF WriterInv
<1>9. HoldsPut(writer', Fill(filling'.c, filling'.n), put')
  BY <1>3, <1>7, <1>8, Zenon
<1> QED BY <1>8, <1>9 DEF WriterInv

LEMMA FillRestWrites == WriterInv /\ FillRest => WriterInv'
<1> SUFFICES ASSUME WriterInv, FillRest PROVE WriterInv'
  OBVIOUS
<1>1. /\ Avail \in Nat /\ Len(writer.buffer) + Avail = writer.bufferSize
      /\ filling.c \in Item /\ filling.n \in Nat
  BY AvailIs
<1>2. PICK n \in Nat, c \in Item : n = filling.n /\ c = filling.c
  BY <1>1
<1>3. /\ writer' = PutFill(writer, c, n) /\ put' = put /\ n <= Avail
      /\ filling' = [filling EXCEPT !.n = 0]
  BY <1>2 DEF FillRest
<1>4. n + 0 = n
  OBVIOUS
<1>5. HoldsPut(writer, Fill(c, n + 0), put)
  BY <1>2, <1>4 DEF WriterInv
<1>6. Len(writer.buffer) + n <= writer.bufferSize
  <2>1. writer.bufferSize \in Nat /\ Len(writer.buffer) \in Nat
    BY DEF WriterInv, HoldsPut, WriterRecords
  <2> QED BY <1>1, <1>3, <2>1
<1>7. HoldsPut(PutFill(writer, c, n), Fill(c, 0), put)
  BY <1>5, <1>6, TurnHolds
<1>8. filling' \in [c : Item, n : Nat] /\ filling'.c = c /\ filling'.n = 0
  BY <1>2, <1>3 DEF WriterInv
<1>9. HoldsPut(writer', Fill(filling'.c, filling'.n), put')
  BY <1>3, <1>7, <1>8, Zenon
<1> QED BY <1>8, <1>9 DEF WriterInv

LEMMA WriterWrites == WriterInv => WritesTheFile
<1> SUFFICES ASSUME WriterInv PROVE WritesTheFile
  OBVIOUS
<1> DEFINE rest == Fill(filling.c, filling.n)
           flushed == Flush(writer).file
<1>1. HoldsPut(writer, rest, put)
  BY DEF WriterInv
<1>2. HoldsPut(Flush(writer), rest, put) /\ Flush(writer).buffer = <<>>
      /\ Flush(writer).room = writer.room
  BY <1>1, FlushHolds
<1> HIDE DEF rest
<1>3. ASSUME NEW w, HoldsPut(w, rest, put) PROVE IsPrefix(w.file, put)
  <2>1. w.file \in Seq(Item)
    BY <1>3 DEF HoldsPut, WriterRecords
  <2>2. PICK lacking \in Seq(Item) : put = w.file \o lacking
    BY <1>3 DEF HoldsPut
  <2> QED BY <2>1, <2>2, PrefixOfConcat
<1>4. IsPrefix(writer.file, put) /\ IsPrefix(flushed, put)
  BY <1>1, <1>2, <1>3
<1>5. Len(writer.buffer) <= writer.bufferSize
  BY <1>1 DEF HoldsPut
<1>6. /\ writer.file \in Seq(Item) /\ writer.buffer \in Seq(Item) /\ rest \in Seq(Item)
      /\ writer.room \in Nat /\ flushed \in Seq(Item)
  BY <1>1, <1>2 DEF HoldsPut, WriterRecords
<1>7. ASSUME Len(writer.file) < writer.room
      PROVE  writer.file \o writer.buffer \o rest = put
  <2>1. PICK lacking \in Seq(Item) : put = writer.file \o lacking /\ Lacks(writer, rest, lacking)
    BY <1>1 DEF HoldsPut
  <2>2. Len(writer.file) # writer.room
    BY <1>6, <1>7
  <2>3. lacking = writer.buffer \o rest
    BY <2>1, <2>2 DEF Lacks
  <2>4. (writer.file \o writer.buffer) \o rest = writer.file \o (writer.buffer \o rest)
    BY <1>6, ConcatTwice
  <2> QED BY <2>1, <2>3, <2>4
<1>8. ASSUME filling.n = 0, Len(put) <= writer.room
      PROVE  flushed = put
  <2>1. PICK lacking \in Seq(Item) : put = flushed \o lacking /\ Lacks(Flush(writer), rest, lacking)
    BY <1>2 DEF HoldsPut
  <2>2. rest = <<>>
    BY <1>8, NothingToFill DEF rest
  <2>3. lacking = <<>>
    <3>1. CASE lacking = Flush(writer).buffer \o rest
      BY <1>2, <2>2, <3>1, Empty, ConcatEmptySeq
    <3>2. CASE Len(flushed) = writer.room
      <4>1. /\ Len(put) = Len(flushed) + Len(lacking) /\ Len(lacking) \in Nat
            /\ Len(flushed) \in Nat
        BY <1>6, <2>1, ConcatProperties
      <4>2. Len(lacking) = 0
        BY <1>6, <1>8, <3>2, <4>1
      <4> QED BY <4>2, EmptySeq
    <3> QED BY <1>2, <2>1, <3>1, <3>2 DEF Lacks
  <2> QED BY <1>6, <2>1, <2>3, ConcatEmptySeq
<1> QED BY <1>4, <1>5, <1>7, <1>8, Zenon DEF WritesTheFile, rest

-----------------------------------------------------------------------------
(* The pool and its stacks.                                                *)

LEMMA AlignsUp ==
    ASSUME NEW n \in Nat
    PROVE  AlignUp(n) \in Nat /\ n <= AlignUp(n)
<1>1. PICK a \in Nat \ {0} : a = Align
  BY StreamsAssumption
<1>2. PICK k \in Nat : k = n + a - 1
  BY <1>1
<1>3. k % a \in 0 .. a - 1
  BY <1>1, <1>2
<1>4. n + a - 1 - (k % a) \in Nat /\ n <= n + a - 1 - (k % a)
  BY <1>1, <1>2, <1>3
<1> QED BY <1>1, <1>2, <1>4 DEF AlignUp

ChunkRecords == [size : Nat, cells : Seq(Item)]
PoolRecords == [chunkCapacity : Nat, chunks : Seq(ChunkRecords)]
StackRecords == [at : {NULL} \cup (Nat \X Nat), size : Nat, capacity : Nat, initial : Nat]

PoolOK(p) ==
    /\ p \in PoolRecords
    /\ \A h \in 1 .. Len(p.chunks) : p.chunks[h].size <= Len(p.chunks[h].cells)

\* A stack without a block, or with one that its chunk has given out.
StackOK(p, s) ==
    /\ s \in StackRecords
    /\ s.size <= s.capacity
    /\ s.at = NULL => s.capacity = 0
    /\ s.at # NULL =>
           /\ s.capacity > 0 /\ s.at[1] \in 1 .. Len(p.chunks)
           /\ s.at[2] + AlignUp(s.capacity) <= p.chunks[s.at[1]].size

\* Two stacks have no byte in common.
Apart(s, t) ==
    \/ s.at = NULL \/ t.at = NULL \/ s.at[1] # t.at[1]
    \/ s.at[2] + AlignUp(s.capacity) <= t.at[2]
    \/ t.at[2] + AlignUp(t.capacity) <= s.at[2]

LEMMA BlockIs ==
    ASSUME NEW p, NEW s, StackOK(p, s), s.at # NULL
    PROVE  \E h \in Nat, o \in Nat, n \in Nat, size \in Nat, capacity \in Nat :
               /\ s.at = <<h, o>> /\ h = s.at[1] /\ o = s.at[2]
               /\ n = AlignUp(s.capacity) /\ size = s.size /\ capacity = s.capacity
               /\ size <= capacity /\ capacity <= n /\ 0 < n /\ h \in 1 .. Len(p.chunks)
               /\ o + n <= p.chunks[h].size
<1>1. /\ s.at \in Nat \X Nat /\ s.size \in Nat /\ s.capacity \in Nat /\ s.size <= s.capacity
      /\ s.capacity > 0 /\ s.at[1] \in 1 .. Len(p.chunks)
      /\ s.at[2] + AlignUp(s.capacity) <= p.chunks[s.at[1]].size
  BY DEF StackOK, StackRecords
<1>2. s.at = <<s.at[1], s.at[2]>> /\ s.at[1] \in Nat /\ s.at[2] \in Nat
  BY <1>1
<1>3. PICK capacity \in Nat, n \in Nat : capacity = s.capacity /\ n = AlignUp(s.capacity)
  BY <1>1, AlignsUp
<1>4. capacity <= n /\ 0 < n
  <2>1. capacity <= n
    BY <1>3, AlignsUp
  <2> QED BY <1>1, <1>3, <2>1
<1> QED BY <1>1, <1>2, <1>3, <1>4, Zenon

LEMMA ChunkIs ==
    ASSUME NEW p, PoolOK(p), NEW h \in 1 .. Len(p.chunks)
    PROVE  /\ p.chunks[h] \in ChunkRecords /\ p.chunks[h].size \in Nat
           /\ p.chunks[h].cells \in Seq(Item) /\ Len(p.chunks[h].cells) \in Nat
           /\ p.chunks[h].size <= Len(p.chunks[h].cells)
<1>1. p.chunks \in Seq(ChunkRecords)
  BY DEF PoolOK, PoolRecords
<1>2. p.chunks[h] \in ChunkRecords
  BY <1>1, ElementOfSeq
<1>3. p.chunks[h].size <= Len(p.chunks[h].cells)
  BY DEF PoolOK
<1> QED BY <1>2, <1>3 DEF ChunkRecords

\* One chunk is changed.
IsChunkSet(p, h, c, q) == q = [p EXCEPT !.chunks = [p.chunks EXCEPT ![h] = c]]
IsSizeSet(p, h, size, q) == q = [p EXCEPT !.chunks[h].size = size]

LEMMA ChunkSet ==
    ASSUME NEW p, PoolOK(p), NEW h \in 1 .. Len(p.chunks), NEW c \in ChunkRecords,
           c.size <= Len(c.cells), NEW q, IsChunkSet(p, h, c, q)
    PROVE  /\ PoolOK(q) /\ Len(q.chunks) = Len(p.chunks) /\ q.chunks[h] = c
           /\ \A g \in 1 .. Len(p.chunks) : g # h => q.chunks[g] = p.chunks[g]
<1>1. PICK chunks \in Seq(ChunkRecords) : chunks = p.chunks
  BY DEF PoolOK, PoolRecords
<1>2. PICK new \in Seq(ChunkRecords) :
         /\ new = [chunks EXCEPT ![h] = c] /\ Len(new) = Len(chunks)
         /\ \A g \in 1 .. Len(chunks) : new[g] = IF g = h THEN c ELSE chunks[g]
  <2> DEFINE e == [chunks EXCEPT ![h] = c]
  <2>1. h \in 1 .. Len(chunks)
    BY <1>1
  <2>2. /\ e \in Seq(ChunkRecords) /\ Len(e) = Len(chunks)
        /\ \A g \in 1 .. Len(chunks) : e[g] = IF g = h THEN c ELSE chunks[g]
    BY <2>1, ExceptSeq
  <2> HIDE DEF e
  <2>3. \E new \in Seq(ChunkRecords) :
           /\ new = e /\ Len(new) = Len(chunks)
           /\ \A g \in 1 .. Len(chunks) : new[g] = IF g = h THEN c ELSE chunks[g]
    BY <2>2, Zenon
  <2> QED BY <2>3 DEF e
<1>3. q \in PoolRecords /\ q.chunks = new
  BY <1>1, <1>2 DEF PoolOK, PoolRecords, IsChunkSet
<1>4. \A g \in 1 .. Len(chunks) : chunks[g].size <= Len(chunks[g].cells)
  BY <1>1 DEF PoolOK
<1>5. \A g \in 1 .. Len(new) : new[g].size <= Len(new[g].cells)
  BY <1>1, <1>2, <1>4, Zenon
<1> QED BY <1>1, <1>2, <1>3, <1>5, Zenon DEF PoolOK

-----------------------------------------------------------------------------
(* Memory is given out, and written.                                       *)

\* Chunks were added, and others gave out more; no byte was written.
Extends(p, q) ==
    /\ PoolOK(p) /\ PoolOK(q) /\ Len(p.chunks) <= Len(q.chunks)
    /\ \A h \in 1 .. Len(p.chunks) :
           p.chunks[h].size <= q.chunks[h].size /\ q.chunks[h].cells = p.chunks[h].cells

\* No byte but the n behind o in the chunk h was written.
OnlyWrites(p, q, h, o, n) ==
    /\ PoolOK(p) /\ PoolOK(q) /\ Len(p.chunks) = Len(q.chunks)
    /\ \A g \in 1 .. Len(p.chunks) :
           /\ q.chunks[g].size = p.chunks[g].size
           /\ Len(q.chunks[g].cells) = Len(p.chunks[g].cells)
           /\ \A k \in 1 .. Len(p.chunks[g].cells) :
                  (g # h \/ k <= o \/ o + n < k) => q.chunks[g].cells[k] = p.chunks[g].cells[k]

\* A stack keeps its block and its bytes.
StackKept(p, q, t) == StackOK(q, t) /\ Bytes(q, t) = Bytes(p, t)

LEMMA SameBytes ==
    ASSUME NEW p, NEW q, NEW s, NEW t, s.size = t.size,
           \A k \in 1 .. s.size :
               q.chunks[t.at[1]].cells[t.at[2] + k] = p.chunks[s.at[1]].cells[s.at[2] + k]
    PROVE  Bytes(q, t) = Bytes(p, s)
<1>1. Bytes(q, t) = [k \in 1 .. s.size |-> q.chunks[t.at[1]].cells[t.at[2] + k]]
  BY DEF Bytes
<1>2. Bytes(p, s) = [k \in 1 .. s.size |-> p.chunks[s.at[1]].cells[s.at[2] + k]]
  BY DEF Bytes
<1> QED BY <1>1, <1>2, Zenon

LEMMA KeptBytes ==
    ASSUME NEW p, NEW q, NEW t,
           \A k \in 1 .. t.size :
               q.chunks[t.at[1]].cells[t.at[2] + k] = p.chunks[t.at[1]].cells[t.at[2] + k]
    PROVE  Bytes(q, t) = Bytes(p, t)
<1>1. Bytes(q, t) = [k \in 1 .. t.size |-> q.chunks[t.at[1]].cells[t.at[2] + k]]
  BY DEF Bytes
<1>2. Bytes(p, t) = [k \in 1 .. t.size |-> p.chunks[t.at[1]].cells[t.at[2] + k]]
  BY DEF Bytes
<1> QED BY <1>1, <1>2, Zenon

\* A stack without a block has no bytes.
LEMMA NoBytes ==
    ASSUME NEW p, NEW s, StackOK(p, s), s.at = NULL
    PROVE  s.size = 0 /\ Bytes(p, s) = <<>> /\ \A q : StackOK(q, s) /\ Bytes(q, s) = <<>>
<1>1. s.size \in Nat /\ s.capacity = 0 /\ s.size <= s.capacity
  BY DEF StackOK, StackRecords
<1>2. s.size = 0
  BY <1>1
<1>3. \A q : Bytes(q, s) = <<>>
  BY <1>2 DEF Bytes
<1>4. \A q : StackOK(q, s)
  BY DEF StackOK
<1> QED BY <1>2, <1>3, <1>4

LEMMA ExtendsKeeps ==
    ASSUME NEW p, NEW q, Extends(p, q), NEW t, StackOK(p, t)
    PROVE  StackKept(p, q, t)
<1>1. CASE t.at = NULL
  BY <1>1, NoBytes, Zenon DEF StackKept
<1>2. CASE t.at # NULL
  <2>1. PICK h \in Nat, o \in Nat, n \in Nat, size \in Nat, capacity \in Nat :
               /\ t.at = <<h, o>> /\ h = t.at[1] /\ o = t.at[2]
               /\ n = AlignUp(t.capacity) /\ size = t.size /\ capacity = t.capacity
               /\ size <= capacity /\ capacity <= n /\ 0 < n /\ h \in 1 .. Len(p.chunks)
               /\ o + n <= p.chunks[h].size
    BY <1>2, BlockIs
  <2>2. h \in 1 .. Len(q.chunks) /\ p.chunks[h].size <= q.chunks[h].size
        /\ q.chunks[h].cells = p.chunks[h].cells
    <3>1. p.chunks \in Seq(ChunkRecords) /\ q.chunks \in Seq(ChunkRecords)
      BY DEF Extends, PoolOK, PoolRecords
    <3>2. Len(p.chunks) \in Nat /\ Len(q.chunks) \in Nat /\ Len(p.chunks) <= Len(q.chunks)
      BY <3>1, LenProperties DEF Extends
    <3>3. h \in 1 .. Len(q.chunks)
      BY <2>1, <3>2
    <3> QED BY <2>1, <3>3, Zenon DEF Extends
  <2>3. o + n <= q.chunks[h].size
    <3>1. p.chunks[h].size \in Nat /\ q.chunks[h].size \in Nat
      BY <2>1, <2>2, ChunkIs DEF Extends
    <3>2. PICK a \in Nat, b \in Nat : a = p.chunks[h].size /\ b = q.chunks[h].size
      BY <3>1
    <3>3. o + n <= a /\ a <= b
      BY <2>1, <2>2, <3>2, Zenon
    <3>4. o + n <= b
      BY <3>3
    <3> QED BY <3>2, <3>4, Zenon
  <2>4. StackOK(q, t)
    BY <2>1, <2>2, <2>3, Zenon DEF StackOK
  <2>5. \A k \in 1 .. t.size :
           q.chunks[t.at[1]].cells[t.at[2] + k] = p.chunks[t.at[1]].cells[t.at[2] + k]
    BY <2>1, <2>2, Zenon
  <2> QED BY <2>4, <2>5, KeptBytes, Zenon DEF StackKept
<1> QED BY <1>1, <1>2

\* What is written is not in the stack's block.
Outside(t, h, o, n) ==
    \/ t.at = NULL \/ t.at[1] # h
    \/ t.at[2] + AlignUp(t.capacity) <= o \/ o + n <= t.at[2]

LEMMA WriteKeeps ==
    ASSUME NEW p, NEW q, NEW g \in Nat, NEW b \in Nat, NEW m \in Nat, OnlyWrites(p, q, g, b, m),
           NEW t, StackOK(p, t), Outside(t, g, b, m)
    PROVE  StackKept(p, q, t)
<1>1. CASE t.at = NULL
  BY <1>1, NoBytes, Zenon DEF StackKept
<1>2. CASE t.at # NULL
  <2>1. PICK h \in Nat, o \in Nat, n \in Nat, size \in Nat, capacity \in Nat :
               /\ t.at = <<h, o>> /\ h = t.at[1] /\ o = t.at[2]
               /\ n = AlignUp(t.capacity) /\ size = t.size /\ capacity = t.capacity
               /\ size <= capacity /\ capacity <= n /\ 0 < n /\ h \in 1 .. Len(p.chunks)
               /\ o + n <= p.chunks[h].size
    BY <1>2, BlockIs
  <2>2. h \in 1 .. Len(q.chunks) /\ q.chunks[h].size = p.chunks[h].size
    BY <2>1, Zenon DEF OnlyWrites
  <2>3. StackOK(q, t)
    BY <2>1, <2>2, Zenon DEF StackOK
  <2>l. PICK last \in Nat : last = Len(p.chunks[h].cells) /\ o + n <= last
    <3>1. p.chunks[h].size \in Nat /\ Len(p.chunks[h].cells) \in Nat
          /\ p.chunks[h].size <= Len(p.chunks[h].cells)
      BY <2>1, ChunkIs DEF OnlyWrites
    <3>2. PICK a \in Nat, c \in Nat : a = p.chunks[h].size /\ c = Len(p.chunks[h].cells)
      BY <3>1
    <3>3. o + n <= a /\ a <= c
      BY <2>1, <3>1, <3>2, Zenon
    <3>4. o + n <= c
      BY <3>3
    <3>5. c = Len(p.chunks[h].cells) /\ o + n <= c
      BY <3>2, <3>4
    <3> QED BY <3>5
  <2>4. PICK cells, new : cells = p.chunks[h].cells /\ new = q.chunks[h].cells
    OBVIOUS
  <2>5. \A k \in 1 .. last : (h # g \/ k <= b \/ b + m < k) => new[k] = cells[k]
    BY <2>1, <2>4, <2>l, Zenon DEF OnlyWrites
  <2>6. \A k \in 1 .. size : new[o + k] = cells[o + k]
    <3>1. TAKE k \in 1 .. size
    <3>a. size <= capacity /\ capacity <= n /\ o + n <= last
      BY <2>1, <2>l, Zenon
    <3>2. o + k \in 1 .. last
      BY <3>a
    <3>3. h # g \/ o + n <= b \/ b + m <= o
      BY <1>2, <2>1 DEF Outside
    <3>4. h # g \/ o + k <= b \/ b + m < o + k
      BY <2>1, <3>3
    <3> QED BY <2>5, <3>2, <3>4
  <2>7. \A k \in 1 .. t.size :
           q.chunks[t.at[1]].cells[t.at[2] + k] = p.chunks[t.at[1]].cells[t.at[2] + k]
    BY <2>1, <2>4, <2>6, Zenon
  <2> QED BY <2>3, <2>7, KeptBytes, Zenon DEF StackKept
<1> QED BY <1>1, <1>2

LEMMA PoolLength ==
    ASSUME NEW p, PoolOK(p)
    PROVE  p.chunks \in Seq(ChunkRecords) /\ Len(p.chunks) \in Nat
<1>1. p.chunks \in Seq(ChunkRecords)
  BY DEF PoolOK, PoolRecords
<1> QED BY <1>1, LenProperties

LEMMA ChunkAdded ==
    ASSUME NEW p, PoolOK(p), NEW capacity \in Nat, NEW q, q = AddChunk(p, capacity)
    PROVE  /\ Extends(p, q) /\ Len(q.chunks) = Len(p.chunks) + 1
           /\ q.chunks[Len(p.chunks) + 1].size = 0
           /\ Len(q.chunks[Len(p.chunks) + 1].cells) = capacity
<1>1. PICK chunks \in Seq(ChunkRecords), len \in Nat : chunks = p.chunks /\ len = Len(chunks)
  BY PoolLength
<1>2. PICK c \in ChunkRecords :
         c = [size |-> 0, cells |-> Fill(0, capacity)] /\ c.size = 0 /\ Len(c.cells) = capacity
  <2>1. 0 \in Item
    BY DEF Item
  <2>2. Fill(0, capacity) \in Seq(Item) /\ Len(Fill(0, capacity)) = capacity
    BY <2>1, FillIs
  <2> DEFINE d == [size |-> 0, cells |-> Fill(0, capacity)]
  <2>3. d \in ChunkRecords /\ d.size = 0 /\ d.cells = Fill(0, capacity)
    BY <2>2 DEF ChunkRecords
  <2> HIDE DEF d
  <2>4. \E e \in ChunkRecords : e = d /\ e.size = 0 /\ Len(e.cells) = capacity
    BY <2>2, <2>3
  <2> QED BY <2>4 DEF d
<1> DEFINE new == Append(chunks, c)
<1>3. /\ new \in Seq(ChunkRecords) /\ Len(new) = len + 1 /\ new[len + 1] = c
      /\ \A g \in 1 .. len : new[g] = chunks[g]
  BY <1>1, AppendProperties
<1>4. q = [p EXCEPT !.chunks = new]
  BY <1>1, <1>2 DEF AddChunk
<1> HIDE DEF new
<1>5. q \in PoolRecords /\ q.chunks = new
  BY <1>3, <1>4 DEF PoolOK, PoolRecords
<1>6. \A g \in 1 .. len : chunks[g].size <= Len(chunks[g].cells) /\ chunks[g].size \in Nat
  BY <1>1, ChunkIs DEF PoolOK
<1>7. \A g \in 1 .. len + 1 : g \in 1 .. len \/ g = len + 1
  OBVIOUS
<1>8. \A g \in 1 .. len + 1 : new[g].size <= Len(new[g].cells)
  <2>1. c.size <= Len(c.cells)
    BY <1>2
  <2> QED BY <1>3, <1>6, <1>7, <2>1, Zenon
<1>9. PoolOK(q)
  BY <1>3, <1>5, <1>8, Zenon DEF PoolOK
<1>10. \A g \in 1 .. len : chunks[g].size <= new[g].size /\ new[g].cells = chunks[g].cells
  <2>1. TAKE g \in 1 .. len
  <2>2. new[g] = chunks[g] /\ chunks[g].size \in Nat
    BY <1>3, <1>6
  <2> QED BY <2>2
<1>11. len <= len + 1
  OBVIOUS
<1>12. Extends(p, q)
  BY <1>1, <1>3, <1>5, <1>9, <1>10, <1>11, Zenon DEF Extends
<1> QED BY <1>1, <1>2, <1>3, <1>5, <1>12, Zenon

\* A chunk gives out more of its cells.
LEMMA ChunkGives ==
    ASSUME NEW p, PoolOK(p), NEW h \in 1 .. Len(p.chunks), NEW size \in Nat,
           p.chunks[h].size <= size, size <= Len(p.chunks[h].cells),
           NEW q, IsSizeSet(p, h, size, q)
    PROVE  Extends(p, q) /\ Len(q.chunks) = Len(p.chunks) /\ q.chunks[h].size = size
<1>1. /\ p.chunks[h] \in ChunkRecords /\ p.chunks[h].size \in Nat
      /\ p.chunks[h].cells \in Seq(Item)
  BY ChunkIs
<1> DEFINE c == [p.chunks[h] EXCEPT !.size = size]
<1>2. c \in ChunkRecords /\ c.size = size /\ c.cells = p.chunks[h].cells
  BY <1>1 DEF ChunkRecords
<1>3. IsChunkSet(p, h, c, q)
  BY DEF PoolOK, PoolRecords, IsSizeSet, IsChunkSet
<1> HIDE DEF c
<1>4. c.size <= Len(c.cells)
  BY <1>2
<1>5. /\ PoolOK(q) /\ Len(q.chunks) = Len(p.chunks) /\ q.chunks[h] = c
      /\ \A g \in 1 .. Len(p.chunks) : g # h => q.chunks[g] = p.chunks[g]
  BY <1>2, <1>3, <1>4, ChunkSet
<1>6. \A g \in 1 .. Len(p.chunks) :
         p.chunks[g].size <= q.chunks[g].size /\ q.chunks[g].cells = p.chunks[g].cells
  <2>1. TAKE g \in 1 .. Len(p.chunks)
  <2>2. CASE g = h
    BY <1>2, <1>5, <2>2, Zenon
  <2>3. CASE g # h
    <3>1. q.chunks[g] = p.chunks[g] /\ p.chunks[g].size \in Nat
      BY <1>5, <2>3, ChunkIs
    <3> QED BY <3>1
  <2> QED BY <2>2, <2>3
<1>7. Len(p.chunks) <= Len(q.chunks)
  BY <1>5, PoolLength
<1> QED BY <1>2, <1>5, <1>6, <1>7, Zenon DEF Extends

LEMMA ExtendsTwice ==
    ASSUME NEW p, NEW q, NEW r, Extends(p, q), Extends(q, r)
    PROVE  Extends(p, r)
<1>1. Len(p.chunks) \in Nat /\ Len(q.chunks) \in Nat /\ Len(r.chunks) \in Nat
  BY PoolLength DEF Extends
<1>2. Len(p.chunks) <= Len(q.chunks) /\ Len(q.chunks) <= Len(r.chunks)
  BY DEF Extends
<1>3. \A h \in 1 .. Len(p.chunks) :
         p.chunks[h].size <= r.chunks[h].size /\ r.chunks[h].cells = p.chunks[h].cells
  <2>1. TAKE h \in 1 .. Len(p.chunks)
  <2>2. h \in 1 .. Len(q.chunks) /\ h \in 1 .. Len(r.chunks)
    BY <1>1, <1>2
  <2>3. PICK a \in Nat, b \in Nat, c \in Nat :
           a = p.chunks[h].size /\ b = q.chunks[h].size /\ c = r.chunks[h].size
    BY <2>2, ChunkIs DEF Extends
  <2>4. a <= b /\ b <= c
    BY <2>2, <2>3, Zenon DEF Extends
  <2>5. a <= c
    BY <2>4
  <2>6. r.chunks[h].cells = p.chunks[h].cells
    BY <2>2, Zenon DEF Extends
  <2> QED BY <2>3, <2>5, <2>6, Zenon
<1>4. Len(p.chunks) <= Len(r.chunks)
  BY <1>1, <1>2
<1> QED BY <1>3, <1>4, Zenon DEF Extends

\* A block of n bytes that nobody had before.
NewBlock(p, q, h, o, n) ==
    /\ Extends(p, q)
    /\ h \in 1 .. Len(q.chunks) /\ o \in Nat /\ o + n <= q.chunks[h].size
    /\ h \in 1 .. Len(p.chunks) => p.chunks[h].size <= o

MallocIs(p, bytes, q, h, o) ==
    Malloc(p, bytes) = [pool |-> q, at |-> <<h, o>>] /\ NewBlock(p, q, h, o, AlignUp(bytes))

LEMMA MallocGives ==
    ASSUME NEW p, PoolOK(p), NEW bytes \in Nat, bytes > 0
    PROVE  \E q : \E h \in Nat, o \in Nat : MallocIs(p, bytes, q, h, o)
<1>1. PICK n \in Nat : n = AlignUp(bytes)
  BY AlignsUp
<1>2. PICK len \in Nat : len = Len(p.chunks) /\ p.chunks \in Seq(ChunkRecords)
  BY PoolLength
<1>3. PICK capacity \in Nat : capacity = Max({p.chunkCapacity, n}) /\ n <= capacity
  <2>1. p.chunkCapacity \in Nat
    BY DEF PoolOK, PoolRecords
  <2>2. PICK c \in Nat : c = p.chunkCapacity
    BY <2>1
  <2>3. Max({c, n}) = IF c >= n THEN c ELSE n
    BY MaxOfTwo
  <2> QED BY <2>2, <2>3
<1> DEFINE r == IF Full(p, n) THEN AddChunk(p, Max({p.chunkCapacity, n})) ELSE p
<1>4. \E head \in Nat, size \in Nat, room \in Nat :
         /\ Extends(p, r) /\ head = Len(r.chunks) /\ head \in 1 .. Len(r.chunks)
         /\ size = r.chunks[head].size /\ room = Len(r.chunks[head].cells) /\ size + n <= room
         /\ head \in 1 .. len => p.chunks[head].size = size
  <2>1. CASE Full(p, n)
    <3>1. r = AddChunk(p, capacity)
      BY <1>3, <2>1
    <3> HIDE DEF r
    <3>2. /\ Extends(p, r) /\ Len(r.chunks) = len + 1 /\ r.chunks[len + 1].size = 0
          /\ Len(r.chunks[len + 1].cells) = capacity
      BY <1>2, <3>1, ChunkAdded
    <3>3. len + 1 \in Nat /\ len + 1 \in 1 .. len + 1 /\ 0 + n <= capacity /\ len + 1 \notin 1 .. len
      BY <1>3
    <3> QED BY <3>2, <3>3, Zenon
  <2>2. CASE ~Full(p, n)
    <3>1. r = p
      BY <2>2
    <3> HIDE DEF r
    <3>2. p.chunks # <<>> /\ ~(Last(p.chunks).size + n > Len(Last(p.chunks).cells))
      BY <2>2 DEF Full
    <3>3. len \in 1 .. len /\ Last(p.chunks) = p.chunks[len]
      BY <1>2, <3>2, EmptySeq DEF Last
    <3>4. PICK size \in Nat, room \in Nat :
             size = p.chunks[len].size /\ room = Len(p.chunks[len].cells)
      BY <1>2, <3>3, ChunkIs
    <3>5. size + n <= room
      BY <3>2, <3>3, <3>4
    <3>6. Extends(p, p)
      <4>1. \A h \in 1 .. Len(p.chunks) : p.chunks[h].size <= p.chunks[h].size
        <5>1. TAKE h \in 1 .. Len(p.chunks)
        <5>2. p.chunks[h].size \in Nat
          BY ChunkIs
        <5> QED BY <5>2
      <4>2. Len(p.chunks) <= Len(p.chunks)
        BY <1>2
      <4> QED BY <4>1, <4>2, Zenon DEF Extends
    <3> QED BY <1>2, <3>1, <3>3, <3>4, <3>5, <3>6, Zenon
  <2> QED BY <2>1, <2>2
<1>5. Malloc(p, bytes) = [pool |-> [r EXCEPT !.chunks[Len(r.chunks)].size = @ + n],
                          at |-> <<Len(r.chunks), r.chunks[Len(r.chunks)].size>>]
  BY <1>1 DEF Malloc
<1> HIDE DEF r
<1>6. PICK head \in Nat, size \in Nat, room \in Nat :
         /\ Extends(p, r) /\ head = Len(r.chunks) /\ head \in 1 .. Len(r.chunks)
         /\ size = r.chunks[head].size /\ room = Len(r.chunks[head].cells) /\ size + n <= room
         /\ head \in 1 .. len => p.chunks[head].size = size
  BY <1>4
<1>7. PICK q : q = [r EXCEPT !.chunks[head].size = size + n]
  OBVIOUS
<1>8. Malloc(p, bytes) = [pool |-> q, at |-> <<head, size>>]
  <2>1. [r EXCEPT !.chunks[head].size = @ + n] = [r EXCEPT !.chunks[head].size = size + n]
    <3>1. PoolOK(r) /\ r.chunks[head] \in ChunkRecords
      BY <1>6, ChunkIs DEF Extends
    <3>2. r \in PoolRecords
      BY <3>1 DEF PoolOK
    <3> QED BY <1>6, <3>1, <3>2 DEF PoolRecords, ChunkRecords
  <2> QED BY <1>5, <1>6, <1>7, <2>1, Zenon
<1>9. PICK m \in Nat : m = size + n /\ size <= m /\ PoolOK(r)
  BY <1>6 DEF Extends
<1>10. Extends(r, q) /\ Len(q.chunks) = Len(r.chunks) /\ q.chunks[head].size = size + n
  <2>1. r.chunks[head].size <= m /\ m <= Len(r.chunks[head].cells)
    BY <1>6, <1>9, Zenon
  <2>2. IsSizeSet(r, head, m, q)
    BY <1>7, <1>9, Zenon DEF IsSizeSet
  <2>3. Extends(r, q) /\ Len(q.chunks) = Len(r.chunks) /\ q.chunks[head].size = m
    <3>1. PoolOK(r) /\ head \in 1 .. Len(r.chunks)
      BY <1>6, <1>9
    <3> QED BY <3>1, <2>1, <2>2, ChunkGives
  <2> QED BY <1>9, <2>3, Zenon
<1>11. Extends(p, q)
  BY <1>6, <1>10, ExtendsTwice
<1>12. head \in 1 .. Len(q.chunks)
  BY <1>6, <1>10
<1>13. size + n <= q.chunks[head].size /\ size <= size
  BY <1>10
<1>14. NewBlock(p, q, head, size, n)
  BY <1>2, <1>6, <1>11, <1>12, <1>13, Zenon DEF NewBlock
<1>15. MallocIs(p, bytes, q, head, size)
  BY <1>1, <1>8, <1>14, Zenon DEF MallocIs
<1> QED BY <1>15, Zenon

IsCellsSet(p, h, new, q) == q = [p EXCEPT !.chunks[h].cells = new]
\* The cells differ only in the n behind o.
SameCells(old, new, o, n) ==
    /\ new \in Seq(Item) /\ Len(new) = Len(old)
    /\ \A k \in 1 .. Len(old) : (k <= o \/ o + n < k) => new[k] = old[k]

LEMMA CellsWritten ==
    ASSUME NEW p, PoolOK(p), NEW h \in 1 .. Len(p.chunks), NEW o \in Nat, NEW n \in Nat,
           NEW new, SameCells(p.chunks[h].cells, new, o, n), NEW q, IsCellsSet(p, h, new, q)
    PROVE  OnlyWrites(p, q, h, o, n) /\ q.chunks[h].cells = new
<1>1. /\ p.chunks[h] \in ChunkRecords /\ p.chunks[h].size \in Nat
      /\ p.chunks[h].cells \in Seq(Item) /\ p.chunks[h].size <= Len(p.chunks[h].cells)
  BY ChunkIs
<1>2. /\ new \in Seq(Item) /\ Len(new) = Len(p.chunks[h].cells)
      /\ \A k \in 1 .. Len(p.chunks[h].cells) :
             (k <= o \/ o + n < k) => new[k] = p.chunks[h].cells[k]
  BY Zenon DEF SameCells
<1> DEFINE c == [p.chunks[h] EXCEPT !.cells = new]
<1>3. c \in ChunkRecords /\ c.cells = new /\ c.size = p.chunks[h].size
  <2>1. new \in Seq(Item)
    BY <1>2
  <2> QED BY <1>1, <2>1 DEF ChunkRecords
<1>4. IsChunkSet(p, h, c, q)
  BY DEF PoolOK, PoolRecords, IsCellsSet, IsChunkSet
<1> HIDE DEF c
<1>5. c.size <= Len(c.cells)
  BY <1>1, <1>2, <1>3, Zenon
<1>6. /\ PoolOK(q) /\ Len(q.chunks) = Len(p.chunks) /\ q.chunks[h] = c
      /\ \A g \in 1 .. Len(p.chunks) : g # h => q.chunks[g] = p.chunks[g]
  BY <1>3, <1>4, <1>5, ChunkSet
<1>7. \A g \in 1 .. Len(p.chunks) :
         /\ q.chunks[g].size = p.chunks[g].size
         /\ Len(q.chunks[g].cells) = Len(p.chunks[g].cells)
         /\ \A k \in 1 .. Len(p.chunks[g].cells) :
                (g # h \/ k <= o \/ o + n < k) => q.chunks[g].cells[k] = p.chunks[g].cells[k]
  <2>1. TAKE g \in 1 .. Len(p.chunks)
  <2>2. CASE g = h
    BY <1>2, <1>3, <1>6, <2>2, Zenon
  <2>3. CASE g # h
    BY <1>6, <2>3, Zenon
  <2> QED BY <2>2, <2>3
<1> QED BY <1>3, <1>6, <1>7, Zenon DEF OnlyWrites

\* What Copy and Push make of the cells: n of them from values.
WithValues(old, values, o, n) ==
    [k \in DOMAIN old |-> IF k - o \in 1 .. n THEN values[k - o] ELSE old[k]]

LEMMA ValuesWritten ==
    ASSUME NEW old \in Seq(Item), NEW values, NEW o \in Nat, NEW n \in Nat,
           \A k \in 1 .. n : values[k] \in Item, o + n <= Len(old)
    PROVE  /\ SameCells(old, WithValues(old, values, o, n), o, n)
           /\ \A k \in 1 .. n : WithValues(old, values, o, n)[o + k] = values[k]
<1> DEFINE new == WithValues(old, values, o, n)
<1>1. PICK len \in Nat : len = Len(old) /\ DOMAIN old = 1 .. len /\ \A k \in 1 .. len : old[k] \in Item
  BY LenProperties, ElementOfSeq
<1>2. new = [k \in 1 .. len |-> IF k - o \in 1 .. n THEN values[k - o] ELSE old[k]]
  BY <1>1, Zenon DEF WithValues
<1> HIDE DEF new
<1>3. \A k \in 1 .. len : new[k] = IF k - o \in 1 .. n THEN values[k - o] ELSE old[k]
  BY <1>2, Zenon
<1>4. \A k \in 1 .. len : new[k] \in Item
  <2>1. TAKE k \in 1 .. len
  <2>2. CASE k - o \in 1 .. n
    BY <1>3, <2>2
  <2>3. CASE k - o \notin 1 .. n
    BY <1>1, <1>3, <2>3
  <2> QED BY <2>2, <2>3
<1>5. new \in [1 .. len -> Item]
  BY <1>2, <1>4, Zenon
<1>6. new \in Seq(Item) /\ Len(new) = len
  BY <1>5
<1>7. \A k \in 1 .. len : (k <= o \/ o + n < k) => new[k] = old[k]
  <2>1. TAKE k \in 1 .. len
  <2>2. ASSUME k <= o \/ o + n < k PROVE k - o \notin 1 .. n
    BY <2>2
  <2> QED BY <1>3, <2>2
<1>8. \A k \in 1 .. n : new[o + k] = values[k]
  <2>1. TAKE k \in 1 .. n
  <2>2. o + k \in 1 .. len /\ (o + k) - o = k
    BY <1>1
  <2> QED BY <1>3, <2>2
<1> QED BY <1>1, <1>6, <1>7, <1>8, Zenon DEF SameCells, new

CopiedTo(p, q, a, b, h, o, n) ==
    /\ OnlyWrites(p, q, h, o, n)
    /\ \A k \in 1 .. n : q.chunks[h].cells[o + k] = p.chunks[a].cells[b + k]

LEMMA CopyGives ==
    ASSUME NEW p, PoolOK(p), NEW a \in 1 .. Len(p.chunks), NEW b \in Nat,
           NEW h \in 1 .. Len(p.chunks), NEW o \in Nat, NEW n \in Nat,
           b + n <= p.chunks[a].size, o + n <= p.chunks[h].size
    PROVE  CopiedTo(p, Copy(p, <<a, b>>, <<h, o>>, n), a, b, h, o, n)
<1>1. PICK source \in Seq(Item), old \in Seq(Item) :
         source = p.chunks[a].cells /\ old = p.chunks[h].cells
  BY ChunkIs
<1>2. b + n <= Len(source) /\ o + n <= Len(old)
  <2>1. PICK u \in Nat, v \in Nat, x \in Nat, y \in Nat :
           /\ u = p.chunks[a].size /\ v = p.chunks[h].size /\ x = Len(source) /\ y = Len(old)
    BY <1>1, ChunkIs
  <2>2. b + n <= u /\ o + n <= v
    BY <2>1, Zenon
  <2>3. u <= x /\ v <= y
    BY <1>1, <2>1, ChunkIs, Zenon
  <2>4. b + n <= x /\ o + n <= y
    BY <2>2, <2>3
  <2> QED BY <2>1, <2>4, Zenon
<1> DEFINE values == [k \in 1 .. n |-> source[b + k]]
           new == WithValues(old, values, o, n)
<1>3. \A k \in 1 .. n : values[k] = source[b + k] /\ source[b + k] \in Item
  BY <1>2
<1>4. Copy(p, <<a, b>>, <<h, o>>, n) =
      [p EXCEPT !.chunks[h].cells = [k \in DOMAIN old |->
          IF k - o \in 1 .. n THEN source[b + k - o] ELSE old[k]]]
  <2>1. <<a, b>>[1] = a /\ <<a, b>>[2] = b /\ <<h, o>>[1] = h /\ <<h, o>>[2] = o
    OBVIOUS
  <2>2. p \in PoolRecords /\ p.chunks[h] \in ChunkRecords
    BY ChunkIs DEF PoolOK
  <2>3. p.chunks[h].cells = old
    BY <1>1
  <2> QED BY <1>1, <2>1, <2>2, <2>3 DEF Copy, PoolRecords, ChunkRecords
<1>5. [k \in DOMAIN old |-> IF k - o \in 1 .. n THEN source[b + k - o] ELSE old[k]] = new
  <2>1. DOMAIN old \subseteq Int
    BY LenProperties
  <2>2. \A k \in DOMAIN old : k - o \in 1 .. n => source[b + k - o] = values[k - o]
    BY <2>1, <1>3
  <2> HIDE DEF values
  <2> QED BY <2>2 DEF WithValues
<1> HIDE DEF values
<1>6. SameCells(old, new, o, n) /\ \A k \in 1 .. n : new[o + k] = values[k]
  <2>1. \A k \in 1 .. n : values[k] \in Item
    BY <1>3, Zenon
  <2>2. o + n <= Len(old)
    BY <1>2
  <2> QED BY <2>1, <2>2, ValuesWritten
<1> HIDE DEF new
<1>7. IsCellsSet(p, h, new, Copy(p, <<a, b>>, <<h, o>>, n))
  BY <1>4, <1>5, Zenon DEF IsCellsSet
<1>8. SameCells(p.chunks[h].cells, new, o, n)
  BY <1>1, <1>6
<1> DEFINE q == Copy(p, <<a, b>>, <<h, o>>, n)
<1> HIDE DEF q
<1>9. OnlyWrites(p, q, h, o, n) /\ q.chunks[h].cells = new
  BY <1>7, <1>8, CellsWritten DEF q
<1> QED BY <1>1, <1>3, <1>6, <1>9, Zenon DEF q, CopiedTo

-----------------------------------------------------------------------------
(* A stack gets another block, or more or less of its own.                 *)

\* The pool and the stack after it: every other stack keeps its bytes and is
\* apart from this one.
Serves(p, s, q, t) ==
    /\ PoolOK(q) /\ StackOK(q, t)
    /\ \A u : StackOK(p, u) /\ Apart(s, u) => StackKept(p, q, u) /\ Apart(t, u)

\* The stack s with another block.
IsMoved(s, t, block, capacity) ==
    /\ t \in StackRecords /\ t.at = block /\ t.size = s.size /\ t.capacity = capacity
    /\ t.initial = s.initial

LEMMA MovedStack ==
    ASSUME NEW s \in StackRecords, NEW capacity \in Nat, NEW block,
           block \in {NULL} \cup (Nat \X Nat)
    PROVE  IsMoved(s, [s EXCEPT !.at = block, !.capacity = capacity], block, capacity)
BY DEF StackRecords, IsMoved

LEMMA SizedStack ==
    ASSUME NEW s \in StackRecords, NEW n \in Nat
    PROVE  /\ [s EXCEPT !.size = n] \in StackRecords /\ [s EXCEPT !.size = n].at = s.at
           /\ [s EXCEPT !.size = n].size = n /\ [s EXCEPT !.size = n].capacity = s.capacity
BY DEF StackRecords

LEMMA NotNull == \A h, o : <<h, o>> # NULL
BY DEF NULL

LEMMA NewApart ==
    ASSUME NEW p, NEW q, NEW h \in Nat, NEW o \in Nat, NEW n, NewBlock(p, q, h, o, n),
           NEW t, t.at = <<h, o>>, NEW u, StackOK(p, u)
    PROVE  Apart(t, u) /\ \A m : Outside(u, h, o, m)
<1>1. CASE u.at = NULL
  BY <1>1, Zenon DEF Apart, Outside
<1>2. CASE u.at # NULL
  <2>1. PICK g \in Nat, b \in Nat, m \in Nat, size \in Nat, capacity \in Nat :
               /\ u.at = <<g, b>> /\ g = u.at[1] /\ b = u.at[2]
               /\ m = AlignUp(u.capacity) /\ size = u.size /\ capacity = u.capacity
               /\ size <= capacity /\ capacity <= m /\ 0 < m /\ g \in 1 .. Len(p.chunks)
               /\ b + m <= p.chunks[g].size
    BY <1>2, BlockIs
  <2>2. t.at[1] = h /\ t.at[2] = o
    OBVIOUS
  <2>3. CASE g = h
    <3>1. p.chunks[g].size \in Nat /\ p.chunks[g].size <= o
      <4>1. PoolOK(p)
        BY DEF NewBlock, Extends
      <4> QED BY <2>1, <2>3, <4>1, ChunkIs DEF NewBlock
    <3>2. PICK a \in Nat : a = p.chunks[g].size
      BY <3>1
    <3>3. b + m <= a /\ a <= o
      BY <2>1, <3>1, <3>2, Zenon
    <3>4. b + m <= o
      BY <3>3
    <3> QED BY <2>1, <2>2, <3>4, Zenon DEF Apart, Outside
  <2>4. CASE g # h
    BY <2>1, <2>2, <2>4, Zenon DEF Apart, Outside
  <2> QED BY <2>3, <2>4
<1> QED BY <1>1, <1>2

LEMMA BlockOK ==
    ASSUME NEW p, NEW t \in StackRecords, NEW h \in Nat, NEW o \in Nat, t.at = <<h, o>>,
           t.size <= t.capacity, t.capacity > 0, h \in 1 .. Len(p.chunks),
           o + AlignUp(t.capacity) <= p.chunks[h].size
    PROVE  StackOK(p, t)
<1>1. t.at # NULL /\ t.at[1] = h /\ t.at[2] = o
  BY NotNull
<1> QED BY <1>1, Zenon DEF StackOK

ResizeServes(p, s, capacity, q, t) ==
    /\ Resize(p, s, capacity) = [pool |-> q, stack |-> t]
    /\ Serves(p, s, q, t) /\ Bytes(q, t) = Bytes(p, s)
    /\ t.size = s.size /\ t.capacity = capacity /\ t.initial = s.initial /\ t.at # NULL

LEMMA ResizeIs ==
    ASSUME NEW p, NEW s, NEW capacity, NEW q, NEW block,
           Realloc(p, s.at, s.capacity, capacity) = [pool |-> q, at |-> block]
    PROVE  Resize(p, s, capacity) =
              [pool |-> q, stack |-> [s EXCEPT !.at = block, !.capacity = capacity]]
BY DEF Resize

LEMMA ResizeOfNothing ==
    ASSUME NEW p, PoolOK(p), NEW s, StackOK(p, s), s.at = NULL, NEW capacity \in Nat, capacity > 0
    PROVE  \E q, t : ResizeServes(p, s, capacity, q, t)
<1>1. PICK q : \E h \in Nat, o \in Nat : MallocIs(p, capacity, q, h, o)
  BY MallocGives
<1>2. PICK h \in Nat, o \in Nat : MallocIs(p, capacity, q, h, o)
  BY <1>1
<1>3. Malloc(p, capacity) = [pool |-> q, at |-> <<h, o>>]
      /\ NewBlock(p, q, h, o, AlignUp(capacity))
  BY <1>2, Zenon DEF MallocIs
<1>4. Realloc(p, s.at, s.capacity, capacity) = [pool |-> q, at |-> <<h, o>>]
  BY <1>3, Zenon DEF Realloc
<1>5. s \in StackRecords
  BY DEF StackOK
<1>6. PICK t : t = [s EXCEPT !.at = <<h, o>>, !.capacity = capacity]
               /\ IsMoved(s, t, <<h, o>>, capacity)
  <2>1. <<h, o>> \in {NULL} \cup (Nat \X Nat)
    OBVIOUS
  <2> QED BY <1>5, <2>1, MovedStack
<1>7. Resize(p, s, capacity) = [pool |-> q, stack |-> t]
  BY <1>4, <1>6 DEF Resize
<1>8. /\ t \in StackRecords /\ t.at = <<h, o>> /\ t.size = s.size /\ t.capacity = capacity
      /\ t.initial = s.initial
  BY <1>6, Zenon DEF IsMoved
<1>9. s.size = 0 /\ Bytes(p, s) = <<>>
  BY NoBytes
<1>10. StackOK(q, t)
  <2>1. t.size <= t.capacity /\ t.capacity > 0
    BY <1>8, <1>9
  <2>2. h \in 1 .. Len(q.chunks) /\ o + AlignUp(t.capacity) <= q.chunks[h].size
    BY <1>3, <1>8, Zenon DEF NewBlock
  <2> QED BY <1>8, <2>1, <2>2, BlockOK
<1>11. Bytes(q, t) = <<>>
  BY <1>8, <1>9 DEF Bytes
<1>12. ASSUME NEW u, StackOK(p, u)
       PROVE  StackKept(p, q, u) /\ Apart(t, u)
  <2>1. Extends(p, q)
    BY <1>3 DEF NewBlock
  <2>2. StackKept(p, q, u)
    BY <1>12, <2>1, ExtendsKeeps
  <2>3. Apart(t, u)
    BY <1>3, <1>8, <1>12, NewApart
  <2> QED BY <2>2, <2>3
<1>13. Serves(p, s, q, t)
  <2>1. PoolOK(q)
    BY <1>3 DEF NewBlock, Extends
  <2> QED BY <1>10, <1>12, <2>1, Zenon DEF Serves
<1>14. t.at # NULL
  BY <1>8, NotNull
<1>15. ResizeServes(p, s, capacity, q, t)
  BY <1>7, <1>8, <1>9, <1>11, <1>13, <1>14, Zenon DEF ResizeServes
<1> QED BY <1>15, Zenon

\* The block has room for it as it is.
LEMMA ResizeInBlock ==
    ASSUME NEW p, PoolOK(p), NEW s, StackOK(p, s), s.at # NULL, NEW capacity \in Nat, capacity > 0,
           s.size <= capacity, AlignUp(s.capacity) >= AlignUp(capacity)
    PROVE  \E q, t : ResizeServes(p, s, capacity, q, t)
<1>1. PICK h \in Nat, o \in Nat, old \in Nat, size \in Nat, before \in Nat :
         /\ s.at = <<h, o>> /\ h = s.at[1] /\ o = s.at[2]
         /\ old = AlignUp(s.capacity) /\ size = s.size /\ before = s.capacity
         /\ size <= before /\ before <= old /\ 0 < old /\ h \in 1 .. Len(p.chunks)
         /\ o + old <= p.chunks[h].size
  BY BlockIs
<1>2. PICK new \in Nat : new = AlignUp(capacity) /\ new <= old
  BY <1>1, AlignsUp
<1>3. Realloc(p, s.at, s.capacity, capacity) = [pool |-> p, at |-> s.at]
  <2>1. capacity # 0
    OBVIOUS
  <2> QED BY <2>1, Zenon DEF Realloc
<1>4. PICK t : t = [s EXCEPT !.at = <<h, o>>, !.capacity = capacity]
               /\ IsMoved(s, t, <<h, o>>, capacity)
  <2>1. s \in StackRecords
    BY DEF StackOK
  <2>2. <<h, o>> \in {NULL} \cup (Nat \X Nat)
    OBVIOUS
  <2> QED BY <2>1, <2>2, MovedStack
<1>5. Resize(p, s, capacity) = [pool |-> p, stack |-> t]
  <2>1. Realloc(p, s.at, s.capacity, capacity) = [pool |-> p, at |-> <<h, o>>]
    BY <1>1, <1>3, Zenon
  <2> QED BY <1>4, <2>1 DEF Resize
<1>6. /\ t \in StackRecords /\ t.at = <<h, o>> /\ t.size = s.size /\ t.capacity = capacity
      /\ t.initial = s.initial
  BY <1>4, Zenon DEF IsMoved
<1>7. StackOK(p, t)
  <2>1. t.size <= t.capacity /\ t.capacity > 0
    BY <1>6
  <2>2. o + AlignUp(t.capacity) <= p.chunks[h].size
    <3>1. p.chunks[h].size \in Nat
      BY <1>1, ChunkIs
    <3>2. PICK a \in Nat : a = p.chunks[h].size
      BY <3>1
    <3>3. o + old <= a
      BY <1>1, <3>2, Zenon
    <3>4. o + new <= a
      BY <1>2, <3>3
    <3> QED BY <1>2, <1>6, <3>2, <3>4, Zenon
  <2>3. h \in 1 .. Len(p.chunks)
    BY <1>1
  <2> QED BY <1>6, <2>1, <2>2, <2>3, BlockOK
<1>8. Bytes(p, t) = Bytes(p, s)
  <2>1. t.at = s.at
    BY <1>1, <1>6
  <2> QED BY <1>6, <2>1, Zenon DEF Bytes
<1>9. ASSUME NEW u, StackOK(p, u), Apart(s, u)
      PROVE  StackKept(p, p, u) /\ Apart(t, u)
  <2>1. StackKept(p, p, u)
    BY <1>9 DEF StackKept
  <2>2. t.at[1] = s.at[1] /\ t.at[2] = o /\ s.at[2] = o
    BY <1>1, <1>6
  <2>3. CASE u.at = NULL \/ s.at[1] # u.at[1]
    BY <2>1, <2>2, <2>3, Zenon DEF Apart
  <2>4. CASE u.at # NULL /\ s.at[1] = u.at[1]
    <3>1. PICK b \in Nat : b = u.at[2]
      BY <1>9, <2>4, BlockIs
    <3>2. o + old <= b \/ b + AlignUp(u.capacity) <= o
      BY <1>1, <1>9, <2>2, <2>4, <3>1, Zenon DEF Apart
    <3>3. o + new <= b \/ b + AlignUp(u.capacity) <= o
      <4>1. o + old <= b => o + new <= b
        BY <1>2
      <4> QED BY <3>2, <4>1, Zenon
    <3> QED BY <1>2, <1>6, <2>1, <2>2, <3>1, <3>3, Zenon DEF Apart
  <2> QED BY <2>1, <2>3, <2>4
<1>10. Serves(p, s, p, t)
  BY <1>7, <1>9, Zenon DEF Serves
<1>11. t.at # NULL
  BY <1>6, NotNull
<1>12. ResizeServes(p, s, capacity, p, t)
  BY <1>5, <1>6, <1>8, <1>10, <1>11, Zenon DEF ResizeServes
<1> QED BY <1>12, Zenon

\* The block is the last that its chunk gave out, and the chunk gives more.
LEMMA ResizeAtEnd ==
    ASSUME NEW p, PoolOK(p), NEW s, StackOK(p, s), s.at # NULL, NEW capacity \in Nat, capacity > 0,
           s.size <= capacity, ~(AlignUp(s.capacity) >= AlignUp(capacity)),
           IsLast(p, s.at, AlignUp(s.capacity)),
           p.chunks[Len(p.chunks)].size + AlignUp(capacity) - AlignUp(s.capacity)
               <= Len(p.chunks[Len(p.chunks)].cells)
    PROVE  \E q, t : ResizeServes(p, s, capacity, q, t)
<1>1. PICK h \in Nat, o \in Nat, old \in Nat, size \in Nat, before \in Nat :
         /\ s.at = <<h, o>> /\ h = s.at[1] /\ o = s.at[2]
         /\ old = AlignUp(s.capacity) /\ size = s.size /\ before = s.capacity
         /\ size <= before /\ before <= old /\ 0 < old /\ h \in 1 .. Len(p.chunks)
         /\ o + old <= p.chunks[h].size
  BY BlockIs
<1>2. PICK new \in Nat : new = AlignUp(capacity) /\ old < new
  <2>1. AlignUp(capacity) \in Nat
    BY AlignsUp
  <2> QED BY <1>1, <2>1
<1>3. p.chunks \in Seq(ChunkRecords) /\ h = Len(p.chunks) /\ p.chunks[h].size = o + old
  <2>1. h = Len(p.chunks) /\ o + old = Last(p.chunks).size
    BY <1>1, Zenon DEF IsLast
  <2> QED BY <2>1, PoolLength DEF Last
<1>4. PICK q : IsSizeSet(p, h, o + new, q)
  BY DEF IsSizeSet
<1>5. Realloc(p, s.at, s.capacity, capacity) = [pool |-> q, at |-> s.at]
  <2>1. capacity # 0
    OBVIOUS
  <2>2. [p EXCEPT !.chunks[h].size = @ + new - old] = q
    <3>1. p \in PoolRecords /\ p.chunks[h] \in ChunkRecords
      BY <1>1, ChunkIs DEF PoolOK
    <3>2. p.chunks[h].size + new - old = o + new
      BY <1>3
    <3> QED BY <1>3, <1>4, <3>1, <3>2 DEF IsSizeSet, PoolRecords, ChunkRecords
  <2> QED BY <1>1, <1>2, <1>3, <2>1, <2>2, Zenon DEF Realloc
<1>6. PICK t : t = [s EXCEPT !.at = <<h, o>>, !.capacity = capacity]
               /\ IsMoved(s, t, <<h, o>>, capacity)
  <2>1. s \in StackRecords
    BY DEF StackOK
  <2>2. <<h, o>> \in {NULL} \cup (Nat \X Nat)
    OBVIOUS
  <2> QED BY <2>1, <2>2, MovedStack
<1>7. Resize(p, s, capacity) = [pool |-> q, stack |-> t]
  <2>1. Realloc(p, s.at, s.capacity, capacity) = [pool |-> q, at |-> <<h, o>>]
    BY <1>1, <1>5, Zenon
  <2> QED BY <1>6, <2>1 DEF Resize
<1>8. /\ t \in StackRecords /\ t.at = <<h, o>> /\ t.size = s.size /\ t.capacity = capacity
      /\ t.initial = s.initial
  BY <1>6, Zenon DEF IsMoved
<1>9. Extends(p, q) /\ Len(q.chunks) = Len(p.chunks) /\ q.chunks[h].size = o + new
  <2>1. PICK m \in Nat : m = o + new
    OBVIOUS
  <2>2. p.chunks[h].size <= m /\ m <= Len(p.chunks[h].cells)
    <3>1. p.chunks[h].size + new - old = m
      BY <1>3, <2>1
    <3>2. m <= Len(p.chunks[h].cells)
      BY <1>1, <1>2, <1>3, <3>1, Zenon
    <3>3. p.chunks[h].size <= m
      BY <1>2, <1>3, <2>1
    <3> QED BY <3>2, <3>3
  <2>3. IsSizeSet(p, h, m, q)
    BY <1>4, <2>1
  <2>4. PoolOK(p) /\ h \in 1 .. Len(p.chunks)
    BY <1>1
  <2>5. Extends(p, q) /\ Len(q.chunks) = Len(p.chunks) /\ q.chunks[h].size = m
    BY <2>4, <2>2, <2>3, ChunkGives
  <2> QED BY <2>1, <2>5, Zenon
<1>10. StackOK(q, t)
  <2>1. t.size <= t.capacity /\ t.capacity > 0
    BY <1>8
  <2>2. o + new <= q.chunks[h].size
    BY <1>9
  <2>3. h \in 1 .. Len(q.chunks) /\ o + AlignUp(t.capacity) <= q.chunks[h].size
    BY <1>1, <1>2, <1>8, <1>9, <2>2, Zenon
  <2> QED BY <1>8, <2>1, <2>3, BlockOK
<1>11. Bytes(q, t) = Bytes(p, s)
  <2>1. q.chunks[h].cells = p.chunks[h].cells
    BY <1>1, <1>9, Zenon DEF Extends
  <2>2. t.at[1] = h /\ t.at[2] = o
    BY <1>8
  <2> QED BY <1>1, <1>8, <2>1, <2>2, Zenon DEF Bytes
<1>12. ASSUME NEW u, StackOK(p, u), Apart(s, u)
       PROVE  StackKept(p, q, u) /\ Apart(t, u)
  <2>1. StackKept(p, q, u)
    BY <1>9, <1>12, ExtendsKeeps
  <2>2. t.at[1] = h /\ t.at[2] = o
    BY <1>8
  <2>3. CASE u.at = NULL \/ h # u.at[1]
    BY <2>1, <2>2, <2>3, Zenon DEF Apart
  <2>4. CASE u.at # NULL /\ h = u.at[1]
    <3>1. PICK g \in Nat, b \in Nat, m \in Nat, usize \in Nat, ubefore \in Nat :
             /\ u.at = <<g, b>> /\ g = u.at[1] /\ b = u.at[2]
             /\ m = AlignUp(u.capacity) /\ usize = u.size /\ ubefore = u.capacity
             /\ usize <= ubefore /\ ubefore <= m /\ 0 < m /\ g \in 1 .. Len(p.chunks)
             /\ b + m <= p.chunks[g].size
      BY <1>12, <2>4, BlockIs
    <3>2. o + old <= b \/ b + m <= o
      BY <1>1, <1>12, <2>4, <3>1, Zenon DEF Apart
    <3>3. b + m <= o + old /\ 0 < m
      BY <1>3, <2>4, <3>1, Zenon
    <3>4. b + m <= o
      BY <3>2, <3>3
    <3> QED BY <2>1, <2>2, <3>1, <3>4, Zenon DEF Apart
  <2> QED BY <2>1, <2>3, <2>4
<1>13. Serves(p, s, q, t)
  <2>1. PoolOK(q)
    BY <1>9 DEF Extends
  <2> QED BY <1>10, <1>12, <2>1, Zenon DEF Serves
<1>14. t.at # NULL
  BY <1>8, NotNull
<1>15. ResizeServes(p, s, capacity, q, t)
  BY <1>7, <1>8, <1>11, <1>13, <1>14, Zenon DEF ResizeServes
<1> QED BY <1>15, Zenon

\* Otherwise it gets a new block, to which the old one is copied.
LEMMA ResizeElsewhere ==
    ASSUME NEW p, PoolOK(p), NEW s, StackOK(p, s), s.at # NULL, NEW capacity \in Nat, capacity > 0,
           s.size <= capacity, ~(AlignUp(s.capacity) >= AlignUp(capacity)),
           ~(IsLast(p, s.at, AlignUp(s.capacity))
             /\ p.chunks[Len(p.chunks)].size + AlignUp(capacity) - AlignUp(s.capacity)
                    <= Len(p.chunks[Len(p.chunks)].cells))
    PROVE  \E q, t : ResizeServes(p, s, capacity, q, t)
<1>1. PICK h \in Nat, o \in Nat, old \in Nat, size \in Nat, before \in Nat :
         /\ s.at = <<h, o>> /\ h = s.at[1] /\ o = s.at[2]
         /\ old = AlignUp(s.capacity) /\ size = s.size /\ before = s.capacity
         /\ size <= before /\ before <= old /\ 0 < old /\ h \in 1 .. Len(p.chunks)
         /\ o + old <= p.chunks[h].size
  BY BlockIs
<1>2. PICK new \in Nat : new = AlignUp(capacity) /\ old < new /\ 0 < new
  <2>1. AlignUp(capacity) \in Nat
    BY AlignsUp
  <2> QED BY <1>1, <2>1
<1>3. PICK m : \E g \in Nat, b \in Nat : MallocIs(p, new, m, g, b)
  BY <1>2, MallocGives
<1>4. PICK g \in Nat, b \in Nat : MallocIs(p, new, m, g, b)
  BY <1>3
<1>5. PICK n \in Nat : n = AlignUp(new) /\ new <= n
  BY AlignsUp
<1>6. Malloc(p, new) = [pool |-> m, at |-> <<g, b>>] /\ NewBlock(p, m, g, b, n)
  BY <1>4, <1>5, Zenon DEF MallocIs
<1>7. /\ Extends(p, m) /\ PoolOK(m) /\ g \in 1 .. Len(m.chunks) /\ b + n <= m.chunks[g].size
      /\ h \in 1 .. Len(m.chunks)
  <2>1. Extends(p, m) /\ PoolOK(m) /\ g \in 1 .. Len(m.chunks) /\ b + n <= m.chunks[g].size
    BY <1>6, Zenon DEF NewBlock, Extends
  <2>2. Len(p.chunks) \in Nat /\ Len(m.chunks) \in Nat /\ Len(p.chunks) <= Len(m.chunks)
    BY <2>1, PoolLength DEF Extends
  <2>3. h \in 1 .. Len(m.chunks)
    BY <1>1, <2>2
  <2> QED BY <2>1, <2>3
<1>8. PICK q : q = Copy(m, <<h, o>>, <<g, b>>, old)
  OBVIOUS
<1>9. Realloc(p, s.at, s.capacity, capacity) = [pool |-> q, at |-> <<g, b>>]
  <2>1. capacity # 0
    OBVIOUS
  <2>2. Realloc(p, s.at, s.capacity, capacity) =
           [pool |-> Copy(Malloc(p, AlignUp(capacity)).pool, s.at,
                          Malloc(p, AlignUp(capacity)).at, AlignUp(s.capacity)),
            at |-> Malloc(p, AlignUp(capacity)).at]
    BY <2>1, Zenon DEF Realloc
  <2>3. Malloc(p, AlignUp(capacity)).pool = m /\ Malloc(p, AlignUp(capacity)).at = <<g, b>>
    BY <1>2, <1>6
  <2> QED BY <1>1, <1>8, <2>2, <2>3, Zenon
<1>10. PICK t : t = [s EXCEPT !.at = <<g, b>>, !.capacity = capacity]
                /\ IsMoved(s, t, <<g, b>>, capacity)
  <2>1. s \in StackRecords
    BY DEF StackOK
  <2>2. <<g, b>> \in {NULL} \cup (Nat \X Nat)
    OBVIOUS
  <2> QED BY <2>1, <2>2, MovedStack
<1>11. Resize(p, s, capacity) = [pool |-> q, stack |-> t]
  BY <1>9, <1>10 DEF Resize
<1>12. /\ t \in StackRecords /\ t.at = <<g, b>> /\ t.size = s.size /\ t.capacity = capacity
       /\ t.initial = s.initial
  BY <1>10, Zenon DEF IsMoved
<1>13. /\ OnlyWrites(m, q, g, b, old)
       /\ \A k \in 1 .. old : q.chunks[g].cells[b + k] = m.chunks[h].cells[o + k]
  <2>1. PICK x \in Nat, y \in Nat, z \in Nat :
           x = p.chunks[h].size /\ y = m.chunks[h].size /\ z = m.chunks[g].size
    BY <1>1, <1>7, ChunkIs
  <2>2. o + old <= x /\ x <= y /\ b + n <= z
    BY <1>1, <1>7, <2>1, Zenon DEF Extends
  <2>3. o + old <= y /\ b + old <= z
    BY <1>2, <1>5, <2>2
  <2>4. o + old <= m.chunks[h].size /\ b + old <= m.chunks[g].size
    BY <2>1, <2>3, Zenon
  <2>5. PoolOK(m) /\ h \in 1 .. Len(m.chunks) /\ g \in 1 .. Len(m.chunks)
    BY <1>7
  <2>6. CopiedTo(m, Copy(m, <<h, o>>, <<g, b>>, old), h, o, g, b, old)
    BY <2>5, <2>4, CopyGives
  <2> QED BY <1>8, <2>6, Zenon DEF CopiedTo
<1>14. StackOK(q, t)
  <2>1. t.size <= t.capacity /\ t.capacity > 0
    BY <1>12
  <2>2. g \in 1 .. Len(q.chunks) /\ q.chunks[g].size = m.chunks[g].size
    BY <1>7, <1>13, Zenon DEF OnlyWrites
  <2>3. b + new <= m.chunks[g].size
    <3>1. PICK z \in Nat : z = m.chunks[g].size
      BY <1>7, ChunkIs
    <3>2. b + n <= z
      BY <1>7, <3>1, Zenon
    <3>3. b + new <= z
      BY <1>5, <3>2
    <3> QED BY <3>1, <3>3, Zenon
  <2>4. b + AlignUp(t.capacity) <= q.chunks[g].size
    BY <1>2, <1>12, <2>2, <2>3, Zenon
  <2> QED BY <1>12, <2>1, <2>2, <2>4, BlockOK
<1>15. Bytes(q, t) = Bytes(p, s)
  <2>1. m.chunks[h].cells = p.chunks[h].cells
    BY <1>1, <1>7, Zenon DEF Extends
  <2>2. t.at[1] = g /\ t.at[2] = b
    BY <1>12
  <2>3. \A k \in 1 .. size : k \in 1 .. old
    <3>1. size <= before /\ before <= old
      BY <1>1, Zenon
    <3> QED BY <3>1
  <2>4. \A k \in 1 .. size : q.chunks[g].cells[b + k] = p.chunks[h].cells[o + k]
    BY <1>13, <2>1, <2>3, Zenon
  <2>5. s.size = t.size /\ \A k \in 1 .. s.size :
           q.chunks[t.at[1]].cells[t.at[2] + k] = p.chunks[s.at[1]].cells[s.at[2] + k]
    BY <1>1, <1>12, <2>2, <2>4, Zenon
  <2> QED BY <2>5, SameBytes
<1>16. ASSUME NEW u, StackOK(p, u)
       PROVE  StackKept(p, q, u) /\ Apart(t, u)
  <2>1. Apart(t, u) /\ Outside(u, g, b, old)
    BY <1>6, <1>12, <1>16, NewApart
  <2>2. StackOK(m, u) /\ Bytes(m, u) = Bytes(p, u)
    BY <1>7, <1>16, ExtendsKeeps DEF StackKept
  <2>3. StackKept(m, q, u)
    BY <1>13, <2>1, <2>2, WriteKeeps
  <2>4. StackKept(p, q, u)
    BY <2>2, <2>3 DEF StackKept
  <2> QED BY <2>1, <2>4
<1>17. Serves(p, s, q, t)
  <2>1. PoolOK(q)
    BY <1>13 DEF OnlyWrites
  <2> QED BY <1>14, <1>16, <2>1, Zenon DEF Serves
<1>18. t.at # NULL
  BY <1>12, NotNull
<1>19. ResizeServes(p, s, capacity, q, t)
  BY <1>11, <1>12, <1>15, <1>17, <1>18, Zenon DEF ResizeServes
<1> QED BY <1>19, Zenon

LEMMA ResizeGives ==
    ASSUME NEW p, PoolOK(p), NEW s, StackOK(p, s), NEW capacity \in Nat, capacity > 0,
           s.size <= capacity
    PROVE  \E q, t : ResizeServes(p, s, capacity, q, t)
<1>1. CASE s.at = NULL
  BY <1>1, ResizeOfNothing
<1>2. CASE s.at # NULL /\ AlignUp(s.capacity) >= AlignUp(capacity)
  BY <1>2, ResizeInBlock
<1> DEFINE fits == IsLast(p, s.at, AlignUp(s.capacity))
                   /\ p.chunks[Len(p.chunks)].size + AlignUp(capacity) - AlignUp(s.capacity)
                          <= Len(p.chunks[Len(p.chunks)].cells)
<1>3. CASE s.at # NULL /\ ~(AlignUp(s.capacity) >= AlignUp(capacity)) /\ fits
  BY <1>3, ResizeAtEnd
<1>4. CASE s.at # NULL /\ ~(AlignUp(s.capacity) >= AlignUp(capacity)) /\ ~fits
  BY <1>4, ResizeElsewhere
<1> QED BY <1>1, <1>2, <1>3, <1>4

-----------------------------------------------------------------------------
(* The operations of a stack.                                              *)

LEMMA ApartTurns ==
    ASSUME NEW s, NEW t
    PROVE  Apart(s, t) <=> Apart(t, s)
BY Zenon DEF Apart

LEMMA ServesTwice ==
    ASSUME NEW p, NEW s, NEW q, NEW t, NEW r, NEW u, Serves(p, s, q, t), Serves(q, t, r, u)
    PROVE  Serves(p, s, r, u)
<1>1. ASSUME NEW v, StackOK(p, v), Apart(s, v)
      PROVE  StackKept(p, r, v) /\ Apart(u, v)
  <2>1. StackOK(q, v) /\ Bytes(q, v) = Bytes(p, v) /\ Apart(t, v)
    BY <1>1, Zenon DEF Serves, StackKept
  <2>2. StackOK(r, v) /\ Bytes(r, v) = Bytes(q, v) /\ Apart(u, v)
    BY <2>1, Zenon DEF Serves, StackKept
  <2> QED BY <2>1, <2>2 DEF StackKept
<1> QED BY <1>1, Zenon DEF Serves

\* The same block in the same pool, with another number of its bytes.
LEMMA SameBlockServes ==
    ASSUME NEW p, PoolOK(p), NEW s, StackOK(p, s), NEW t \in StackRecords,
           t.at = s.at, t.capacity = s.capacity, t.size <= t.capacity
    PROVE  Serves(p, s, p, t)
<1>1. StackOK(p, t)
  BY Zenon DEF StackOK
<1>2. ASSUME NEW u, StackOK(p, u), Apart(s, u)
      PROVE  StackKept(p, p, u) /\ Apart(t, u)
  BY <1>2, Zenon DEF StackKept, Apart
<1> QED BY <1>1, <1>2, Zenon DEF Serves

ReserveServes(p, s, n, q, t) ==
    /\ Reserve(p, s, n) = [pool |-> q, stack |-> t]
    /\ Serves(p, s, q, t) /\ Bytes(q, t) = Bytes(p, s)
    /\ t.size = s.size /\ t.size + n <= t.capacity

LEMMA ReserveGives ==
    ASSUME NEW p, PoolOK(p), NEW s, StackOK(p, s), NEW n \in Nat
    PROVE  \E q, t : ReserveServes(p, s, n, q, t)
<1>1. PICK size \in Nat, capacity \in Nat, initial \in Nat :
         /\ size = s.size /\ capacity = s.capacity /\ initial = s.initial /\ size <= capacity
  BY DEF StackOK, StackRecords
<1>2. s \in StackRecords
  BY DEF StackOK
<1>3. CASE n > s.capacity - s.size
  <2>1. PICK grown \in Nat : grown = IF s.at = NULL THEN s.initial ELSE s.capacity + (s.capacity + 1) \div 2
    <3>1. (capacity + 1) \div 2 \in Nat
      OBVIOUS
    <3>2. capacity + (capacity + 1) \div 2 \in Nat
      BY <3>1
    <3> QED BY <1>1, <3>2, Zenon
  <2>2. PICK new \in Nat : new = Max({grown, s.size + n}) /\ size + n <= new /\ new > 0
    <3>1. PICK m \in Nat : m = size + n
      OBVIOUS
    <3>2. Max({grown, m}) = IF grown >= m THEN grown ELSE m
      BY MaxOfTwo
    <3>3. m > 0
      BY <1>1, <1>3, <3>1
    <3> QED BY <1>1, <3>1, <3>2, <3>3
  <2>3. Reserve(p, s, n) = Resize(p, s, new)
    BY <1>3, <2>1, <2>2, Zenon DEF Reserve, Expand
  <2>4. s.size <= new
    BY <1>1, <2>2
  <2>5. PICK q, t : ResizeServes(p, s, new, q, t)
    BY <2>2, <2>4, ResizeGives
  <2>6. ReserveServes(p, s, n, q, t)
    BY <1>1, <2>2, <2>3, <2>5, Zenon DEF ReserveServes, ResizeServes
  <2> QED BY <2>6, Zenon
<1>4. CASE ~(n > s.capacity - s.size)
  <2>1. Reserve(p, s, n) = [pool |-> p, stack |-> s]
    BY <1>4, Zenon DEF Reserve
  <2>2. Serves(p, s, p, s)
    BY <1>1, <1>2, SameBlockServes
  <2>3. s.size + n <= s.capacity
    BY <1>1, <1>4
  <2>4. ReserveServes(p, s, n, p, s)
    BY <2>1, <2>2, <2>3, Zenon DEF ReserveServes
  <2> QED BY <2>4, Zenon
<1> QED BY <1>3, <1>4

\* What an operation on a stack makes of it.
Gives(p, s, r, bytes) ==
    \E q, t : r = [pool |-> q, stack |-> t] /\ Serves(p, s, q, t) /\ Bytes(q, t) = bytes

LEMMA BytesAre ==
    ASSUME NEW p, PoolOK(p), NEW s, StackOK(p, s)
    PROVE  Bytes(p, s) \in Seq(Item) /\ Len(Bytes(p, s)) = s.size
<1>1. CASE s.at = NULL
  BY <1>1, NoBytes, Empty
<1>2. CASE s.at # NULL
  <2>1. PICK h \in Nat, o \in Nat, n \in Nat, size \in Nat, capacity \in Nat :
               /\ s.at = <<h, o>> /\ h = s.at[1] /\ o = s.at[2]
               /\ n = AlignUp(s.capacity) /\ size = s.size /\ capacity = s.capacity
               /\ size <= capacity /\ capacity <= n /\ 0 < n /\ h \in 1 .. Len(p.chunks)
               /\ o + n <= p.chunks[h].size
    BY <1>2, BlockIs
  <2>2. PICK cells \in Seq(Item) : cells = p.chunks[h].cells
    BY <2>1, ChunkIs
  <2>3. o + size <= Len(cells)
    <3>1. PICK a \in Nat, b \in Nat : a = p.chunks[h].size /\ b = Len(cells)
      <4>1. p.chunks[h].size \in Nat
        BY <2>1, ChunkIs
      <4> QED BY <4>1, LenProperties
    <3>2. size <= capacity /\ capacity <= n /\ o + n <= a
      BY <2>1, <3>1, Zenon
    <3>3. a <= b
      BY <2>1, <2>2, <3>1, ChunkIs, Zenon
    <3>4. o + size <= b
      BY <3>2, <3>3
    <3> QED BY <3>1, <3>4, Zenon
  <2>4. Bytes(p, s) = [k \in 1 .. size |-> cells[o + k]]
    BY <2>1, <2>2, Zenon DEF Bytes
  <2>5. \A k \in 1 .. size : cells[o + k] \in Item
    BY <2>3
  <2>6. [k \in 1 .. size |-> cells[o + k]] \in Seq(Item) /\ Len([k \in 1 .. size |-> cells[o + k]]) = size
    BY <2>5
  <2> QED BY <2>1, <2>4, <2>6, Zenon
<1> QED BY <1>1, <1>2

PushGives(p, s, values, q, t) ==
    /\ Push(p, s, values) = [pool |-> q, stack |-> t]
    /\ Serves(p, s, q, t) /\ t.size = s.size + Len(values)
    /\ Bytes(q, t) = Bytes(p, s) \o values

LEMMA PushUnsafeGives ==
    ASSUME NEW p, PoolOK(p), NEW s, StackOK(p, s), NEW values \in Seq(Item), values # <<>>,
           s.size + Len(values) <= s.capacity
    PROVE  \E q, t : /\ PushUnsafe([pool |-> p, stack |-> s], values) = [pool |-> q, stack |-> t]
                     /\ Serves(p, s, q, t) /\ t.size = s.size + Len(values)
                     /\ Bytes(q, t) = Bytes(p, s) \o values
<1>1. PICK len \in Nat : len = Len(values) /\ len > 0 /\ DOMAIN values = 1 .. len
  BY EmptySeq, LenProperties
<1>2. s.at # NULL
  <2>1. s.size \in Nat /\ s.capacity \in Nat
    BY DEF StackOK, StackRecords
  <2>2. s.capacity > 0
    BY <1>1, <2>1
  <2> QED BY <2>1, <2>2 DEF StackOK
<1>3. PICK h \in Nat, o \in Nat, n \in Nat, size \in Nat, capacity \in Nat :
               /\ s.at = <<h, o>> /\ h = s.at[1] /\ o = s.at[2]
               /\ n = AlignUp(s.capacity) /\ size = s.size /\ capacity = s.capacity
               /\ size <= capacity /\ capacity <= n /\ 0 < n /\ h \in 1 .. Len(p.chunks)
               /\ o + n <= p.chunks[h].size
  BY <1>2, BlockIs
<1>4. PICK old \in Seq(Item) : old = p.chunks[h].cells
  BY <1>3, ChunkIs
<1>5. PICK base \in Nat : base = o + size
  OBVIOUS
<1>6. size + len <= capacity /\ capacity <= n
  BY <1>1, <1>3, Zenon
<1>7. base + len <= o + n
  BY <1>5, <1>6
<1>8. base + len <= Len(old)
  <2>1. PICK a \in Nat, b \in Nat : a = p.chunks[h].size /\ b = Len(old)
    <3>1. p.chunks[h].size \in Nat
      BY <1>3, ChunkIs
    <3> QED BY <3>1, LenProperties
  <2>2. o + n <= a
    BY <1>3, <2>1, Zenon
  <2>3. a <= b
    BY <1>3, <1>4, <2>1, ChunkIs, Zenon
  <2>4. base + len <= b
    BY <1>7, <2>2, <2>3
  <2> QED BY <2>1, <2>4, Zenon
<1> DEFINE new == WithValues(old, values, base, len)
<1>9. \A k \in 1 .. len : values[k] \in Item
  BY <1>1, ElementOfSeq
<1>10. SameCells(old, new, base, len) /\ \A k \in 1 .. len : new[base + k] = values[k]
  BY <1>8, <1>9, ValuesWritten
<1>11. PICK q : IsCellsSet(p, h, new, q)
  BY DEF IsCellsSet
<1>12. PICK t : t = [s EXCEPT !.size = size + len] /\ t \in StackRecords /\ t.at = s.at
                /\ t.size = size + len /\ t.capacity = s.capacity
  <2>1. s \in StackRecords
    BY DEF StackOK
  <2> DEFINE r == [s EXCEPT !.size = size + len]
  <2>2. /\ r \in StackRecords /\ r.at = s.at /\ r.size = size + len /\ r.capacity = s.capacity
    <3>1. PICK all \in Nat : all = size + len
      OBVIOUS
    <3> QED BY <2>1, <3>1, SizedStack
  <2> HIDE DEF r
  <2> QED BY <2>2 DEF r
<1>13. PushUnsafe([pool |-> p, stack |-> s], values) = [pool |-> q, stack |-> t]
  <2>1. p \in PoolRecords /\ p.chunks[h] \in ChunkRecords /\ s \in StackRecords
    BY <1>3, ChunkIs DEF PoolOK, StackOK
  <2>2. new = [k \in DOMAIN old |-> IF k - base \in DOMAIN values THEN values[k - base] ELSE old[k]]
    BY <1>1, Zenon DEF WithValues
  <2> HIDE DEF new
  <2>3. [p EXCEPT !.chunks[s.at[1]].cells = [k \in DOMAIN @ |->
            IF k - base \in DOMAIN values THEN values[k - base] ELSE @[k]]] = q
    BY <1>3, <1>4, <1>11, <2>1, <2>2 DEF IsCellsSet, PoolRecords, ChunkRecords
  <2>4. [s EXCEPT !.size = @ + Len(values)] = t
    BY <1>1, <1>3, <1>12, <2>1 DEF StackRecords
  <2>5. base = s.at[2] + s.size
    BY <1>3, <1>5
  <2> QED BY <2>3, <2>4, <2>5 DEF PushUnsafe
<1> HIDE DEF new
<1>14. SameCells(p.chunks[h].cells, new, base, len)
  BY <1>4, <1>10
<1>15. OnlyWrites(p, q, h, base, len) /\ q.chunks[h].cells = new
  BY <1>3, <1>11, <1>14, CellsWritten
<1>16. StackOK(q, t)
  <2>1. t.size <= t.capacity /\ t.capacity > 0
    BY <1>1, <1>3, <1>6, <1>12
  <2>2. h \in 1 .. Len(q.chunks) /\ q.chunks[h].size = p.chunks[h].size
    BY <1>3, <1>15, Zenon DEF OnlyWrites
  <2>3. o + AlignUp(t.capacity) <= q.chunks[h].size
    BY <1>3, <1>12, <2>2, Zenon
  <2>4. t.at = <<h, o>>
    BY <1>3, <1>12
  <2> QED BY <1>12, <2>1, <2>2, <2>3, <2>4, BlockOK
<1>17. ASSUME NEW u, StackOK(p, u), Apart(s, u)
       PROVE  StackKept(p, q, u) /\ Apart(t, u)
  <2>1. Apart(t, u)
    BY <1>12, <1>17, Zenon DEF Apart
  <2>2. Outside(u, h, base, len)
    <3>1. CASE u.at = NULL \/ h # u.at[1]
      BY <3>1, Zenon DEF Outside
    <3>2. CASE u.at # NULL /\ h = u.at[1]
      <4>1. PICK b \in Nat, m \in Nat : b = u.at[2] /\ m = AlignUp(u.capacity)
        BY <1>17, <3>2, BlockIs
      <4>2. o + n <= b \/ b + m <= o
        BY <1>2, <1>3, <1>17, <3>2, <4>1, Zenon DEF Apart
      <4>3. base + len <= b \/ b + m <= base
        BY <1>5, <1>7, <4>2
      <4> QED BY <4>1, <4>3, Zenon DEF Outside
    <3> QED BY <3>1, <3>2
  <2>3. StackKept(p, q, u)
    BY <1>15, <1>17, <2>2, WriteKeeps
  <2> QED BY <2>1, <2>3
<1>18. Serves(p, s, q, t)
  <2>1. PoolOK(q)
    BY <1>15 DEF OnlyWrites
  <2> QED BY <1>16, <1>17, <2>1, Zenon DEF Serves
<1>19. Bytes(q, t) = Bytes(p, s) \o values
  <2> DEFINE a == Bytes(q, t)
             b == Bytes(p, s)
  <2>1. a \in Seq(Item) /\ Len(a) = size + len
    BY <1>12, <1>16, <1>18, BytesAre DEF Serves
  <2>2. b \in Seq(Item) /\ Len(b) = size
    BY <1>3, BytesAre
  <2>3. \A k \in 1 .. size + len : a[k] = new[o + k]
    <3>1. a = [k \in 1 .. size + len |-> new[o + k]]
      <4>1. t.size = size + len /\ t.at[1] = h /\ t.at[2] = o
        BY <1>3, <1>12, Zenon
      <4> QED BY <1>15, <4>1, Zenon DEF Bytes
    <3> QED BY <3>1
  <2>4. \A k \in 1 .. size : b[k] = old[o + k]
    <3>1. b = [k \in 1 .. size |-> old[o + k]]
      BY <1>3, <1>4, Zenon DEF Bytes
    <3> QED BY <3>1
  <2> HIDE DEF a, b
  <2> DEFINE c == b \o values
  <2>5. c \in Seq(Item) /\ Len(c) = size + len
        /\ \A k \in 1 .. size + len : c[k] = IF k <= size THEN b[k] ELSE values[k - size]
    BY <1>1, <2>2, ConcatProperties
  <2> HIDE DEF c
  <2>6. \A k \in 1 .. size + len : a[k] = c[k]
    <3>1. TAKE k \in 1 .. size + len
    <3>2. CASE k <= size
      <4>1. o + k \in 1 .. Len(old) /\ o + k <= base /\ k \in 1 .. size
        BY <1>5, <1>8, <3>2
      <4>2. new[o + k] = old[o + k]
        BY <1>10, <4>1, Zenon DEF SameCells
      <4> QED BY <2>3, <2>4, <2>5, <3>2, <4>1, <4>2
    <3>3. CASE ~(k <= size)
      <4>1. k - size \in 1 .. len /\ base + (k - size) = o + k
        BY <1>5, <3>3
      <4>2. new[o + k] = values[k - size]
        BY <1>10, <4>1
      <4> QED BY <2>3, <2>5, <3>3, <4>2
    <3> QED BY <3>2, <3>3
  <2>7. a = c
    BY <2>1, <2>5, <2>6, SeqEqual
  <2> QED BY <2>7 DEF a, b, c
<1>20. t.size = s.size + Len(values)
  BY <1>1, <1>3, <1>12
<1> QED BY <1>13, <1>18, <1>19, <1>20, Zenon

LEMMA PushPushes ==
    ASSUME NEW p, PoolOK(p), NEW s, StackOK(p, s), NEW values \in Seq(Item), values # <<>>
    PROVE  \E q, t : PushGives(p, s, values, q, t)
<1>1. PICK len \in Nat : len = Len(values)
  BY LenProperties
<1>2. PICK m, u : ReserveServes(p, s, len, m, u)
  BY ReserveGives
<1>3. /\ Reserve(p, s, Len(values)) = [pool |-> m, stack |-> u]
      /\ Serves(p, s, m, u) /\ Bytes(m, u) = Bytes(p, s)
      /\ u.size = s.size /\ u.size + Len(values) <= u.capacity /\ PoolOK(m) /\ StackOK(m, u)
  BY <1>1, <1>2, Zenon DEF ReserveServes, Serves
<1>4. PICK q, t : /\ PushUnsafe([pool |-> m, stack |-> u], values) = [pool |-> q, stack |-> t]
                  /\ Serves(m, u, q, t) /\ t.size = u.size + Len(values)
                  /\ Bytes(q, t) = Bytes(m, u) \o values
  BY <1>3, PushUnsafeGives
<1>5. Push(p, s, values) = [pool |-> q, stack |-> t]
  BY <1>3, <1>4, Zenon DEF Push
<1>6. Serves(p, s, q, t)
  BY <1>3, <1>4, ServesTwice
<1>7. PushGives(p, s, values, q, t)
  BY <1>3, <1>4, <1>5, <1>6, Zenon DEF PushGives
<1> QED BY <1>7, Zenon

LEMMA FrontIs ==
    ASSUME NEW b \in Seq(Item), Len(b) > 0
    PROVE  Front(b) \in Seq(Item) /\ Len(Front(b)) = Len(b) - 1
           /\ \A k \in 1 .. Len(b) - 1 : Front(b)[k] = b[k]
<1>1. PICK n \in Nat : n = Len(b) - 1 /\ n <= Len(b)
  <2>1. Len(b) \in Nat
    BY LenProperties
  <2>2. Len(b) - 1 \in Nat /\ Len(b) - 1 <= Len(b)
    BY <2>1
  <2> QED BY <2>2
<1>2. /\ SubSeq(b, 1, n) \in Seq(Item) /\ Len(SubSeq(b, 1, n)) = n
      /\ \A i \in 1 .. n : SubSeq(b, 1, n)[i] = b[i]
  BY <1>1, FirstPart
<1> QED BY <1>1, <1>2, Zenon DEF Front

LEMMA FrontOfConcat ==
    ASSUME NEW b \in Seq(Item), NEW c \in Item
    PROVE  Front(b \o <<c>>) = b
<1> DEFINE a == b \o <<c>>
           f == Front(a)
<1>1. PICK n \in Nat : n = Len(b)
  BY LenProperties
<1>2. a \in Seq(Item) /\ Len(a) = n + 1 /\ \A k \in 1 .. n : a[k] = b[k]
  <2>1. <<c>> \in Seq(Item) /\ Len(<<c>>) = 1
    OBVIOUS
  <2> QED BY <1>1, <2>1, ConcatProperties
<1> HIDE DEF a
<1>3. f \in Seq(Item) /\ Len(f) = n /\ \A k \in 1 .. n : f[k] = a[k]
  <2>1. Len(a) > 0 /\ Len(a) - 1 = n
    BY <1>1, <1>2
  <2>2. /\ f \in Seq(Item) /\ Len(f) = Len(a) - 1
        /\ \A k \in 1 .. Len(a) - 1 : f[k] = a[k]
    BY <1>2, <2>1, FrontIs
  <2> QED BY <2>1, <2>2, Zenon
<1> HIDE DEF f
<1>4. f = b
  BY <1>1, <1>2, <1>3, SeqEqual
<1> QED BY <1>4 DEF a, f

LEMMA PopPops ==
    ASSUME NEW p, PoolOK(p), NEW s, StackOK(p, s), s.size > 0
    PROVE  Serves(p, s, p, Pop(s, 1)) /\ Bytes(p, Pop(s, 1)) = Front(Bytes(p, s))
<1>1. PICK n \in Nat : s.size = n + 1 /\ n <= s.capacity /\ n = s.size - 1
  <2>1. s.size \in Nat /\ s.capacity \in Nat /\ s.size <= s.capacity
    BY DEF StackOK, StackRecords
  <2>2. s.size - 1 \in Nat /\ s.size = (s.size - 1) + 1 /\ s.size - 1 <= s.capacity
    BY <2>1
  <2> QED BY <2>2
<1> DEFINE t == Pop(s, 1)
<1>2. t \in StackRecords /\ t.at = s.at /\ t.size = n /\ t.capacity = s.capacity
  <2>1. s \in StackRecords
    BY DEF StackOK
  <2>2. t = [s EXCEPT !.size = n]
    BY <1>1 DEF Pop
  <2> HIDE DEF t
  <2> QED BY <2>1, <2>2, SizedStack
<1> HIDE DEF t
<1>3. Serves(p, s, p, t)
  BY <1>1, <1>2, SameBlockServes
<1> DEFINE a == Bytes(p, t)
           b == Bytes(p, s)
           f == Front(b)
<1>4. a \in Seq(Item) /\ Len(a) = n
  BY <1>2, <1>3, BytesAre DEF Serves
<1>5. b \in Seq(Item) /\ Len(b) = n + 1
  BY <1>1, BytesAre
<1>6. \A k \in 1 .. n : a[k] = b[k]
  <2>1. TAKE k \in 1 .. n
  <2>2. a = [j \in 1 .. n |-> p.chunks[s.at[1]].cells[s.at[2] + j]]
    BY <1>2, Zenon DEF Bytes
  <2>3. b = [j \in 1 .. n + 1 |-> p.chunks[s.at[1]].cells[s.at[2] + j]]
    BY <1>1, Zenon DEF Bytes
  <2>4. k \in 1 .. n + 1
    OBVIOUS
  <2> HIDE DEF a, b
  <2> QED BY <2>2, <2>3, <2>4, Zenon
<1> HIDE DEF a, b
<1>7. f \in Seq(Item) /\ Len(f) = n /\ \A k \in 1 .. n : f[k] = b[k]
  BY <1>5, FrontIs
<1> HIDE DEF f
<1>8. a = f
  BY <1>4, <1>6, <1>7, SeqEqual
<1> QED BY <1>3, <1>8 DEF a, b, f, t

LEMMA ClearClears ==
    ASSUME NEW p, PoolOK(p), NEW s, StackOK(p, s)
    PROVE  Serves(p, s, p, Clear(s)) /\ Bytes(p, Clear(s)) = <<>>
<1> DEFINE t == Clear(s)
<1>1. t \in StackRecords /\ t.at = s.at /\ t.size = 0 /\ t.capacity = s.capacity /\ 0 <= s.capacity
  <2>1. s \in StackRecords /\ s.capacity \in Nat
    BY DEF StackOK, StackRecords
  <2>2. t = [s EXCEPT !.size = 0]
    BY DEF Clear
  <2> HIDE DEF t
  <2> QED BY <2>1, <2>2, SizedStack
<1> HIDE DEF t
<1>2. Serves(p, s, p, t)
  BY <1>1, SameBlockServes
<1>3. Bytes(p, t) = <<>>
  BY <1>1 DEF Bytes
<1> QED BY <1>2, <1>3 DEF t

LEMMA ShrinkShrinks ==
    ASSUME NEW p, PoolOK(p), NEW s, StackOK(p, s)
    PROVE  \E q, t : /\ ShrinkToFit(p, s) = [pool |-> q, stack |-> t] /\ Serves(p, s, q, t)
                     /\ Bytes(q, t) = Bytes(p, s) /\ t.size = s.size
<1>1. CASE s.size = 0
  <2>1. PICK t : t = [s EXCEPT !.at = NULL, !.capacity = 0] /\ IsMoved(s, t, NULL, 0)
    <3>1. s \in StackRecords
      BY DEF StackOK
    <3> QED BY <3>1, MovedStack
  <2>2. t \in StackRecords /\ t.at = NULL /\ t.size = s.size /\ t.capacity = 0
    BY <2>1 DEF IsMoved
  <2>3. StackOK(p, t)
    BY <1>1, <2>2 DEF StackOK
  <2>4. Serves(p, s, p, t)
    BY <2>2, <2>3, Zenon DEF Serves, StackKept, Apart
  <2>5. Bytes(p, t) = Bytes(p, s)
    BY <1>1, <2>2 DEF Bytes
  <2>6. ShrinkToFit(p, s) = [pool |-> p, stack |-> t]
    BY <1>1, <2>1, Zenon DEF ShrinkToFit
  <2> QED BY <2>2, <2>4, <2>5, <2>6, Zenon
<1>2. CASE s.size # 0
  <2>1. s.size \in Nat /\ s.size > 0 /\ s.size <= s.size
    BY <1>2 DEF StackOK, StackRecords
  <2>2. PICK q, t : ResizeServes(p, s, s.size, q, t)
    BY <2>1, ResizeGives
  <2>3. ShrinkToFit(p, s) = [pool |-> q, stack |-> t]
    BY <1>2, <2>2, Zenon DEF ShrinkToFit, ResizeServes
  <2> QED BY <2>2, <2>3, Zenon DEF ResizeServes
<1> QED BY <1>1, <1>2

\* A NUL is pushed, and the stack has the bytes that it had when it is popped.
LEMMA PoppedAgain ==
    ASSUME NEW p, NEW s, PoolOK(p), StackOK(p, s), NEW q, NEW t, Serves(p, s, q, t),
           t.size = s.size + 1, Bytes(q, t) = Bytes(p, s) \o << 0 >>
    PROVE  Serves(p, s, q, Pop(t, 1)) /\ Bytes(q, Pop(t, 1)) = Bytes(p, s)
<1>1. PoolOK(q) /\ StackOK(q, t)
  BY Zenon DEF Serves
<1>2. t.size > 0
  <2>1. s.size \in Nat
    BY DEF StackOK, StackRecords
  <2> QED BY <2>1
<1>3. Serves(q, t, q, Pop(t, 1)) /\ Bytes(q, Pop(t, 1)) = Front(Bytes(q, t))
  BY <1>1, <1>2, PopPops
<1>4. Serves(p, s, q, Pop(t, 1))
  BY <1>3, ServesTwice
<1>5. Bytes(p, s) \in Seq(Item) /\ 0 \in Item
  BY BytesAre DEF Item
<1>6. Front(Bytes(p, s) \o << 0 >>) = Bytes(p, s)
  BY <1>5, FrontOfConcat
<1> QED BY <1>3, <1>4, <1>6, Zenon

LEMMA NulPushed ==
    ASSUME NEW p, PoolOK(p), NEW s, StackOK(p, s)
    PROVE  \E q, t : /\ Push(p, s, << 0 >>) = [pool |-> q, stack |-> t] /\ Serves(p, s, q, t)
                     /\ t.size = s.size + 1 /\ Bytes(q, t) = Bytes(p, s) \o << 0 >>
<1>1. 0 \in Item
  BY DEF Item
<1>2. PICK nul \in Seq(Item) : nul = << 0 >> /\ nul # <<>> /\ Len(nul) = 1
  <2>1. << 0 >> \in Seq(Item) /\ << 0 >> # <<>> /\ Len(<< 0 >>) = 1
    BY <1>1
  <2> QED BY <2>1
<1>3. PICK q, t : PushGives(p, s, nul, q, t)
  BY <1>2, PushPushes
<1> QED BY <1>2, <1>3, Zenon DEF PushGives

LEMMA GetStringGives ==
    ASSUME NEW p, PoolOK(p), NEW s, StackOK(p, s)
    PROVE  Gives(p, s, GetString(p, s), Bytes(p, s))
<1>1. PICK q, t : /\ Push(p, s, << 0 >>) = [pool |-> q, stack |-> t] /\ Serves(p, s, q, t)
                  /\ t.size = s.size + 1 /\ Bytes(q, t) = Bytes(p, s) \o << 0 >>
  BY NulPushed
<1>2. Serves(p, s, q, Pop(t, 1)) /\ Bytes(q, Pop(t, 1)) = Bytes(p, s)
  BY <1>1, PoppedAgain
<1>3. GetString(p, s) = [pool |-> q, stack |-> Pop(t, 1)]
  BY <1>1 DEF GetString, Popped
<1> QED BY <1>2, <1>3, Zenon DEF Gives

LEMMA ShrinkBufferGives ==
    ASSUME NEW p, PoolOK(p), NEW s, StackOK(p, s)
    PROVE  Gives(p, s, ShrinkBuffer(p, s), Bytes(p, s))
<1>1. PICK q, t : /\ Push(p, s, << 0 >>) = [pool |-> q, stack |-> t] /\ Serves(p, s, q, t)
                  /\ t.size = s.size + 1 /\ Bytes(q, t) = Bytes(p, s) \o << 0 >>
  BY NulPushed
<1>2. PoolOK(q) /\ StackOK(q, t)
  BY <1>1 DEF Serves
<1>3. PICK r, u : /\ ShrinkToFit(q, t) = [pool |-> r, stack |-> u] /\ Serves(q, t, r, u)
                  /\ Bytes(r, u) = Bytes(q, t) /\ u.size = t.size
  BY <1>2, ShrinkShrinks
<1>4. Serves(p, s, r, u)
  BY <1>1, <1>3, ServesTwice
<1>5. Serves(p, s, r, Pop(u, 1)) /\ Bytes(r, Pop(u, 1)) = Bytes(p, s)
  BY <1>1, <1>3, <1>4, PoppedAgain
<1>6. ShrinkBuffer(p, s) = [pool |-> r, stack |-> Pop(u, 1)]
  BY <1>1, <1>3 DEF ShrinkBuffer, Shrunk, Popped
<1> QED BY <1>5, <1>6, Zenon DEF Gives

-----------------------------------------------------------------------------
(* The two stacks in the pool.                                             *)

PoolInv ==
    /\ PoolOK(pool)
    /\ stacks = <<stacks[1], stacks[2]>> /\ lists = <<lists[1], lists[2]>>
    /\ \A i \in 1 .. 2 : StackOK(pool, stacks[i]) /\ Bytes(pool, stacks[i]) = lists[i]
    /\ Apart(stacks[1], stacks[2])

LEMMA PoolStarts == PoolInit => PoolInv
<1> SUFFICES ASSUME PoolInit PROVE PoolInv
  OBVIOUS
<1>1. PICK chunk \in Capacities, initial \in Capacities :
         pool = Pool(chunk) /\ stacks = <<Stack(initial), Stack(initial)>>
  BY DEF PoolInit
<1>2. lists = <<<<>>, <<>>>>
  BY DEF PoolInit
<1>3. chunk \in Nat /\ initial \in Nat
  BY StreamsAssumption
<1>4. PoolOK(pool)
  <2>1. <<>> \in Seq(ChunkRecords) /\ Len(<<>>) = 0
    BY EmptySeq
  <2>2. pool = [chunkCapacity |-> chunk, chunks |-> <<>>]
    BY <1>1 DEF Pool
  <2>3. pool \in PoolRecords /\ pool.chunks = <<>>
    BY <1>3, <2>1, <2>2 DEF PoolRecords
  <2>4. 1 .. 0 = {}
    OBVIOUS
  <2> QED BY <2>1, <2>3, <2>4, Zenon DEF PoolOK
<1>5. PICK s : s = Stack(initial) /\ s \in StackRecords /\ s.at = NULL /\ s.size = 0 /\ s.capacity = 0
  <2> DEFINE s == Stack(initial)
  <2>1. s = [at |-> NULL, size |-> 0, capacity |-> 0, initial |-> initial]
    BY DEF Stack
  <2> HIDE DEF s
  <2>2. s \in StackRecords
    BY <1>3, <2>1 DEF StackRecords, NULL
  <2>3. s.at = NULL /\ s.size = 0 /\ s.capacity = 0
    BY <2>1
  <2> QED BY <2>2, <2>3, Zenon DEF s
<1>6. StackOK(pool, s) /\ Bytes(pool, s) = <<>> /\ Apart(s, s)
  <2>1. StackOK(pool, s)
    BY <1>5 DEF StackOK
  <2>2. Bytes(pool, s) = <<>>
    BY <1>5, <2>1, NoBytes
  <2> QED BY <1>5, <2>1, <2>2 DEF Apart
<1>7. stacks = <<s, s>>
  BY <1>1, <1>5, Zenon
<1>8. stacks[1] = s /\ stacks[2] = s /\ lists[1] = <<>> /\ lists[2] = <<>>
  BY <1>2, <1>7
<1>9. \A i \in 1 .. 2 : i = 1 \/ i = 2
  OBVIOUS
<1> QED BY <1>2, <1>4, <1>6, <1>7, <1>8, <1>9, Zenon DEF PoolInv

\* An operation on one of the two.
LEMMA OneServed ==
    ASSUME PoolInv, NEW i \in 1 .. 2, NEW r, NEW bytes, Gives(pool, stacks[i], r, bytes),
           pool' = r.pool, stacks' = [stacks EXCEPT ![i] = r.stack],
           lists' = [lists EXCEPT ![i] = bytes]
    PROVE  PoolInv'
<1>1. PICK q, t : /\ r = [pool |-> q, stack |-> t] /\ Serves(pool, stacks[i], q, t)
                  /\ Bytes(q, t) = bytes
  BY DEF Gives
<1>2. pool' = q /\ stacks' = [stacks EXCEPT ![i] = t]
  BY <1>1
<1>3. PICK j \in 1 .. 2 : j = 3 - i /\ j # i
  OBVIOUS
<1>4. Apart(stacks[i], stacks[j])
  <2>1. (i = 1 /\ j = 2) \/ (i = 2 /\ j = 1)
    BY <1>3
  <2> QED BY <2>1, ApartTurns DEF PoolInv
<1>5. StackKept(pool, q, stacks[j]) /\ Apart(t, stacks[j])
  <2>1. StackOK(pool, stacks[j])
    BY DEF PoolInv
  <2> QED BY <1>1, <1>4, <2>1, Zenon DEF Serves
<1>6. /\ stacks'[i] = t /\ stacks'[j] = stacks[j] /\ stacks' = <<stacks'[1], stacks'[2]>>
      /\ lists'[i] = bytes /\ lists'[j] = lists[j] /\ lists' = <<lists'[1], lists'[2]>>
  BY <1>2, <1>3 DEF PoolInv
<1>7. PoolOK(q) /\ StackOK(q, t)
  BY <1>1 DEF Serves
<1>8. Bytes(q, stacks[j]) = lists[j] /\ StackOK(q, stacks[j])
  BY <1>5, Zenon DEF StackKept, PoolInv
<1>9. StackOK(pool', stacks'[i]) /\ Bytes(pool', stacks'[i]) = lists'[i]
  BY <1>1, <1>2, <1>6, <1>7, Zenon
<1>10. StackOK(pool', stacks'[j]) /\ Bytes(pool', stacks'[j]) = lists'[j]
  BY <1>2, <1>6, <1>8, Zenon
<1>11. \A k \in 1 .. 2 : k = i \/ k = j
  BY <1>3
<1>12. Apart(stacks'[1], stacks'[2])
  <2>1. (i = 1 /\ j = 2) \/ (i = 2 /\ j = 1)
    BY <1>3
  <2>2. Apart(stacks'[i], stacks'[j]) /\ Apart(stacks'[j], stacks'[i])
    BY <1>5, <1>6, ApartTurns
  <2> QED BY <2>1, <2>2, Zenon
<1> QED BY <1>2, <1>6, <1>7, <1>9, <1>10, <1>11, <1>12, Zenon DEF PoolInv

\* An operation that leaves the bytes of the stack as they are.
LEMMA SameServed ==
    ASSUME PoolInv, NEW i \in 1 .. 2, NEW r, Gives(pool, stacks[i], r, Bytes(pool, stacks[i])),
           OnStack(i, r), UNCHANGED lists
    PROVE  PoolInv'
<1>1. pool' = r.pool /\ stacks' = [stacks EXCEPT ![i] = r.stack]
  BY DEF OnStack
<1>2. Bytes(pool, stacks[i]) = lists[i]
  BY DEF PoolInv
<1>3. lists = <<lists[1], lists[2]>>
  BY DEF PoolInv
<1>4. lists = [lists EXCEPT ![i] = lists[i]]
  BY <1>3
<1>5. lists' = [lists EXCEPT ![i] = Bytes(pool, stacks[i])]
  BY <1>2, <1>4
<1> QED BY <1>1, <1>5, OneServed

\* An operation that leaves the pool as it is.
LEMMA TopServed ==
    ASSUME PoolInv, NEW i \in 1 .. 2, NEW t, NEW bytes, OnTop(i, t),
           Serves(pool, stacks[i], pool, t), Bytes(pool, t) = bytes,
           lists' = [lists EXCEPT ![i] = bytes]
    PROVE  PoolInv'
<1> DEFINE r == [pool |-> pool, stack |-> t]
<1>1. r.pool = pool /\ r.stack = t
  OBVIOUS
<1>2. Gives(pool, stacks[i], r, bytes)
  BY Zenon DEF Gives
<1> HIDE DEF r
<1>3. pool' = r.pool /\ stacks' = [stacks EXCEPT ![i] = r.stack]
  BY <1>1 DEF OnTop
<1> QED BY <1>2, <1>3, OneServed

LEMMA StackIs ==
    ASSUME PoolInv, NEW i \in 1 .. 2
    PROVE  PoolOK(pool) /\ StackOK(pool, stacks[i]) /\ Bytes(pool, stacks[i]) = lists[i]
  BY Zenon DEF PoolInv

LEMMA PushBytesKeeps ==
    ASSUME PoolInv, NEW i \in 1 .. 2, PushBytes(i)
    PROVE  PoolInv'
<1>1. PICK values \in PushedBytes :
          OnStack(i, Push(pool, stacks[i], values)) /\ lists' = [lists EXCEPT ![i] = @ \o values]
  BY DEF PushBytes
<1>2. values \in Seq(Item) /\ values # <<>>
  BY StreamsAssumption DEF Item
<1>3. PoolOK(pool) /\ StackOK(pool, stacks[i]) /\ Bytes(pool, stacks[i]) = lists[i]
  BY StackIs
<1>4. PICK q, t : PushGives(pool, stacks[i], values, q, t)
  BY <1>2, <1>3, PushPushes
<1> DEFINE r == Push(pool, stacks[i], values)
           bytes == lists[i] \o values
<1>5. Gives(pool, stacks[i], r, bytes)
  BY <1>3, <1>4, Zenon DEF Gives, PushGives
<1>6. pool' = r.pool /\ stacks' = [stacks EXCEPT ![i] = r.stack]
  BY <1>1 DEF OnStack
<1>7. lists' = [lists EXCEPT ![i] = bytes]
  BY <1>1
<1> HIDE DEF r, bytes
<1> QED BY <1>5, <1>6, <1>7, OneServed

LEMMA PopByteKeeps ==
    ASSUME PoolInv, NEW i \in 1 .. 2, PopByte(i)
    PROVE  PoolInv'
<1>1. PoolOK(pool) /\ StackOK(pool, stacks[i]) /\ Bytes(pool, stacks[i]) = lists[i]
  BY StackIs
<1>2. /\ stacks[i].size > 0 /\ OnTop(i, Pop(stacks[i], 1))
      /\ lists' = [lists EXCEPT ![i] = Front(lists[i])]
  BY DEF PopByte
<1> DEFINE t == Pop(stacks[i], 1)
           bytes == Front(lists[i])
<1>3. Serves(pool, stacks[i], pool, t) /\ Bytes(pool, t) = bytes
  BY <1>1, <1>2, PopPops
<1>4. OnTop(i, t) /\ lists' = [lists EXCEPT ![i] = bytes]
  BY <1>2
<1> HIDE DEF t, bytes
<1> QED BY <1>3, <1>4, TopServed

LEMMA ClearStackKeeps ==
    ASSUME PoolInv, NEW i \in 1 .. 2, ClearStack(i)
    PROVE  PoolInv'
<1>1. PoolOK(pool) /\ StackOK(pool, stacks[i])
  BY StackIs
<1> DEFINE t == Clear(stacks[i])
<1>2. Serves(pool, stacks[i], pool, t) /\ Bytes(pool, t) = <<>>
  BY <1>1, ClearClears
<1>3. OnTop(i, t) /\ lists' = [lists EXCEPT ![i] = <<>>]
  BY DEF ClearStack
<1> HIDE DEF t
<1> QED BY <1>2, <1>3, TopServed

LEMMA ReserveBytesKeeps ==
    ASSUME PoolInv, NEW i \in 1 .. 2, ReserveBytes(i)
    PROVE  PoolInv'
<1>1. PICK n \in Counts : OnStack(i, Reserve(pool, stacks[i], n)) /\ UNCHANGED lists
  BY DEF ReserveBytes
<1>2. n \in Nat /\ PoolOK(pool) /\ StackOK(pool, stacks[i])
  BY StackIs, StreamsAssumption
<1>3. PICK q, t : ReserveServes(pool, stacks[i], n, q, t)
  BY <1>2, ReserveGives
<1> DEFINE r == Reserve(pool, stacks[i], n)
<1>4. Gives(pool, stacks[i], r, Bytes(pool, stacks[i]))
  BY <1>3, Zenon DEF Gives, ReserveServes
<1>5. OnStack(i, r) /\ UNCHANGED lists
  BY <1>1
<1> HIDE DEF r
<1> QED BY <1>4, <1>5, SameServed

LEMMA ShrinkStackKeeps ==
    ASSUME PoolInv, NEW i \in 1 .. 2, ShrinkStack(i)
    PROVE  PoolInv'
<1>1. PoolOK(pool) /\ StackOK(pool, stacks[i])
  BY StackIs
<1> DEFINE r == ShrinkToFit(pool, stacks[i])
<1>2. PICK q, t : /\ r = [pool |-> q, stack |-> t] /\ Serves(pool, stacks[i], q, t)
                  /\ Bytes(q, t) = Bytes(pool, stacks[i]) /\ t.size = stacks[i].size
  BY <1>1, ShrinkShrinks
<1>3. OnStack(i, r) /\ UNCHANGED lists
  BY DEF ShrinkStack
<1> HIDE DEF r
<1>4. Gives(pool, stacks[i], r, Bytes(pool, stacks[i]))
  BY <1>2, Zenon DEF Gives
<1> QED BY <1>3, <1>4, SameServed

LEMMA GetBufferKeeps ==
    ASSUME PoolInv, NEW i \in 1 .. 2, GetBuffer(i)
    PROVE  PoolInv'
<1>1. PoolOK(pool) /\ StackOK(pool, stacks[i])
  BY StackIs
<1>2. Gives(pool, stacks[i], GetString(pool, stacks[i]), Bytes(pool, stacks[i]))
  BY <1>1, GetStringGives
<1>3. OnStack(i, GetString(pool, stacks[i])) /\ UNCHANGED lists
  BY DEF GetBuffer
<1> QED BY <1>2, <1>3, SameServed

LEMMA ShrinkStringKeeps ==
    ASSUME PoolInv, NEW i \in 1 .. 2, ShrinkString(i)
    PROVE  PoolInv'
<1>1. PoolOK(pool) /\ StackOK(pool, stacks[i])
  BY StackIs
<1>2. Gives(pool, stacks[i], ShrinkBuffer(pool, stacks[i]), Bytes(pool, stacks[i]))
  BY <1>1, ShrinkBufferGives
<1>3. OnStack(i, ShrinkBuffer(pool, stacks[i])) /\ UNCHANGED lists
  BY DEF ShrinkString
<1> QED BY <1>2, <1>3, SameServed

LEMMA SwapStacksKeeps ==
    ASSUME PoolInv, SwapStacks
    PROVE  PoolInv'
<1>1. stacks' = <<stacks[2], stacks[1]>> /\ lists' = <<lists[2], lists[1]>> /\ pool' = pool
  BY DEF SwapStacks
<1>2. /\ stacks'[1] = stacks[2] /\ stacks'[2] = stacks[1]
      /\ lists'[1] = lists[2] /\ lists'[2] = lists[1]
  BY <1>1
<1>3. \A i \in 1 .. 2 : i = 1 \/ i = 2
  OBVIOUS
<1>4. 1 \in 1 .. 2 /\ 2 \in 1 .. 2
  OBVIOUS
<1>5. /\ PoolOK(pool) /\ StackOK(pool, stacks[1]) /\ Bytes(pool, stacks[1]) = lists[1]
      /\ StackOK(pool, stacks[2]) /\ Bytes(pool, stacks[2]) = lists[2]
  BY <1>4, Zenon DEF PoolInv
<1>6. \A i \in 1 .. 2 : StackOK(pool', stacks'[i]) /\ Bytes(pool', stacks'[i]) = lists'[i]
  BY <1>1, <1>2, <1>3, <1>5, Zenon
<1>7. Apart(stacks'[1], stacks'[2])
  BY <1>2, ApartTurns DEF PoolInv
<1> QED BY <1>1, <1>2, <1>5, <1>6, <1>7, Zenon DEF PoolInv

LEMMA PoolSteps == PoolInv /\ PoolNext => PoolInv'
<1> SUFFICES ASSUME PoolInv, PoolNext PROVE PoolInv'
  OBVIOUS
<1>1. CASE SwapStacks
  BY <1>1, SwapStacksKeeps
<1>2. ASSUME NEW i \in 1 .. 2,
             \/ PushBytes(i) \/ PopByte(i) \/ ClearStack(i) \/ ReserveBytes(i)
             \/ ShrinkStack(i) \/ GetBuffer(i) \/ ShrinkString(i)
      PROVE  PoolInv'
  BY <1>2, PushBytesKeeps, PopByteKeeps, ClearStackKeeps, ReserveBytesKeeps, ShrinkStackKeeps,
     GetBufferKeeps, ShrinkStringKeeps, Zenon
<1> QED BY <1>1, <1>2, Zenon DEF PoolNext

-----------------------------------------------------------------------------
(* Induction over the natural numbers, as facts about sets, and what it    *)
(* gives of recursive functions.                                           *)

LEMMA StrongInduction ==
    ASSUME NEW S, \A n \in Nat : (\A m \in 0 .. n - 1 : m \in S) => n \in S
    PROVE  Nat \subseteq S
<1> DEFINE T == Nat \ S
           R == OpToRel(<, Nat)
<1>1. SUFFICES ASSUME T # {} PROVE FALSE
  OBVIOUS
<1>2. PICK x \in T : \A y \in T : ~(<<y, x>> \in R)
  <2>1. IsWellFoundedOn(R, Nat)
    BY NatLessThanWellFounded
  <2>2. T \subseteq Nat
    OBVIOUS
  <2> HIDE DEF T, R
  <2> QED BY <1>1, <2>1, <2>2, WFMin
<1>3. ASSUME NEW m \in 0 .. x - 1 PROVE m \in S
  <2>1. <<m, x>> \in R
    BY <1>2 DEF OpToRel
  <2> HIDE DEF R
  <2> QED BY <1>2, <2>1
<1> HIDE DEF R
<1> QED BY <1>2, <1>3

LEMMA Induction ==
    ASSUME NEW S, 0 \in S, \A n \in Nat : n \in S => n + 1 \in S
    PROVE  Nat \subseteq S
<1>1. ASSUME NEW n \in Nat, \A m \in 0 .. n - 1 : m \in S
      PROVE  n \in S
  <2>1. CASE n = 0
    BY <2>1
  <2>2. CASE n # 0
    <3>1. n - 1 \in Nat /\ n - 1 \in 0 .. n - 1 /\ (n - 1) + 1 = n
      BY <2>2
    <3>2. n - 1 \in S => (n - 1) + 1 \in S
      BY <3>1
    <3> QED BY <1>1, <3>1, <3>2
  <2> QED BY <2>1, <2>2
<1> QED BY <1>1, StrongInduction

\* A sequence of values from a on, each of which F makes of the one before.
IsRecursive(s, X, a, N, F) ==
    /\ s \in [0 .. N -> X]
    /\ s[0] = a
    /\ \A k \in 1 .. N : s[k] = F[<<s[k - 1], k>>]
HasRecursion(X, a, N, F) == \E s : IsRecursive(s, X, a, N, F)

LEMMA Recursion ==
    ASSUME NEW X, NEW a \in X, NEW N \in Nat, NEW F \in [X \X (1 .. N) -> X]
    PROVE  HasRecursion(X, a, N, F)
<1> DEFINE Is(s, n) == /\ s \in [0 .. n -> X]
                       /\ s[0] = a
                       /\ \A k \in 1 .. n : s[k] = F[<<s[k - 1], k>>]
           S == {n \in Nat : n <= N => \E s \in [0 .. n -> X] : Is(s, n)}
<1>1. 0 \in S
  <2> DEFINE s == [k \in 0 .. 0 |-> a]
  <2>1. Is(s, 0)
    OBVIOUS
  <2> QED BY <2>1
<1>2. ASSUME NEW n \in Nat, n \in S PROVE n + 1 \in S
  <2> SUFFICES ASSUME n + 1 <= N PROVE \E s \in [0 .. n + 1 -> X] : Is(s, n + 1)
    OBVIOUS
  <2>1. PICK s \in [0 .. n -> X] : Is(s, n)
    BY <1>2
  <2> DEFINE t == [k \in 0 .. n + 1 |-> IF k = n + 1 THEN F[<<s[n], n + 1>>] ELSE s[k]]
  <2>2. F[<<s[n], n + 1>>] \in X
    BY <2>1
  <2>3. t \in [0 .. n + 1 -> X] /\ t[0] = a
    BY <2>1, <2>2
  <2>4. ASSUME NEW k \in 1 .. n + 1 PROVE t[k] = F[<<t[k - 1], k>>]
    <3>1. k - 1 \in 0 .. n /\ t[k - 1] = s[k - 1]
      OBVIOUS
    <3>2. CASE k = n + 1
      <4>1. t[k] = F[<<s[n], n + 1>>] /\ k - 1 = n
        BY <3>2
      <4> HIDE DEF t
      <4> QED BY <3>1, <3>2, <4>1
    <3>3. CASE k # n + 1
      <4>1. t[k] = s[k] /\ k \in 1 .. n
        BY <3>3
      <4> HIDE DEF t
      <4> QED BY <2>1, <3>1, <4>1
    <3> QED BY <3>2, <3>3
  <2>5. Is(t, n + 1)
    BY <2>3, <2>4
  <2> HIDE DEF t, Is
  <2> QED BY <2>3, <2>5 DEF Is
<1>3. Nat \subseteq S
  <2> HIDE DEF S
  <2> QED BY <1>1, <1>2, Induction
<1>4. N \in S
  BY <1>3, Zenon
<1> QED BY <1>4 DEF HasRecursion, IsRecursive


(* What the chunks have and have given out, in sum.                        *)

IsSum(s, N, f) ==
    s \in [0 .. N -> Nat] /\ s[0] = 0 /\ \A k \in 1 .. N : s[k] = s[k - 1] + f[k]
HasSum(N, f) == \E s : IsSum(s, N, f)
SumsUp(total, s, N, f) == total = s[N] /\ s[0] = 0 /\ \A k \in 1 .. N : s[k] = s[k - 1] + f[k]

LEMMA SumExists ==
    ASSUME NEW N \in Nat, NEW f \in [1 .. N -> Nat]
    PROVE  HasSum(N, f)
<1> DEFINE F == [p \in Nat \X (1 .. N) |-> p[1] + f[p[2]]]
<1>1. F \in [Nat \X (1 .. N) -> Nat]
  OBVIOUS
<1>2. PICK s \in [0 .. N -> Nat] : s[0] = 0 /\ \A k \in 1 .. N : s[k] = F[<<s[k - 1], k>>]
  <2> HIDE DEF F
  <2>1. HasRecursion(Nat, 0, N, F)
    BY <1>1, Recursion
  <2> QED BY <2>1 DEF HasRecursion, IsRecursive
<1>3. \A k \in 1 .. N : s[k] = s[k - 1] + f[k]
  <2> SUFFICES ASSUME NEW k \in 1 .. N PROVE s[k] = s[k - 1] + f[k]
    OBVIOUS
  <2>1. <<s[k - 1], k>> \in Nat \X (1 .. N)
    <3> HIDE DEF F
    <3>1. k - 1 \in 0 .. N
      OBVIOUS
    <3>2. s[k - 1] \in Nat
      BY <3>1
    <3> QED BY <3>2
  <2>2. F[<<s[k - 1], k>>] = s[k - 1] + f[k]
    BY <2>1
  <2> HIDE DEF F
  <2> QED BY <1>2, <2>2
<1> QED BY <1>2, <1>3, Zenon DEF HasSum, IsSum

\* The sum of what is less is less.
LEMMA SumsCompare ==
    ASSUME NEW N \in Nat, NEW f \in [1 .. N -> Nat], NEW g \in [1 .. N -> Nat],
           \A k \in 1 .. N : f[k] <= g[k],
           NEW s, s[0] = 0, \A k \in 1 .. N : s[k] = s[k - 1] + f[k],
           NEW t, t[0] = 0, \A k \in 1 .. N : t[k] = t[k - 1] + g[k]
    PROVE  s[N] <= t[N]
<1> DEFINE S == {n \in Nat : n <= N => s[n] \in Nat /\ t[n] \in Nat /\ s[n] <= t[n]}
<1>1. 0 \in S
  OBVIOUS
<1>2. ASSUME NEW n \in Nat, n \in S PROVE n + 1 \in S
  <2> SUFFICES ASSUME n + 1 <= N
               PROVE  s[n + 1] \in Nat /\ t[n + 1] \in Nat /\ s[n + 1] <= t[n + 1]
    OBVIOUS
  <2>1. n + 1 \in 1 .. N /\ (n + 1) - 1 = n /\ s[n] \in Nat /\ t[n] \in Nat /\ s[n] <= t[n]
    BY <1>2
  <2>2. s[n + 1] = s[n] + f[n + 1] /\ t[n + 1] = t[n] + g[n + 1]
    BY <2>1
  <2>3. f[n + 1] \in Nat /\ g[n + 1] \in Nat /\ f[n + 1] <= g[n + 1]
    BY <2>1
  <2> QED BY <2>1, <2>2, <2>3
<1>3. Nat \subseteq S
  <2> HIDE DEF S
  <2> QED BY <1>1, <1>2, Induction
<1> QED BY <1>3

LEMMA SizeSums ==
    ASSUME NEW p, NEW N \in Nat, N = Len(p.chunks), NEW f \in [1 .. N -> Nat],
           \A k \in 1 .. N : f[k] = p.chunks[k].size
    PROVE  \E s : SumsUp(PoolSize(p), s, N, f)
<1> DEFINE Is(s) == s = [k \in 0 .. N |-> IF k = 0 THEN 0 ELSE s[k - 1] + p.chunks[k].size]
<1>1. PICK u : IsSum(u, N, f)
  BY SumExists, Zenon DEF HasSum
<1>2. Is(u)
  BY <1>1 DEF IsSum
<1> DEFINE s == CHOOSE s : Is(s)
<1>3. Is(s)
  <2> HIDE DEF Is
  <2> QED BY <1>2, Zenon
<1>4. PoolSize(p) = s[N]
  BY Zenon DEF PoolSize
<1> HIDE DEF s
<1>5. \A k \in 0 .. N : s[k] = IF k = 0 THEN 0 ELSE s[k - 1] + p.chunks[k].size
  BY <1>3, Zenon
<1>6. 0 \in 0 .. N /\ \A k \in 1 .. N : k \in 0 .. N /\ k # 0
  OBVIOUS
<1>7. s[0] = 0 /\ \A k \in 1 .. N : s[k] = s[k - 1] + f[k]
  BY <1>5, <1>6, Zenon
<1> QED BY <1>4, <1>7, Zenon DEF SumsUp

LEMMA CapacitySums ==
    ASSUME NEW p, NEW N \in Nat, N = Len(p.chunks), NEW f \in [1 .. N -> Nat],
           \A k \in 1 .. N : f[k] = Len(p.chunks[k].cells)
    PROVE  \E s : SumsUp(PoolCapacity(p), s, N, f)
<1> DEFINE Is(s) == s = [k \in 0 .. N |-> IF k = 0 THEN 0 ELSE s[k - 1] + Len(p.chunks[k].cells)]
<1>1. PICK u : IsSum(u, N, f)
  BY SumExists, Zenon DEF HasSum
<1>2. Is(u)
  BY <1>1 DEF IsSum
<1> DEFINE s == CHOOSE s : Is(s)
<1>3. Is(s)
  <2> HIDE DEF Is
  <2> QED BY <1>2, Zenon
<1>4. PoolCapacity(p) = s[N]
  BY Zenon DEF PoolCapacity
<1> HIDE DEF s
<1>5. \A k \in 0 .. N : s[k] = IF k = 0 THEN 0 ELSE s[k - 1] + Len(p.chunks[k].cells)
  BY <1>3, Zenon
<1>6. 0 \in 0 .. N /\ \A k \in 1 .. N : k \in 0 .. N /\ k # 0
  OBVIOUS
<1>7. s[0] = 0 /\ \A k \in 1 .. N : s[k] = s[k - 1] + f[k]
  BY <1>5, <1>6, Zenon
<1> QED BY <1>4, <1>7, Zenon DEF SumsUp

LEMMA PoolKeeps == PoolInv => KeepsBytes
<1> SUFFICES ASSUME PoolInv PROVE KeepsBytes
  OBVIOUS
<1>1. PoolOK(pool) /\ \A i \in 1 .. 2 : Bytes(pool, stacks[i]) = lists[i]
  BY Zenon DEF PoolInv
<1>2. pool.chunks \in Seq(ChunkRecords)
  BY <1>1 DEF PoolOK, PoolRecords
<1>3. PICK N \in Nat : N = Len(pool.chunks) /\ DOMAIN pool.chunks = 1 .. N
  BY <1>2
<1>4. \A k \in 1 .. N : /\ pool.chunks[k].size \in Nat /\ Len(pool.chunks[k].cells) \in Nat
                        /\ pool.chunks[k].size <= Len(pool.chunks[k].cells)
  <2> SUFFICES ASSUME NEW k \in 1 .. N
               PROVE  /\ pool.chunks[k].size \in Nat /\ Len(pool.chunks[k].cells) \in Nat
                      /\ pool.chunks[k].size <= Len(pool.chunks[k].cells)
    OBVIOUS
  <2>1. pool.chunks[k] \in ChunkRecords
    BY <1>2, <1>3
  <2>2. pool.chunks[k].size \in Nat /\ pool.chunks[k].cells \in Seq(Item)
    BY <2>1 DEF ChunkRecords
  <2>3. Len(pool.chunks[k].cells) \in Nat
    BY <2>2, LenProperties
  <2>4. pool.chunks[k].size <= Len(pool.chunks[k].cells)
    BY <1>1, <1>3, Zenon DEF PoolOK
  <2> QED BY <2>2, <2>3, <2>4
<1> DEFINE f == [k \in 1 .. N |-> pool.chunks[k].size]
           g == [k \in 1 .. N |-> Len(pool.chunks[k].cells)]
<1>5. /\ f \in [1 .. N -> Nat] /\ \A k \in 1 .. N : f[k] = pool.chunks[k].size
      /\ g \in [1 .. N -> Nat] /\ \A k \in 1 .. N : g[k] = Len(pool.chunks[k].cells)
  BY <1>4
<1> HIDE DEF f, g
<1>6. \A k \in 1 .. N : f[k] <= g[k]
  BY <1>4, <1>5
<1>7. PICK s : SumsUp(PoolSize(pool), s, N, f)
  BY <1>3, <1>5, SizeSums
<1>8. PICK t : SumsUp(PoolCapacity(pool), t, N, g)
  BY <1>3, <1>5, CapacitySums
<1>9. s[N] <= t[N]
  BY <1>5, <1>6, <1>7, <1>8, SumsCompare DEF SumsUp
<1>10. PoolSize(pool) <= PoolCapacity(pool)
  BY <1>7, <1>8, <1>9, Zenon DEF SumsUp
<1>11. \A c \in DOMAIN pool.chunks : pool.chunks[c].size <= Len(pool.chunks[c].cells)
  BY <1>3, <1>4, Zenon
<1> QED BY <1>1, <1>10, <1>11, Zenon DEF KeepsBytes

-----------------------------------------------------------------------------
(* The three machines.                                                     *)

StreamsInv == ReaderInv /\ WriterInv /\ PoolInv

LEMMA StreamsStart == StreamsInit => StreamsInv
  BY ReaderStarts, WriterStarts, PoolStarts DEF StreamsInit, StreamsInv

LEMMA ReaderStays == ReaderInv /\ UNCHANGED readerVars => ReaderInv'
  BY DEF ReaderInv, readerVars
LEMMA WriterStays == WriterInv /\ UNCHANGED writerVars => WriterInv'
  BY DEF WriterInv, writerVars
LEMMA PoolStays == PoolInv /\ UNCHANGED poolVars => PoolInv'
  BY DEF PoolInv, poolVars

LEMMA StreamsStep == StreamsInv /\ (StreamsNext \/ UNCHANGED streamVars) => StreamsInv'
<1> SUFFICES ASSUME StreamsInv, StreamsNext \/ UNCHANGED streamVars PROVE StreamsInv'
  OBVIOUS
<1>1. ReaderInv /\ WriterInv /\ PoolInv
  BY DEF StreamsInv
<1>2. CASE ReaderNext
  <2>1. TakeChar /\ UNCHANGED writerVars /\ UNCHANGED poolVars
    BY <1>2 DEF ReaderNext
  <2> QED BY <1>1, <2>1, ReaderTakes, WriterStays, PoolStays DEF StreamsInv
<1>3. CASE WriterNext
  <2>1. /\ UNCHANGED readerVars /\ UNCHANGED poolVars
        /\ PutOne \/ FlushFile \/ PutN \/ FillBuffer \/ FillRest
    BY <1>3, Zenon DEF WriterNext
  <2>2. WriterInv'
    BY <1>1, <2>1, PutOneWrites, FlushFileWrites, PutNWrites, FillBufferWrites, FillRestWrites, Zenon
  <2> QED BY <1>1, <2>1, <2>2, ReaderStays, PoolStays DEF StreamsInv
<1>4. CASE PoolNext
  <2>1. UNCHANGED readerVars /\ UNCHANGED writerVars
    BY <1>4 DEF PoolNext
  <2> QED BY <1>1, <1>4, <2>1, PoolSteps, ReaderStays, WriterStays DEF StreamsInv
<1>5. CASE UNCHANGED streamVars
  <2>1. UNCHANGED readerVars /\ UNCHANGED writerVars /\ UNCHANGED poolVars
    BY <1>5 DEF streamVars
  <2> QED BY <1>1, <2>1, ReaderStays, WriterStays, PoolStays DEF StreamsInv
<1> QED BY <1>2, <1>3, <1>4, <1>5 DEF StreamsNext

LEMMA StreamsInvariance == CharactersSpec => []StreamsInv
<1>1. CharactersInit => StreamsInv
  BY StreamsStart DEF CharactersInit
<1>2. StreamsInv /\ [CharactersNext]_characterVars => StreamsInv'
  <2> SUFFICES ASSUME StreamsInv, [CharactersNext]_characterVars PROVE StreamsInv'
    OBVIOUS
  <2>1. StreamsNext \/ UNCHANGED streamVars
    BY Zenon DEF CharactersNext, characterVars, OctetComes, UnitComes, StreamIsOpened, PointIsPut
  <2> QED BY <2>1, StreamsStep
<1> QED BY <1>1, <1>2, PTL DEF CharactersSpec

\* The file is read as the string that it holds, what is written is in the
\* file in its order, and two stacks in one pool keep their bytes, for every
\* file, every size of a buffer, of a chunk and of the disk and any number of
\* operations (filereadstream.h, filewritestream.h, allocators.h,
\* internal/stack.h).
THEOREM StreamsKeepWhatTheyHold == CharactersSpec => [](ReadsTheFile /\ WritesTheFile /\ KeepsBytes)
<1>1. StreamsInv => ReadsTheFile /\ WritesTheFile /\ KeepsBytes
  BY ReaderReads, WriterWrites, PoolKeeps DEF StreamsInv
<1> QED BY <1>1, StreamsInvariance, PTL
=============================================================================
