---------------------------- MODULE RouterProofs ----------------------------
(***************************************************************************)
(* Proofs about Router, for any set of URLs, rules and tables: the         *)
(* invariant is inductive, and it implies that the longest rule wins, that *)
(* the router uses what it shows, that a consistent configuration never    *)
(* runs into the assertion of the file responder, and that every file that *)
(* is opened lies below the root, at the names of its URL.                 *)
(***************************************************************************)
EXTENDS Router, TLAPS

-----------------------------------------------------------------------------
(* Prefixes.                                                               *)

\* Prefixes, element by element.
LEMMA PrefixElements ==
    ASSUME NEW p \in Seq(Parts), NEW u \in Seq(Parts), IsPrefix(p, u)
    PROVE  Len(p) <= Len(u) /\ \A i \in 1 .. Len(p) : p[i] = u[i]
<1>1. Len(p) <= Len(u) /\ SubSeq(p, 1, Len(p)) = SubSeq(u, 1, Len(p))
  BY DEF IsPrefix
<1>2. ASSUME NEW i \in 1 .. Len(p)
      PROVE  p[i] = u[i]
  <2>1. SubSeq(p, 1, Len(p))[i] = p[i]
    OBVIOUS
  <2>2. SubSeq(u, 1, Len(p))[i] = u[i]
    BY <1>1
  <2> QED
    BY <2>1, <2>2, <1>1
<1> QED
  BY <1>1, <1>2

LEMMA ElementsPrefix ==
    ASSUME NEW p \in Seq(Parts), NEW u \in Seq(Parts), Len(p) <= Len(u),
           \A i \in 1 .. Len(p) : p[i] = u[i]
    PROVE  IsPrefix(p, u)
<1>1. SubSeq(p, 1, Len(p)) = SubSeq(u, 1, Len(p))
  OBVIOUS
<1> QED
  BY <1>1 DEF IsPrefix

\* A URL has one prefix of each length.
LEMMA PrefixUnique ==
    ASSUME NEW p \in Seq(Parts), NEW q \in Seq(Parts), NEW u \in Seq(Parts),
           IsPrefix(p, u), IsPrefix(q, u), Len(p) = Len(q)
    PROVE  p = q
<1>1. \A i \in 1 .. Len(p) : p[i] = q[i]
  BY PrefixElements
<1> QED
  BY <1>1

LEMMA PrefixTransitive ==
    ASSUME NEW p \in Seq(Parts), NEW q \in Seq(Parts), NEW u \in Seq(Parts),
           IsPrefix(p, q), IsPrefix(q, u)
    PROVE  IsPrefix(p, u)
<1>1. Len(p) <= Len(q) /\ \A i \in 1 .. Len(p) : p[i] = q[i]
  BY PrefixElements
<1>2. Len(q) <= Len(u) /\ \A i \in 1 .. Len(q) : q[i] = u[i]
  BY PrefixElements
<1>3. Len(p) <= Len(u) /\ \A i \in 1 .. Len(p) : p[i] = u[i]
  BY <1>1, <1>2
<1> QED
  BY <1>3, ElementsPrefix

\* What the assertion looks for is found at the beginning, and what is cut
\* off there is the prefix.
LEMMA PrefixOccurs ==
    ASSUME NEW q \in Seq(Parts), NEW u \in Seq(Parts), IsPrefix(q, u)
    PROVE  Occurs(q, u) /\ u = q \o Cut(q, u)
<1>1. Len(q) <= Len(u) /\ \A i \in 1 .. Len(q) : q[i] = u[i]
  BY PrefixElements
<1>2. SubSeq(u, 0 + 1, 0 + Len(q)) = q
  BY <1>1
<1>3. 0 \in 0 .. Len(u) - Len(q)
  BY <1>1
<1>4. u = q \o Cut(q, u)
  BY <1>1 DEF Cut
<1> QED
  BY <1>2, <1>3, <1>4 DEF Occurs

LEMMA CutType ==
    ASSUME NEW q \in Seq(Parts), NEW u \in Seq(Parts)
    PROVE  Cut(q, u) \in Seq(Parts)
BY DEF Cut

-----------------------------------------------------------------------------
(* The names in a text.                                                    *)

\* What is in t up to s is in s.
LEMMA SameName ==
    ASSUME NEW s \in Seq(Parts), NEW t \in Seq(Parts), Len(s) <= Len(t),
           \A i \in 1 .. Len(s) : s[i] = t[i],
           NEW p \in Spans(s)
    PROVE  Name(t, p) = Name(s, p)
<1>1. p[1] \in 1 .. Len(s) /\ p[2] \in 1 .. Len(s) /\ Len(s) \in Nat /\ Len(t) \in Nat
  BY DEF Spans
<1>2. \A a, b \in 1 .. Len(s) : SubSeq(t, a, b) = SubSeq(s, a, b)
  <2>1. SUFFICES ASSUME NEW a \in 1 .. Len(s), NEW b \in 1 .. Len(s)
                 PROVE  SubSeq(t, a, b) = SubSeq(s, a, b)
    OBVIOUS
  <2>2. SubSeq(t, a, b) = [k \in 1 .. b - a + 1 |-> t[a + k - 1]]
    BY <1>1
  <2>3. SubSeq(s, a, b) = [k \in 1 .. b - a + 1 |-> s[a + k - 1]]
    BY <1>1
  <2>4. \A k \in 1 .. b - a + 1 : a + k - 1 \in 1 .. Len(s)
    BY <1>1
  <2> QED
    BY <2>2, <2>3, <2>4
<1> QED
  BY <1>1, <1>2 DEF Name

\* A slash behind a text leaves its names.
LEMMA SlashAddsNoName ==
    ASSUME NEW s \in Seq(Parts)
    PROVE  Spans(s \o <<"/">>) = Spans(s)
<1> DEFINE t == s \o <<"/">>
<1>1. /\ Len(t) = Len(s) + 1
      /\ \A i \in 1 .. Len(s) : t[i] = s[i]
      /\ t[Len(s) + 1] = "/"
  OBVIOUS
<1> HIDE DEF t
<1>2. Len(s) \in Nat
  OBVIOUS
<1>3. \A k \in 1 .. Len(s) :
         /\ k = 1 \/ k - 1 \in 1 .. Len(s)
         /\ k = Len(s) \/ k + 1 \in 1 .. Len(s)
         /\ k # Len(t) /\ k \in 1 .. Len(t)
  BY <1>1, <1>2
<1>4. \A k \in 1 .. Len(s) :
         /\ k = 1 \/ t[k - 1] = s[k - 1]
         /\ IF k = Len(s) THEN t[k + 1] = "/" ELSE t[k + 1] = s[k + 1]
  BY <1>1, <1>2, <1>3
<1>5. \A i, j \in 1 .. Len(s) : NoSlash(t, i, j) <=> NoSlash(s, i, j)
  BY <1>1, <1>2 DEF NoSlash
<1>6. ASSUME NEW p \in Spans(t)
      PROVE  p \in Spans(s)
  <2>1. /\ p \in (1 .. Len(t)) \X (1 .. Len(t)) /\ p[1] <= p[2]
        /\ NoSlash(t, p[1], p[2])
        /\ p[1] = 1 \/ t[p[1] - 1] = "/"
        /\ p[2] = Len(t) \/ t[p[2] + 1] = "/"
    BY DEF Spans
  <2>2. p[1] \in 1 .. Len(s) + 1 /\ p[2] \in 1 .. Len(s) + 1 /\ p = <<p[1], p[2]>>
    BY <1>1, <2>1
  <2>3. p[2] # Len(s) + 1
    BY <1>1, <2>1, <2>2 DEF NoSlash
  <2>4. p[1] \in 1 .. Len(s) /\ p[2] \in 1 .. Len(s)
    BY <1>2, <2>1, <2>2, <2>3
  <2>5. p[1] = 1 \/ s[p[1] - 1] = "/"
    BY <1>4, <2>1, <2>4
  <2>6. p[2] = Len(s) \/ s[p[2] + 1] = "/"
    BY <1>3, <1>4, <2>1, <2>4
  <2> QED
    BY <1>5, <2>1, <2>2, <2>4, <2>5, <2>6 DEF Spans
<1>7. ASSUME NEW p \in Spans(s)
      PROVE  p \in Spans(t)
  <2>1. /\ p \in (1 .. Len(s)) \X (1 .. Len(s)) /\ p[1] <= p[2]
        /\ NoSlash(s, p[1], p[2])
        /\ p[1] = 1 \/ s[p[1] - 1] = "/"
        /\ p[2] = Len(s) \/ s[p[2] + 1] = "/"
    BY DEF Spans
  <2>2. p[1] \in 1 .. Len(s) /\ p[2] \in 1 .. Len(s) /\ p = <<p[1], p[2]>>
    BY <2>1
  <2>3. p[1] = 1 \/ t[p[1] - 1] = "/"
    BY <1>4, <2>1, <2>2
  <2>4. t[p[2] + 1] = "/"
    BY <1>4, <2>1, <2>2
  <2>5. p \in (1 .. Len(t)) \X (1 .. Len(t))
    BY <1>3, <2>2
  <2> QED
    BY <1>5, <2>1, <2>2, <2>3, <2>4, <2>5 DEF Spans
<1> QED
  BY <1>6, <1>7 DEF t

\* What has no slash is one name more behind a slash, or at the beginning.
LEMMA PartAddsName ==
    ASSUME NEW s \in Seq(Parts), NEW t \in Seq(Parts), Len(s) < Len(t),
           \A i \in 1 .. Len(s) : s[i] = t[i],
           Len(s) = 0 \/ s[Len(s)] = "/",
           NoSlash(t, Len(s) + 1, Len(t))
    PROVE  Spans(t) = Spans(s) \cup {<<Len(s) + 1, Len(t)>>}
<1> DEFINE n == Len(s)
           new == <<n + 1, Len(t)>>
<1>1. n \in Nat /\ Len(t) \in Nat /\ new[1] = n + 1 /\ new[2] = Len(t)
  OBVIOUS
<1>2. ASSUME NEW p \in Spans(t)
      PROVE  p \in Spans(s) \cup {new}
  <2>1. p \in (1 .. Len(t)) \X (1 .. Len(t)) /\ p = <<p[1], p[2]>>
    BY DEF Spans
  <2>2. CASE p[1] > n
    <3>1. p[1] = n + 1
      BY <1>1, <2>1, <2>2 DEF Spans, NoSlash
    <3>2. p[2] = Len(t)
      BY <1>1, <2>1, <3>1 DEF Spans, NoSlash
    <3> QED
      BY <2>1, <3>1, <3>2
  <2>3. CASE p[1] <= n
    <3>1. p[2] <= n
      <4>1. SUFFICES ASSUME p[2] > n
                     PROVE  FALSE
        BY <1>1, <2>1
      <4>2. n \in p[1] .. p[2] /\ t[n] = "/"
        BY <1>1, <2>1, <2>3, <4>1
      <4> QED
        BY <4>2 DEF Spans, NoSlash
    <3>2. p \in (1 .. n) \X (1 .. n) /\ p[1] <= p[2]
      BY <1>1, <2>1, <2>3, <3>1 DEF Spans
    <3>3. NoSlash(s, p[1], p[2])
      BY <1>1, <2>1, <3>1, <3>2 DEF Spans, NoSlash
    <3>4. p[1] = 1 \/ (p[1] - 1 \in 1 .. n /\ t[p[1] - 1] = "/")
      BY <1>1, <3>2 DEF Spans
    <3>5. p[2] # n /\ t[p[2] + 1] = "/" /\ p[2] + 1 \in 1 .. n
      BY <1>1, <3>2, <3>3 DEF Spans, NoSlash
    <3> QED
      BY <3>2, <3>3, <3>4, <3>5 DEF Spans
  <2> QED
    BY <1>1, <2>1, <2>2, <2>3
<1>3. ASSUME NEW p \in Spans(s)
      PROVE  p \in Spans(t)
  <2>1. p \in (1 .. n) \X (1 .. n) /\ p[1] <= p[2] /\ NoSlash(s, p[1], p[2])
    BY DEF Spans
  <2>2. NoSlash(t, p[1], p[2])
    BY <1>1, <2>1 DEF NoSlash
  <2>3. p[1] = 1 \/ (p[1] - 1 \in 1 .. n /\ s[p[1] - 1] = "/")
    BY <1>1, <2>1 DEF Spans
  <2>4. p[2] # n
    BY <1>1, <2>1 DEF NoSlash
  <2>5. t[p[2] + 1] = "/"
    BY <1>1, <2>1, <2>4 DEF Spans
  <2> QED
    BY <1>1, <2>1, <2>2, <2>3, <2>5 DEF Spans
<1>4. new \in Spans(t)
  BY <1>1 DEF Spans, NoSlash
<1> QED
  BY <1>2, <1>3, <1>4

\* An empty text has no names.
LEMMA NoNames == Spans(<<>>) = {}
BY DEF Spans

\* NormalizeURL keeps the parts that are names (strop.h:34-35).
LEMMA KeepsNames ==
    ASSUME NEW ans, NEW part
    PROVE  WithPart(ans, part) = IF IsName(part) THEN ans \o <<"/">> \o part ELSE ans
BY DEF WithPart, Kept, IsName

\* Before the first name, both have none.
LEMMA SameNamesNone == SameNames(<<>>, <<>>)
<1> DEFINE f == [p \in {} |-> p]
<1>1. {p \in Spans(<<>>) : IsName(Name(<<>>, p))} = {}
  BY NoNames
<1>2. f \in [{} -> Spans(<<>>)] /\ DOMAIN f = {}
  OBVIOUS
<1> QED
  BY <1>1, <1>2, NoNames DEF SameNames

\* Nothing changes between two texts that keep the names they had.
LEMMA SameNamesStay ==
    ASSUME NEW s \in Seq(Parts), NEW t \in Seq(Parts), SameNames(s, t),
           NEW s2 \in Seq(Parts), Len(s) <= Len(s2),
           \A i \in 1 .. Len(s) : s[i] = s2[i],
           NEW t2 \in Seq(Parts), Len(t) <= Len(t2),
           \A i \in 1 .. Len(t) : t[i] = t2[i],
           Spans(s) \subseteq Spans(s2),
           \A p \in Spans(s2) \ Spans(s) : ~IsName(Name(s2, p)),
           Spans(t2) = Spans(t)
    PROVE  SameNames(s2, t2)
<1>1. PICK f \in [{p \in Spans(s) : IsName(Name(s, p))} -> Spans(t)] :
        /\ \A p \in DOMAIN f : Name(t, f[p]) = Name(s, p)
        /\ \A p, q \in DOMAIN f : p[1] < q[1] => f[p][1] < f[q][1]
        /\ \A r \in Spans(t) : \E p \in DOMAIN f : f[p] = r
  BY DEF SameNames
<1>2. \A p \in Spans(s) : Name(s2, p) = Name(s, p)
  BY SameName
<1>3. \A r \in Spans(t) : Name(t2, r) = Name(t, r)
  BY SameName
<1>4. {p \in Spans(s2) : IsName(Name(s2, p))} = {p \in Spans(s) : IsName(Name(s, p))}
  BY <1>2
<1>5. \A p \in DOMAIN f : Name(t2, f[p]) = Name(s2, p)
  BY <1>1, <1>2, <1>3
<1>6. f \in [{p \in Spans(s2) : IsName(Name(s2, p))} -> Spans(t2)]
  BY <1>1, <1>4
<1>7. \A r \in Spans(t2) : \E p \in DOMAIN f : f[p] = r
  BY <1>1
<1> QED
  BY <1>1, <1>5, <1>6, <1>7 DEF SameNames

\* One name more in both, behind the others.
LEMMA SameNamesGrow ==
    ASSUME NEW s \in Seq(Parts), NEW t \in Seq(Parts), SameNames(s, t),
           NEW s2 \in Seq(Parts), Len(s) <= Len(s2),
           \A i \in 1 .. Len(s) : s[i] = s2[i],
           NEW t2 \in Seq(Parts), Len(t) <= Len(t2),
           \A i \in 1 .. Len(t) : t[i] = t2[i],
           NEW a \in Nat, NEW b \in Nat, NEW c \in Nat, NEW d \in Nat,
           Len(s) < a, Spans(s2) = Spans(s) \cup {<<a, b>>}, IsName(Name(s2, <<a, b>>)),
           Len(t) < c, Spans(t2) = Spans(t) \cup {<<c, d>>},
           Name(t2, <<c, d>>) = Name(s2, <<a, b>>)
    PROVE  SameNames(s2, t2)
<1> DEFINE D == {p \in Spans(s) : IsName(Name(s, p))}
           D2 == {p \in Spans(s2) : IsName(Name(s2, p))}
<1>1. PICK f \in [D -> Spans(t)] :
        /\ \A p \in D : Name(t, f[p]) = Name(s, p)
        /\ \A p, q \in D : p[1] < q[1] => f[p][1] < f[q][1]
        /\ \A r \in Spans(t) : \E p \in D : f[p] = r
  BY DEF SameNames
<1>2. \A p \in Spans(s) : Name(s2, p) = Name(s, p)
  BY SameName
<1>3. \A r \in Spans(t) : Name(t2, r) = Name(t, r)
  BY SameName
<1>4. \A p \in Spans(s) : p[1] \in Nat /\ p[1] < a
  BY DEF Spans
<1>5. \A r \in Spans(t) : r[1] \in Nat /\ r[1] < c
  BY DEF Spans
<1>6. D2 = D \cup {<<a, b>>} /\ <<a, b>> \notin D
  <2>1. <<a, b>>[1] = a
    OBVIOUS
  <2>2. <<a, b>> \notin Spans(s)
    BY <1>4, <2>1
  <2>3. \A p \in Spans(s) : p \in D2 <=> p \in D
    BY <1>2
  <2> QED
    BY <2>2, <2>3
<1> DEFINE g == [p \in D2 |-> IF p = <<a, b>> THEN <<c, d>> ELSE f[p]]
<1>7. g \in [D2 -> Spans(t2)] /\ DOMAIN g = D2
  BY <1>1, <1>6
<1>8. g[<<a, b>>] = <<c, d>> /\ \A p \in D : g[p] = f[p] /\ f[p] \in Spans(t)
  BY <1>1, <1>6
<1> HIDE DEF g, D, D2
<1>9. D \subseteq Spans(s)
  BY DEF D
<1>10. \A p \in D2 : Name(t2, g[p]) = Name(s2, p)
  <2>1. \A p \in D : Name(t2, g[p]) = Name(t, f[p]) /\ Name(s2, p) = Name(s, p)
    BY <1>2, <1>3, <1>8, <1>9
  <2> QED
    BY <1>1, <1>6, <1>8, <2>1
<1>11. \A p, q \in D2 : p[1] < q[1] => g[p][1] < g[q][1]
  <2>1. SUFFICES ASSUME NEW p \in D2, NEW q \in D2, p[1] < q[1]
                 PROVE  g[p][1] < g[q][1]
    OBVIOUS
  <2>2. CASE p \in D /\ q \in D
    BY <1>1, <1>8, <2>1, <2>2
  <2>3. CASE p \in D /\ q = <<a, b>>
    <3>1. g[q] = <<c, d>> /\ g[p] \in Spans(t)
      BY <1>8, <2>3
    <3>2. g[q][1] = c
      BY <3>1
    <3>3. g[p][1] < c
      BY <1>5, <3>1
    <3> QED
      BY <3>2, <3>3
  <2>4. CASE p = <<a, b>>
    <3>1. p[1] = a /\ q[1] <= a
      BY <1>4, <1>6, <1>9, <2>4
    <3>2. q[1] \in Nat
      BY <1>4, <1>6, <1>9
    <3> QED
      BY <2>1, <3>1, <3>2
  <2> QED
    BY <1>6, <2>2, <2>3, <2>4
<1>12. \A r \in Spans(t2) : \E p \in D2 : g[p] = r
  BY <1>1, <1>6, <1>8
<1>13. g \in [{p \in Spans(s2) : IsName(Name(s2, p))} -> Spans(t2)]
  BY <1>7 DEF D2
<1>14. /\ \A p \in DOMAIN g : Name(t2, g[p]) = Name(s2, p)
       /\ \A p, q \in DOMAIN g : p[1] < q[1] => g[p][1] < g[q][1]
       /\ \A r \in Spans(t2) : \E p \in DOMAIN g : g[p] = r
  BY <1>7, <1>10, <1>11, <1>12
<1> QED
  BY <1>13, <1>14 DEF SameNames

\* The elements of two texts one behind the other.
LEMMA Joined ==
    ASSUME NEW s \in Seq(Parts), NEW w \in Seq(Parts)
    PROVE  /\ s \o w \in Seq(Parts) /\ Len(s \o w) = Len(s) + Len(w)
           /\ \A i \in 1 .. Len(s) : s[i] = (s \o w)[i]
           /\ \A i \in 1 .. Len(w) : (s \o w)[Len(s) + i] = w[i]
           /\ \A i \in Len(s) + 1 .. Len(s) + Len(w) : (s \o w)[i] = w[i - Len(s)]
           /\ SubSeq(s \o w, Len(s) + 1, Len(s) + Len(w)) = w
OBVIOUS

\* A slash behind either changes nothing.
LEMMA SlashStays ==
    ASSUME NEW s \in Seq(Parts), NEW t \in Seq(Parts), SameNames(s, t)
    PROVE  SameNames(s \o <<"/">>, t)
<1>1. <<"/">> \in Seq(Parts)
  BY PartsAssumption
<1>2. Len(s \o <<"/">>) = Len(s) + 1 /\ s \o <<"/">> \in Seq(Parts)
      /\ \A i \in 1 .. Len(s) : s[i] = (s \o <<"/">>)[i]
  BY <1>1, Joined
<1>3. Spans(s \o <<"/">>) = Spans(s)
  BY SlashAddsNoName
<1> DEFINE s2 == s \o <<"/">>
<1> HIDE DEF s2
<1>4. s2 \in Seq(Parts) /\ Len(s) <= Len(s2) /\ \A i \in 1 .. Len(s) : s[i] = s2[i]
  BY <1>2 DEF s2
<1>5. Spans(s) \subseteq Spans(s2) /\ Spans(s2) \ Spans(s) = {}
  BY <1>3 DEF s2
<1>6. SameNames(s2, t)
  BY <1>4, <1>5, SameNamesStay
<1> QED
  BY <1>6 DEF s2

\* What NormalizeURL adds for a part of the URL is its name, or nothing.
LEMMA PartStays ==
    ASSUME NEW s \in Seq(Parts), NEW t \in Seq(Parts), SameNames(s, t),
           Len(s) = 0 \/ s[Len(s)] = "/",
           NEW w \in Seq(Parts), NoSlash(w, 1, Len(w))
    PROVE  WithPart(t, w) \in Seq(Parts) /\ SameNames(s \o w, WithPart(t, w))
<1> DEFINE s2 == s \o w
           t1 == t \o <<"/">>
           t2 == t1 \o w
<1>1. <<"/">> \in Seq(Parts)
  BY PartsAssumption
<1>2. /\ s2 \in Seq(Parts) /\ Len(s2) = Len(s) + Len(w)
      /\ \A i \in 1 .. Len(s) : s[i] = s2[i]
      /\ \A i \in Len(s) + 1 .. Len(s2) : s2[i] = w[i - Len(s)]
      /\ SubSeq(s2, Len(s) + 1, Len(s2)) = w
  <2> HIDE DEF t1, t2
  <2>1. /\ s \o w \in Seq(Parts) /\ Len(s \o w) = Len(s) + Len(w)
        /\ \A i \in 1 .. Len(s) : s[i] = (s \o w)[i]
        /\ \A i \in Len(s) + 1 .. Len(s) + Len(w) : (s \o w)[i] = w[i - Len(s)]
        /\ SubSeq(s \o w, Len(s) + 1, Len(s) + Len(w)) = w
    BY Joined
  <2> QED
    BY <2>1
<1>3. /\ t1 \in Seq(Parts) /\ Len(t1) = Len(t) + 1
      /\ \A i \in 1 .. Len(t) : t[i] = t1[i]
      /\ t1[Len(t1)] = "/"
  BY <1>1
<1>4. /\ t2 \in Seq(Parts) /\ Len(t2) = Len(t1) + Len(w)
      /\ \A i \in 1 .. Len(t1) : t1[i] = t2[i]
      /\ \A i \in Len(t1) + 1 .. Len(t2) : t2[i] = w[i - Len(t1)]
      /\ SubSeq(t2, Len(t1) + 1, Len(t2)) = w
  BY <1>3, Joined
<1>5. Len(s) \in Nat /\ Len(t) \in Nat /\ Len(w) \in Nat
  OBVIOUS
<1>6. Spans(t1) = Spans(t)
  BY SlashAddsNoName
<1>7. WithPart(t, w) = IF IsName(w) THEN t2 ELSE t
  BY <1>1, KeepsNames
<1> HIDE DEF s2, t1, t2
<1>8. CASE w = <<>>
  <2>1. s2 = s
    BY <1>8 DEF s2
  <2>2. WithPart(t, w) = t
    BY <1>7, <1>8 DEF IsName
  <2> QED
    BY <2>1, <2>2 DEF s2
<1>9. CASE w # <<>>
  <2>1. Len(w) > 0
    BY <1>9
  <2>2. Spans(s2) = Spans(s) \cup {<<Len(s) + 1, Len(s2)>>}
    <3>1. \A k \in Len(s) + 1 .. Len(s2) : k - Len(s) \in 1 .. Len(w)
      BY <1>2, <1>5
    <3>2. NoSlash(s2, Len(s) + 1, Len(s2))
      BY <1>2, <3>1 DEF NoSlash
    <3>3. Len(s) < Len(s2)
      BY <1>2, <1>5, <2>1
    <3> QED
      BY <1>2, <3>2, <3>3, PartAddsName
  <2>3. Name(s2, <<Len(s) + 1, Len(s2)>>) = w
    BY <1>2 DEF Name
  <2>4. CASE ~IsName(w)
    <3>1. \A p \in Spans(s2) \ Spans(s) : ~IsName(Name(s2, p))
      BY <2>2, <2>3, <2>4
    <3>2. Len(s) <= Len(s2) /\ Spans(s) \subseteq Spans(s2)
      BY <1>2, <1>5, <2>2
    <3>3. Len(t) <= Len(t) /\ \A i \in 1 .. Len(t) : t[i] = t[i]
      BY <1>5
    <3>4. s2 \in Seq(Parts) /\ \A i \in 1 .. Len(s) : s[i] = s2[i]
      BY <1>2
    <3>5. SameNames(s2, t)
      BY <3>1, <3>2, <3>3, <3>4, SameNamesStay
    <3> QED
      BY <1>7, <2>4, <3>5 DEF s2
  <2>5. CASE IsName(w)
    <3>1. Spans(t2) = Spans(t) \cup {<<Len(t1) + 1, Len(t2)>>}
      <4>1. \A k \in Len(t1) + 1 .. Len(t2) : k - Len(t1) \in 1 .. Len(w)
        BY <1>3, <1>4, <1>5
      <4>2. NoSlash(t2, Len(t1) + 1, Len(t2))
        BY <1>4, <4>1 DEF NoSlash
      <4>3. Len(t1) < Len(t2)
        BY <1>3, <1>4, <1>5, <2>1
      <4> QED
        BY <1>3, <1>4, <1>6, <4>2, <4>3, PartAddsName
    <3>2. Name(t2, <<Len(t1) + 1, Len(t2)>>) = w
      BY <1>4 DEF Name
    <3>3. Len(t) <= Len(t2) /\ \A i \in 1 .. Len(t) : t[i] = t2[i]
      BY <1>3, <1>4, <1>5
    <3>4. Len(s) + 1 \in Nat /\ Len(s2) \in Nat /\ Len(t1) + 1 \in Nat /\ Len(t2) \in Nat
          /\ Len(s) < Len(s) + 1 /\ Len(t) < Len(t1) + 1 /\ Len(s) <= Len(s2)
      BY <1>2, <1>3, <1>4, <1>5
    <3> DEFINE a == Len(s) + 1
               b == Len(s2)
               c == Len(t1) + 1
               d == Len(t2)
    <3>5. /\ a \in Nat /\ b \in Nat /\ c \in Nat /\ d \in Nat
          /\ Len(s) < a /\ Spans(s2) = Spans(s) \cup {<<a, b>>}
          /\ IsName(Name(s2, <<a, b>>))
          /\ Len(t) < c /\ Spans(t2) = Spans(t) \cup {<<c, d>>}
          /\ Name(t2, <<c, d>>) = Name(s2, <<a, b>>)
      BY <2>2, <2>3, <2>5, <3>1, <3>2, <3>4
    <3> HIDE DEF a, b, c, d
    <3>6. /\ s2 \in Seq(Parts) /\ Len(s) <= Len(s2)
          /\ \A i \in 1 .. Len(s) : s[i] = s2[i]
          /\ t2 \in Seq(Parts)
      BY <1>2, <1>4, <3>4
    <3>7. SameNames(s2, t2)
      BY <3>3, <3>5, <3>6, SameNamesGrow
    <3> QED
      BY <1>4, <1>7, <2>5, <3>7 DEF s2
  <2> QED
    BY <2>4, <2>5
<1> QED
  BY <1>8, <1>9

\* A path begins with a slash and does not end with one, however many parts
\* it has.
LEMMA PartShape ==
    ASSUME NEW t \in Seq(Parts), t = <<>> \/ (t[1] = "/" /\ t[Len(t)] # "/"),
           NEW w \in Seq(Parts), NoSlash(w, 1, Len(w))
    PROVE  /\ WithPart(t, w) = <<>> \/ /\ WithPart(t, w)[1] = "/"
                                       /\ WithPart(t, w)[Len(WithPart(t, w))] # "/"
           /\ IsName(w) => WithPart(t, w) # <<>>
<1>1. CASE ~IsName(w)
  BY <1>1, KeepsNames
<1>2. CASE IsName(w)
  <2>1. w # <<>>
    BY <1>2 DEF IsName
  <2>2. Len(w) \in Nat \ {0} /\ Len(t) \in Nat
    BY <2>1
  <2>3. w[Len(w)] # "/"
    BY <2>2 DEF NoSlash
  <2> DEFINE t1 == t \o <<"/">>
  <2>4. t1 \in Seq(Parts) /\ Len(t1) = Len(t) + 1 /\ t1[1] = "/"
    BY <2>2, PartsAssumption
  <2> HIDE DEF t1
  <2>5. /\ Len(t1 \o w) = Len(t1) + Len(w)
        /\ (t1 \o w)[1] = t1[1]
        /\ (t1 \o w)[Len(t1) + Len(w)] = w[Len(w)]
    BY <2>2, <2>4
  <2>6. WithPart(t, w) = t1 \o w
    BY <1>2, PartsAssumption, KeepsNames DEF t1
  <2>7. t1 \o w # <<>>
    BY <2>2, <2>4, <2>5
  <2> QED
    BY <2>3, <2>4, <2>5, <2>6, <2>7
<1> QED
  BY <1>1, <1>2

-----------------------------------------------------------------------------
(* The invariant.                                                          *)

\* What the types say of the parts of the configuration and the table.
LEMMA RuleTypes ==
    ASSUME TypeOK
    PROVE  /\ \A p \in DOMAIN responder_rules :
                p \in Seq(Parts) /\ p \in RuleUrls /\ responder_rules[p] \in Rules
           /\ \A p \in DOMAIN table :
                p \in Seq(Parts) /\ p \in RuleUrls /\ table[p] \in Rules
           /\ url \in Seq(Parts)
           /\ Responder.prefix \in Seq(Parts)
           /\ Responder \in Rules \cup {NormalRule, NoResponder}
<1>1. PICK D \in SUBSET RuleUrls : responder_rules \in [D -> Rules]
  BY DEF TypeOK, Tables
<1>2. PICK E \in SUBSET RuleUrls : table \in [E -> Rules]
  BY DEF TypeOK, Tables
<1>3. Responder \in Rules \cup {NormalRule, NoResponder}
  BY DEF TypeOK, Responder
<1>4. Responder.prefix \in Seq(Parts)
  <2>1. <<>> \in Seq(Parts)
    OBVIOUS
  <2>2. CASE Responder \in Rules
    BY <2>2, RulesAssumption
  <2>3. NormalRule.prefix = <<>> /\ NoResponder.prefix = <<>>
    BY DEF NormalRule, NoResponder
  <2>4. CASE Responder = NormalRule
    BY <2>1, <2>3, <2>4
  <2>5. CASE Responder = NoResponder
    BY <2>1, <2>3, <2>5
  <2> QED
    BY <1>3, <2>2, <2>4, <2>5
<1> QED
  BY <1>1, <1>2, <1>3, <1>4, UrlsAssumption DEF TypeOK
\* Initially nothing is in the table.
LEMMA InitInvariant == Init => IInv
<1> SUFFICES ASSUME Init
             PROVE  IInv
  OBVIOUS
<1>1. <<>> \in Seq(Parts) /\ DOMAIN <<>> = {}
  OBVIOUS
<1>2. <<>> \in Tables
  <2>1. <<>> = [p \in {} |-> p]
    OBVIOUS
  <2>2. [p \in {} |-> p] \in [{} -> Rules]
    OBVIOUS
  <2> QED
    BY <2>1, <2>2 DEF Tables
<1>3. TypeOK
  BY <1>1, <1>2 DEF Init, TypeOK
<1>4. TableGrows /\ ShowsWhatItUses /\ BestSeen /\ CutsItsPrefix /\ PathGrows
      /\ FilesStayBelowRoot
  BY <1>1 DEF Init, TableGrows, Constructing, ShowsWhatItUses, BestSeen, CutsItsPrefix,
              PathGrows, FilesStayBelowRoot
<1> QED
  BY <1>3, <1>4 DEF IInv

\* The actions that build the table.
LEMMA BuildInvariant ==
    ASSUME IInv, ReadDefault \/ AddRule \/ Constructed
    PROVE  IInv'
<1> USE DEF IInv
<1>1. CASE ReadDefault
  <2>1. TypeOK'
    BY <1>1, RuleTypes DEF ReadDefault, TypeOK, config, query, search
  <2>2. TableGrows'
    BY <1>1 DEF ReadDefault, TableGrows, Constructing, config, query, Shown,
                ShownDefault, IsResponderValid, NewResponder, Names
  <2>3. ShowsWhatItUses' /\ BestSeen' /\ CutsItsPrefix' /\ PathGrows' /\ FilesStayBelowRoot'
    BY <1>1 DEF ReadDefault, ShowsWhatItUses, BestSeen, CutsItsPrefix, PathGrows,
                FilesStayBelowRoot
  <2> QED
    BY <2>1, <2>2, <2>3
<1>2. CASE AddRule
  <2>1. PICK u \in left :
          /\ left' = left \ {u}
          /\ table' = IF NewResponder(responder_rules[u].name)
                      THEN [v \in DOMAIN table \cup {u} |->
                              IF v = u THEN responder_rules[u] ELSE table[v]]
                      ELSE table
    BY <1>2 DEF AddRule
  <2>2. u \in DOMAIN responder_rules
    BY <1>2, <2>1 DEF AddRule, TableGrows, Constructing
  <2>3. u \in RuleUrls /\ responder_rules[u] \in Rules
    BY <2>2, RuleTypes
  <2>4. table' \in Tables
    <3>1. CASE NewResponder(responder_rules[u].name)
      <4>1. table' \in [DOMAIN table \cup {u} -> Rules]
        BY <2>1, <2>3, <3>1, RuleTypes
      <4>2. DOMAIN table \cup {u} \in SUBSET RuleUrls
        BY <2>3, RuleTypes
      <4> QED
        BY <4>1, <4>2 DEF Tables
    <3>2. CASE ~NewResponder(responder_rules[u].name)
      BY <2>1, <3>2 DEF TypeOK
    <3> QED
      BY <3>1, <3>2
  <2>5. TypeOK'
    BY <1>2, <2>1, <2>4 DEF AddRule, TypeOK, config, query, search
  <2>6. TableGrows'
    <3>1. UNCHANGED <<responder_rules, default_rule, default_resp, loc>>
      BY <1>2 DEF AddRule, config
    <3>2. loc = "build"
      BY <1>2 DEF AddRule
    <3>3. left \subseteq DOMAIN responder_rules /\ DOMAIN table = Shown \ left
      BY <3>2 DEF TableGrows, Constructing
    <3>4. CASE NewResponder(responder_rules[u].name)
      <4>1. u \in Shown
        BY <2>2, <3>4 DEF Shown, IsResponderValid, NewResponder, Names
      <4>2. DOMAIN table' = Shown \ left'
        BY <2>1, <3>3, <3>4, <4>1
      <4>3. \A p \in DOMAIN table' : table'[p] = responder_rules[p]
        BY <2>1, <3>2, <3>4 DEF TableGrows, Constructing
      <4> QED
        BY <2>1, <3>1, <3>2, <3>3, <4>2, <4>3
           DEF TableGrows, Constructing, Shown, ShownDefault
    <3>5. CASE ~NewResponder(responder_rules[u].name)
      <4>1. u \notin Shown
        BY <3>5 DEF Shown, IsResponderValid, NewResponder, Names
      <4> QED
        BY <2>1, <3>1, <3>2, <3>3, <3>5, <4>1
           DEF TableGrows, Constructing, Shown, ShownDefault
    <3> QED
      BY <3>4, <3>5
  <2>7. ShowsWhatItUses' /\ BestSeen' /\ CutsItsPrefix' /\ PathGrows' /\ FilesStayBelowRoot'
    BY <1>2 DEF AddRule, ShowsWhatItUses, BestSeen, CutsItsPrefix, PathGrows,
                FilesStayBelowRoot
  <2> QED
    BY <2>5, <2>6, <2>7
<1>3. CASE Constructed
  <2>1. TypeOK'
    BY <1>3 DEF Constructed, TypeOK, config, query, search
  <2>2. ShowsWhatItUses'
    BY <1>3 DEF Constructed, ShowsWhatItUses, TableGrows, Constructing, config,
                Shown, ShownDefault
  <2>3. TableGrows' /\ BestSeen' /\ CutsItsPrefix' /\ PathGrows' /\ FilesStayBelowRoot'
    BY <1>3 DEF Constructed, TableGrows, Constructing, BestSeen, CutsItsPrefix, PathGrows,
                FilesStayBelowRoot
  <2> QED
    BY <2>1, <2>2, <2>3
<1> QED
  BY <1>1, <1>2, <1>3

\* The actions of GetResponder.
LEMMA FindInvariant ==
    ASSUME IInv, GetResponder \/ Visit \/ Found \/ NotImplemented \/ NextRequest
    PROVE  IInv'
<1> USE DEF IInv
<1>1. CASE GetResponder
  <2>1. TypeOK'
    <3>1. url' \in Seq(Parts)
      BY <1>1, UrlsAssumption DEF GetResponder
    <3>2. left' \subseteq RuleUrls
      BY <1>1, RuleTypes DEF GetResponder
    <3> QED
      BY <1>1, <3>1, <3>2 DEF GetResponder, TypeOK, config
  <2>2. TableGrows' /\ ShowsWhatItUses'
    BY <1>1 DEF GetResponder, TableGrows, Constructing, ShowsWhatItUses, Shown,
                ShownDefault, config
  <2>3. BestSeen' /\ CutsItsPrefix' /\ PathGrows' /\ FilesStayBelowRoot'
    BY <1>1 DEF GetResponder, BestSeen, Seen, CutsItsPrefix, PathGrows, FilesStayBelowRoot
  <2> QED
    BY <2>1, <2>2, <2>3
<1>2. CASE Visit
  <2>1. PICK p \in left :
          /\ left' = left \ {p}
          /\ IF Better(p)
             THEN max_prefix_len' = Len(p) /\ cur_resp' = table[p]
             ELSE UNCHANGED <<max_prefix_len, cur_resp>>
    BY <1>2 DEF Visit
  <2>2. UNCHANGED <<config, default_resp, table, loc, url, rest, start, path>>
        /\ loc = "find"
    BY <1>2 DEF Visit
  <2>3. left \subseteq DOMAIN table
    BY <2>2 DEF BestSeen
  <2>4. p \in Seq(Parts) /\ table[p] \in Rules /\ Len(p) \in Nat
    BY <2>3, RuleTypes
  <2>5. TypeOK'
    BY <2>1, <2>2, <2>4 DEF TypeOK, config
  <2>6. TableGrows' /\ ShowsWhatItUses' /\ CutsItsPrefix' /\ PathGrows' /\ FilesStayBelowRoot'
    BY <2>2 DEF TableGrows, Constructing, ShowsWhatItUses, Shown, ShownDefault,
                CutsItsPrefix, PathGrows, FilesStayBelowRoot, config
  <2>7. BestSeen'
    <3>1. Seen' = Seen \cup {p}
      BY <2>1, <2>2, <2>3 DEF Seen
    <3>2. \A q \in DOMAIN table : Len(q) \in Nat
      BY RuleTypes
    <3>3. CASE Better(p)
      <4>1. max_prefix_len' = Len(p) /\ cur_resp' = table[p]
        BY <2>1, <3>3
      <4>2. IsPrefix(p, url) /\ Len(p) > max_prefix_len /\ p # <<>>
        BY <3>3 DEF Better, TypeOK
      <4>3. \A q \in Seen' : IsPrefix(q, url) => Len(q) <= max_prefix_len'
        BY <2>2, <2>4, <3>1, <3>2, <4>1, <4>2 DEF BestSeen, Seen, TypeOK
      <4>4. cur_resp' # NoResponder
        <5>1. IsResponderValid(table[p].name)
          BY <2>2, <2>3 DEF ShowsWhatItUses, Shown, IsResponderValid
        <5>2. NoResponder.name = "none"
          BY DEF NoResponder
        <5> QED
          BY <4>1, <5>1, <5>2 DEF IsResponderValid, Names
      <4> QED
        BY <2>1, <2>2, <2>3, <3>1, <4>1, <4>2, <4>3, <4>4 DEF BestSeen
    <3>4. CASE ~Better(p)
      <4>1. UNCHANGED <<max_prefix_len, cur_resp>>
        BY <2>1, <3>4
      <4>2. \A q \in Seen' : IsPrefix(q, url) => Len(q) <= max_prefix_len
        BY <2>2, <2>4, <3>1, <3>4 DEF Better, BestSeen, TypeOK
      <4> QED
        BY <2>1, <2>2, <2>3, <3>1, <4>1, <4>2 DEF BestSeen
    <3> QED
      BY <3>3, <3>4
  <2> QED
    BY <2>5, <2>6, <2>7
<1>3. CASE Found \/ NotImplemented \/ NextRequest
  <2>1. TypeOK'
    BY <1>3 DEF Found, NotImplemented, NextRequest, TypeOK, config, query, search
  <2>2. TableGrows' /\ ShowsWhatItUses'
    BY <1>3 DEF Found, NotImplemented, NextRequest, TableGrows, Constructing,
                ShowsWhatItUses, Shown, ShownDefault, config
  <2>3. BestSeen' /\ CutsItsPrefix' /\ PathGrows' /\ FilesStayBelowRoot'
    BY <1>3 DEF Found, NotImplemented, NextRequest, BestSeen, Seen, CutsItsPrefix,
                PathGrows, FilesStayBelowRoot, config, query, search
  <2> QED
    BY <2>1, <2>2, <2>3
<1> QED
  BY <1>1, <1>2, <1>3

\* The responder that was found has its own prefix in front of the URL, when
\* the configuration is consistent.
LEMMA ConsistentPrefix ==
    ASSUME IInv, loc = "found", Consistent, Responder.name = "Normal"
    PROVE  IsPrefix(Responder.prefix, url)
<1> USE DEF IInv
<1>1. url \in Seq(Parts) /\ Responder.prefix \in Seq(Parts)
  BY RuleTypes
<1>2. CASE cur_resp = NoResponder
  <2>1. Responder = ShownDefault
    BY <1>2 DEF Responder, ShowsWhatItUses
  <2>2. Responder.prefix = <<>>
    BY <2>1 DEF ShownDefault, Consistent, NormalRule
  <2>3. Len(Responder.prefix) = 0 /\ Len(url) \in Nat
    BY <1>1, <2>2
  <2> QED
    BY <1>1, <2>3, ElementsPrefix
<1>3. CASE cur_resp # NoResponder
  <2>1. PICK p \in Seen : IsPrefix(p, url) /\ cur_resp = table[p]
    BY <1>3 DEF BestSeen
  <2>2. p \in DOMAIN responder_rules /\ Responder = responder_rules[p]
    BY <1>3, <2>1 DEF Seen, ShowsWhatItUses, Shown, Responder
  <2>3. IsPrefix(Responder.prefix, p)
    BY <2>2 DEF Consistent
  <2>4. p \in Seq(Parts)
    BY <2>2, RuleTypes
  <2> QED
    BY <1>1, <2>1, <2>3, <2>4, PrefixTransitive
<1> QED
  BY <1>2, <1>3

\* The actions of the responder.
LEMMA ServeInvariant ==
    ASSUME IInv, Serve \/ Abort
    PROVE  IInv'
<1> USE DEF IInv
<1>1. UNCHANGED <<config, default_resp, table, left, url, max_prefix_len, cur_resp>>
      /\ loc = "found"
  BY DEF Serve, Abort, query, search
<1>2. loc' \in {"served", "aborted"}
  BY DEF Serve, Abort
<1>3. rest' \in Seq(Parts) /\ start' \in Nat /\ path' \in Seq(Parts)
  <2>1. CASE Serve
    <3>1. rest' \in Seq(Parts)
      BY <2>1, RuleTypes, CutType DEF Serve
    <3>2. start' = 0 /\ path' = <<>>
      BY <2>1 DEF Serve
    <3> QED
      BY <3>1, <3>2
  <2>2. CASE Abort
    BY <2>2 DEF Abort, TypeOK, query
  <2> QED
    BY <2>1, <2>2
<1>4. TypeOK'
  BY <1>1, <1>2, <1>3 DEF TypeOK, config
<1>5. TableGrows' /\ ShowsWhatItUses'
  BY <1>1, <1>2 DEF TableGrows, Constructing, ShowsWhatItUses, Shown, ShownDefault,
                    config
<1>6. BestSeen'
  BY <1>1, <1>2 DEF BestSeen, Seen
<1>7. CutsItsPrefix'
  <2>1. SUFFICES ASSUME Consistent
                 PROVE  /\ loc' # "aborted"
                        /\ loc' = "served" /\ Responder.name = "Normal" =>
                             url = Responder.prefix \o rest'
    BY <1>1, <1>2 DEF CutsItsPrefix, Consistent, Responder, config
  <2>2. CASE Responder.name = "Normal"
    <3>1. Occurs(Responder.prefix, url) /\ url = Responder.prefix \o Cut(Responder.prefix, url)
      BY <1>1, <2>1, <2>2, ConsistentPrefix, PrefixOccurs, RuleTypes
    <3>2. Serve
      BY <3>1 DEF Abort
    <3> QED
      BY <2>2, <3>1, <3>2 DEF Serve
  <2>3. CASE Responder.name # "Normal"
    BY <2>3 DEF Serve, Abort
  <2> QED
    BY <2>2, <2>3
<1>8. PathGrows'
  <2>1. SUFFICES ASSUME loc' = "served"
                 PROVE  PathGrows'
    BY DEF PathGrows
  <2>2. start' = 0 /\ path' = <<>>
    BY <2>1 DEF Serve, Abort
  <2>3. SubSeq(rest', 1, 0) = <<>> /\ Len(rest') \in Nat
    BY <1>3
  <2>4. SameNames(SubSeq(rest', 1, start'), path')
    BY <2>2, <2>3, SameNamesNone
  <2> QED
    BY <2>2, <2>3, <2>4 DEF PathGrows
<1>9. FilesStayBelowRoot'
  BY <1>2 DEF FilesStayBelowRoot
<1> QED
  BY <1>4, <1>5, <1>6, <1>7, <1>8, <1>9

\* What StrSplit has in hand, up to the index end.
LEMMA PartInHand ==
    ASSUME NEW s \in Seq(Parts), NEW a \in 0 .. Len(s), NEW b \in a .. Len(s),
           NoSlash(s, a + 1, b)
    PROVE  /\ SubSeq(s, a + 1, b) \in Seq(Parts)
           /\ NoSlash(SubSeq(s, a + 1, b), 1, Len(SubSeq(s, a + 1, b)))
           /\ SubSeq(s, 1, a) \in Seq(Parts)
           /\ Len(SubSeq(s, 1, a)) = a
           /\ a > 0 => SubSeq(s, 1, a)[a] = s[a]
           /\ SubSeq(s, 1, a) \o SubSeq(s, a + 1, b) = SubSeq(s, 1, b)
<1> DEFINE w == SubSeq(s, a + 1, b)
<1>1. /\ Len(s) \in Nat /\ a \in Nat /\ b \in Nat
      /\ w \in Seq(Parts) /\ Len(w) = b - a
      /\ \A i \in 1 .. b - a : w[i] = s[a + i]
  OBVIOUS
<1>2. NoSlash(w, 1, Len(w))
  <2>1. \A i \in 1 .. b - a : a + i \in a + 1 .. b
    BY <1>1
  <2> QED
    BY <1>1, <2>1 DEF NoSlash
<1> DEFINE u == SubSeq(s, 1, a)
           v == SubSeq(s, 1, b)
<1>3. /\ u \in Seq(Parts) /\ Len(u) = a /\ \A i \in 1 .. a : u[i] = s[i]
      /\ v \in Seq(Parts) /\ Len(v) = b /\ \A i \in 1 .. b : v[i] = s[i]
  BY <1>1
<1> HIDE DEF u, v, w
<1>4. u \o w = v
  <2>1. /\ u \o w \in Seq(Parts) /\ Len(u \o w) = b
        /\ \A i \in 1 .. a : u[i] = (u \o w)[i]
        /\ \A i \in a + 1 .. b : (u \o w)[i] = w[i - a]
    <3>1. /\ u \o w \in Seq(Parts) /\ Len(u \o w) = Len(u) + Len(w)
          /\ \A i \in 1 .. Len(u) : u[i] = (u \o w)[i]
          /\ \A i \in Len(u) + 1 .. Len(u) + Len(w) : (u \o w)[i] = w[i - Len(u)]
      <4>1. u \in Seq(Parts) /\ w \in Seq(Parts)
        BY <1>1, <1>3
      <4> QED
        BY <4>1, Joined
    <3>2. Len(u) = a /\ Len(u) + Len(w) = b
      BY <1>1, <1>3
    <3> QED
      BY <3>1, <3>2
  <2>2. ASSUME NEW i \in 1 .. b
        PROVE  (u \o w)[i] = v[i]
    <3>1. v[i] = s[i]
      BY <1>3
    <3>2. CASE i \in 1 .. a
      BY <1>3, <2>1, <3>1, <3>2
    <3>3. CASE i \notin 1 .. a
      <4>1. i \in a + 1 .. b /\ i - a \in 1 .. b - a /\ a + (i - a) = i
        BY <1>1, <3>3
      <4>2. w[i - a] = s[a + (i - a)]
        BY <1>1, <4>1
      <4> QED
        BY <2>1, <3>1, <4>1, <4>2
    <3> QED
      BY <3>2, <3>3
  <2> QED
    BY <1>3, <2>1, <2>2
<1> QED
  BY <1>1, <1>2, <1>3, <1>4 DEF u, v, w

\* A step of the loop.
LEMMA SplitInvariant ==
    ASSUME IInv, SplitPart
    PROVE  IInv'
<1> USE DEF IInv
<1>1. PICK end \in start + 1 .. Len(rest) :
        /\ rest[end] = "/"
        /\ NoSlash(rest, start + 1, end - 1)
        /\ path' = WithPart(path, SubSeq(rest, start + 1, end - 1))
        /\ start' = end
  BY DEF SplitPart
<1>2. loc = "served" /\ UNCHANGED <<config, default_resp, table, loc, left, search, rest>>
  BY DEF SplitPart
<1>3. rest \in Seq(Parts) /\ path \in Seq(Parts) /\ start \in 0 .. Len(rest)
      /\ end - 1 \in start .. Len(rest) /\ end \in Nat /\ end \in 1 .. Len(rest)
  BY <1>1, <1>2 DEF TypeOK, PathGrows
<1> DEFINE u == SubSeq(rest, 1, start)
           w == SubSeq(rest, start + 1, end - 1)
<1>4. /\ w \in Seq(Parts) /\ NoSlash(w, 1, Len(w))
      /\ u \in Seq(Parts) /\ Len(u) = start /\ (start > 0 => u[start] = rest[start])
      /\ u \o w = SubSeq(rest, 1, end - 1)
  BY <1>1, <1>3, PartInHand
<1>5. SameNames(u, path) /\ (Len(u) = 0 \/ u[Len(u)] = "/")
  BY <1>2, <1>3, <1>4 DEF PathGrows
<1> HIDE DEF u, w
<1>6. WithPart(path, w) \in Seq(Parts) /\ SameNames(u \o w, WithPart(path, w))
  BY <1>3, <1>4, <1>5, PartStays
<1>7. SubSeq(rest, 1, end) = SubSeq(rest, 1, end - 1) \o <<"/">>
  BY <1>1, <1>3
<1>8. u \o w \in Seq(Parts)
  BY <1>4
<1>9. SameNames(SubSeq(rest, 1, end), path')
  BY <1>1, <1>4, <1>6, <1>7, <1>8, SlashStays DEF w
<1>10. path' = <<>> \/ (path'[1] = "/" /\ path'[Len(path')] # "/")
  BY <1>1, <1>2, <1>3, <1>4, PartShape DEF PathGrows, w
<1>11. PathGrows'
  BY <1>1, <1>2, <1>3, <1>9, <1>10 DEF PathGrows
<1>12. TypeOK'
  BY <1>1, <1>2, <1>3, <1>6 DEF TypeOK, config, search, w
<1>13. TableGrows' /\ ShowsWhatItUses' /\ BestSeen' /\ CutsItsPrefix' /\ FilesStayBelowRoot'
  BY <1>2 DEF TableGrows, Constructing, ShowsWhatItUses, Shown, ShownDefault, BestSeen,
              Seen, CutsItsPrefix, Consistent, Responder, FilesStayBelowRoot, config, search
<1> QED
  BY <1>11, <1>12, <1>13

\* A path that ends with a slash gets the index page, any other is a file's.
LEMMA PathOpened ==
    ASSUME NEW s \in Seq(Parts), NEW t \in Seq(Parts), SameNames(s, t), PlainIndex,
           t = <<>> \/ (t[1] = "/" /\ t[Len(t)] # "/")
    PROVE  LET p == WithIndex(WithSlash(t))
           IN  /\ p[1] = "/" /\ p[Len(p)] # "/"
               /\ SameNames(s, p) \/ SameNames(s \o <<"/">> \o Index, p)
<1>1. IsName(Index) /\ NoSlash(Index, 1, Len(Index)) /\ Index \in Seq(Parts)
  BY PartsAssumption DEF PlainIndex
<1>2. CASE WithSlash(t) = t \o <<"/">>
  <2>1. WithIndex(WithSlash(t)) = t \o <<"/">> \o Index
    <3>1. Len(t) \in Nat /\ Len(t \o <<"/">>) = Len(t) + 1
          /\ (t \o <<"/">>)[Len(t) + 1] = "/"
      OBVIOUS
    <3> QED
      BY <1>2, <3>1 DEF WithIndex
  <2>2. WithIndex(WithSlash(t)) = WithPart(t, Index)
    BY <1>1, <2>1, KeepsNames
  <2> DEFINE s1 == s \o <<"/">>
  <2>3. s1 \in Seq(Parts) /\ s1[Len(s1)] = "/"
    BY PartsAssumption
  <2>4. SameNames(s1, t)
    BY SlashStays
  <2> HIDE DEF s1
  <2>5. SameNames(s1 \o Index, WithPart(t, Index))
    BY <1>1, <2>3, <2>4, PartStays
  <2>6. WithPart(t, Index)[1] = "/" /\ WithPart(t, Index)[Len(WithPart(t, Index))] # "/"
    BY <1>1, PartShape
  <2> QED
    BY <2>2, <2>5, <2>6 DEF s1
<1>3. CASE WithSlash(t) # t \o <<"/">>
  <2>1. WithSlash(t) = t /\ GetStrSuffix(t) # <<>>
    BY <1>3 DEF WithSlash
  <2>2. t # <<>>
    BY <2>1 DEF GetStrSuffix
  <2>3. WithIndex(WithSlash(t)) = t
    BY <2>1, <2>2 DEF WithIndex
  <2> QED
    BY <2>2, <2>3
<1> QED
  BY <1>2, <1>3

\* The last part.
LEMMA LastInvariant ==
    ASSUME IInv, LastPart
    PROVE  IInv'
<1> USE DEF IInv
<1> DEFINE u == SubSeq(rest, 1, start)
           w == SubSeq(rest, start + 1, Len(rest))
           t == WithPart(path, w)
<1>1. /\ loc = "served" /\ loc' = "answered" /\ NoSlash(rest, start + 1, Len(rest))
      /\ path' = IF Responder.name = "Normal" THEN WithIndex(WithSlash(t)) ELSE WithSlash(t)
      /\ Responder' = Responder
      /\ UNCHANGED <<config, default_resp, table, left, search, rest, start>>
  BY DEF LastPart, Responder, search
<1>2. rest \in Seq(Parts) /\ path \in Seq(Parts) /\ start \in 0 .. Len(rest)
      /\ Len(rest) \in start .. Len(rest)
  BY <1>1 DEF TypeOK, PathGrows
<1>3. /\ w \in Seq(Parts) /\ NoSlash(w, 1, Len(w))
      /\ u \in Seq(Parts) /\ Len(u) = start /\ (start > 0 => u[start] = rest[start])
      /\ u \o w = SubSeq(rest, 1, Len(rest))
  BY <1>1, <1>2, PartInHand
<1>4. SameNames(u, path) /\ (Len(u) = 0 \/ u[Len(u)] = "/")
  BY <1>1, <1>2, <1>3 DEF PathGrows
<1>5. u \o w = rest
  <2>1. SubSeq(rest, 1, Len(rest)) = rest
    BY <1>2
  <2> QED
    BY <1>3, <2>1
<1>6. path = <<>> \/ (path[1] = "/" /\ path[Len(path)] # "/")
  BY <1>1 DEF PathGrows
<1> HIDE DEF u, w
<1>7. t \in Seq(Parts) /\ SameNames(rest, t)
  BY <1>2, <1>3, <1>4, <1>5, PartStays
<1>8. t = <<>> \/ (t[1] = "/" /\ t[Len(t)] # "/")
  BY <1>2, <1>3, <1>6, PartShape
<1> HIDE DEF t
<1>9. FilesStayBelowRoot'
  <2>1. SUFFICES ASSUME Responder.name = "Normal", PlainIndex
                 PROVE  /\ path'[1] = "/" /\ path'[Len(path')] # "/"
                        /\ SameNames(rest, path') \/ SameNames(rest \o <<"/">> \o Index, path')
    BY <1>1 DEF FilesStayBelowRoot, PlainIndex
  <2>2. path' = WithIndex(WithSlash(t))
    BY <1>1, <2>1
  <2> QED
    BY <1>2, <1>7, <1>8, <2>1, <2>2, PathOpened
<1>10. path' \in Seq(Parts)
  BY <1>1, <1>7, PartsAssumption DEF WithIndex, WithSlash
<1>11. TypeOK'
  BY <1>1, <1>10 DEF TypeOK, config, search
<1>12. TableGrows' /\ ShowsWhatItUses' /\ BestSeen' /\ CutsItsPrefix' /\ PathGrows'
  BY <1>1 DEF TableGrows, Constructing, ShowsWhatItUses, Shown, ShownDefault, BestSeen,
              Seen, CutsItsPrefix, Consistent, Responder, PathGrows, config, search
<1> QED
  BY <1>9, <1>11, <1>12

\* The invariant of the router holds in every reachable state.
THEOREM RouterInvariance == Spec => []IInv
<1>1. Init => IInv
  BY InitInvariant
<1>2. IInv /\ [Next]_vars => IInv'
  <2>1. ASSUME IInv, Next
        PROVE  IInv'
    BY <2>1, BuildInvariant, FindInvariant, ServeInvariant, SplitInvariant,
       LastInvariant DEF Next
  <2>2. ASSUME IInv, UNCHANGED vars
        PROVE  IInv'
    BY <2>2 DEF vars, config, query, search, IInv, TypeOK, TableGrows, Constructing,
                Shown, ShownDefault, ShowsWhatItUses, BestSeen, Seen, CutsItsPrefix,
                Consistent, Responder, PathGrows, FilesStayBelowRoot
  <2> QED
    BY <2>1, <2>2
<1> QED
  BY <1>1, <1>2, PTL DEF Spec

-----------------------------------------------------------------------------
(* What follows.                                                           *)

\* The debug page's rules are the ones in use (router.cpp:19-41, :86-107).
THEOREM RouterShowsWhatItUses == Spec => []ShowsWhatItUses
<1>1. IInv => ShowsWhatItUses
  BY DEF IInv
<1> QED
  BY <1>1, RouterInvariance, PTL

\* With consistent rules the assertion of the file responder never fails, and
\* it cuts its own prefix (normal.cpp:70-71).
THEOREM RouterCutsItsPrefix == Spec => []CutsItsPrefix
<1>1. IInv => CutsItsPrefix
  BY DEF IInv
<1> QED
  BY <1>1, RouterInvariance, PTL

\* Whatever the URL, the file that is opened lies below the root, where the
\* names of the URL lead one after the other (strop.h:19-43,
\* normal.cpp:71-75).
THEOREM RouterStaysBelowRoot == Spec => []FilesStayBelowRoot
<1>1. IInv => FilesStayBelowRoot
  BY DEF IInv
<1> QED
  BY <1>1, RouterInvariance, PTL

\* The longest rule of the configuration wins, in whatever order the rules
\* are visited (router.cpp:58-75).
THEOREM RouterFindsLongest == Spec => []LongestRuleWins
<1>1. IInv => LongestRuleWins
  <2>1. SUFFICES ASSUME IInv, loc \in {"found", "served", "answered"}
                 PROVE  Responder = IF Applicable(url) # {}
                                    THEN responder_rules[Longest(Applicable(url))]
                                    ELSE IF IsResponderValid(default_rule.name)
                                         THEN default_rule ELSE NormalRule
    BY DEF LongestRuleWins
  <2> USE <2>1 DEF IInv
  <2>2. Seen = DOMAIN table /\ DOMAIN table = Shown
    BY DEF BestSeen, Seen, ShowsWhatItUses
  <2>3. \A p \in DOMAIN table : p \in Seq(Parts) /\ Len(p) \in Nat /\ url \in Seq(Parts)
    BY RuleTypes
  <2>4. Applicable(url) = {p \in DOMAIN table : p # <<>> /\ IsPrefix(p, url)}
    BY <2>2 DEF Applicable, Shown, IsResponderValid
  <2>5. CASE cur_resp = NoResponder
    <3>1. Applicable(url) = {}
      <4>1. \A p \in DOMAIN table : IsPrefix(p, url) => Len(p) <= 0
        BY <2>2, <2>5 DEF BestSeen
      <4>2. \A p \in DOMAIN table : IsPrefix(p, url) => p = <<>>
        BY <2>3, <4>1
      <4> QED
        BY <2>4, <4>2
    <3> QED
      BY <2>5, <3>1 DEF Responder, ShowsWhatItUses, ShownDefault, IsResponderValid
  <2>6. CASE cur_resp # NoResponder
    <3>1. PICK p \in DOMAIN table : /\ IsPrefix(p, url)
                                    /\ max_prefix_len = Len(p)
                                    /\ p # <<>>
                                    /\ cur_resp = table[p]
      BY <2>2, <2>6 DEF BestSeen
    <3>2. p \in Applicable(url)
      BY <2>4, <3>1
    <3>3. \A q \in Applicable(url) : Len(q) <= Len(p)
      BY <2>2, <2>4, <3>1 DEF BestSeen
    <3>4. /\ Longest(Applicable(url)) \in Applicable(url)
          /\ \A q \in Applicable(url) : Len(q) <= Len(Longest(Applicable(url)))
      BY <3>2, <3>3 DEF Longest
    <3>5. Longest(Applicable(url)) = p
      <4> DEFINE m == Longest(Applicable(url))
      <4>1. m \in DOMAIN table /\ IsPrefix(m, url)
        BY <2>4, <3>4
      <4>2. Len(m) = Len(p)
        BY <2>3, <3>2, <3>3, <3>4, <4>1
      <4> HIDE DEF m
      <4> QED
        BY <2>3, <3>1, <4>1, <4>2, PrefixUnique DEF m
    <3>6. table[p] = responder_rules[p]
      BY <2>2 DEF ShowsWhatItUses
    <3> QED
      BY <2>6, <3>1, <3>2, <3>5, <3>6 DEF Responder
  <2> QED
    BY <2>5, <2>6
<1> QED
  BY <1>1, RouterInvariance, PTL
=============================================================================
