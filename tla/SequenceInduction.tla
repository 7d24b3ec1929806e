------------------------- MODULE SequenceInduction ------------------------
(***************************************************************************)
(* Induction over the naturals in the form the provers can use, with a set *)
(* in the place of a predicate, what follows from it for FlattenSeq, and   *)
(* facts about concatenations, prefixes and the elements of a sequence.    *)
(***************************************************************************)
EXTENDS Integers, Sequences, FiniteSetsExt, Flattening, WellFoundedInduction,
        SequenceTheorems, TLAPS

\* Concatenation is associative, and appending to the second part of one appends
\* to the whole.  (The provers do not find S themselves.)
Associates(S) == \A x, y, z \in Seq(S) : (x \o y) \o z = x \o (y \o z)

AppendsBehind(S) ==
  \A s, t \in Seq(S), e \in S :
    s \o t \in Seq(S) /\ s \o Append(t, e) = Append(s \o t, e)

\* The first, for every S.
LEMMA Associative == ASSUME NEW S PROVE Associates(S)
BY ConcatAssociative DEF Associates

\* The second, for every S.
LEMMA ConcatAppend == ASSUME NEW S PROVE AppendsBehind(S)
<1> SUFFICES ASSUME NEW s \in Seq(S), NEW t \in Seq(S), NEW e \in S
             PROVE  s \o t \in Seq(S) /\ s \o Append(t, e) = Append(s \o t, e)
  BY DEF AppendsBehind
<1>1. s \o t \in Seq(S) /\ <<e>> \in Seq(S)
  BY ConcatProperties
<1>2. Append(t, e) = t \o <<e>> /\ Append(s \o t, e) = (s \o t) \o <<e>>
  BY <1>1, AppendIsConcat
<1>3. Associates(S)
  BY Associative
<1>4. (s \o t) \o <<e>> = s \o (t \o <<e>>)
  BY <1>1, <1>3, Zenon DEF Associates
<1> QED
  BY <1>1, <1>2, <1>4, Zenon

\* A concatenation, as a relation that the provers need not look into.
Joins(c, a, b) == c = a \o b

\* The length of a concatenation, and its type.
LEMMA JoinsLength ==
  ASSUME NEW S, NEW a \in Seq(S), NEW b \in Seq(S), NEW c, Joins(c, a, b)
  PROVE  c \in Seq(S) /\ Len(c) = Len(a) + Len(b)
BY ConcatProperties DEF Joins

\* More behind a concatenation is more behind its second part.
LEMMA JoinsRegroup ==
  ASSUME NEW S, NEW a \in Seq(S), NEW b \in Seq(S), NEW c, Joins(c, a, b), NEW f \in Seq(S)
  PROVE  Joins(c \o f, a, b \o f) /\ b \o f \in Seq(S)
<1>1. b \o f \in Seq(S)
  BY ConcatProperties, Zenon
<1>2. Associates(S)
  BY Associative
<1>3. (a \o b) \o f = a \o (b \o f)
  BY <1>2, Zenon DEF Associates
<1> QED
  BY <1>1, <1>3, Zenon DEF Joins

\* The first part of a concatenation is a prefix of it.
LEMMA JoinsPrefix ==
  ASSUME NEW S, NEW a \in Seq(S), NEW b \in Seq(S), NEW c, Joins(c, a, b),
         NEW k \in 0..Len(a)
  PROVE  SubSeq(c, 1, k) = SubSeq(a, 1, k)
<1>1. c \in Seq(S) /\ Len(c) = Len(a) + Len(b) /\ Len(a) \in Nat /\ Len(b) \in Nat
  BY JoinsLength, LenProperties
<1>2. \A i \in 1..Len(a) : c[i] = a[i]
  BY ConcatProperties DEF Joins
<1>3. k <= Len(c) /\ k <= Len(a) /\ k \in Nat
  BY <1>1
<1> QED
  BY <1>1, <1>2, <1>3

\* What moves from the front of one sequence to the end of the one before it
\* leaves the two, joined, as they were.
LEMMA JoinsMoves ==
  ASSUME NEW S, NEW a \in Seq(S), NEW b \in Seq(S), NEW c, Joins(c, a, b),
         NEW d \in Seq(S), NEW e, Joins(e, d, a), NEW z, Joins(z, d, c)
  PROVE  Joins(z, e, b)
<1>1. (d \o a) \o b = d \o (a \o b)
  BY SMTT(40)
<1> QED
  BY <1>1, Zenon DEF Joins

\* The library's less-than relation on the naturals.
LEMMA LessThanRelation ==
  OpToRel(<, Nat) = {ss \in Nat \X Nat : ss[1] < ss[2]}
BY Zenon DEF OpToRel

\* Every non-empty set of naturals has a least element.
LEMMA LeastElement ==
  ASSUME NEW T \in SUBSET Nat, T # {}
  PROVE  \E x \in T : \A y \in T : x <= y
<1> DEFINE R == {ss \in Nat \X Nat : ss[1] < ss[2]}
<1>1. IsWellFoundedOn(R, Nat)
  BY NatLessThanWellFounded, LessThanRelation, Zenon
<1>2. ASSUME NEW x \in Nat, NEW y \in Nat, x < y PROVE <<x, y>> \in R
  <2>1. <<x, y>> \in Nat \X Nat
    OBVIOUS
  <2>2. <<x, y>>[1] = x /\ <<x, y>>[2] = y
    OBVIOUS
  <2>3. <<x, y>>[1] < <<x, y>>[2]
    BY <1>2, <2>2
  <2> QED
    BY <2>1, <2>3, Zenon DEF R
<1> HIDE DEF R
<1>3. PICK x \in T : \A y \in T : ~ (<<y, x>> \in R)
  BY WFMin, <1>1, Zenon
<1>4. ASSUME NEW y \in T PROVE x <= y
  <2>1. ~ (y < x)
    BY <1>3, <1>2, Zenon
  <2> QED
    BY <2>1
<1> QED
  BY <1>4

\* Induction: a set that has 0, and n + 1 with every n, has every natural.
LEMMA SetInduction ==
  ASSUME NEW S, 0 \in S, \A n \in Nat : n \in S => n + 1 \in S
  PROVE  Nat \subseteq S
<1> SUFFICES ASSUME Nat \ S # {} PROVE FALSE
  OBVIOUS
<1>1. PICK x \in Nat \ S : \A y \in Nat \ S : x <= y
  BY LeastElement, Zenon
<1>2. x # 0 /\ x - 1 \in Nat
  BY <1>1
<1>3. x - 1 \in S
  BY <1>1, <1>2
<1> QED
  BY <1>1, <1>2, <1>3

-------------------------------------------------------------------------------
(***************************************************************************)
(* FlattenSeq                                                              *)
(***************************************************************************)

\* The first i sequences of s in one, from the first i - 1 of them in one.
OneMore(s, i, before) == IF i = 1 THEN s[i] ELSE before \o s[i]

\* f[i] is the concatenation of the first i of the n sequences of s.
FlattenedBy(f, s, n) == f = [i \in 1..n |-> OneMore(s, i, f[i - 1])]

\* The recursion of FlattenSeq defines a function.
LEMMA FlattenDefined ==
  ASSUME NEW s, NEW n \in Nat
  PROVE  \E f : FlattenedBy(f, s, n)
<1> DEFINE G == {k \in Nat : \E f : FlattenedBy(f, s, k)}
<1>1. 0 \in G
  <2> DEFINE g == [i \in 1..0 |-> 0]
  <2>1. FlattenedBy(g, s, 0)
    BY DEF FlattenedBy
  <2> QED
    BY <2>1
<1>2. ASSUME NEW k \in Nat, k \in G PROVE k + 1 \in G
  <2>1. PICK f : FlattenedBy(f, s, k)
    BY <1>2
  <2> DEFINE g == [i \in 1..(k + 1) |-> OneMore(s, i, f[i - 1])]
  <2>2. \A i \in 1..k : g[i] = f[i]
    BY <2>1 DEF FlattenedBy
  <2>3. \A i \in 1..(k + 1) : g[i] = OneMore(s, i, f[i - 1])
    OBVIOUS
  <2>4. g = [i \in 1..(k + 1) |-> g[i]]
    OBVIOUS
  <2> HIDE DEF g
  <2>5. ASSUME NEW i \in 1..(k + 1) PROVE g[i] = OneMore(s, i, g[i - 1])
    <3>1. CASE i = 1
      BY <3>1, <2>3 DEF OneMore
    <3>2. CASE i # 1
      <4>1. i - 1 \in 1..k
        BY <3>2
      <4> QED
        BY <4>1, <2>2, <2>3
    <3> QED
      BY <3>1, <3>2
  <2>6. FlattenedBy(g, s, k + 1)
    BY <2>4, <2>5, Zenon DEF FlattenedBy
  <2> QED
    BY <2>6
<1>3. n \in G
  <2> HIDE DEF G
  <2> QED
    BY <1>1, <1>2, SetInduction
<1> QED
  BY <1>3

\* FlattenSeq is the last value of that function.
LEMMA FlattenUnfolded ==
  ASSUME NEW s, Len(s) \in Nat, Len(s) # 0
  PROVE  \E f : FlattenedBy(f, s, Len(s)) /\ FlattenSeq(s) = f[Len(s)]
<1> DEFINE n == Len(s)
           f == CHOOSE g : g = [i \in 1..n |->
                                  IF i = 1 THEN s[i] ELSE g[i - 1] \o s[i]]
<1>1. FlattenSeq(s) = f[n]
  BY Zenon DEF FlattenSeq
<1>2. \E g : g = [i \in 1..n |-> IF i = 1 THEN s[i] ELSE g[i - 1] \o s[i]]
  BY FlattenDefined, Zenon DEF FlattenedBy, OneMore
<1>3. FlattenedBy(f, s, n)
  BY <1>2, Zenon DEF FlattenedBy, OneMore
<1> QED
  BY <1>1, <1>3, Zenon

\* Nothing to flatten.
LEMMA FlattenEmpty == FlattenSeq(<<>>) = <<>>
BY DEF FlattenSeq

\* The concatenations up to k are those of the first k sequences alone, and
\* they are sequences over what the sequences are over.
LEMMA FlattenedPrefix ==
  ASSUME NEW S, NEW s, NEW t, NEW m \in Nat, NEW n \in Nat, n <= m,
         \A i \in 1..m : s[i] \in Seq(S), \A i \in 1..n : t[i] = s[i],
         NEW f, FlattenedBy(f, s, m), NEW g, FlattenedBy(g, t, n)
  PROVE  \A i \in 1..n : f[i] = g[i] /\ f[i] \in Seq(S)
<1> DEFINE G == {k \in Nat : k \in 1..n => f[k] = g[k] /\ f[k] \in Seq(S)}
<1>1. 0 \in G
  OBVIOUS
<1>2. ASSUME NEW k \in Nat, k \in G PROVE k + 1 \in G
  <2>1. CASE k + 1 \in 1..n
    <3>1. f[k + 1] = OneMore(s, k + 1, f[k]) /\ g[k + 1] = OneMore(t, k + 1, g[k])
      BY <2>1 DEF FlattenedBy
    <3>2. t[k + 1] = s[k + 1] /\ s[k + 1] \in Seq(S)
      BY <2>1
    <3>3. CASE k = 0
      BY <3>1, <3>2, <3>3 DEF OneMore
    <3>4. CASE k # 0
      <4>1. f[k] = g[k] /\ f[k] \in Seq(S)
        BY <2>1, <3>4, <1>2
      <4>2. k + 1 # 1
        BY <3>4
      <4>3. f[k + 1] = f[k] \o s[k + 1] /\ g[k + 1] = g[k] \o t[k + 1]
        BY <4>2, <3>1, Zenon DEF OneMore
      <4>4. f[k + 1] = g[k + 1]
        BY <4>1, <4>3, <3>2, Zenon
      <4>5. f[k + 1] \in Seq(S)
        BY <4>1, <4>3, <3>2, ConcatProperties
      <4> QED
        BY <4>4, <4>5
    <3> QED
      BY <3>3, <3>4
  <2> QED
    BY <2>1
<1>3. \A k \in Nat : k \in G
  <2> HIDE DEF G
  <2> QED
    BY <1>1, <1>2, SetInduction, Zenon
<1> QED
  BY <1>3

\* FlattenSeq of a sequence with one more at its end.
LEMMA FlattenAppend ==
  ASSUME NEW S, NEW s \in Seq(Seq(S)), NEW e \in Seq(S)
  PROVE  FlattenSeq(Append(s, e)) = FlattenSeq(s) \o e /\ FlattenSeq(s) \in Seq(S)
<1> DEFINE t == Append(s, e)
           n == Len(s)
<1>1. /\ n \in Nat /\ t \in Seq(Seq(S)) /\ Len(t) = n + 1
      /\ \A i \in 1..n : t[i] = s[i]
      /\ t[n + 1] = e
  BY AppendProperties, LenProperties
<1>2. \A i \in 1..(n + 1) : t[i] \in Seq(S)
  BY <1>1, ElementOfSeq
<1> HIDE DEF t
<1>3. PICK f : FlattenedBy(f, t, n + 1) /\ FlattenSeq(t) = f[n + 1]
  BY <1>1, FlattenUnfolded
<1>4. CASE n = 0
  <2>1. s = <<>> /\ FlattenSeq(s) = <<>>
    BY <1>4, EmptySeq, FlattenEmpty
  <2>2. f[n + 1] = e
    BY <1>1, <1>3, <1>4 DEF FlattenedBy, OneMore
  <2>3. <<>> \o e = e /\ <<>> \in Seq(S)
    BY ConcatEmptySeq, EmptySeq
  <2> QED
    BY <1>3, <2>1, <2>2, <2>3, Zenon DEF t
<1>5. CASE n # 0
  <2>1. PICK g : FlattenedBy(g, s, n) /\ FlattenSeq(s) = g[n]
    BY <1>1, <1>5, FlattenUnfolded
  <2>2. \A i \in 1..n : s[i] = t[i]
    BY <1>1, Zenon
  <2>3. f[n] = g[n] /\ f[n] \in Seq(S)
    <3>1. n + 1 \in Nat /\ n <= n + 1 /\ n \in 1..n
      BY <1>1, <1>5
    <3> HIDE DEF n
    <3>2. \A i \in 1..n : f[i] = g[i] /\ f[i] \in Seq(S)
      BY <1>1, <1>2, <1>3, <2>1, <2>2, <3>1, FlattenedPrefix, Zenon
    <3> QED
      BY <3>1, <3>2
  <2>4. f[n + 1] = OneMore(t, n + 1, f[n]) /\ n + 1 # 1
    BY <1>1, <1>3, <1>5 DEF FlattenedBy
  <2>5. f[n + 1] = f[n] \o e
    BY <2>4, <1>1 DEF OneMore
  <2> QED
    BY <1>3, <2>1, <2>3, <2>5, Zenon DEF t
<1> QED
  BY <1>4, <1>5

\* More in the last sequence is more at the end.
LEMMA FlattenTail ==
  ASSUME NEW S, NEW s \in Seq(Seq(S)), NEW e \in Seq(S), NEW w \in Seq(S)
  PROVE  FlattenSeq(Append(s, e \o w)) = FlattenSeq(Append(s, e)) \o w
<1> DEFINE a == FlattenSeq(s)
<1>1. e \o w \in Seq(S)
  BY ConcatProperties
<1>2. /\ FlattenSeq(Append(s, e)) = a \o e
      /\ FlattenSeq(Append(s, e \o w)) = a \o (e \o w)
      /\ a \in Seq(S)
  BY <1>1, FlattenAppend, Zenon
<1> HIDE DEF a
<1>3. Joins(a \o e, a, e)
  BY DEF Joins
<1>4. Joins((a \o e) \o w, a, e \o w)
  BY <1>2, <1>3, JoinsRegroup, Zenon
<1> QED
  BY <1>2, <1>4, Zenon DEF Joins

\* Flattening keeps to the elements of the sequences.
LEMMA FlattenType ==
  ASSUME NEW S, NEW s \in Seq(Seq(S))
  PROVE  FlattenSeq(s) \in Seq(S)
BY FlattenAppend, EmptySeq

\* Flattening a concatenation whose second part has one more sequence.
LEMMA FlattenConcatStep ==
  ASSUME NEW S, NEW s \in Seq(Seq(S)), NEW v \in Seq(Seq(S)), NEW e \in Seq(S),
         FlattenSeq(s \o v) = FlattenSeq(s) \o FlattenSeq(v)
  PROVE  FlattenSeq(s \o Append(v, e)) = FlattenSeq(s) \o FlattenSeq(Append(v, e))
<1> DEFINE a == FlattenSeq(s)
           b == FlattenSeq(v)
<1>1. s \o v \in Seq(Seq(S)) /\ s \o Append(v, e) = Append(s \o v, e)
  <2> DEFINE T == Seq(S)
  <2>1. s \in Seq(T) /\ v \in Seq(T) /\ e \in T
    OBVIOUS
  <2> HIDE DEF T
  <2>2. AppendsBehind(T)
    BY ConcatAppend
  <2>3. s \o v \in Seq(T) /\ s \o Append(v, e) = Append(s \o v, e)
    BY <2>1, <2>2, Zenon DEF AppendsBehind
  <2> QED
    BY <2>3 DEF T
<1>2. FlattenSeq(Append(s \o v, e)) = (a \o b) \o e
  <2>1. FlattenSeq(Append(s \o v, e)) = FlattenSeq(s \o v) \o e
    BY <1>1, FlattenAppend, Zenon
  <2> QED
    BY <2>1, Zenon
<1>3. FlattenSeq(Append(v, e)) = b \o e
  BY FlattenAppend, Zenon
<1>4. a \in Seq(S) /\ b \in Seq(S)
  BY FlattenType
<1> HIDE DEF a, b
<1>5. Joins(a \o b, a, b)
  BY DEF Joins
<1>6. Joins((a \o b) \o e, a, b \o e)
  BY <1>4, <1>5, JoinsRegroup, Zenon
<1> QED
  BY <1>1, <1>2, <1>3, <1>6, Zenon DEF Joins, a

\* Flattening a concatenation.
LEMMA FlattenConcat ==
  ASSUME NEW S, NEW s \in Seq(Seq(S)), NEW t \in Seq(Seq(S))
  PROVE  FlattenSeq(s \o t) = FlattenSeq(s) \o FlattenSeq(t)
<1> DEFINE Flat(u) == FlattenSeq(s \o u) = FlattenSeq(s) \o FlattenSeq(u)
           G == {k \in Nat : \A u \in Seq(Seq(S)) : Len(u) = k => Flat(u)}
<1>1. 0 \in G
  <2> SUFFICES ASSUME NEW u \in Seq(Seq(S)), Len(u) = 0 PROVE Flat(u)
    OBVIOUS
  <2>1. u = <<>>
    BY EmptySeq
  <2>2. s \o u = s /\ FlattenSeq(s) \o <<>> = FlattenSeq(s)
    BY <2>1, ConcatEmptySeq, FlattenType
  <2> QED
    BY <2>1, <2>2, FlattenEmpty, Zenon
<1>2. ASSUME NEW k \in Nat, k \in G PROVE k + 1 \in G
  <2> SUFFICES ASSUME NEW u \in Seq(Seq(S)), Len(u) = k + 1 PROVE Flat(u)
    OBVIOUS
  <2>1. u # <<>>
    BY EmptySeq
  <2>2. PICK v \in Seq(Seq(S)), e \in Seq(S) : u = Append(v, e)
    BY <2>1, SequenceEmptyOrAppend, Zenon
  <2>3. Len(v) = k
    BY <2>2, AppendProperties, LenProperties
  <2>4. Flat(v)
    BY <1>2, <2>3
  <2> QED
    BY <2>2, <2>4, FlattenConcatStep, Zenon
<1>3. Len(t) \in G
  <2> HIDE DEF G
  <2>1. Len(t) \in Nat
    BY LenProperties
  <2> QED
    BY <1>1, <1>2, <2>1, SetInduction, Zenon
<1> QED
  BY <1>3

\* A single sequence.
LEMMA FlattenOne ==
  ASSUME NEW S, NEW e \in Seq(S)
  PROVE  FlattenSeq(<<e>>) = e
<1>1. <<>> \in Seq(Seq(S)) /\ <<e>> = Append(<<>>, e)
  OBVIOUS
<1>2. FlattenSeq(Append(<<>>, e)) = FlattenSeq(<<>>) \o e
  BY <1>1, FlattenAppend, Zenon
<1>3. <<>> \o e = e
  BY ConcatEmptySeq
<1> QED
  BY <1>1, <1>2, <1>3, FlattenEmpty, Zenon

\* Less at the start of the first sequence is less at the start.
LEMMA FlattenHead ==
  ASSUME NEW S, NEW s \in Seq(Seq(S)), NEW a \in Seq(S), NEW b \in Seq(S),
         NEW h, Joins(h, a, b), NEW x, Joins(x, <<h>>, s), NEW y, Joins(y, <<b>>, s)
  PROVE  Joins(FlattenSeq(x), a, FlattenSeq(y)) /\ FlattenSeq(y) \in Seq(S)
<1> DEFINE f == FlattenSeq(s)
<1>1. h \in Seq(S) /\ f \in Seq(S)
  BY ConcatProperties, FlattenType DEF Joins
<1>2. <<h>> \in Seq(Seq(S)) /\ <<b>> \in Seq(Seq(S))
  BY <1>1
<1>3. FlattenSeq(x) = FlattenSeq(<<h>>) \o f /\ FlattenSeq(y) = FlattenSeq(<<b>>) \o f
  BY <1>2, FlattenConcat, Zenon DEF Joins
<1>4. FlattenSeq(<<h>>) = h /\ FlattenSeq(<<b>>) = b
  BY <1>1, FlattenOne, Zenon
<1> HIDE DEF f
<1>5. Joins(h \o f, a, b \o f) /\ b \o f \in Seq(S)
  BY <1>1, JoinsRegroup, Zenon
<1> QED
  BY <1>3, <1>4, <1>5, Zenon

-------------------------------------------------------------------------------
(***************************************************************************)
(* The sequences of s up to the k-th in one, and where a position falls.   *)
(***************************************************************************)

UpTo(s, k) == FlattenSeq(SubSeq(s, 1, k))

\* One more sequence adds its elements.
LEMMA UpToNext ==
  ASSUME NEW S, NEW s \in Seq(Seq(S)), NEW k \in 0..(Len(s) - 1)
  PROVE  /\ UpTo(s, k + 1) = UpTo(s, k) \o s[k + 1]
         /\ UpTo(s, k) \in Seq(S) /\ UpTo(s, k + 1) \in Seq(S)
         /\ Len(UpTo(s, k + 1)) = Len(UpTo(s, k)) + Len(s[k + 1])
<1> DEFINE t == SubSeq(s, 1, k)
<1>1. s[k + 1] \in Seq(S)
  BY ElementOfSeq, LenProperties
<1>2. t \in Seq(Seq(S)) /\ SubSeq(s, 1, k + 1) = Append(t, s[k + 1])
  OBVIOUS
<1> HIDE DEF t
<1>3. FlattenSeq(Append(t, s[k + 1])) = FlattenSeq(t) \o s[k + 1]
  BY <1>1, <1>2, FlattenAppend, Zenon
<1>4. FlattenSeq(t) \in Seq(S)
  BY <1>2, FlattenType
<1>5. /\ FlattenSeq(t) \o s[k + 1] \in Seq(S)
      /\ Len(FlattenSeq(t) \o s[k + 1]) = Len(FlattenSeq(t)) + Len(s[k + 1])
  BY <1>1, <1>4, ConcatProperties
<1> QED
  BY <1>2, <1>3, <1>4, <1>5, Zenon DEF UpTo, t

\* Up to none, and up to the last.
LEMMA UpToEnds ==
  ASSUME NEW S, NEW s \in Seq(Seq(S))
  PROVE  UpTo(s, 0) = <<>> /\ UpTo(s, Len(s)) = FlattenSeq(s)
<1>1. SubSeq(s, 1, 0) = <<>> /\ SubSeq(s, 1, Len(s)) = s
  OBVIOUS
<1> QED
  BY <1>1, FlattenEmpty, Zenon DEF UpTo

\* How to recognise Append.
LEMMA RecogniseAppend ==
  ASSUME NEW A, NEW s \in Seq(A), NEW e \in A, NEW t \in Seq(A),
         Len(t) = Len(s) + 1, \A i \in 1..Len(s) : t[i] = s[i], t[Len(s) + 1] = e
  PROVE  t = Append(s, e)
<1>1. /\ Append(s, e) \in Seq(A) /\ Len(Append(s, e)) = Len(t) /\ Len(s) \in Nat
      /\ \A i \in 1..Len(s) : Append(s, e)[i] = s[i]
      /\ Append(s, e)[Len(s) + 1] = e
  BY AppendProperties, LenProperties
<1> DEFINE a == Append(s, e)
<1> HIDE DEF a
<1>2. \A i \in 1..Len(t) : t[i] = a[i]
  BY <1>1 DEF a
<1> QED
  BY <1>1, <1>2, SeqEqual DEF a

\* How to recognise a concatenation with a first element.
LEMMA RecognisePrepend ==
  ASSUME NEW A, NEW s \in Seq(A), NEW e \in A, NEW t \in Seq(A),
         Len(t) = Len(s) + 1, t[1] = e, \A i \in 1..Len(s) : t[i + 1] = s[i]
  PROVE  t = <<e>> \o s
<1>1. <<e>> \in Seq(A) /\ Len(<<e>>) = 1 /\ <<e>>[1] = e /\ Len(s) \in Nat
  OBVIOUS
<1> DEFINE h == <<e>>
           a == h \o s
<1> HIDE DEF h
<1>2. /\ a \in Seq(A) /\ Len(a) = 1 + Len(s)
      /\ \A i \in 1..(1 + Len(s)) : a[i] = IF i <= 1 THEN h[i] ELSE s[i - 1]
  BY <1>1, ConcatProperties DEF h
<1> HIDE DEF a
<1>3. ASSUME NEW i \in 1..Len(t) PROVE t[i] = a[i]
  <2>1. CASE i = 1
    BY <1>1, <1>2, <2>1 DEF h
  <2>2. CASE i # 1
    <3>1. i - 1 \in 1..Len(s) /\ (i - 1) + 1 = i /\ i \in 1..(1 + Len(s)) /\ ~ (i <= 1)
      BY <1>1, <2>2
    <3>2. t[(i - 1) + 1] = s[i - 1]
      BY <3>1
    <3> QED
      BY <1>2, <3>1, <3>2
  <2> QED
    BY <2>1, <2>2
<1> QED
  BY <1>1, <1>2, <1>3, SeqEqual DEF h, a

\* A sequence is its first k elements and the others.
LEMMA SplitAt ==
  ASSUME NEW A, NEW s \in Seq(A), NEW k \in 0..Len(s)
  PROVE  s = SubSeq(s, 1, k) \o SubSeq(s, k + 1, Len(s))
<1>1. Len(s) \in Nat /\ 1 \in 1..(Len(s) + 1) /\ Len(s) \in k..Len(s) /\ k \in (1 - 1)..Len(s)
  OBVIOUS
<1>2. SubSeq(s, 1, k) \o SubSeq(s, k + 1, Len(s)) = SubSeq(s, 1, Len(s))
  BY <1>1, ConcatAdjacentSubSeq, Zenon
<1> QED
  BY <1>2, SubSeqFull, Zenon

\* Flattening falls into what is up to the k-th and what comes after it.
LEMMA FlattenSplit ==
  ASSUME NEW S, NEW s \in Seq(Seq(S)), NEW k \in 0..Len(s)
  PROVE  /\ FlattenSeq(s) = UpTo(s, k) \o FlattenSeq(SubSeq(s, k + 1, Len(s)))
         /\ UpTo(s, k) \in Seq(S) /\ FlattenSeq(SubSeq(s, k + 1, Len(s))) \in Seq(S)
<1> DEFINE t == SubSeq(s, 1, k)
           u == SubSeq(s, k + 1, Len(s))
<1>1. t \in Seq(Seq(S)) /\ u \in Seq(Seq(S)) /\ s = t \o u
  <2>1. t \in Seq(Seq(S)) /\ u \in Seq(Seq(S))
    OBVIOUS
  <2>2. s = t \o u
    BY SplitAt, Zenon
  <2> QED
    BY <2>1, <2>2, Zenon
<1> HIDE DEF t, u
<1>2. FlattenSeq(t \o u) = FlattenSeq(t) \o FlattenSeq(u)
  BY <1>1, FlattenConcat
<1>3. FlattenSeq(t) \in Seq(S) /\ FlattenSeq(u) \in Seq(S)
  BY <1>1, FlattenType
<1> QED
  BY <1>1, <1>2, <1>3, Zenon DEF UpTo, t, u

\* With no empty sequence, more sequences have more elements.
LEMMA UpToGrows ==
  ASSUME NEW S, NEW s \in Seq(Seq(S)), \A i \in 1..Len(s) : Len(s[i]) > 0
  PROVE  /\ \A i \in 0..Len(s) : Len(UpTo(s, i)) \in Nat
         /\ \A i, j \in 0..Len(s) : i < j => Len(UpTo(s, i)) < Len(UpTo(s, j))
<1> DEFINE n == Len(s)
           R(i) == Len(UpTo(s, i))
           G == {d \in Nat : \A i \in 0..n : i + d + 1 \in 0..n => R(i) < R(i + d + 1)}
<1>1. n \in Nat
  BY LenProperties
<1>2. \A i \in 0..n : R(i) \in Nat
  <2> SUFFICES ASSUME NEW i \in 0..n PROVE R(i) \in Nat
    OBVIOUS
  <2>1. UpTo(s, i) \in Seq(S)
    BY FlattenSplit
  <2> QED
    BY <2>1, LenProperties
<1>3. \A i \in 0..(n - 1) : R(i) < R(i + 1)
  <2> SUFFICES ASSUME NEW i \in 0..(n - 1) PROVE R(i) < R(i + 1)
    OBVIOUS
  <2>1. R(i + 1) = R(i) + Len(s[i + 1])
    BY UpToNext
  <2>2. Len(s[i + 1]) > 0 /\ Len(s[i + 1]) \in Nat
    <3>1. i + 1 \in 1..n /\ s[i + 1] \in Seq(S)
      BY <1>1, ElementOfSeq
    <3> QED
      BY <3>1, LenProperties
  <2>3. R(i) \in Nat
    BY <1>1, <1>2
  <2> HIDE DEF R
  <2> QED
    BY <2>1, <2>2, <2>3
<1> HIDE DEF R
<1>4. 0 \in G
  BY <1>1, <1>3
<1>5. ASSUME NEW d \in Nat, d \in G PROVE d + 1 \in G
  <2> SUFFICES ASSUME NEW i \in 0..n, i + (d + 1) + 1 \in 0..n
               PROVE  R(i) < R(i + (d + 1) + 1)
    OBVIOUS
  <2>1. R(i) < R(i + d + 1)
    BY <1>1, <1>5
  <2>2. i + d + 1 \in 0..(n - 1) /\ i + (d + 1) + 1 = (i + d + 1) + 1
    BY <1>1
  <2>3. R(i + d + 1) < R((i + d + 1) + 1)
    BY <2>2, <1>3
  <2> QED
    BY <1>1, <1>2, <2>1, <2>2, <2>3
<1>6. Nat \subseteq G
  <2> HIDE DEF G
  <2> QED
    BY <1>4, <1>5, SetInduction, Zenon
<1>7. ASSUME NEW i \in 0..n, NEW j \in 0..n, i < j PROVE R(i) < R(j)
  <2>1. j - i - 1 \in Nat /\ i + (j - i - 1) + 1 = j
    BY <1>1, <1>7
  <2> QED
    BY <1>6, <2>1, Zenon
<1> QED
  BY <1>2, <1>7 DEF R

\* The position c falls after the first p sequences and before the end of the
\* next: p counts the sequences that end at c or before it.
LEMMA CutPoint ==
  ASSUME NEW S, NEW s \in Seq(Seq(S)), \A i \in 1..Len(s) : Len(s[i]) > 0,
         NEW c \in 0..Len(FlattenSeq(s))
  PROVE  \E p \in 0..Len(s) :
           /\ Len(UpTo(s, p)) <= c
           /\ p < Len(s) => c < Len(UpTo(s, p + 1))
           /\ \A i \in 1..Len(s) :
                Len(UpTo(s, i - 1)) < c /\ Len(UpTo(s, i)) <= c <=> i <= p
<1> DEFINE n == Len(s)
           R(i) == Len(UpTo(s, i))
           Over == {i \in 0..n : c < R(i)} \union {n + 1}
<1>1. n \in Nat /\ c \in Nat
  BY LenProperties
<1>2. /\ \A i \in 0..n : R(i) \in Nat
      /\ \A i, j \in 0..n : i < j => R(i) < R(j)
  BY UpToGrows, Zenon
<1>3. R(0) = 0
  BY UpToEnds, EmptySeq
<1> HIDE DEF R
<1>4. PICK q \in Over : \A i \in Over : q <= i
  <2>1. Over \in SUBSET Nat /\ Over # {}
    BY <1>1
  <2> HIDE DEF Over
  <2> QED
    BY <2>1, LeastElement, Zenon
<1>5. q \in 1..(n + 1)
  BY <1>1, <1>3, <1>4
<1>6. PICK p \in 0..n : R(p) <= c /\ (p < n => c < R(p + 1))
  <2>1. q - 1 \in 0..n /\ q - 1 \notin Over
    BY <1>1, <1>4, <1>5
  <2>2. R(q - 1) <= c
    BY <1>1, <1>2, <2>1
  <2>3. q - 1 < n => c < R((q - 1) + 1)
    BY <1>1, <1>4, <1>5
  <2> QED
    BY <2>1, <2>2, <2>3
<1>8. ASSUME NEW i \in 1..n PROVE R(i - 1) < c /\ R(i) <= c <=> i <= p
  <2>1. CASE i <= p
    <3>1. R(i) <= R(p) /\ R(i - 1) < R(i)
      <4>1. i \in 0..n /\ i - 1 \in 0..n /\ i - 1 < i /\ (i = p \/ i < p)
        BY <1>1, <2>1
      <4>2. R(i - 1) < R(i) /\ (i = p \/ R(i) < R(p))
        BY <1>2, <4>1, Zenon
      <4> QED
        BY <1>2, <4>1, <4>2
    <3>2. R(i) \in Nat /\ R(p) \in Nat /\ R(i - 1) \in Nat
      BY <1>1, <1>2, <1>6, SMTT(30)
    <3>3. R(i - 1) < c /\ R(i) <= c
      BY <1>1, <1>6, <3>1, <3>2
    <3> QED
      BY <2>1, <3>3
  <2>2. CASE i > p
    <3>1. p < n /\ R(p + 1) <= R(i)
      <4>1. /\ p < n /\ i \in 0..n /\ p + 1 \in 0..n
            /\ p + 1 = i \/ p + 1 < i
        BY <1>1, <2>2
      <4>2. p + 1 = i \/ R(p + 1) < R(i)
        BY <1>2, <4>1
      <4> QED
        BY <1>2, <4>1, <4>2
    <3>2. R(i) \in Nat /\ R(p + 1) \in Nat
      BY <1>1, <1>2, <1>6, <3>1
    <3>3. ~ (R(i) <= c)
      BY <1>1, <1>6, <3>1, <3>2
    <3> QED
      BY <1>1, <1>6, <2>2, <3>3
  <2> QED
    BY <1>1, <1>6, <2>1, <2>2
<1> QED
  BY <1>6, <1>8 DEF R

-------------------------------------------------------------------------------
(***************************************************************************)
(* Sequences of segments, each with some bytes and room for more: what     *)
(* filling the last and trimming the first do to the bytes of all.         *)
(***************************************************************************)

Segment == [bytes : Seq(Nat), free : Nat]

\* The readable bytes of each segment.
BytesOf(segments) == [i \in DOMAIN segments |-> segments[i].bytes]

\* BytesOf is a sequence of as many sequences of bytes.
LEMMA BytesOfType ==
  ASSUME NEW s \in Seq(Segment)
  PROVE  /\ BytesOf(s) \in Seq(Seq(Nat)) /\ Len(BytesOf(s)) = Len(s)
         /\ \A i \in 1..Len(s) : BytesOf(s)[i] = s[i].bytes /\ s[i].bytes \in Seq(Nat)
<1>1. Len(s) \in Nat /\ DOMAIN s = 1..Len(s) /\ \A i \in 1..Len(s) : s[i] \in Segment
  BY LenProperties, ElementOfSeq
<1>2. \A i \in 1..Len(s) : s[i].bytes \in Seq(Nat)
  BY <1>1 DEF Segment
<1>3. BytesOf(s) \in [1..Len(s) -> Seq(Nat)]
  BY <1>1, <1>2 DEF BytesOf
<1>4. BytesOf(s) \in Seq(Seq(Nat))
  BY <1>1, <1>3, SeqDef
<1> QED
  BY <1>1, <1>2, <1>3, <1>4, LenProperties DEF BytesOf

\* t is s with the bytes w behind those of its last segment, which then has
\* room for f more.
LastFilled(t, s, w, f) ==
  t = [s EXCEPT ![Len(s)] = [bytes |-> s[Len(s)].bytes \o w, free |-> f]]

\* More bytes in the last segment are more bytes at the end of the stream.
LEMMA FillTail ==
  ASSUME NEW s \in Seq(Segment), Len(s) # 0, NEW w \in Seq(Nat), NEW f \in Nat,
         NEW t, LastFilled(t, s, w, f)
  PROVE  /\ t \in Seq(Segment) /\ Len(t) = Len(s)
         /\ Joins(FlattenSeq(BytesOf(t)), FlattenSeq(BytesOf(s)), w)
<1> DEFINE n == Len(s)
           b == BytesOf(s)
           last == s[n].bytes
           front == SubSeq(b, 1, n - 1)
<1>1. n \in Nat /\ n >= 1 /\ n \in 1..n
  BY LenProperties
<1>2. /\ b \in Seq(Seq(Nat)) /\ Len(b) = n
      /\ \A i \in 1..n : b[i] = s[i].bytes
      /\ last \in Seq(Nat)
  BY <1>1, BytesOfType
<1>3. last \o w \in Seq(Nat)
  BY <1>2, ConcatProperties
<1>4. t \in Seq(Segment) /\ Len(t) = n
  <2>1. [bytes |-> last \o w, free |-> f] \in Segment
    BY <1>3 DEF Segment
  <2> HIDE DEF last, n
  <2> QED
    BY <1>1, <2>1, ExceptSeq DEF last, n, LastFilled
<1>5. /\ BytesOf(t) \in Seq(Seq(Nat)) /\ Len(BytesOf(t)) = n
      /\ \A i \in 1..n : BytesOf(t)[i] = t[i].bytes
  BY <1>4, BytesOfType
<1>6. \A i \in 1..n : BytesOf(t)[i] = IF i = n THEN last \o w ELSE b[i]
  <2> SUFFICES ASSUME NEW i \in 1..n
               PROVE  BytesOf(t)[i] = IF i = n THEN last \o w ELSE b[i]
    OBVIOUS
  <2>1. DOMAIN s = 1..n
    BY LenProperties
  <2>2. CASE i = n
    BY <2>1, <2>2, <1>5, Zenon DEF LastFilled
  <2>3. CASE i # n
    BY <2>1, <2>3, <1>2, <1>5, Zenon DEF LastFilled
  <2> QED
    BY <2>2, <2>3
<1>7. front \in Seq(Seq(Nat)) /\ b = Append(front, last)
  <2> HIDE DEF b, last
  <2>1. b[n] = last
    BY <1>1, <1>2 DEF last
  <2> QED
    BY <1>1, <1>2, <2>1
<1>8. BytesOf(t) = Append(front, last \o w)
  <2> DEFINE c == BytesOf(t)
             e == last \o w
  <2>1. c \in Seq(Seq(Nat)) /\ Len(c) = n /\ e \in Seq(Nat)
    BY <1>5, <1>3
  <2>2. \A i \in 1..n : c[i] = IF i = n THEN e ELSE b[i]
    BY <1>6
  <2>3. front \in Seq(Seq(Nat)) /\ Len(front) = n - 1 /\ \A i \in 1..(n - 1) : front[i] = b[i]
    <3> HIDE DEF b
    <3> QED
      BY <1>1, <1>2
  <2> HIDE DEF b, c, e, n, front
  <2>4. Len(c) = Len(front) + 1 /\ c[Len(front) + 1] = e
    BY <1>1, <2>1, <2>2, <2>3
  <2>5. \A i \in 1..Len(front) : c[i] = front[i]
    BY <1>1, <2>2, <2>3
  <2>6. c = Append(front, e)
    BY <2>1, <2>3, <2>4, <2>5, RecogniseAppend
  <2> QED
    BY <2>6 DEF c, e
<1> HIDE DEF front, last, b
<1>9. FlattenSeq(Append(front, last \o w)) = FlattenSeq(Append(front, last)) \o w
  BY <1>2, <1>7, FlattenTail
<1> QED
  BY <1>4, <1>7, <1>8, <1>9, Zenon DEF b, Joins

\* A new segment has no bytes yet.
LEMMA NewTail ==
  ASSUME NEW s \in Seq(Segment), NEW f \in Nat
  PROVE  /\ Append(s, [bytes |-> <<>>, free |-> f]) \in Seq(Segment)
         /\ FlattenSeq(BytesOf(Append(s, [bytes |-> <<>>, free |-> f])))
              = FlattenSeq(BytesOf(s))
<1> DEFINE e == [bytes |-> <<>>, free |-> f]
           t == Append(s, e)
           n == Len(s)
<1>1. e \in Segment /\ <<>> \in Seq(Nat) /\ n \in Nat
  BY EmptySeq, LenProperties DEF Segment
<1>2. /\ t \in Seq(Segment) /\ Len(t) = n + 1
      /\ \A i \in 1..n : t[i] = s[i]
      /\ t[n + 1] = e
  <2> HIDE DEF e
  <2> QED
    BY <1>1, AppendProperties
<1>3. /\ BytesOf(s) \in Seq(Seq(Nat)) /\ Len(BytesOf(s)) = n
      /\ \A i \in 1..n : BytesOf(s)[i] = s[i].bytes
  BY BytesOfType
<1>4. /\ BytesOf(t) \in Seq(Seq(Nat)) /\ Len(BytesOf(t)) = n + 1
      /\ \A i \in 1..(n + 1) : BytesOf(t)[i] = t[i].bytes
  <2> HIDE DEF t
  <2> QED
    BY <1>2, BytesOfType
<1>5. BytesOf(t) = Append(BytesOf(s), <<>>)
  <2> DEFINE b == BytesOf(s)
             c == BytesOf(t)
  <2>1. b \in Seq(Seq(Nat)) /\ Len(b) = n /\ c \in Seq(Seq(Nat)) /\ Len(c) = n + 1
    BY <1>3, <1>4
  <2>2. \A i \in 1..n : c[i] = b[i]
    BY <1>1, <1>2, <1>3, <1>4
  <2>3. c[n + 1] = <<>>
    <3>1. n + 1 \in 1..(n + 1) /\ t[n + 1].bytes = <<>>
      BY <1>1, <1>2
    <3> HIDE DEF t, n
    <3> QED
      BY <3>1, <1>4
  <2> HIDE DEF b, c, n
  <2>4. c = Append(b, <<>>)
    <3>1. /\ Len(c) = Len(b) + 1 /\ c[Len(b) + 1] = <<>>
          /\ \A i \in 1..Len(b) : c[i] = b[i]
      BY <2>1, <2>2, <2>3
    <3> QED
      BY <1>1, <2>1, <3>1, RecogniseAppend
  <2> QED
    BY <2>4 DEF b, c
<1>6. /\ FlattenSeq(Append(BytesOf(s), <<>>)) = FlattenSeq(BytesOf(s)) \o <<>>
      /\ FlattenSeq(BytesOf(s)) \in Seq(Nat)
  BY <1>1, <1>3, FlattenAppend, Zenon
<1>7. FlattenSeq(BytesOf(s)) \o <<>> = FlattenSeq(BytesOf(s))
  BY <1>6, ConcatEmptySeq
<1> QED
  BY <1>2, <1>5, <1>6, <1>7, Zenon

\* Fewer bytes in the first segment are fewer at the start of the stream.
LEMMA TrimHead ==
  ASSUME NEW s \in Seq(Segment), Len(s) # 0, NEW u \in 0..Len(s[1].bytes),
         NEW t, t = [s EXCEPT ![1].bytes = SubSeq(@, u + 1, Len(@))]
  PROVE  /\ t \in Seq(Segment) /\ Len(t) = Len(s)
         /\ FlattenSeq(BytesOf(s)) = SubSeq(s[1].bytes, 1, u) \o FlattenSeq(BytesOf(t))
         /\ FlattenSeq(BytesOf(t)) \in Seq(Nat)
<1> DEFINE n == Len(s)
           h == s[1].bytes
           a == SubSeq(h, 1, u)
           b == SubSeq(h, u + 1, Len(h))
           x == BytesOf(s)
           y == BytesOf(t)
           tl == SubSeq(x, 2, n)
<1>1. n \in Nat /\ n >= 1 /\ 1 \in 1..n /\ DOMAIN s = 1..n
  BY LenProperties
<1>2. /\ x \in Seq(Seq(Nat)) /\ Len(x) = n
      /\ \A i \in 1..n : x[i] = s[i].bytes
  BY BytesOfType
<1>3. h \in Seq(Nat)
  BY <1>1, BytesOfType, Zenon
<1>4. a \in Seq(Nat) /\ b \in Seq(Nat) /\ h = a \o b
  <2> HIDE DEF h
  <2>1. u \in 0..Len(h)
    BY DEF h
  <2>2. a \in Seq(Nat) /\ b \in Seq(Nat)
    BY <1>3, <2>1
  <2>3. h = a \o b
    BY <1>3, <2>1, SplitAt, Zenon
  <2> QED
    BY <2>2, <2>3, Zenon
<1>5. t \in Seq(Segment) /\ Len(t) = n
  <2>1. s[1] \in Segment
    BY <1>1, ElementOfSeq
  <2> DEFINE g == [s[1] EXCEPT !.bytes = b]
  <2>2. g \in Segment /\ t = [s EXCEPT ![1] = g]
    <3>1. g \in Segment
      <4> HIDE DEF b
      <4> QED
        BY <2>1, <1>4, Zenon DEF Segment
    <3> QED
      BY <3>1
  <2> HIDE DEF g
  <2>3. [s EXCEPT ![1] = g] \in Seq(Segment) /\ Len([s EXCEPT ![1] = g]) = n
    BY <1>1, <2>2, ExceptSeq
  <2> QED
    BY <2>2, <2>3, Zenon
<1>6. /\ y \in Seq(Seq(Nat)) /\ Len(y) = n
      /\ \A i \in 1..n : y[i] = t[i].bytes
  <2> HIDE DEF n
  <2> QED
    BY <1>5, BytesOfType, Zenon
<1>7. y[1] = b /\ \A i \in 2..n : y[i] = x[i]
  <2>1. t[1].bytes = b
    <3>1. s[1] \in Segment
      BY <1>1, ElementOfSeq
    <3>2. s[1] = [bytes |-> s[1].bytes, free |-> s[1].free]
      BY <3>1 DEF Segment
    <3> QED
      BY <1>1, <3>2, Zenon
  <2>2. \A i \in 2..n : t[i] = s[i]
    BY <1>1
  <2> HIDE DEF b, x, y
  <2>3. y[1] = b
    BY <1>1, <1>6, <2>1, Zenon
  <2>4. ASSUME NEW i \in 2..n PROVE y[i] = x[i]
    <3>1. i \in 1..n
      BY <1>1
    <3>2. y[i] = t[i].bytes /\ x[i] = s[i].bytes /\ t[i] = s[i]
      BY <3>1, <1>2, <1>6, <2>2
    <3> QED
      BY <3>2
  <2> QED
    BY <2>3, <2>4
<1>8. tl \in Seq(Seq(Nat)) /\ Len(tl) = n - 1 /\ \A i \in 1..(n - 1) : tl[i] = x[i + 1]
  <2> HIDE DEF x
  <2> QED
    BY <1>1, <1>2
<1> HIDE DEF n, h, a, b, x, y, tl
<1>9. x = <<h>> \o tl
  <2>1. Len(x) = Len(tl) + 1 /\ \A i \in 1..Len(tl) : x[i + 1] = tl[i]
    BY <1>1, <1>2, <1>8
  <2>2. x[1] = h
    BY <1>1, <1>2, Zenon DEF h
  <2> QED
    BY <1>2, <1>3, <1>8, <2>1, <2>2, RecognisePrepend, Zenon
<1>10. y = <<b>> \o tl
  <2>1. /\ Len(y) = Len(tl) + 1 /\ y[1] = b
        /\ \A i \in 1..Len(tl) : y[i + 1] = tl[i]
    <3>1. ASSUME NEW i \in 1..(n - 1) PROVE y[i + 1] = tl[i]
      <4>1. i + 1 \in 2..n
        BY <1>1
      <4> QED
        BY <1>7, <1>8, <4>1, Zenon
    <3> QED
      BY <1>1, <1>6, <1>7, <1>8, <3>1
  <2> QED
    BY <1>4, <1>6, <1>8, <2>1, RecognisePrepend, Zenon
<1>11. FlattenSeq(x) = a \o FlattenSeq(y) /\ FlattenSeq(y) \in Seq(Nat)
  <2>1. a \in Seq(Nat) /\ b \in Seq(Nat) /\ tl \in Seq(Seq(Nat))
    BY <1>4, <1>8
  <2>2. Joins(h, a, b) /\ Joins(x, <<h>>, tl) /\ Joins(y, <<b>>, tl)
    BY <1>4, <1>9, <1>10, Zenon DEF Joins
  <2>3. Joins(FlattenSeq(x), a, FlattenSeq(y)) /\ FlattenSeq(y) \in Seq(Nat)
    BY <2>1, <2>2, FlattenHead
  <2> QED
    BY <2>3, Zenon DEF Joins
<1> QED
  BY <1>5, <1>11 DEF x, y, a, h, n

\* The bytes of the segments from k on.
LEMMA BytesOfRest ==
  ASSUME NEW s \in Seq(Segment), NEW k \in 0..Len(s)
  PROVE  LET r == SubSeq(s, k + 1, Len(s))
         IN  /\ r \in Seq(Segment) /\ Len(r) = Len(s) - k
             /\ \A i \in 1..(Len(s) - k) : r[i] = s[k + i]
             /\ BytesOf(r) = SubSeq(BytesOf(s), k + 1, Len(s))
<1> DEFINE n == Len(s)
           r == SubSeq(s, k + 1, n)
           b == BytesOf(s)
           q == SubSeq(b, k + 1, n)
<1>1. n \in Nat /\ k \in Nat /\ k <= n
  BY LenProperties
<1>2. r \in Seq(Segment) /\ Len(r) = n - k /\ \A i \in 1..(n - k) : r[i] = s[k + i]
  BY <1>1
<1>3. /\ b \in Seq(Seq(Nat)) /\ Len(b) = n
      /\ \A i \in 1..n : b[i] = s[i].bytes
  BY BytesOfType
<1>4. q \in Seq(Seq(Nat)) /\ Len(q) = n - k /\ \A i \in 1..(n - k) : q[i] = b[k + i]
  <2> HIDE DEF b
  <2> QED
    BY <1>1, <1>3
<1> HIDE DEF r, q, b
<1>5. /\ BytesOf(r) \in Seq(Seq(Nat)) /\ Len(BytesOf(r)) = n - k
      /\ \A i \in 1..(n - k) : BytesOf(r)[i] = r[i].bytes
  BY <1>2, BytesOfType
<1>6. ASSUME NEW i \in 1..(n - k) PROVE BytesOf(r)[i] = q[i]
  <2>1. k + i \in 1..n
    BY <1>1
  <2>2. BytesOf(r)[i] = r[i].bytes /\ r[i] = s[k + i]
    BY <1>2, <1>5
  <2>3. q[i] = b[k + i] /\ b[k + i] = s[k + i].bytes
    BY <1>3, <1>4, <2>1
  <2> QED
    BY <2>2, <2>3
<1>7. BytesOf(r) = q
  <2> DEFINE c == BytesOf(r)
  <2>1. c \in [1..(n - k) -> Seq(Nat)] /\ q \in [1..(n - k) -> Seq(Nat)]
    BY <1>4, <1>5, LenProperties
  <2>2. \A i \in 1..(n - k) : c[i] = q[i]
    BY <1>6
  <2> HIDE DEF c
  <2>3. c = q
    BY <2>1, <2>2
  <2> QED
    BY <2>3 DEF c
<1> QED
  BY <1>2, <1>7 DEF r, q, b, n

-------------------------------------------------------------------------------
\* The next bytes of the stream, behind those committed.
LEMMA StreamGrows ==
  ASSUME NEW a \in Seq(Nat), NEW b \in Seq(Nat), NEW k \in Nat,
         \A i \in 1..(Len(a) + Len(b)) : (a \o b)[i] = i,
         NEW w, w = [i \in 1..k |-> Len(a) + Len(b) + 1 + i - 1]
  PROVE  /\ w \in Seq(Nat) /\ Len(w) = k
         /\ \A i \in 1..(Len(a) + Len(b \o w)) : (a \o (b \o w))[i] = i
<1>1. Len(a) \in Nat /\ Len(b) \in Nat
  BY LenProperties
<1> DEFINE m == Len(a) + Len(b)
<1>2. \A i \in 1..k : m + 1 + i - 1 \in Nat /\ m + 1 + i - 1 = m + i
  BY <1>1
<1> HIDE DEF m
<1>3. w \in [1..k -> Nat] /\ \A i \in 1..k : w[i] = m + i
  BY <1>2 DEF m
<1>4. w \in Seq(Nat) /\ Len(w) = k
  <2>1. w \in Seq(Nat) /\ DOMAIN w = 1..k
    BY <1>3, SeqDef
  <2> QED
    BY <2>1, LenProperties
<1>5. /\ b \o w \in Seq(Nat) /\ Len(b \o w) = Len(b) + k
      /\ \A i \in 1..(Len(b) + k) : (b \o w)[i] = IF i <= Len(b) THEN b[i] ELSE w[i - Len(b)]
  BY <1>4, ConcatProperties
<1> DEFINE c == b \o w
<1>6. \A i \in 1..(Len(a) + Len(b)) : (IF i <= Len(a) THEN a[i] ELSE b[i - Len(a)]) = i
  BY ConcatProperties
<1>7. \A i \in 1..(Len(a) + Len(c)) : (a \o c)[i] = IF i <= Len(a) THEN a[i] ELSE c[i - Len(a)]
  <2>1. c \in Seq(Nat)
    BY <1>5
  <2> HIDE DEF c
  <2> QED
    BY <2>1, ConcatProperties
<1>8. ASSUME NEW i \in 1..(Len(a) + Len(c)) PROVE (a \o c)[i] = i
  <2>1. Len(c) = Len(b) + k /\ i \in 1..(Len(a) + Len(b) + k)
    BY <1>1, <1>5
  <2>2. \A j \in 1..(Len(b) + k) : c[j] = IF j <= Len(b) THEN b[j] ELSE w[j - Len(b)]
    BY <1>5
  <2>3. (a \o c)[i] = IF i <= Len(a) THEN a[i] ELSE c[i - Len(a)]
    BY <1>7
  <2> HIDE DEF c
  <2>4. CASE i <= Len(a)
    BY <1>1, <1>6, <2>3, <2>4
  <2>5. CASE i > Len(a) /\ i <= Len(a) + Len(b)
    <3>1. i - Len(a) \in 1..(Len(b) + k) /\ i - Len(a) <= Len(b) /\ ~ (i <= Len(a))
      BY <1>1, <2>5
    <3>2. c[i - Len(a)] = b[i - Len(a)]
      BY <2>2, <3>1, Zenon
    <3>3. i \in 1..(Len(a) + Len(b))
      BY <1>1, <2>5
    <3>4. b[i - Len(a)] = i
      BY <1>6, <3>1, <3>3
    <3> QED
      BY <2>3, <3>1, <3>2, <3>4
  <2>6. CASE i > Len(a) + Len(b)
    <3>1. /\ i - Len(a) \in 1..(Len(b) + k) /\ ~ (i - Len(a) <= Len(b)) /\ ~ (i <= Len(a))
          /\ (i - Len(a)) - Len(b) \in 1..k /\ m + ((i - Len(a)) - Len(b)) = i
      BY <1>1, <2>1, <2>6 DEF m
    <3>2. c[i - Len(a)] = w[(i - Len(a)) - Len(b)]
      BY <2>2, <3>1, Zenon
    <3> QED
      BY <1>3, <2>3, <3>1, <3>2
  <2> QED
    BY <1>1, <2>4, <2>5, <2>6
<1> QED
  BY <1>4, <1>8

\* The smaller of two numbers.
LEMMA MinOfTwo ==
  ASSUME NEW a \in Nat, NEW b \in Nat
  PROVE  Min({a, b}) \in {a, b} /\ Min({a, b}) <= a /\ Min({a, b}) <= b
<1>1. \E x \in {a, b} : \A y \in {a, b} : x <= y
  <2>1. CASE a <= b
    BY <2>1
  <2>2. CASE b <= a
    BY <2>2
  <2> QED
    BY <2>1, <2>2
<1> QED
  BY <1>1 DEF Min

-------------------------------------------------------------------------------
\* The elements of a concatenation.
LEMMA ConcatSet ==
  ASSUME NEW S, NEW a \in Seq(S), NEW b \in Seq(S)
  PROVE  Range(a \o b) = Range(a) \union Range(b)
<1> DEFINE c == a \o b
           n == Len(a)
           l == Len(b)
<1>1. /\ c \in Seq(S) /\ Len(c) = n + l /\ n \in Nat /\ l \in Nat
      /\ \A i \in 1..(n + l) : c[i] = IF i <= n THEN a[i] ELSE b[i - n]
      /\ DOMAIN a = 1..n /\ DOMAIN b = 1..l
  BY ConcatProperties, LenProperties
<1>2. DOMAIN c = 1..(n + l)
  BY <1>1, LenProperties
<1> HIDE DEF c, n, l
<1>3. ASSUME NEW i \in 1..(n + l) PROVE c[i] \in Range(a) \union Range(b)
  <2>1. CASE i <= n
    <3>1. i \in 1..n
      BY <1>1, <2>1
    <3> QED
      BY <1>1, <2>1, <3>1, Zenon DEF Range
  <2>2. CASE ~(i <= n)
    <3>1. i - n \in 1..l
      BY <1>1, <2>2
    <3> QED
      BY <1>1, <2>2, <3>1, Zenon DEF Range
  <2> QED
    BY <2>1, <2>2
<1>4. ASSUME NEW i \in 1..n PROVE a[i] \in Range(c)
  <2>1. i \in 1..(n + l) /\ i <= n
    BY <1>1
  <2> QED
    BY <1>1, <1>2, <2>1, Zenon DEF Range
<1>5. ASSUME NEW i \in 1..l PROVE b[i] \in Range(c)
  <2>1. i + n \in 1..(n + l) /\ ~(i + n <= n) /\ i + n - n = i
    BY <1>1
  <2>2. c[i + n] = b[i]
    BY <1>1, <2>1
  <2> QED
    BY <1>2, <2>1, <2>2 DEF Range
<1> QED
  BY <1>1, <1>2, <1>3, <1>4, <1>5, Zenon DEF Range, c

\* The elements of a sequence that grows by one.
LEMMA AppendSet ==
  ASSUME NEW S, NEW g \in Seq(S), NEW m \in S
  PROVE  Range(Append(g, m)) = Range(g) \union {m}
<1>1. Append(g, m) = g \o <<m>> /\ <<m>> \in Seq(S)
  BY AppendIsConcat
<1>2. Range(g \o <<m>>) = Range(g) \union Range(<<m>>)
  BY <1>1, ConcatSet, ZenonT(40)
<1>3. Range(<<m>>) = {m}
  BY DEF Range
<1> QED
  BY <1>1, <1>2, <1>3

\* A sequence is its head and its tail.
LEMMA HeadAndTail ==
  ASSUME NEW S, NEW q \in Seq(S), q # <<>>
  PROVE  /\ <<Head(q)>> \o Tail(q) = q
         /\ Head(q) \in S /\ Tail(q) \in Seq(S) /\ <<Head(q)>> \in Seq(S)
<1>1. /\ Head(q) \in S /\ Tail(q) \in Seq(S) /\ Head(q) = q[1] /\ Len(Tail(q)) = Len(q) - 1
      /\ \A i \in 1..Len(Tail(q)) : Tail(q)[i] = q[i + 1]
  BY HeadTailProperties
<1>2. Len(q) \in Nat
  BY LenProperties
<1>3. Len(q) = Len(Tail(q)) + 1
  BY <1>1, <1>2
<1>4. q = <<Head(q)>> \o Tail(q)
  BY <1>1, <1>3, RecognisePrepend
<1>5. <<Head(q)>> \in Seq(S)
  BY <1>1
<1> QED
  BY <1>1, <1>4, <1>5

\* The head of one sequence goes to the end of the other before it.
LEMMA Takes ==
  ASSUME NEW S, NEW w \in Seq(S), NEW q \in Seq(S), q # <<>>
  PROVE  Append(w, Head(q)) \o Tail(q) = w \o q
<1>1. /\ <<Head(q)>> \o Tail(q) = q /\ <<Head(q)>> \in Seq(S) /\ Tail(q) \in Seq(S)
      /\ Head(q) \in S
  BY HeadAndTail
<1>2. Append(w, Head(q)) = w \o <<Head(q)>>
  BY <1>1, AppendIsConcat
<1>3. (w \o <<Head(q)>>) \o Tail(q) = w \o (<<Head(q)>> \o Tail(q))
  BY <1>1, ConcatAssociative
<1> QED
  BY <1>1, <1>2, <1>3, Zenon
===============================================================================
