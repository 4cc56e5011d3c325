--------------------------- MODULE SequenceLemmas ---------------------------
(***************************************************************************)
(* Lemmas about sums, concatenations and what is picked out of sequences,  *)
(* and the induction they rest on.                                         *)
(*                                                                         *)
(* The induction theorems of the library take an operator as a parameter,  *)
(* and no prover instantiates it.  Here induction is about sets: a set of  *)
(* numbers (or sequences) that has the first and with each the next has    *)
(* them all.  Whoever has a formula P takes {n \in Nat : P(n)}.            *)
(***************************************************************************)
EXTENDS Lists, SequenceTheorems, FiniteSetTheorems, TLAPS

-----------------------------------------------------------------------------
(* Induction *)

\* A non-empty set of natural numbers has a least element: among its initial
\* segments, which are finite, there is a smallest one.
LEMMA LeastNatural ==
  ASSUME NEW T, T \subseteq Nat, T # {}
  PROVE  \E m \in T : \A n \in T : m <= n
<1> DEFINE Below(k) == {n \in T : n <= k}
           Family == {U \in FiniteSubsetsOf(Nat) : \E k \in T : U = Below(k)}
<1>1. ASSUME NEW k \in T PROVE Below(k) \in Family
  <2>1. Below(k) \in SUBSET Nat /\ k \in Nat /\ \A s \in Below(k) : s <= k
    BY <1>1
  <2>2. IsFiniteSet(Below(k))
    <3> HIDE DEF Below
    <3> QED BY <2>1, FS_BoundedSetOfNaturals
  <2> QED
    BY <2>1, <2>2 DEF FiniteSubsetsOf
<1>2. PICK U \in Family : \A V \in Family : ~ (<<V, U>> \in StrictSubsetOrdering(Nat))
  <2>1. IsWellFoundedOn(StrictSubsetOrdering(Nat), FiniteSubsetsOf(Nat))
    BY FS_StrictSubsetOrderingWellFounded
  <2>2. Family \subseteq FiniteSubsetsOf(Nat) /\ Family # {}
    BY <1>1
  <2> HIDE DEF Family
  <2> QED
    BY <2>1, <2>2, WFMin
<1>3. PICK k \in T : U = Below(k)
  BY <1>2
<1>4. ASSUME NEW n \in T, ~ (k <= n) PROVE FALSE
  <2>1. n \in Nat /\ k \in Nat /\ n < k
    BY <1>4
  <2>2. Below(n) \subseteq U /\ k \in U /\ k \notin Below(n)
    <3>1. \A s \in T : s <= n => s <= k
      BY <2>1
    <3>2. k <= k /\ ~ (k <= n)
      BY <2>1
    <3> QED
      BY <1>3, <3>1, <3>2
  <2>3. U \in SUBSET Nat /\ Below(n) \in SUBSET Nat
    BY <1>2 DEF FiniteSubsetsOf
  <2>4. <<Below(n), U>> \in StrictSubsetOrdering(Nat)
    <3> HIDE DEF Below
    <3> QED BY <2>2, <2>3 DEF StrictSubsetOrdering
  <2>5. Below(n) \in Family
    BY <1>1
  <2> QED
    BY <1>2, <2>4, <2>5
<1> QED
  BY <1>4

LEMMA Induction ==
  ASSUME NEW T, 0 \in T, \A n \in Nat : n \in T => n + 1 \in T
  PROVE  \A n \in Nat : n \in T
<1> DEFINE Missing == {n \in Nat : n \notin T}
<1> SUFFICES ASSUME Missing # {} PROVE FALSE
  OBVIOUS
<1>1. PICK m \in Missing : \A n \in Missing : m <= n
  <2>1. Missing \subseteq Nat
    OBVIOUS
  <2> HIDE DEF Missing
  <2> QED BY <2>1, LeastNatural
<1>2. m \in Nat /\ m # 0
  BY <1>1
<1>3. m - 1 \in Nat /\ ~ (m <= m - 1)
  BY <1>2
<1>4. m - 1 \in T
  BY <1>1, <1>3
<1>5. (m - 1) + 1 \in T
  BY <1>3, <1>4
<1>6. (m - 1) + 1 = m
  BY <1>2
<1> QED
  BY <1>1, <1>5, <1>6

LEMMA SequenceInduction ==
  ASSUME NEW S, NEW T, <<>> \in T,
         \A s \in Seq(S), x \in S : s \in T => Append(s, x) \in T
  PROVE  \A s \in Seq(S) : s \in T
<1> DEFINE Short == {n \in Nat : \A s \in Seq(S) : Len(s) = n => s \in T}
<1>1. 0 \in Short
  <2>1. \A s \in Seq(S) : Len(s) = 0 => s = <<>>
    BY EmptySeq
  <2> QED BY <2>1
<1>2. ASSUME NEW n \in Nat, n \in Short PROVE n + 1 \in Short
  <2>1. ASSUME NEW s \in Seq(S), Len(s) = n + 1 PROVE s \in T
    <3>1. s # <<>>
      BY <2>1, <1>2, EmptySeq
    <3>2. PICK t \in Seq(S), x \in S : s = Append(t, x)
      BY <3>1, SequenceEmptyOrAppend
    <3>3. Len(s) = Len(t) + 1 /\ Len(t) \in Nat
      BY <3>2, AppendProperties, LenProperties
    <3>4. Len(t) = n
      BY <2>1, <1>2, <3>3
    <3> QED
      BY <1>2, <3>2, <3>4
  <2>2. n + 1 \in Nat
    BY <1>2
  <2> QED
    BY <2>1, <2>2
<1>3. \A n \in Nat : n \in Short
  <2> HIDE DEF Short
  <2> QED BY <1>1, <1>2, Induction
<1> QED
  BY <1>3, LenProperties

-----------------------------------------------------------------------------
(* A function applied to each element *)

Mapped(w, s) == [i \in DOMAIN s |-> w[s[i]]]

LEMMA MappedType ==
  ASSUME NEW S, NEW T, NEW w, \A x \in S : w[x] \in T, NEW s \in Seq(S)
  PROVE  Mapped(w, s) \in Seq(T)
<1>1. /\ Len(s) \in Nat /\ DOMAIN s = 1 .. Len(s)
      /\ \A i \in 1 .. Len(s) : s[i] \in S
  BY LenProperties, ElementOfSeq
<1>2. \A i \in 1 .. Len(s) : w[s[i]] \in T
  BY <1>1
<1> QED
  BY <1>1, <1>2, IsASeq DEF Mapped

LEMMA MappedElements ==
  ASSUME NEW S, NEW w, NEW s \in Seq(S)
  PROVE  /\ Len(Mapped(w, s)) = Len(s)
         /\ \A i \in 1 .. Len(s) : Mapped(w, s)[i] = w[s[i]]
<1> DEFINE T == {w[x] : x \in S}
<1>1. Mapped(w, s) \in Seq(T)
  <2>1. \A x \in S : w[x] \in T
    OBVIOUS
  <2> HIDE DEF T
  <2> QED BY <2>1, MappedType
<1> HIDE DEF T
<1>2. DOMAIN s = 1 .. Len(s) /\ Len(s) \in Nat
  BY LenProperties
<1>3. DOMAIN Mapped(w, s) = 1 .. Len(s)
  BY <1>2 DEF Mapped
<1>4. Len(Mapped(w, s)) = Len(s)
  BY <1>1, <1>2, <1>3, LenProperties
<1> QED
  BY <1>2, <1>4 DEF Mapped

LEMMA MappedEmpty == \A w : Mapped(w, <<>>) = <<>>
BY DEF Mapped

LEMMA ConcatAppend ==
  ASSUME NEW S, NEW s \in Seq(S), NEW t \in Seq(S), NEW x \in S
  PROVE  s \o Append(t, x) = Append(s \o t, x)
OBVIOUS

LEMMA HeadTailConcat ==
  ASSUME NEW S, NEW q \in Seq(S), q # <<>>
  PROVE  q = <<Head(q)>> \o Tail(q)
<1> DEFINE r == <<Head(q)>> \o Tail(q)
<1>1. /\ Head(q) \in S /\ Head(q) = q[1] /\ Tail(q) \in Seq(S)
      /\ Len(q) \in Nat /\ Len(q) > 0 /\ Len(Tail(q)) = Len(q) - 1
      /\ \A i \in 1 .. Len(Tail(q)) : Tail(q)[i] = q[i + 1]
  BY HeadTailProperties, LenProperties, EmptySeq
<1>2. /\ r \in Seq(S) /\ Len(r) = Len(q)
      /\ \A i \in 1 .. Len(q) : r[i] = IF i = 1 THEN Head(q) ELSE Tail(q)[i - 1]
  BY <1>1, ConcatProperties
<1> HIDE DEF r
<1>3. \A i \in 1 .. Len(q) : r[i] = q[i]
  BY <1>1, <1>2
<1>4. r = q
  BY <1>2, <1>3, SeqEqual
<1> QED
  BY <1>4 DEF r

LEMMA ConcatHead ==
  ASSUME NEW S, NEW s \in Seq(S), NEW t \in Seq(S), NEW x \in S
  PROVE  s \o (<<x>> \o t) = Append(s, x) \o t
<1>1. PICK u \in Seq(S) : u = <<x>>
  <2>1. <<x>> \in Seq(S)
    OBVIOUS
  <2> QED
    BY <2>1
<1>2. s \o (u \o t) = (s \o u) \o t
  BY ConcatAssociative
<1>3. Append(s, x) = s \o u
  BY <1>1, AppendIsConcat
<1> QED
  BY <1>1, <1>2, <1>3

LEMMA MappedAppend ==
  ASSUME NEW S, NEW w, NEW s \in Seq(S), NEW x \in S
  PROVE  Mapped(w, Append(s, x)) = Append(Mapped(w, s), w[x])
<1> DEFINE T == {w[y] : y \in S}
           t == Append(s, x)
           m == Append(Mapped(w, s), w[x])
<1>1. \A y \in S : w[y] \in T
  OBVIOUS
<1>2. /\ t \in Seq(S) /\ Len(t) = Len(s) + 1 /\ Len(s) \in Nat
      /\ t[Len(s) + 1] = x /\ \A i \in 1 .. Len(s) : t[i] = s[i]
  BY AppendProperties, LenProperties
<1> HIDE DEF T, t
<1>3. /\ Mapped(w, s) \in Seq(T) /\ Len(Mapped(w, s)) = Len(s)
      /\ \A i \in 1 .. Len(s) : Mapped(w, s)[i] = w[s[i]]
  BY <1>1, MappedType, MappedElements
<1>4. /\ m \in Seq(T) /\ Len(m) = Len(s) + 1 /\ m[Len(s) + 1] = w[x]
      /\ \A i \in 1 .. Len(s) : m[i] = w[s[i]]
  <2>1. w[x] \in T
    BY <1>1
  <2> QED
    BY <1>3, <2>1, AppendProperties
<1>5. /\ Mapped(w, t) \in Seq(T) /\ Len(Mapped(w, t)) = Len(t)
      /\ \A i \in 1 .. Len(t) : Mapped(w, t)[i] = w[t[i]]
  BY <1>1, <1>2, MappedType, MappedElements
<1> HIDE DEF m
<1>6. ASSUME NEW i \in 1 .. Len(t) PROVE Mapped(w, t)[i] = m[i]
  <2>1. i \in 1 .. Len(s) \/ i = Len(s) + 1
    BY <1>2
  <2> QED
    BY <1>2, <1>4, <1>5, <2>1
<1>7. Mapped(w, t) = m
  BY <1>2, <1>4, <1>5, <1>6, SeqEqual
<1> QED
  BY <1>7 DEF t, m

LEMMA MappedConcat ==
  ASSUME NEW S, NEW w, NEW s \in Seq(S)
  PROVE  \A t \in Seq(S) : Mapped(w, s \o t) = Mapped(w, s) \o Mapped(w, t)
<1> DEFINE Good == {t \in Seq(S) : Mapped(w, s \o t) = Mapped(w, s) \o Mapped(w, t)}
           T == {w[y] : y \in S}
<1>0. \A y \in S : w[y] \in T
  OBVIOUS
<1> HIDE DEF T
<1>1. <<>> \in Good
  <2>1. s \o <<>> = s /\ <<>> \in Seq(S)
    BY ConcatEmptySeq
  <2>2. Mapped(w, s) \o <<>> = Mapped(w, s)
    BY <1>0, ConcatEmptySeq, MappedType
  <2> QED
    BY <2>1, <2>2, MappedEmpty
<1>2. ASSUME NEW t \in Seq(S), NEW x \in S, t \in Good PROVE Append(t, x) \in Good
  <2>1. s \o Append(t, x) = Append(s \o t, x)
    BY ConcatAppend
  <2>2. s \o t \in Seq(S) /\ Append(t, x) \in Seq(S)
    BY ConcatProperties, AppendProperties
  <2>3. Mapped(w, Append(s \o t, x)) = Append(Mapped(w, s \o t), w[x])
    BY <2>2, MappedAppend
  <2>4. Mapped(w, Append(t, x)) = Append(Mapped(w, t), w[x])
    BY MappedAppend
  <2>5. Mapped(w, s \o t) = Mapped(w, s) \o Mapped(w, t)
    BY <1>2
  <2>6. Mapped(w, s) \o Append(Mapped(w, t), w[x]) = Append(Mapped(w, s) \o Mapped(w, t), w[x])
    <3>1. Mapped(w, s) \in Seq(T) /\ Mapped(w, t) \in Seq(T) /\ w[x] \in T
      BY <1>0, MappedType
    <3> QED BY <3>1, ConcatAppend
  <2>7. Mapped(w, s \o Append(t, x)) = Mapped(w, s) \o Mapped(w, Append(t, x))
    BY <2>1, <2>3, <2>4, <2>5, <2>6
  <2> QED
    BY <2>2, <2>7
<1>3. \A t \in Seq(S) : t \in Good
  <2> HIDE DEF Good
  <2> QED BY <1>1, <1>2, SequenceInduction
<1> QED
  BY <1>3

-----------------------------------------------------------------------------
(* Sums *)

LEMMA MaxIs ==
  ASSUME NEW S \in SUBSET Nat, NEW m \in S, \A k \in S : k <= m
  PROVE  Max(S) = m
<1>1. \A k \in S : m >= k
  OBVIOUS
<1>2. ASSUME NEW x \in S, \A k \in S : x >= k PROVE x = m
  BY <1>2
<1>3. Max(S) \in S /\ \A k \in S : Max(S) >= k
  BY <1>1 DEF Max
<1> QED
  BY <1>2, <1>3

\* The function FoldLeft recurs with, over the sets of positions up to n.
Folding(w, n, g) ==
  g = [s \in SUBSET (1 .. n) |-> IF s = {} THEN 0 ELSE g[s \ {Max(s)}] + w[Max(s)]]

LEMMA FoldingExists ==
  ASSUME NEW w
  PROVE  \A n \in Nat : \E g : Folding(w, n, g)
<1> DEFINE Folded == {n \in Nat : \E g : Folding(w, n, g)}
<1>1. 0 \in Folded
  <2> DEFINE g == [s \in SUBSET (1 .. 0) |-> 0]
  <2>1. \A s \in SUBSET (1 .. 0) : s = {}
    OBVIOUS
  <2>2. Folding(w, 0, g)
    BY <2>1 DEF Folding
  <2> QED
    BY <2>2
<1>2. ASSUME NEW n \in Nat, n \in Folded PROVE n + 1 \in Folded
  <2>1. PICK g : Folding(w, n, g)
    BY <1>2
  <2> DEFINE h == [s \in SUBSET (1 .. n + 1) |->
                     IF n + 1 \in s THEN g[s \ {n + 1}] + w[n + 1] ELSE g[s]]
             Next1(s) == IF s = {} THEN 0 ELSE h[s \ {Max(s)}] + w[Max(s)]
  <2>2. ASSUME NEW s \in SUBSET (1 .. n + 1) PROVE h[s] = Next1(s)
    <3>1. CASE n + 1 \in s
      <4>1. Max(s) = n + 1
        <5>1. s \in SUBSET Nat /\ \A k \in s : k <= n + 1
          OBVIOUS
        <5> HIDE DEF h, Next1
        <5> QED BY <3>1, <5>1, MaxIs
      <4>2. s \ {n + 1} \in SUBSET (1 .. n) /\ s \ {n + 1} \in SUBSET (1 .. n + 1)
        OBVIOUS
      <4>3. h[s \ {n + 1}] = g[s \ {n + 1}]
        BY <4>2
      <4> QED
        BY <3>1, <4>1, <4>3
    <3>2. CASE n + 1 \notin s
      <4>1. s \in SUBSET (1 .. n)
        BY <3>2
      <4>2. g[s] = IF s = {} THEN 0 ELSE g[s \ {Max(s)}] + w[Max(s)]
        BY <2>1, <4>1 DEF Folding
      <4>3. h[s] = g[s]
        BY <3>2
      <4>4. h[s \ {Max(s)}] = g[s \ {Max(s)}]
        <5>1. s \ {Max(s)} \in SUBSET (1 .. n + 1) /\ n + 1 \notin s \ {Max(s)}
          BY <3>2
        <5> QED BY <5>1
      <4> HIDE DEF h
      <4> QED
        BY <4>2, <4>3, <4>4
    <3> QED
      BY <3>1, <3>2
  <2>3. h = [s \in SUBSET (1 .. n + 1) |-> Next1(s)]
    <3>1. h = [s \in SUBSET (1 .. n + 1) |-> h[s]]
      OBVIOUS
    <3> HIDE DEF h, Next1
    <3> QED BY <2>2, <3>1
  <2>4. Folding(w, n + 1, h)
    <3> HIDE DEF h
    <3> QED BY <2>3 DEF Folding
  <2> HIDE DEF h
  <2> QED
    BY <2>4
<1> HIDE DEF Folded
<1>3. \A n \in Nat : n \in Folded
  BY <1>1, <1>2, Induction
<1> QED
  BY <1>3 DEF Folded

\* The partial sums of w.
PartialSums(w, c) ==
  /\ c[0] = 0
  /\ \A k \in 1 .. Len(w) : c[k] = c[k - 1] + w[k]

LEMMA SumOfPartial ==
  ASSUME NEW w \in Seq(Nat)
  PROVE  \E c : PartialSums(w, c) /\ SumOf(w) = c[Len(w)]
<1> DEFINE g == CHOOSE f : Folding(w, Len(w), f)
           c == [k \in 0 .. Len(w) |-> g[1 .. k]]
<1>1. Len(w) \in Nat /\ DOMAIN w = 1 .. Len(w)
  BY LenProperties
<1>2. Folding(w, Len(w), g)
  BY <1>1, FoldingExists
<1>3. SumOf(w) = g[1 .. Len(w)]
  BY <1>1 DEF SumOf, FoldLeft, MapThenFoldSet, Folding
<1> HIDE DEF g
<1>4. c[0] = 0
  <2>1. 1 .. 0 = {} /\ {} \in SUBSET (1 .. Len(w)) /\ 0 \in 0 .. Len(w)
    BY <1>1
  <2>2. g[{}] = 0
    BY <1>2, <2>1 DEF Folding
  <2> QED
    BY <2>1, <2>2
<1>5. ASSUME NEW k \in 1 .. Len(w) PROVE c[k] = c[k - 1] + w[k]
  <2>1. /\ 1 .. k \in SUBSET (1 .. Len(w)) /\ k \in 1 .. k
        /\ k - 1 \in 0 .. Len(w) /\ k \in 0 .. Len(w)
    <3>1. k \in Nat /\ 1 <= k /\ k <= Len(w)
      BY <1>1
    <3>2. \A j \in 1 .. k : j \in 1 .. Len(w)
      BY <1>1, <3>1
    <3> QED
      BY <1>1, <3>1, <3>2
  <2>2. Max(1 .. k) = k
    <3>1. 1 .. k \in SUBSET Nat /\ \A j \in 1 .. k : j <= k
      BY <1>1
    <3> QED BY <2>1, <3>1, MaxIs
  <2>3. (1 .. k) \ {k} = 1 .. (k - 1)
    BY <1>1
  <2>4. g[1 .. k] = g[(1 .. k) \ {Max(1 .. k)}] + w[Max(1 .. k)]
    BY <1>2, <2>1 DEF Folding
  <2> QED
    BY <2>1, <2>2, <2>3, <2>4
<1>6. c[Len(w)] = g[1 .. Len(w)]
  BY <1>1
<1> HIDE DEF c
<1> QED
  BY <1>3, <1>4, <1>5, <1>6 DEF PartialSums

\* Partial sums are determined by the numbers summed so far.
LEMMA PartialSumsAgree ==
  ASSUME NEW w \in Seq(Nat), NEW v \in Seq(Nat), NEW c, NEW d,
         PartialSums(w, c), PartialSums(v, d),
         NEW n \in Nat, n <= Len(w), n <= Len(v), \A k \in 1 .. n : w[k] = v[k]
  PROVE  c[n] = d[n]
<1> DEFINE Agree == {k \in Nat : k <= n => c[k] = d[k]}
<1>1. 0 \in Agree
  BY DEF PartialSums
<1>2. ASSUME NEW k \in Nat, k \in Agree PROVE k + 1 \in Agree
  <2>1. CASE k + 1 <= n
    <3>1. /\ k + 1 \in 1 .. n /\ k + 1 \in 1 .. Len(w) /\ k + 1 \in 1 .. Len(v)
          /\ (k + 1) - 1 = k /\ k <= n
      BY <2>1, LenProperties
    <3>2. c[k + 1] = c[k] + w[k + 1] /\ d[k + 1] = d[k] + v[k + 1]
      BY <3>1 DEF PartialSums
    <3> QED
      BY <1>2, <3>1, <3>2
  <2> QED
    BY <2>1
<1>3. \A k \in Nat : k \in Agree
  <2> HIDE DEF Agree
  <2> QED BY <1>1, <1>2, Induction
<1> QED
  BY <1>3

LEMMA PartialSumsType ==
  ASSUME NEW w \in Seq(Nat), NEW c, PartialSums(w, c), NEW n \in Nat, n <= Len(w)
  PROVE  c[n] \in Nat
<1> DEFINE Good == {k \in Nat : k <= n => c[k] \in Nat}
<1>1. 0 \in Good
  BY DEF PartialSums
<1>2. ASSUME NEW k \in Nat, k \in Good PROVE k + 1 \in Good
  <2>1. CASE k + 1 <= n
    <3>1. k + 1 \in 1 .. Len(w) /\ (k + 1) - 1 = k /\ k <= n
      BY <2>1, LenProperties
    <3>2. c[k + 1] = c[k] + w[k + 1] /\ w[k + 1] \in Nat
      BY <3>1, ElementOfSeq DEF PartialSums
    <3> QED
      BY <1>2, <3>1, <3>2
  <2> QED
    BY <2>1
<1>3. \A k \in Nat : k \in Good
  <2> HIDE DEF Good
  <2> QED BY <1>1, <1>2, Induction
<1> QED
  BY <1>3

LEMMA SumOfType == \A w \in Seq(Nat) : SumOf(w) \in Nat
BY SumOfPartial, PartialSumsType, LenProperties

LEMMA SumOfEmpty == SumOf(<<>>) = 0
<1>1. <<>> \in Seq(Nat) /\ Len(<<>>) = 0
  OBVIOUS
<1> QED
  BY <1>1, SumOfPartial DEF PartialSums

LEMMA SumOfAppend ==
  ASSUME NEW w \in Seq(Nat), NEW x \in Nat
  PROVE  SumOf(Append(w, x)) = SumOf(w) + x
<1>1. /\ Append(w, x) \in Seq(Nat) /\ Len(Append(w, x)) = Len(w) + 1
      /\ Len(w) \in Nat /\ Append(w, x)[Len(w) + 1] = x
      /\ \A k \in 1 .. Len(w) : Append(w, x)[k] = w[k]
  BY AppendProperties, LenProperties
<1>2. PICK c : PartialSums(w, c) /\ SumOf(w) = c[Len(w)]
  BY SumOfPartial
<1>3. PICK d : PartialSums(Append(w, x), d) /\ SumOf(Append(w, x)) = d[Len(w) + 1]
  BY <1>1, SumOfPartial
<1>4. c[Len(w)] = d[Len(w)]
  <2>1. Len(w) <= Len(w) /\ Len(w) <= Len(Append(w, x))
    BY <1>1
  <2>2. \A k \in 1 .. Len(w) : w[k] = Append(w, x)[k]
    BY <1>1
  <2>3. PartialSums(w, c) /\ PartialSums(Append(w, x), d)
    BY <1>2, <1>3
  <2> DEFINE v == Append(w, x)
  <2>4. v \in Seq(Nat) /\ PartialSums(v, d) /\ Len(w) <= Len(v)
        /\ \A k \in 1 .. Len(w) : w[k] = v[k]
    BY <1>1, <2>1, <2>2, <2>3
  <2> HIDE DEF v
  <2> QED
    BY <1>1, <2>1, <2>3, <2>4, PartialSumsAgree
<1>5. d[Len(w) + 1] = d[(Len(w) + 1) - 1] + x
  <2>1. Len(w) + 1 \in 1 .. Len(Append(w, x))
    BY <1>1
  <2> QED
    BY <1>1, <1>3, <2>1 DEF PartialSums
<1>6. (Len(w) + 1) - 1 = Len(w)
  BY <1>1
<1> QED
  BY <1>2, <1>3, <1>4, <1>5, <1>6

LEMMA SumOfConcat ==
  ASSUME NEW v \in Seq(Nat)
  PROVE  \A w \in Seq(Nat) : SumOf(v \o w) = SumOf(v) + SumOf(w)
<1> DEFINE Good == {w \in Seq(Nat) : SumOf(v \o w) = SumOf(v) + SumOf(w)}
<1>1. <<>> \in Good
  <2>1. v \o <<>> = v /\ <<>> \in Seq(Nat) /\ SumOf(v) \in Nat
    BY ConcatEmptySeq, SumOfType
  <2> QED
    BY <2>1, SumOfEmpty
<1>2. ASSUME NEW w \in Seq(Nat), NEW x \in Nat, w \in Good PROVE Append(w, x) \in Good
  <2>1. v \o Append(w, x) = Append(v \o w, x)
    OBVIOUS
  <2>2. v \o w \in Seq(Nat) /\ Append(w, x) \in Seq(Nat)
    OBVIOUS
  <2>3. SumOf(Append(v \o w, x)) = SumOf(v \o w) + x
    BY <2>2, SumOfAppend
  <2>4. SumOf(Append(w, x)) = SumOf(w) + x
    BY SumOfAppend
  <2>5. SumOf(v) \in Nat /\ SumOf(w) \in Nat
    BY SumOfType
  <2>6. SumOf(v \o w) = SumOf(v) + SumOf(w)
    BY <1>2
  <2>7. SumOf(v \o Append(w, x)) = SumOf(v) + SumOf(Append(w, x))
    BY <2>1, <2>3, <2>4, <2>5, <2>6
  <2> QED
    BY <2>2, <2>7
<1>3. \A w \in Seq(Nat) : w \in Good
  <2> HIDE DEF Good
  <2> QED BY <1>1, <1>2, SequenceInduction
<1> QED
  BY <1>3

-----------------------------------------------------------------------------
(* Concatenations *)

\* The function FlattenSeq recurs with, over the positions up to n.
Flattening(ss, n, g) ==
  g = [i \in 1 .. n |-> IF i = 1 THEN ss[i] ELSE g[i - 1] \o ss[i]]

LEMMA FlatteningExists ==
  ASSUME NEW ss
  PROVE  \A n \in Nat : \E g : Flattening(ss, n, g)
<1> DEFINE Flat == {n \in Nat : \E g : Flattening(ss, n, g)}
<1>1. 0 \in Flat
  <2> DEFINE g == [i \in 1 .. 0 |-> <<>>]
  <2>1. \A i \in 1 .. 0 : FALSE
    OBVIOUS
  <2>2. Flattening(ss, 0, g)
    BY <2>1 DEF Flattening
  <2> QED
    BY <2>2
<1>2. ASSUME NEW n \in Nat, n \in Flat PROVE n + 1 \in Flat
  <2>1. PICK g : Flattening(ss, n, g)
    BY <1>2
  <2> DEFINE h == [i \in 1 .. n + 1 |->
                     IF i \in 1 .. n THEN g[i]
                     ELSE IF i = 1 THEN ss[i] ELSE g[i - 1] \o ss[i]]
             Next1(i) == IF i = 1 THEN ss[i] ELSE h[i - 1] \o ss[i]
  <2>2. ASSUME NEW i \in 1 .. n + 1 PROVE h[i] = Next1(i)
    <3>1. i # 1 => i - 1 \in 1 .. n /\ i - 1 \in 1 .. n + 1
      OBVIOUS
    <3>2. i # 1 => h[i - 1] = g[i - 1]
      BY <3>1
    <3>3. CASE i \in 1 .. n
      <4>1. g[i] = IF i = 1 THEN ss[i] ELSE g[i - 1] \o ss[i]
        BY <2>1, <3>3 DEF Flattening
      <4>2. h[i] = g[i]
        BY <3>3
      <4> HIDE DEF h
      <4> QED
        BY <3>2, <4>1, <4>2
    <3>4. CASE i \notin 1 .. n
      <4>1. h[i] = IF i = 1 THEN ss[i] ELSE g[i - 1] \o ss[i]
        BY <3>4
      <4> HIDE DEF h
      <4> QED
        BY <3>2, <4>1
    <3> QED
      BY <3>3, <3>4
  <2>3. h = [i \in 1 .. n + 1 |-> Next1(i)]
    <3>1. h = [i \in 1 .. n + 1 |-> h[i]]
      OBVIOUS
    <3> HIDE DEF h, Next1
    <3> QED BY <2>2, <3>1
  <2>4. Flattening(ss, n + 1, h)
    <3> HIDE DEF h
    <3> QED BY <2>3 DEF Flattening
  <2> HIDE DEF h
  <2> QED
    BY <2>4
<1> HIDE DEF Flat
<1>3. \A n \in Nat : n \in Flat
  BY <1>1, <1>2, Induction
<1> QED
  BY <1>3 DEF Flat

\* The concatenations of the first sequences of ss.
PartialConcats(ss, c) ==
  /\ c[0] = <<>>
  /\ \A k \in 1 .. Len(ss) : c[k] = c[k - 1] \o ss[k]

LEMMA FlattenPartial ==
  ASSUME NEW S, NEW ss \in Seq(Seq(S))
  PROVE  \E c : PartialConcats(ss, c) /\ FlattenSeq(ss) = c[Len(ss)]
<1> DEFINE g == CHOOSE f : Flattening(ss, Len(ss), f)
           c == [k \in 0 .. Len(ss) |-> IF k = 0 THEN <<>> ELSE g[k]]
<1>1. Len(ss) \in Nat /\ DOMAIN ss = 1 .. Len(ss)
  BY LenProperties
<1>2. Flattening(ss, Len(ss), g)
  BY <1>1, FlatteningExists
<1>3. FlattenSeq(ss) = IF Len(ss) = 0 THEN ss ELSE g[Len(ss)]
  BY DEF FlattenSeq, Flattening
<1> HIDE DEF g
<1>4. c[0] = <<>>
  BY <1>1
<1>5. ASSUME NEW k \in 1 .. Len(ss) PROVE c[k] = c[k - 1] \o ss[k]
  <2>1. /\ k \in 0 .. Len(ss) /\ k - 1 \in 0 .. Len(ss) /\ k # 0
        /\ k - 1 = 0 <=> k = 1
    BY <1>1
  <2>2. g[k] = IF k = 1 THEN ss[k] ELSE g[k - 1] \o ss[k]
    BY <1>2 DEF Flattening
  <2>3. ss[k] \in Seq(S)
    BY ElementOfSeq
  <2>4. <<>> \o ss[k] = ss[k]
    BY <2>3, ConcatEmptySeq
  <2> QED
    BY <2>1, <2>2, <2>4
<1>6. FlattenSeq(ss) = c[Len(ss)]
  <2>1. Len(ss) = 0 => ss = <<>>
    BY EmptySeq
  <2>2. Len(ss) \in 0 .. Len(ss)
    BY <1>1
  <2> QED
    BY <1>3, <2>1, <2>2
<1> HIDE DEF c
<1> QED
  BY <1>4, <1>5, <1>6 DEF PartialConcats

LEMMA PartialConcatsAgree ==
  ASSUME NEW S, NEW ss \in Seq(Seq(S)), NEW tt \in Seq(Seq(S)), NEW c, NEW d,
         PartialConcats(ss, c), PartialConcats(tt, d),
         NEW n \in Nat, n <= Len(ss), n <= Len(tt), \A k \in 1 .. n : ss[k] = tt[k]
  PROVE  c[n] = d[n]
<1> DEFINE Agree == {k \in Nat : k <= n => c[k] = d[k]}
<1>1. 0 \in Agree
  BY DEF PartialConcats
<1>2. ASSUME NEW k \in Nat, k \in Agree PROVE k + 1 \in Agree
  <2>1. CASE k + 1 <= n
    <3>1. /\ k + 1 \in 1 .. n /\ k + 1 \in 1 .. Len(ss) /\ k + 1 \in 1 .. Len(tt)
          /\ (k + 1) - 1 = k /\ k <= n
      BY <2>1, LenProperties
    <3>2. c[k + 1] = c[k] \o ss[k + 1] /\ d[k + 1] = d[k] \o tt[k + 1]
      BY <3>1 DEF PartialConcats
    <3>3. c[k] = d[k] /\ ss[k + 1] = tt[k + 1]
      BY <1>2, <3>1
    <3>4. c[k + 1] = d[k + 1]
      BY <3>2, <3>3
    <3> QED
      BY <3>4
  <2> QED
    BY <2>1
<1>3. \A k \in Nat : k \in Agree
  <2> HIDE DEF Agree
  <2> QED BY <1>1, <1>2, Induction
<1> QED
  BY <1>3

LEMMA FlattenEmpty == FlattenSeq(<<>>) = <<>>
<1>1. Len(<<>>) = 0
  OBVIOUS
<1> QED
  BY <1>1 DEF FlattenSeq

LEMMA FlattenAppend ==
  ASSUME NEW S, NEW ss \in Seq(Seq(S)), NEW s \in Seq(S)
  PROVE  FlattenSeq(Append(ss, s)) = FlattenSeq(ss) \o s
<1> DEFINE tt == Append(ss, s)
<1>1. /\ tt \in Seq(Seq(S)) /\ Len(tt) = Len(ss) + 1
      /\ Len(ss) \in Nat /\ tt[Len(ss) + 1] = s
      /\ \A k \in 1 .. Len(ss) : ss[k] = tt[k]
  BY AppendProperties, LenProperties
<1> HIDE DEF tt
<1>2. PICK c : PartialConcats(ss, c) /\ FlattenSeq(ss) = c[Len(ss)]
  BY FlattenPartial
<1>3. PICK d : PartialConcats(tt, d) /\ FlattenSeq(tt) = d[Len(ss) + 1]
  BY <1>1, FlattenPartial
<1>4. c[Len(ss)] = d[Len(ss)]
  <2>1. Len(ss) <= Len(ss) /\ Len(ss) <= Len(tt)
    BY <1>1
  <2>2. \A n \in Nat :
          n <= Len(ss) /\ n <= Len(tt) /\ (\A k \in 1 .. n : ss[k] = tt[k]) => c[n] = d[n]
    BY <1>1, <1>2, <1>3, PartialConcatsAgree
  <2> QED
    BY <1>1, <2>1, <2>2
<1>5. d[Len(ss) + 1] = d[(Len(ss) + 1) - 1] \o s
  <2>1. Len(ss) + 1 \in 1 .. Len(tt)
    BY <1>1
  <2> QED
    BY <1>1, <1>3, <2>1 DEF PartialConcats
<1>6. (Len(ss) + 1) - 1 = Len(ss)
  BY <1>1
<1> QED
  BY <1>2, <1>3, <1>4, <1>5, <1>6 DEF tt

LEMMA FlattenType ==
  ASSUME NEW S
  PROVE  \A ss \in Seq(Seq(S)) : FlattenSeq(ss) \in Seq(S)
<1> DEFINE Good == {ss \in Seq(Seq(S)) : FlattenSeq(ss) \in Seq(S)}
<1>1. <<>> \in Good
  <2>1. <<>> \in Seq(Seq(S)) /\ <<>> \in Seq(S)
    OBVIOUS
  <2> QED
    BY <2>1, FlattenEmpty
<1>2. ASSUME NEW ss \in Seq(Seq(S)), NEW s \in Seq(S), ss \in Good
      PROVE  Append(ss, s) \in Good
  <2>1. Append(ss, s) \in Seq(Seq(S)) /\ FlattenSeq(Append(ss, s)) = FlattenSeq(ss) \o s
    BY AppendProperties, FlattenAppend
  <2>2. FlattenSeq(ss) \o s \in Seq(S)
    BY <1>2, ConcatProperties
  <2> QED
    BY <2>1, <2>2
<1>3. \A ss \in Seq(Seq(S)) : ss \in Good
  <2> HIDE DEF Good
  <2> QED BY <1>1, <1>2, SequenceInduction
<1> QED
  BY <1>3

LEMMA FlattenConcat ==
  ASSUME NEW S, NEW ss \in Seq(Seq(S))
  PROVE  \A tt \in Seq(Seq(S)) : FlattenSeq(ss \o tt) = FlattenSeq(ss) \o FlattenSeq(tt)
<1> DEFINE Good == {tt \in Seq(Seq(S)) :
                      FlattenSeq(ss \o tt) = FlattenSeq(ss) \o FlattenSeq(tt)}
<1>1. <<>> \in Good
  <2>1. ss \o <<>> = ss /\ FlattenSeq(ss) \in Seq(S)
    BY ConcatEmptySeq, FlattenType
  <2>2. FlattenSeq(ss) \o <<>> = FlattenSeq(ss)
    BY <2>1, ConcatEmptySeq
  <2> QED
    BY <2>1, <2>2, FlattenEmpty
<1>2. ASSUME NEW tt \in Seq(Seq(S)), NEW s \in Seq(S), tt \in Good
      PROVE  Append(tt, s) \in Good
  <2>1. ss \o Append(tt, s) = Append(ss \o tt, s)
    OBVIOUS
  <2>2. ss \o tt \in Seq(Seq(S)) /\ Append(tt, s) \in Seq(Seq(S))
    BY ConcatProperties, AppendProperties
  <2>3. FlattenSeq(Append(ss \o tt, s)) = FlattenSeq(ss \o tt) \o s
    BY <2>2, FlattenAppend
  <2>4. FlattenSeq(Append(tt, s)) = FlattenSeq(tt) \o s
    BY FlattenAppend
  <2>5. FlattenSeq(ss) \in Seq(S) /\ FlattenSeq(tt) \in Seq(S)
    BY FlattenType
  <2>6. FlattenSeq(ss \o tt) = FlattenSeq(ss) \o FlattenSeq(tt)
    BY <1>2
  <2>7. (FlattenSeq(ss) \o FlattenSeq(tt)) \o s = FlattenSeq(ss) \o (FlattenSeq(tt) \o s)
    BY <2>5, ConcatAssociative
  <2>8. FlattenSeq(ss \o Append(tt, s)) = FlattenSeq(ss) \o FlattenSeq(Append(tt, s))
    BY <2>1, <2>3, <2>4, <2>6, <2>7
  <2> QED
    BY <2>2, <2>8
<1>3. \A tt \in Seq(Seq(S)) : tt \in Good
  <2> HIDE DEF Good
  <2> QED BY <1>1, <1>2, SequenceInduction
<1> QED
  BY <1>3

-----------------------------------------------------------------------------
(* What is picked out *)

\* w makes a sequence over T of each element of S.
Yields(w, S, T) == \A x \in S : w[x] \in Seq(T)

LEMMA FlattenMappedAppend ==
  ASSUME NEW S, NEW T, NEW w, Yields(w, S, T), NEW s \in Seq(S), NEW x \in S
  PROVE  /\ FlattenSeq(Mapped(w, s)) \in Seq(T)
         /\ FlattenSeq(Mapped(w, Append(s, x))) = FlattenSeq(Mapped(w, s)) \o w[x]
<1>1. Mapped(w, s) \in Seq(Seq(T))
  BY MappedType DEF Yields
<1>2. Mapped(w, Append(s, x)) = Append(Mapped(w, s), w[x])
  BY MappedAppend
<1> QED
  BY <1>1, <1>2, FlattenType, FlattenAppend DEF Yields

Picker(A, S) == [x \in A |-> IF x \in S THEN <<x>> ELSE <<>>]

LEMMA PickedMapped ==
  ASSUME NEW A, NEW S, NEW s \in Seq(A)
  PROVE  Picked(s, S) = FlattenSeq(Mapped(Picker(A, S), s))
<1>1. \A i \in DOMAIN s : s[i] \in A
  BY ElementOfSeq, LenProperties
<1>2. [i \in DOMAIN s |-> IF s[i] \in S THEN <<s[i]>> ELSE <<>>]
        = Mapped(Picker(A, S), s)
  BY <1>1 DEF Mapped, Picker
<1> QED
  BY <1>2 DEF Picked

LEMMA PickedEmpty == \A S : Picked(<<>>, S) = <<>>
<1> TAKE S
<1>1. [i \in DOMAIN <<>> |-> IF <<>>[i] \in S THEN <<<<>>[i]>> ELSE <<>>] = <<>>
  OBVIOUS
<1> QED
  BY <1>1, FlattenEmpty DEF Picked

LEMMA PickedAppend ==
  ASSUME NEW A, NEW S, NEW s \in Seq(A), NEW x \in A
  PROVE  /\ Picked(s, S) \in Seq(A)
         /\ x \in S => Picked(Append(s, x), S) = Append(Picked(s, S), x)
         /\ x \notin S => Picked(Append(s, x), S) = Picked(s, S)
<1> DEFINE w == Picker(A, S)
<1>1. Yields(w, A, A)
  BY DEF Picker, Yields
<1>2. /\ x \in S => w[x] = <<x>>
      /\ x \notin S => w[x] = <<>>
  BY DEF Picker
<1>3. Append(s, x) \in Seq(A)
  BY AppendProperties
<1>4. /\ Picked(s, S) = FlattenSeq(Mapped(w, s))
      /\ Picked(Append(s, x), S) = FlattenSeq(Mapped(w, Append(s, x)))
  BY <1>3, PickedMapped
<1> HIDE DEF w
<1>5. /\ FlattenSeq(Mapped(w, s)) \in Seq(A)
      /\ FlattenSeq(Mapped(w, Append(s, x))) = FlattenSeq(Mapped(w, s)) \o w[x]
  BY <1>1, FlattenMappedAppend
<1>6. /\ Picked(s, S) \in Seq(A)
      /\ Picked(Append(s, x), S) = Picked(s, S) \o w[x]
  BY <1>4, <1>5
<1>7. /\ Picked(s, S) \o <<>> = Picked(s, S)
      /\ Picked(s, S) \o <<x>> = Append(Picked(s, S), x)
  BY <1>6, ConcatEmptySeq, AppendIsConcat
<1> QED
  BY <1>2, <1>6, <1>7

\* Elements that S and R agree about are picked alike.
LEMMA PickedSame ==
  ASSUME NEW s, NEW S, NEW R, \A i \in DOMAIN s : s[i] \in S <=> s[i] \in R
  PROVE  Picked(s, S) = Picked(s, R)
<1>1. [i \in DOMAIN s |-> IF s[i] \in S THEN <<s[i]>> ELSE <<>>]
        = [i \in DOMAIN s |-> IF s[i] \in R THEN <<s[i]>> ELSE <<>>]
  OBVIOUS
<1> QED
  BY <1>1 DEF Picked

LEMMA PickedIn ==
  ASSUME NEW A, NEW S
  PROVE  \A s \in Seq(A) : Picked(s, S) \in Seq(A \cap S)
<1> DEFINE T == {s \in Seq(A) : Picked(s, S) \in Seq(A \cap S)}
<1>1. <<>> \in T
  <2>1. <<>> \in Seq(A) /\ <<>> \in Seq(A \cap S)
    OBVIOUS
  <2> QED
    BY <2>1, PickedEmpty
<1>2. ASSUME NEW s \in Seq(A), NEW x \in A, s \in T PROVE Append(s, x) \in T
  <2>1. Append(s, x) \in Seq(A) /\ Picked(s, S) \in Seq(A \cap S)
    BY <1>2, AppendProperties
  <2>2. CASE x \in S
    <3>1. Picked(Append(s, x), S) = Append(Picked(s, S), x) /\ x \in A \cap S
      BY <2>2, PickedAppend
    <3>2. Append(Picked(s, S), x) \in Seq(A \cap S)
      BY <2>1, <3>1, AppendProperties
    <3> QED
      BY <2>1, <3>1, <3>2
  <2>3. CASE x \notin S
    BY <2>1, <2>3, PickedAppend
  <2> QED
    BY <2>2, <2>3
<1>3. \A s \in Seq(A) : s \in T
  <2> HIDE DEF T
  <2> QED BY <1>1, <1>2, SequenceInduction
<1> QED
  BY <1>3

\* What is empty outside S comes from what is picked out alone.
LEMMA FlattenPicked ==
  ASSUME NEW A, NEW B, NEW w, Yields(w, A, B),
         NEW S, \A x \in A : x \notin S => w[x] = <<>>
  PROVE  \A s \in Seq(A) : FlattenSeq(Mapped(w, Picked(s, S))) = FlattenSeq(Mapped(w, s))
<1>0. \A s \in Seq(A), x \in A :
        /\ FlattenSeq(Mapped(w, s)) \in Seq(B)
        /\ FlattenSeq(Mapped(w, Append(s, x))) = FlattenSeq(Mapped(w, s)) \o w[x]
  BY FlattenMappedAppend
<1> DEFINE T == {s \in Seq(A) : FlattenSeq(Mapped(w, Picked(s, S))) = FlattenSeq(Mapped(w, s))}
<1>1. <<>> \in T
  <2>1. <<>> \in Seq(A)
    OBVIOUS
  <2> QED
    BY <2>1, PickedEmpty
<1>2. ASSUME NEW s \in Seq(A), NEW x \in A, s \in T PROVE Append(s, x) \in T
  <2>1. Append(s, x) \in Seq(A) /\ Picked(s, S) \in Seq(A)
    BY AppendProperties, PickedAppend
  <2>2. /\ FlattenSeq(Mapped(w, s)) \in Seq(B)
        /\ FlattenSeq(Mapped(w, Append(s, x))) = FlattenSeq(Mapped(w, s)) \o w[x]
    BY <1>0
  <2>3. CASE x \in S
    <3>1. Picked(Append(s, x), S) = Append(Picked(s, S), x)
      BY <2>3, PickedAppend
    <3>2. FlattenSeq(Mapped(w, Append(Picked(s, S), x)))
            = FlattenSeq(Mapped(w, Picked(s, S))) \o w[x]
      <4> DEFINE p == Picked(s, S)
      <4>1. p \in Seq(A)
        BY <2>1
      <4> HIDE DEF p
      <4>2. FlattenSeq(Mapped(w, Append(p, x))) = FlattenSeq(Mapped(w, p)) \o w[x]
        BY <4>1, <1>0
      <4> QED
        BY <4>2 DEF p
    <3> QED
      BY <1>2, <2>1, <2>2, <3>1, <3>2
  <2>4. CASE x \notin S
    <3>1. Picked(Append(s, x), S) = Picked(s, S)
      BY <2>4, PickedAppend
    <3>2. FlattenSeq(Mapped(w, s)) \o w[x] = FlattenSeq(Mapped(w, s))
      BY <2>2, <2>4, ConcatEmptySeq
    <3> QED
      BY <1>2, <2>1, <2>2, <3>1, <3>2
  <2> QED
    BY <2>3, <2>4
<1>3. \A s \in Seq(A) : s \in T
  <2> HIDE DEF T
  <2> QED BY <1>1, <1>2, SequenceInduction
<1> QED
  BY <1>3

\* What is picked out of a sequence that holds all of it anyway.
LEMMA PickedPicked ==
  ASSUME NEW A, NEW S, NEW R, \A x \in A : x \in S => x \in R
  PROVE  \A s \in Seq(A) : Picked(Picked(s, R), S) = Picked(s, S)
<1> TAKE s \in Seq(A)
<1> DEFINE w == Picker(A, S)
<1>1. Yields(w, A, A) /\ \A x \in A : x \notin R => w[x] = <<>>
  BY DEF Picker, Yields
<1>2. Picked(s, R) \in Seq(A)
  <2>1. Picked(s, R) \in Seq(A \cap R)
    BY PickedIn
  <2> QED
    BY <2>1, SeqMonotonic
<1>3. FlattenSeq(Mapped(w, Picked(s, R))) = FlattenSeq(Mapped(w, s))
  <2> HIDE DEF w
  <2> QED BY <1>1, FlattenPicked
<1> QED
  BY <1>2, <1>3, PickedMapped

LEMMA PickedOfMapped ==
  ASSUME NEW A, NEW w, NEW S, NEW R, \A x \in A : x \in R <=> w[x] \in S
  PROVE  \A s \in Seq(A) : Picked(Mapped(w, s), S) = Mapped(w, Picked(s, R))
<1> DEFINE B == {w[x] : x \in A}
           T == {s \in Seq(A) : Picked(Mapped(w, s), S) = Mapped(w, Picked(s, R))}
<1>1. <<>> \in T
  <2>1. <<>> \in Seq(A)
    OBVIOUS
  <2> QED
    BY <2>1, PickedEmpty, MappedEmpty
<1>2. ASSUME NEW s \in Seq(A), NEW x \in A, s \in T PROVE Append(s, x) \in T
  <2>1. /\ Append(s, x) \in Seq(A) /\ Mapped(w, s) \in Seq(B)
        /\ Mapped(w, Append(s, x)) = Append(Mapped(w, s), w[x]) /\ w[x] \in B
    <3>1. \A z \in A : w[z] \in B
      OBVIOUS
    <3> HIDE DEF B
    <3> QED
      BY <3>1, AppendProperties, MappedAppend, MappedType
  <2> DEFINE m == Mapped(w, s)
             y == w[x]
             p == Picked(s, R)
  <2>2. m \in Seq(B) /\ y \in B /\ Picked(m, S) = Mapped(w, p)
    BY <1>2, <2>1
  <2>3. x \in R <=> y \in S
    OBVIOUS
  <2> HIDE DEF m, y, B
  <2>4. p \in Seq(A)
    BY PickedAppend
  <2>5. /\ x \in R => Picked(Append(s, x), R) = Append(p, x)
        /\ x \notin R => Picked(Append(s, x), R) = p
    BY PickedAppend
  <2>6. /\ y \in S => Picked(Append(m, y), S) = Append(Picked(m, S), y)
        /\ y \notin S => Picked(Append(m, y), S) = Picked(m, S)
    BY <2>2, PickedAppend
  <2> HIDE DEF p
  <2>7. Mapped(w, Append(p, x)) = Append(Mapped(w, p), w[x])
    BY <2>4, MappedAppend
  <2>8. Picked(Append(m, y), S) = Mapped(w, Picked(Append(s, x), R))
    BY <2>2, <2>3, <2>5, <2>6, <2>7 DEF y
  <2> QED
    BY <2>1, <2>8 DEF m, y
<1>3. \A s \in Seq(A) : s \in T
  <2> HIDE DEF T
  <2> QED BY <1>1, <1>2, SequenceInduction
<1> QED
  BY <1>3

-----------------------------------------------------------------------------
(* What comes first *)

LEMMA ConsParts ==
  ASSUME NEW S, NEW x \in S, NEW t \in Seq(S)
  PROVE  LET q == <<x>> \o t
         IN  /\ q \in Seq(S) /\ q # <<>>
             /\ Head(q) = x /\ Tail(q) = t
<1> DEFINE q == <<x>> \o t
<1>1. <<x>> \in Seq(S) /\ Len(<<x>>) = 1 /\ <<x>>[1] = x
  OBVIOUS
<1>2. /\ q \in Seq(S) /\ Len(q) = 1 + Len(t) /\ Len(t) \in Nat
      /\ \A i \in 1 .. Len(q) : q[i] = IF i <= 1 THEN <<x>>[i] ELSE t[i - 1]
  BY <1>1, ConcatProperties, LenProperties
<1> HIDE DEF q
<1>3. q # <<>>
  BY <1>2, EmptySeq
<1>4. Head(q) = q[1] /\ q[1] = x
  BY <1>1, <1>2, <1>3, HeadTailProperties
<1>5. /\ Tail(q) \in Seq(S) /\ Len(Tail(q)) = Len(t)
      /\ \A i \in 1 .. Len(Tail(q)) : Tail(q)[i] = q[i + 1]
  BY <1>2, <1>3, HeadTailProperties
<1>6. \A i \in 1 .. Len(t) : Tail(q)[i] = t[i]
  BY <1>2, <1>5
<1>7. Tail(q) = t
  BY <1>5, <1>6, SeqEqual
<1> QED
  BY <1>2, <1>3, <1>4, <1>7 DEF q

LEMMA ConcatFirst ==
  ASSUME NEW S, NEW q \in Seq(S), q # <<>>, NEW r \in Seq(S)
  PROVE  /\ q \o r # <<>>
         /\ Head(q \o r) = Head(q) /\ Tail(q \o r) = Tail(q) \o r
<1> DEFINE x == Head(q)
           t == Tail(q)
           h == <<x>>
<1>1. x \in S /\ t \in Seq(S) /\ q = h \o t
  BY HeadTailProperties, HeadTailConcat
<1>2. h \in Seq(S) /\ t \o r \in Seq(S)
  BY <1>1, ConcatProperties
<1> HIDE DEF x, t, h
<1>3. (h \o t) \o r = h \o (t \o r)
  BY <1>1, <1>2, ConcatAssociative
<1>4. LET p == <<x>> \o (t \o r) IN p # <<>> /\ Head(p) = x /\ Tail(p) = t \o r
  BY <1>1, <1>2, ConsParts
<1> QED
  BY <1>1, <1>3, <1>4 DEF h, x, t

LEMMA MappedFirst ==
  ASSUME NEW S, NEW w, NEW q \in Seq(S), q # <<>>
  PROVE  /\ Mapped(w, q) # <<>>
         /\ Head(Mapped(w, q)) = w[Head(q)] /\ Tail(Mapped(w, q)) = Mapped(w, Tail(q))
<1> DEFINE T == {w[y] : y \in S}
           m == Mapped(w, q)
           t == Mapped(w, Tail(q))
<1>0. \A y \in S : w[y] \in T
  OBVIOUS
<1> HIDE DEF T
<1>1. /\ Head(q) = q[1] /\ Tail(q) \in Seq(S) /\ Len(q) \in Nat /\ Len(q) > 0
      /\ Len(Tail(q)) = Len(q) - 1
      /\ \A i \in 1 .. Len(Tail(q)) : Tail(q)[i] = q[i + 1]
  BY HeadTailProperties, LenProperties, EmptySeq
<1>2. m \in Seq(T) /\ Len(m) = Len(q) /\ \A i \in 1 .. Len(q) : m[i] = w[q[i]]
  BY <1>0, MappedType, MappedElements
<1>3. t \in Seq(T) /\ Len(t) = Len(Tail(q)) /\ \A i \in 1 .. Len(Tail(q)) : t[i] = w[Tail(q)[i]]
  <2> DEFINE r == Tail(q)
  <2>1. r \in Seq(S)
    BY <1>1
  <2> HIDE DEF r
  <2>2. Mapped(w, r) \in Seq(T)
    BY <1>0, <2>1, MappedType
  <2>3. /\ Len(Mapped(w, r)) = Len(r)
        /\ \A i \in 1 .. Len(r) : Mapped(w, r)[i] = w[r[i]]
    BY <2>1, MappedElements
  <2> QED
    BY <2>2, <2>3 DEF r
<1> HIDE DEF m, t
<1>4. m # <<>>
  BY <1>1, <1>2, EmptySeq
<1>5. /\ Head(m) = m[1] /\ Tail(m) \in Seq(T) /\ Len(Tail(m)) = Len(m) - 1
      /\ \A i \in 1 .. Len(Tail(m)) : Tail(m)[i] = m[i + 1]
  BY <1>2, <1>4, HeadTailProperties
<1>6. \A i \in 1 .. Len(t) : Tail(m)[i] = t[i]
  <2> TAKE i \in 1 .. Len(t)
  <2>1. i \in 1 .. Len(Tail(q)) /\ i + 1 \in 1 .. Len(q) /\ i \in 1 .. Len(Tail(m))
    BY <1>1, <1>2, <1>3, <1>5
  <2> QED
    BY <1>1, <1>2, <1>3, <1>5, <2>1
<1>7. Tail(m) = t
  <2>1. Len(Tail(m)) = Len(t)
    BY <1>1, <1>2, <1>3, <1>5
  <2> QED
    BY <1>3, <1>5, <1>6, <2>1, SeqEqual
<1>8. m[1] = w[Head(q)]
  BY <1>1, <1>2
<1> QED
  BY <1>4, <1>5, <1>7, <1>8 DEF m, t

LEMMA FlattenMappedFirst ==
  ASSUME NEW S, NEW T, NEW w, Yields(w, S, T), NEW q \in Seq(S), q # <<>>
  PROVE  FlattenSeq(Mapped(w, q)) = w[Head(q)] \o FlattenSeq(Mapped(w, Tail(q)))
<1> DEFINE e == <<>>
           x == Head(q)
           t == Tail(q)
           h == <<x>>
<1>1. e \in Seq(S) /\ h = Append(e, x) /\ h \in Seq(S) /\ x \in S /\ t \in Seq(S) /\ q = h \o t
  BY HeadTailProperties, HeadTailConcat
<1>2. FlattenSeq(Mapped(w, e)) = <<>> /\ <<>> \o w[x] = w[x]
  <2>1. w[x] \in Seq(T)
    BY <1>1 DEF Yields
  <2> QED
    BY <2>1, MappedEmpty, FlattenEmpty, ConcatEmptySeq
<1> HIDE DEF e, h, x, t
<1>3. FlattenSeq(Mapped(w, h)) = FlattenSeq(Mapped(w, e)) \o w[x]
  <2>1. \A u \in Seq(S), y \in S :
          FlattenSeq(Mapped(w, Append(u, y))) = FlattenSeq(Mapped(w, u)) \o w[y]
    BY FlattenMappedAppend
  <2> QED
    BY <1>1, <2>1
<1>4. Mapped(w, h) \in Seq(Seq(T)) /\ Mapped(w, t) \in Seq(Seq(T))
  BY <1>1, MappedType DEF Yields
<1>5. Mapped(w, h \o t) = Mapped(w, h) \o Mapped(w, t)
  <2>1. \A u, v \in Seq(S) : Mapped(w, u \o v) = Mapped(w, u) \o Mapped(w, v)
    BY MappedConcat
  <2> QED
    BY <1>1, <2>1
<1>6. FlattenSeq(Mapped(w, h) \o Mapped(w, t))
        = FlattenSeq(Mapped(w, h)) \o FlattenSeq(Mapped(w, t))
  BY <1>4, FlattenConcat
<1>7. FlattenSeq(Mapped(w, q)) = w[x] \o FlattenSeq(Mapped(w, t))
  BY <1>1, <1>2, <1>3, <1>5, <1>6
<1> QED
  BY <1>7 DEF x, t

\* Of one element, and of two.
LEMMA MappedFew ==
  ASSUME NEW w, NEW x
  PROVE  Mapped(w, <<x>>) = <<w[x]>> /\ \A y : Mapped(w, <<x, y>>) = <<w[x], w[y]>>
BY DEF Mapped

LEMMA FlattenFew ==
  ASSUME NEW S, NEW T, NEW w, Yields(w, S, T)
  PROVE  \A x \in S : FlattenSeq(Mapped(w, <<x>>)) = w[x]
<1> SUFFICES ASSUME NEW x \in S PROVE FlattenSeq(Mapped(w, <<x>>)) = w[x]
  OBVIOUS
<1> DEFINE none == <<>>
           one == <<x>>
<1>1. none \in Seq(S) /\ one = Append(none, x)
  OBVIOUS
<1>2. w[x] \in Seq(T) /\ FlattenSeq(Mapped(w, none)) = <<>>
  BY MappedEmpty, FlattenEmpty DEF Yields
<1> HIDE DEF none, one
<1>3. \A u \in Seq(S), z \in S :
        FlattenSeq(Mapped(w, Append(u, z))) = FlattenSeq(Mapped(w, u)) \o w[z]
  BY FlattenMappedAppend
<1>4. FlattenSeq(Mapped(w, one)) = <<>> \o w[x]
  BY <1>1, <1>2, <1>3
<1>5. FlattenSeq(Mapped(w, one)) = w[x]
  BY <1>2, <1>4, ConcatEmptySeq
<1> QED
  BY <1>5 DEF one

-----------------------------------------------------------------------------
(* Sequences made of few parts *)

\* What stands between a first and a last element.
LEMMA BlockLayout ==
  ASSUME NEW h, NEW A, h \in A, NEW ws \in Seq(A), NEW e \in A
  PROVE  LET m == <<h>> \o ws \o <<e>>
         IN  /\ m \in Seq(A) /\ m # <<>> /\ m[1] = h /\ Len(m) = Len(ws) + 2
             /\ Tail(m) = Append(ws, e)
<1> DEFINE t == Append(ws, e)
           m == <<h>> \o ws \o <<e>>
<1>1. t \in Seq(A) /\ Len(t) = Len(ws) + 1
  BY AppendProperties
<1>2. <<h>> \in Seq(A) /\ <<e>> \in Seq(A)
  OBVIOUS
<1>3. m = <<h>> \o (ws \o <<e>>) /\ ws \o <<e>> = t
  <2>1. ws \o <<e>> = t
    BY AppendIsConcat
  <2> DEFINE a == <<h>>
             c == <<e>>
  <2>2. a \in Seq(A) /\ c \in Seq(A)
    BY <1>2
  <2>3. m = (a \o ws) \o c
    OBVIOUS
  <2> HIDE DEF m, t, a, c
  <2>4. (a \o ws) \o c = a \o (ws \o c)
    BY <2>2, ConcatAssociative
  <2> QED
    BY <2>1, <2>3, <2>4 DEF a, c
<1> HIDE DEF t, m
<1>4. m = <<h>> \o t
  BY <1>3
<1>5. m \in Seq(A) /\ m # <<>> /\ Head(m) = h /\ Tail(m) = t
  BY <1>1, <1>4, ConsParts
<1>6. Len(m) = 1 + Len(t) /\ m[1] = h
  BY <1>5, <1>1, HeadTailProperties
<1>7. Len(ws) \in Nat
  BY LenProperties
<1> QED
  BY <1>1, <1>5, <1>6, <1>7 DEF m, t

\* Four elements of u, from the one at a.
LEMMA FourOf ==
  ASSUME NEW A, NEW u \in Seq(A), NEW a \in Nat \ {0}, NEW b \in Nat, b = a + 3, b <= Len(u),
         NEW t \in Seq(A), Len(t) = 4, \A i \in 1 .. 4 : u[a + i - 1] = t[i]
  PROVE  SubSeq(u, a, b) = t
<1> DEFINE r == SubSeq(u, a, b)
<1>1. Len(u) \in Nat /\ \A i \in a .. b : u[i] \in A
  BY ElementOfSeq, LenProperties
<1>2. /\ r \in Seq(A) /\ Len(r) = IF a <= b THEN b - a + 1 ELSE 0
      /\ \A i \in 1 .. b - a + 1 : r[i] = u[a + i - 1]
  BY <1>1, SubSeqProperties
<1>3. Len(r) = 4 /\ \A i \in 1 .. 4 : r[i] = u[a + i - 1]
  <2>1. b - a + 1 = 4 /\ a <= b
    OBVIOUS
  <2> QED
    BY <1>2, <2>1
<1> HIDE DEF r
<1>4. \A i \in 1 .. 4 : r[i] = t[i]
  BY <1>3
<1>5. r = t
  <2>1. r \in Seq(A) /\ t \in Seq(A) /\ Len(r) = Len(t) /\ \A i \in 1 .. Len(r) : r[i] = t[i]
    BY <1>2, <1>3, <1>4
  <2> QED
    BY ONLY <2>1, SeqEqual
<1> QED
  BY <1>5 DEF r

\* Two sequences of six, one after the other.
LEMMA TwoOfSix ==
  ASSUME NEW A, NEW u \in Seq(A), NEW v \in Seq(A), Len(u) = 6, Len(v) = 6
  PROVE  /\ u \o v \in Seq(A) /\ Len(u \o v) = 12
         /\ \A i \in 1 .. 6 : (u \o v)[i] = u[i] /\ (u \o v)[i + 6] = v[i]
<1> DEFINE m == u \o v
<1>1. /\ m \in Seq(A) /\ Len(m) = 12
      /\ \A i \in 1 .. 12 : m[i] = IF i <= 6 THEN u[i] ELSE v[i - 6]
  <2>1. u \in Seq(A) /\ v \in Seq(A)
    OBVIOUS
  <2>2. /\ u \o v \in Seq(A) /\ Len(u \o v) = Len(u) + Len(v)
        /\ \A i \in 1 .. Len(u) + Len(v) :
             (u \o v)[i] = IF i <= Len(u) THEN u[i] ELSE v[i - Len(u)]
    BY ONLY <2>1, ConcatProperties
  <2> QED
    BY <2>2
<1> HIDE DEF m
<1>2. \A i \in 1 .. 6 : m[i] = u[i] /\ m[i + 6] = v[i]
  <2> TAKE i \in 1 .. 6
  <2>1. i \in 1 .. 12 /\ i + 6 \in 1 .. 12 /\ i <= 6 /\ ~ i + 6 <= 6 /\ (i + 6) - 6 = i
    OBVIOUS
  <2> QED
    BY <1>1, <2>1
<1> QED
  BY <1>1, <1>2 DEF m

\* Four elements between a first and a last one.
LEMMA BlockOfFour ==
  ASSUME NEW A, NEW ws \in Seq(A), NEW e \in A, Len(ws) = 4,
         NEW m \in Seq(A), m # <<>>, Tail(m) = Append(ws, e)
  PROVE  Len(m) = 6 /\ \A i \in 1 .. 4 : m[i + 1] = ws[i]
<1>1. /\ Append(ws, e) \in Seq(A) /\ Len(Append(ws, e)) = Len(ws) + 1
      /\ \A j \in 1 .. Len(ws) : Append(ws, e)[j] = ws[j]
  BY ONLY ws \in Seq(A), e \in A, AppendProperties
<1> DEFINE t == Tail(m)
<1>2. /\ Len(m) \in Nat /\ Len(t) = Len(m) - 1
      /\ \A i \in 1 .. Len(t) : t[i] = m[i + 1]
  BY ONLY m \in Seq(A), m # <<>>, HeadTailProperties, LenProperties
<1>3. t = Append(ws, e)
  OBVIOUS
<1> HIDE DEF t
<1>4. Len(t) = 5 /\ \A i \in 1 .. 4 : t[i] = ws[i]
  BY <1>1, <1>3
<1>5. \A i \in 1 .. 4 : t[i] = m[i + 1]
  BY <1>2, <1>4
<1>6. \A i \in 1 .. 4 : m[i + 1] = ws[i]
  BY ONLY <1>4, <1>5
<1>7. Len(m) = 6
  <2> DEFINE n == Len(m)
             k == Len(t)
  <2>1. n \in Nat /\ k = n - 1 /\ k = 5
    BY ONLY <1>2, <1>4
  <2> HIDE DEF n, k
  <2>2. n = 6
    BY ONLY <2>1
  <2> QED
    BY <2>2 DEF n
<1> QED
  BY ONLY <1>6, <1>7

\* An element after one other, and two elements, one after the other.
LEMMA AppendToOne ==
  ASSUME NEW A, NEW p \in A, NEW q \in A, NEW s \in Seq(A), Len(s) = 1, s[1] = p
  PROVE  s \o <<q>> = <<p, q>>
<1> DEFINE t == Append(s, q)
           r == <<p, q>>
<1>1. /\ t \in Seq(A) /\ Len(t) = Len(s) + 1
      /\ \A i \in 1 .. Len(s) : t[i] = s[i]
      /\ t[Len(s) + 1] = q
  BY ONLY s \in Seq(A), q \in A, AppendProperties
<1>2. r \in Seq(A) /\ Len(r) = 2 /\ r[1] = p /\ r[2] = q
  OBVIOUS
<1> HIDE DEF r
<1>3. s \o <<q>> = t
  BY AppendIsConcat
<1> HIDE DEF t
<1>4. Len(t) = 2 /\ t[1] = p /\ t[2] = q
  BY <1>1
<1>5. \A i \in 1 .. 2 : t[i] = r[i]
  BY <1>2, <1>4
<1>6. t = r
  BY <1>1, <1>2, <1>4, <1>5, SeqEqual
<1> QED
  BY <1>3, <1>6 DEF r

LEMMA PairIsConcat ==
  ASSUME NEW A, NEW p \in A, NEW q \in A
  PROVE  <<p>> \in Seq(A) /\ <<q>> \in Seq(A) /\ <<p, q>> = <<p>> \o <<q>>
<1> DEFINE s == <<p>>
<1>1. s \in Seq(A) /\ Len(s) = 1 /\ s[1] = p
  OBVIOUS
<1>2. <<q>> \in Seq(A)
  OBVIOUS
<1> HIDE DEF s
<1>3. s \o <<q>> = <<p, q>>
  BY <1>1, AppendToOne
<1> QED
  BY <1>1, <1>2, <1>3 DEF s

\* Sequences of one element, and of two.
LEMMA SmallSeq ==
  ASSUME NEW A, NEW s \in Seq(A)
  PROVE  /\ Len(s) = 1 => s[1] \in A /\ s = <<s[1]>>
         /\ Len(s) = 2 => s[1] \in A /\ s[2] \in A /\ s = <<s[1], s[2]>>
<1>1. ASSUME Len(s) = 1 PROVE s[1] \in A /\ s = <<s[1]>>
  <2> DEFINE x == s[1]
             r == <<x>>
  <2>1. x \in A
    BY <1>1, ElementOfSeq
  <2>2. r \in Seq(A) /\ Len(r) = 1 /\ r[1] = x
    BY <2>1
  <2> HIDE DEF r
  <2>3. \A i \in 1 .. 1 : s[i] = r[i]
    BY <2>2
  <2>4. s = r
    BY <1>1, <2>2, <2>3, SeqEqual
  <2> QED
    BY <2>1, <2>4 DEF r
<1>2. ASSUME Len(s) = 2 PROVE s[1] \in A /\ s[2] \in A /\ s = <<s[1], s[2]>>
  <2> DEFINE x == s[1]
             y == s[2]
             r == <<x, y>>
  <2>1. x \in A /\ y \in A
    <3>1. 1 \in 1 .. Len(s) /\ 2 \in 1 .. Len(s)
      BY <1>2
    <3>2. \A i \in 1 .. Len(s) : s[i] \in A
      BY ONLY s \in Seq(A), ElementOfSeq
    <3> QED
      BY <3>1, <3>2
  <2>2. r \in Seq(A) /\ Len(r) = 2 /\ r[1] = x /\ r[2] = y
    BY <2>1
  <2> HIDE DEF r
  <2>3. \A i \in 1 .. 2 : s[i] = r[i]
    BY <2>2
  <2>4. s = r
    BY <1>2, <2>2, <2>3, SeqEqual
  <2> QED
    BY <2>1, <2>4 DEF r
<1> QED
  BY <1>1, <1>2

LEMMA FlattenPair ==
  ASSUME NEW S, NEW T, NEW w, Yields(w, S, T)
  PROVE  \A r \in Seq(S) : Len(r) = 2 => FlattenSeq(Mapped(w, r)) = w[r[1]] \o w[r[2]]
<1> SUFFICES ASSUME NEW r \in Seq(S), Len(r) = 2
             PROVE  FlattenSeq(Mapped(w, r)) = w[r[1]] \o w[r[2]]
  OBVIOUS
<1> DEFINE x == r[1]
           y == r[2]
           one == <<x>>
<1>1. x \in S /\ y \in S /\ r = <<x, y>>
  BY SmallSeq
<1> HIDE DEF x, y
<1>2. one \in Seq(S) /\ r = Append(one, y)
  BY <1>1
<1>3. FlattenSeq(Mapped(w, one)) = w[x]
  BY <1>1, FlattenFew
<1> HIDE DEF one
<1>4. \A u \in Seq(S), z \in S :
        FlattenSeq(Mapped(w, Append(u, z))) = FlattenSeq(Mapped(w, u)) \o w[z]
  BY FlattenMappedAppend
<1> QED
  BY <1>1, <1>2, <1>3, <1>4 DEF x, y
=============================================================================
