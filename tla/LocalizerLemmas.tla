----------------------------- MODULE LocalizerLemmas -----------------------------
(* Facts about numbers, finite sets and sequences that the proofs about the       *)
(* components need; what localize() and its helpers compute, for every topology   *)
(* and every pool of classifications; and, on a tree below an RPD, what its walks *)
(* up the plant and their comparison find: the lowest common ancestor.            *)
EXTENDS Localizer, Integers, FiniteSetTheorems, SequenceTheorems,
        WellFoundedInduction, TLAPS

--------------------------------------------------------------------------------
(* Numbers, finite sets and sequences. The first fact is the principle that stands *)
(* for induction here: an induction is an argument about the least counterexample. *)

\* A nonempty set of naturals has a least element: among the intervals 0 .. n of its
\* members, all subsets of one finite interval, one has none below it.
LEMMA LeastNatural ==
  ASSUME NEW T, T \subseteq Nat, T # {}
  PROVE  \E n \in T : \A m \in T : n <= m
<1> PICK t \in T : TRUE
  OBVIOUS
<1> DEFINE U == {n \in T : n <= t}
           B == {0 .. n : n \in U}
<1>1. IsWellFoundedOn(StrictSubsetOrdering(0 .. t), FiniteSubsetsOf(0 .. t))
  BY FS_StrictSubsetOrderingWellFounded
<1>2. B \subseteq FiniteSubsetsOf(0 .. t)
  <2> SUFFICES ASSUME NEW n \in U PROVE 0 .. n \in SUBSET (0 .. t) /\ IsFiniteSet(0 .. n)
    BY DEF FiniteSubsetsOf
  <2>1. IsFiniteSet(0 .. n)
    BY FS_Interval
  <2> QED BY <2>1
<1>3. PICK b \in B : \A c \in B : <<c, b>> \notin StrictSubsetOrdering(0 .. t)
  <2>1. B # {}
    OBVIOUS
  <2> HIDE DEF B
  <2> QED BY <1>1, <1>2, <2>1, WFMin
<1>4. PICK n \in U : b = 0 .. n
  OBVIOUS
<1>5. \A m \in U : n <= m
  <2> SUFFICES ASSUME NEW m \in U, m < n PROVE FALSE
    OBVIOUS
  <2>1. <<0 .. m, 0 .. n>> \notin StrictSubsetOrdering(0 .. t)
    BY <1>3, <1>4
  <2>2. 0 .. m \subseteq 0 .. t /\ 0 .. n \subseteq 0 .. t /\ 0 .. m \subseteq 0 .. n
    OBVIOUS
  <2>3. n \in 0 .. n /\ n \notin 0 .. m
    OBVIOUS
  <2> QED BY <2>1, <2>2, <2>3 DEF StrictSubsetOrdering
<1> QED BY <1>5

\* Induction up to a bound, for the members of a set.
LEMMA InductionUpTo ==
  ASSUME NEW a \in Nat, NEW n \in Nat, NEW P,
         a \in P, \A k \in a .. n - 1 : k \in P => k + 1 \in P
  PROVE  \A k \in a .. n : k \in P
<1> DEFINE Bad == a .. n \ P
<1> SUFFICES ASSUME Bad # {} PROVE FALSE
  OBVIOUS
<1>1. Bad \subseteq Nat
  OBVIOUS
<1>2. PICK k \in Bad : \A m \in Bad : k <= m
  <2> HIDE DEF Bad
  <2> QED BY <1>1, LeastNatural
<1>3. k - 1 \in a .. n - 1 /\ k = (k - 1) + 1
  OBVIOUS
<1>4. k - 1 \notin Bad
  BY <1>2, <1>3
<1>5. k - 1 \in P
  BY <1>3, <1>4
<1> QED BY <1>3, <1>5

\* A finite, nonempty set of naturals has a greatest element, and Max returns it.
LEMMA MaxOfFinite ==
  ASSUME NEW S, S \subseteq Nat, IsFiniteSet(S), S # {}
  PROVE  Max(S) \in S /\ \A x \in S : x <= Max(S)
<1> DEFINE Above(s) == {x \in S : x > s}
           B == {Above(s) : s \in S}
<1>1. IsWellFoundedOn(StrictSubsetOrdering(S), FiniteSubsetsOf(S))
  BY FS_StrictSubsetOrderingWellFounded
<1>2. B \subseteq FiniteSubsetsOf(S)
  <2> SUFFICES ASSUME NEW s \in S PROVE Above(s) \in SUBSET S /\ IsFiniteSet(Above(s))
    BY DEF FiniteSubsetsOf
  <2>1. Above(s) \in SUBSET S
    OBVIOUS
  <2> QED BY <2>1, FS_Subset
<1>3. PICK b \in B : \A c \in B : <<c, b>> \notin StrictSubsetOrdering(S)
  <2>1. B # {}
    OBVIOUS
  <2> HIDE DEF B
  <2> QED BY <1>1, <1>2, <2>1, WFMin
<1>4. PICK s \in S : b = Above(s)
  OBVIOUS
<1>5. \A x \in S : x <= s
  <2> SUFFICES ASSUME NEW x \in S, x > s PROVE FALSE
    OBVIOUS
  <2>1. <<Above(x), Above(s)>> \notin StrictSubsetOrdering(S)
    BY <1>3, <1>4
  <2>2. x \in Above(s) /\ x \notin Above(x)
    OBVIOUS
  <2>3. Above(x) \in SUBSET S /\ Above(s) \in SUBSET S
    OBVIOUS
  <2>4. \A y \in S : y > x => y > s
    OBVIOUS
  <2>5. Above(x) \subseteq Above(s)
    BY <2>4
  <2> HIDE DEF Above
  <2> QED BY <2>1, <2>2, <2>3, <2>5 DEF StrictSubsetOrdering
<1> QED BY <1>5 DEF Max

\* A function on a finite set has finitely many values.
LEMMA ImageIsFinite ==
  ASSUME NEW S, IsFiniteSet(S), NEW T, NEW f \in [S -> T]
  PROVE  IsFiniteSet({f[x] : x \in S})
<1> DEFINE R == {f[x] : x \in S}
<1>1. f \in Surjection(S, R)
  BY DEF Surjection
<1> HIDE DEF R
<1>2. IsFiniteSet(R)
  BY <1>1, FS_Surjection
<1> QED BY <1>2 DEF R

\* SetToSeq lists the elements of a finite set, each once.
LEMMA SetToSeqLists ==
  ASSUME NEW S, IsFiniteSet(S)
  PROVE  /\ Cardinality(S) \in Nat
         /\ SetToSeq(S) \in [1 .. Cardinality(S) -> S]
         /\ SetToSeq(S) \in Seq(S)
         /\ Len(SetToSeq(S)) = Cardinality(S)
         /\ \A i, j \in 1 .. Cardinality(S) : SetToSeq(S)[i] = SetToSeq(S)[j] => i = j
         /\ \A x \in S : \E i \in 1 .. Cardinality(S) : SetToSeq(S)[i] = x
<1> DEFINE n == Cardinality(S)
           s == SetToSeq(S)
<1>1. n \in Nat /\ \E f \in [1 .. n -> S] : IsInjective(f)
  BY FS_CardinalityType DEF ExistsBijection, Bijection, Injection
<1>2. s \in [1 .. n -> S] /\ IsInjective(s)
  BY <1>1 DEF SetToSeq
<1>3. IsFiniteSet(1 .. n) /\ Cardinality(1 .. n) = n
  BY <1>1, FS_Interval
<1> HIDE DEF s, n
<1>4. s \in Injection(1 .. n, S)
  BY <1>2 DEF Injection
<1>5. s \in Surjection(1 .. n, S)
  BY <1>3, <1>4, FS_Injection DEF n
<1>6. \A x \in S : \E i \in 1 .. n : s[i] = x
  BY <1>5 DEF Surjection
<1>7. \A i, j \in 1 .. n : s[i] = s[j] => i = j
  BY <1>2 DEF IsInjective
<1>8. s \in Seq(S) /\ Len(s) = n
  BY <1>1, <1>2
<1> QED BY <1>1, <1>2, <1>6, <1>7, <1>8 DEF s, n

--------------------------------------------------------------------------------
(* FlattenSeq, whose recursive function has to be shown to exist. *)

\* The equation that FlattenSeq solves, for the first k sequences.
Flattens(g, ss, k) ==
  g = [i \in 1 .. k |-> IF i = 1 THEN ss[i] ELSE g[i - 1] \o ss[i]]

\* Every sequence of sequences has its flattening: the sequence g of the partial
\* concatenations.
LEMMA FlatteningExists ==
  ASSUME NEW S, NEW ss \in Seq(Seq(S))
  PROVE  \E g \in [1 .. Len(ss) -> Seq(S)] : Flattens(g, ss, Len(ss))
<1> DEFINE Solved(k) == \E g \in [1 .. k -> Seq(S)] : Flattens(g, ss, k)
           P == {k \in Nat : Solved(k)}
<1>1. 0 \in P
  <2> DEFINE g == [i \in 1 .. 0 |-> <<>>]
  <2>1. g \in [1 .. 0 -> Seq(S)] /\ Flattens(g, ss, 0)
    BY DEF Flattens
  <2> QED BY <2>1
<1>2. ASSUME NEW k \in 0 .. Len(ss) - 1, k \in P PROVE k + 1 \in P
  <2> PICK g \in [1 .. k -> Seq(S)] : Flattens(g, ss, k)
    BY <1>2
  <2> DEFINE next == IF k = 0 THEN ss[k + 1] ELSE g[k] \o ss[k + 1]
             h == [i \in 1 .. k + 1 |-> IF i = k + 1 THEN next ELSE g[i]]
  <2>1. next \in Seq(S)
    <3>1. ss[k + 1] \in Seq(S)
      OBVIOUS
    <3>2. k # 0 => g[k] \in Seq(S)
      OBVIOUS
    <3> QED BY <3>1, <3>2
  <2>2. h \in [1 .. k + 1 -> Seq(S)]
    BY <2>1
  <2>3. ASSUME NEW i \in 1 .. k + 1
        PROVE  h[i] = IF i = 1 THEN ss[i] ELSE h[i - 1] \o ss[i]
    <3>1. CASE i = k + 1
      <4>1. i # 1 => h[i - 1] = g[k]
        BY <3>1
      <4> QED BY <3>1, <4>1
    <3>2. CASE i # k + 1
      <4>1. i \in 1 .. k /\ h[i] = g[i] /\ (i # 1 => h[i - 1] = g[i - 1])
        BY <3>2
      <4>2. g[i] = IF i = 1 THEN ss[i] ELSE g[i - 1] \o ss[i]
        BY <4>1 DEF Flattens
      <4> QED BY <4>1, <4>2
    <3> QED BY <3>1, <3>2
  <2>4. Flattens(h, ss, k + 1)
    <3> HIDE DEF h
    <3> QED BY <2>2, <2>3 DEF Flattens
  <2> HIDE DEF h
  <2> QED BY <2>2, <2>4
<1>3. \A k \in 0 .. Len(ss) : k \in P
  <2>1. Len(ss) \in Nat
    OBVIOUS
  <2> HIDE DEF P
  <2> QED BY <1>1, <1>2, <2>1, InductionUpTo
<1> QED BY <1>3

\* What a sequence holds.
Held(s) == {s[i] : i \in DOMAIN s}

\* A concatenation holds what its two parts hold.
LEMMA ConcatHolds ==
  ASSUME NEW S, NEW s \in Seq(S), NEW t \in Seq(S)
  PROVE  s \o t \in Seq(S) /\ Held(s \o t) = Held(s) \cup Held(t)
<1>1. s \o t \in Seq(S) /\ Len(s \o t) = Len(s) + Len(t)
  OBVIOUS
<1>2. \A i \in 1 .. Len(s) + Len(t) : (s \o t)[i] = IF i <= Len(s) THEN s[i] ELSE t[i - Len(s)]
  BY ConcatProperties
<1>3. Held(s \o t) \subseteq Held(s) \cup Held(t)
  BY <1>1, <1>2 DEF Held
<1>4. \A i \in DOMAIN s : i \in DOMAIN (s \o t) /\ (s \o t)[i] = s[i]
  BY <1>1, <1>2
<1>5. \A i \in DOMAIN t : Len(s) + i \in DOMAIN (s \o t) /\ (s \o t)[Len(s) + i] = t[i]
  BY <1>1, <1>2
<1>6. Held(s) \subseteq Held(s \o t)
  BY <1>4 DEF Held
<1>7. Held(t) \subseteq Held(s \o t)
  BY <1>5 DEF Held
<1> QED BY <1>1, <1>3, <1>6, <1>7

\* A partial concatenation is a sequence that holds exactly what its parts hold.
LEMMA FlatteningHolds ==
  ASSUME NEW S, NEW ss \in Seq(Seq(S)), NEW n \in Nat, n <= Len(ss), n # 0,
         NEW g, Flattens(g, ss, n)
  PROVE  g[n] \in Seq(S) /\ Held(g[n]) = UNION {Held(ss[j]) : j \in 1 .. n}
<1> DEFINE All(k) == UNION {Held(ss[j]) : j \in 1 .. k}
           P == {k \in 1 .. n : g[k] \in Seq(S) /\ Held(g[k]) = All(k)}
<1>1. \A k \in 1 .. n : g[k] = IF k = 1 THEN ss[k] ELSE g[k - 1] \o ss[k]
  BY DEF Flattens
<1>2. \A k \in 1 .. n : ss[k] \in Seq(S)
  OBVIOUS
<1>3. 1 \in P
  <2>1. 1 \in 1 .. n /\ 1 .. 1 = {1}
    OBVIOUS
  <2>2. All(1) = Held(ss[1])
    BY <2>1
  <2> HIDE DEF All
  <2> QED BY <1>1, <1>2, <2>1, <2>2
<1>4. ASSUME NEW k \in 1 .. n - 1, k \in P PROVE k + 1 \in P
  <2>1. k + 1 \in 1 .. n /\ k + 1 # 1 /\ (k + 1) - 1 = k /\ 1 .. k + 1 = 1 .. k \cup {k + 1}
    OBVIOUS
  <2>2. g[k + 1] = g[k] \o ss[k + 1]
    BY <1>1, <2>1
  <2>3. g[k + 1] \in Seq(S) /\ Held(g[k + 1]) = Held(g[k]) \cup Held(ss[k + 1])
    BY <1>2, <1>4, <2>1, <2>2, ConcatHolds
  <2>4. All(k + 1) = All(k) \cup Held(ss[k + 1])
    BY <2>1
  <2> HIDE DEF All
  <2> QED BY <1>4, <2>1, <2>3, <2>4
<1>5. \A k \in 1 .. n : k \in P
  <2> HIDE DEF P
  <2> QED BY <1>3, <1>4, InductionUpTo
<1>6. n \in P
  <2>1. n \in 1 .. n
    OBVIOUS
  <2> QED BY <1>5, <2>1
<1> QED BY <1>6

\* What FlattenSeq returns is a sequence, and holds what its sequences hold.
LEMMA FlattenSeqHolds ==
  ASSUME NEW S, NEW ss \in Seq(Seq(S))
  PROVE  /\ FlattenSeq(ss) \in Seq(S)
         /\ Held(FlattenSeq(ss)) = UNION {Held(ss[j]) : j \in DOMAIN ss}
<1>1. CASE Len(ss) = 0
  <2>1. FlattenSeq(ss) = <<>> /\ ss = <<>>
    BY <1>1 DEF FlattenSeq
  <2> QED BY <2>1 DEF Held
<1>2. CASE Len(ss) # 0
  <2> DEFINE f == CHOOSE g : Flattens(g, ss, Len(ss))
  <2>1. FlattenSeq(ss) = f[Len(ss)]
    BY <1>2 DEF FlattenSeq, Flattens
  <2>2. Flattens(f, ss, Len(ss))
    BY FlatteningExists
  <2>3. DOMAIN ss = 1 .. Len(ss)
    OBVIOUS
  <2> HIDE DEF f
  <2>4. Len(ss) \in Nat /\ Len(ss) <= Len(ss)
    OBVIOUS
  <2>5. /\ f[Len(ss)] \in Seq(S)
        /\ Held(f[Len(ss)]) = UNION {Held(ss[j]) : j \in 1 .. Len(ss)}
    BY <1>2, <2>2, <2>4, FlatteningHolds
  <2> QED BY <2>1, <2>3, <2>5
<1> QED BY <1>1, <1>2

--------------------------------------------------------------------------------
(* Sequences that only grow. *)

\* A sequence, whatever its elements are.
IsSeq(s) == s \in Seq(Held(s))

\* A member of Seq(S) is a sequence in the sense of IsSeq, with a natural length.
LEMMA SeqIsSeq ==
  ASSUME NEW S, NEW s \in Seq(S)
  PROVE  IsSeq(s) /\ Len(s) \in Nat /\ DOMAIN s = 1 .. Len(s)
<1>1. Len(s) \in Nat /\ DOMAIN s = 1 .. Len(s) /\ s = [i \in 1 .. Len(s) |-> s[i]]
  OBVIOUS
<1>2. \A i \in 1 .. Len(s) : s[i] \in Held(s)
  BY <1>1 DEF Held
<1>3. s \in [1 .. Len(s) -> Held(s)]
  BY <1>1, <1>2
<1>4. s \in Seq(Held(s))
  BY <1>1, <1>3
<1> QED BY <1>1, <1>4 DEF IsSeq

\* Appending adds one place at the end and leaves the others as they are.
LEMMA AppendKeeps ==
  ASSUME NEW s, IsSeq(s), NEW x
  PROVE  /\ Len(s) \in Nat /\ DOMAIN s = 1 .. Len(s)
         /\ IsSeq(Append(s, x))
         /\ Len(Append(s, x)) = Len(s) + 1
         /\ DOMAIN Append(s, x) = 1 .. Len(s) + 1
         /\ \A i \in 1 .. Len(s) : Append(s, x)[i] = s[i]
         /\ Append(s, x)[Len(s) + 1] = x
<1> DEFINE S == Held(s) \cup {x}
<1>1. s \in Seq(Held(s))
  BY DEF IsSeq
<1>2. Held(s) \subseteq S
  OBVIOUS
<1>3. s \in Seq(S) /\ Len(s) \in Nat /\ DOMAIN s = 1 .. Len(s)
  <2> HIDE DEF S
  <2> QED BY <1>1, <1>2
<1>4. x \in S
  OBVIOUS
<1> HIDE DEF S
<1>5. Append(s, x) \in Seq(S)
  BY <1>3, <1>4
<1>6. /\ Len(Append(s, x)) = Len(s) + 1
      /\ \A i \in 1 .. Len(s) : Append(s, x)[i] = s[i]
      /\ Append(s, x)[Len(s) + 1] = x
  BY <1>3, <1>4, AppendProperties
<1> QED BY <1>3, <1>5, <1>6, SeqIsSeq

\* So does appending a sequence, and the new places are those of that sequence.
LEMMA ConcatKeeps ==
  ASSUME NEW S, NEW s \in Seq(S), NEW t \in Seq(S)
  PROVE  /\ s \o t \in Seq(S)
         /\ \A i \in DOMAIN s : i \in DOMAIN (s \o t) /\ (s \o t)[i] = s[i]
         /\ \A i \in DOMAIN (s \o t) : i \notin DOMAIN s => (s \o t)[i] \in Held(t)
         /\ \A i \in DOMAIN t : \E j \in DOMAIN (s \o t) : (s \o t)[j] = t[i]
<1>1. s \o t \in Seq(S) /\ Len(s \o t) = Len(s) + Len(t)
  OBVIOUS
<1>2. \A i \in 1 .. Len(s) + Len(t) : (s \o t)[i] = IF i <= Len(s) THEN s[i] ELSE t[i - Len(s)]
  BY ConcatProperties
<1>3. Len(s) \in Nat /\ Len(t) \in Nat /\ DOMAIN s = 1 .. Len(s) /\ DOMAIN t = 1 .. Len(t)
      /\ DOMAIN (s \o t) = 1 .. Len(s) + Len(t)
  BY <1>1
<1>4. \A i \in DOMAIN s : i \in DOMAIN (s \o t) /\ (s \o t)[i] = s[i]
  BY <1>2, <1>3
<1>5. ASSUME NEW i \in DOMAIN (s \o t), i \notin DOMAIN s
      PROVE  (s \o t)[i] \in Held(t)
  <2>1. i - Len(s) \in DOMAIN t /\ (s \o t)[i] = t[i - Len(s)]
    BY <1>2, <1>3, <1>5
  <2> QED BY <2>1 DEF Held
<1>6. ASSUME NEW i \in DOMAIN t
      PROVE  \E j \in DOMAIN (s \o t) : (s \o t)[j] = t[i]
  <2>1. Len(s) + i \in DOMAIN (s \o t) /\ (s \o t)[Len(s) + i] = t[i]
    BY <1>2, <1>3
  <2> QED BY <2>1
<1> QED BY <1>1, <1>4, <1>5, <1>6

\* Appending one value or none is a concatenation as well.
LEMMA AppendAsConcat ==
  ASSUME NEW S, NEW s \in Seq(S)
  PROVE  /\ <<>> \in Seq(S) /\ s \o <<>> = s
         /\ \A x \in S : <<x>> \in Seq(S) /\ Append(s, x) = s \o <<x>>
<1>1. <<>> \in Seq(S) /\ s \o <<>> = s
  OBVIOUS
<1>2. ASSUME NEW x \in S PROVE <<x>> \in Seq(S) /\ Append(s, x) = s \o <<x>>
  OBVIOUS
<1> QED BY <1>1, <1>2

\* A set of at most one element.
LEMMA AtMostOne ==
  ASSUME NEW S, IsFiniteSet(S), Cardinality(S) <= 1
  PROVE  \A x, y \in S : x = y
<1> SUFFICES ASSUME NEW x \in S, NEW y \in S, x # y PROVE FALSE
  OBVIOUS
<1>1. IsFiniteSet(S \ {x}) /\ Cardinality(S \ {x}) = Cardinality(S) - 1
  BY FS_RemoveElement
<1>2. Cardinality(S \ {x}) \in Nat /\ Cardinality(S) \in Nat
  BY <1>1, FS_CardinalityType
<1>3. Cardinality(S \ {x}) = 0
  BY <1>1, <1>2
<1>4. S \ {x} = {}
  BY <1>1, <1>3, FS_EmptySet
<1> QED BY <1>4

\* A function on an initial segment of the naturals is a sequence.
LEMMA FunctionIsSeq ==
  ASSUME NEW s, NEW n \in Nat, s = [i \in 1 .. n |-> s[i]]
  PROVE  IsSeq(s) /\ Len(s) = n /\ DOMAIN s = 1 .. n
<1>1. DOMAIN s = 1 .. n
  OBVIOUS
<1>2. \A i \in 1 .. n : s[i] \in Held(s)
  BY <1>1 DEF Held
<1> DEFINE H == Held(s)
<1> HIDE DEF H
<1>3. s \in [1 .. n -> H]
  BY <1>2 DEF H
<1>4. s \in Seq(H) /\ Len(s) = n
  BY <1>3
<1> QED BY <1>1, <1>4 DEF IsSeq, H

\* What has one more place than a sequence, and agrees with it, is the sequence with that
\* one appended.
LEMMA IsAppended ==
  ASSUME NEW s, IsSeq(s), NEW t, t = [i \in 1 .. Len(s) + 1 |-> t[i]],
         \A i \in 1 .. Len(s) : t[i] = s[i], NEW x, t[Len(s) + 1] = x
  PROVE  t = Append(s, x)
<1> DEFINE n == Len(s)
           a == Append(s, x)
<1>1. /\ n \in Nat /\ IsSeq(a) /\ Len(a) = n + 1 /\ DOMAIN a = 1 .. n + 1
      /\ \A i \in 1 .. n : a[i] = s[i]
      /\ a[n + 1] = x
  BY AppendKeeps
<1>2. a = [i \in 1 .. n + 1 |-> a[i]]
  <2> DEFINE H == Held(a)
  <2> HIDE DEF H, a
  <2>1. a \in Seq(H)
    BY <1>1 DEF IsSeq, H
  <2> QED BY <1>1, <2>1
<1> HIDE DEF a, n
<1>3. \A i \in 1 .. n + 1 : t[i] = a[i]
  BY <1>1 DEF n
<1>4. t = [i \in 1 .. n + 1 |-> t[i]]
  BY DEF n
<1> QED BY <1>2, <1>3, <1>4 DEF a

\* Max where it is plain to see.
LEMMA MaxOfOne ==
  ASSUME NEW n \in Nat
  PROVE  Max({n}) = n
<1>1. IsFiniteSet({n})
  BY FS_Singleton
<1>2. {n} \subseteq Nat /\ {n} # {}
  OBVIOUS
<1>3. Max({n}) \in {n}
  BY <1>1, <1>2, MaxOfFinite
<1> QED BY <1>3

\* The maximum of 1 .. n is n: the handle of the record stored last.
LEMMA MaxOfInterval ==
  ASSUME NEW n \in Nat, n > 0
  PROVE  Max(1 .. n) = n
<1>1. IsFiniteSet(1 .. n)
  BY FS_Interval
<1>2. 1 .. n \subseteq Nat /\ n \in 1 .. n
  OBVIOUS
<1> DEFINE S == 1 .. n
<1>3. S \subseteq Nat /\ IsFiniteSet(S) /\ S # {} /\ n \in S
  BY <1>1, <1>2
<1>4. \A x \in S : x \in Nat /\ x <= n
  OBVIOUS
<1> HIDE DEF S
<1>5. Max(S) \in S /\ \A x \in S : x <= Max(S)
  BY <1>3, MaxOfFinite
<1>6. Max(S) = n
  <2> DEFINE m == Max(S)
  <2>1. m \in Nat /\ m <= n /\ n <= m
    BY <1>3, <1>4, <1>5
  <2> HIDE DEF m
  <2>2. m = n
    BY <2>1
  <2> QED BY <2>2 DEF m
<1> QED BY <1>6 DEF S

\* A sequence without one of its places: the places before it stay, those after it move up.
LEMMA RemoveAtKeeps ==
  ASSUME NEW S, NEW s \in Seq(S), NEW t \in DOMAIN s
  PROVE  /\ RemoveAt(s, t) \in Seq(S)
         /\ Len(RemoveAt(s, t)) = Len(s) - 1
         /\ \A i \in 1 .. Len(s) - 1 : RemoveAt(s, t)[i] = s[IF i < t THEN i ELSE i + 1]
         /\ Held(s) = Held(RemoveAt(s, t)) \cup {s[t]}
<1>1. Len(s) \in Nat /\ t \in 1 .. Len(s)
  OBVIOUS
<1> DEFINE n == Len(s)
           left == SubSeq(s, 1, t - 1)
           right == SubSeq(s, t + 1, n)
<1>2. left \in Seq(S) /\ Len(left) = t - 1 /\ \A i \in 1 .. t - 1 : left[i] = s[i]
  BY <1>1
<1>3. right \in Seq(S) /\ Len(right) = n - t /\ \A i \in 1 .. n - t : right[i] = s[t + i]
  <2>1. t + 1 \in Int /\ n \in Int /\ \A i \in t + 1 .. n : i \in 1 .. n
    BY <1>1
  <2> QED BY <1>1, <2>1
<1> HIDE DEF left, right
<1>4. left \o right \in Seq(S)
  BY <1>2, <1>3
<1>5. /\ Len(left \o right) = Len(left) + Len(right)
      /\ \A i \in 1 .. Len(left) + Len(right) :
           (left \o right)[i] = IF i <= Len(left) THEN left[i] ELSE right[i - Len(left)]
  BY <1>2, <1>3, ConcatProperties
<1>6. Len(left \o right) = n - 1
  BY <1>1, <1>2, <1>3, <1>5
<1>7. \A i \in 1 .. n - 1 : (left \o right)[i] = s[IF i < t THEN i ELSE i + 1]
  <2> SUFFICES ASSUME NEW i \in 1 .. n - 1
               PROVE  (left \o right)[i] = s[IF i < t THEN i ELSE i + 1]
    OBVIOUS
  <2>1. (left \o right)[i] = IF i <= t - 1 THEN left[i] ELSE right[i - (t - 1)]
    <3>1. Len(left) = t - 1 /\ Len(right) = n - t /\ i \in 1 .. Len(left) + Len(right)
      BY <1>1, <1>2, <1>3
    <3> QED BY <1>5, <3>1
  <2>2. CASE i < t
    BY <1>1, <1>2, <2>1, <2>2
  <2>3. CASE ~(i < t)
    <3>1. i - (t - 1) \in 1 .. n - t /\ t + (i - (t - 1)) = i + 1
      BY <1>1, <2>3
    <3>2. (left \o right)[i] = right[i - (t - 1)]
      BY <1>1, <2>1, <2>3
    <3>3. right[i - (t - 1)] = s[t + (i - (t - 1))]
      BY <1>3, <3>1
    <3> QED BY <2>3, <3>1, <3>2, <3>3
  <2> QED BY <2>2, <2>3
<1>8. Held(s) = Held(left \o right) \cup {s[t]}
  <2>1. DOMAIN s = 1 .. n /\ DOMAIN (left \o right) = 1 .. n - 1
    BY <1>4, <1>6
  <2>2. \A i \in 1 .. n - 1 : (left \o right)[i] \in Held(s)
    <3>1. \A i \in 1 .. n - 1 : (IF i < t THEN i ELSE i + 1) \in 1 .. n
      BY <1>1
    <3> QED BY <1>7, <2>1, <3>1 DEF Held
  <2>3. ASSUME NEW j \in 1 .. n, j # t PROVE s[j] \in Held(left \o right)
    <3>1. CASE j < t
      <4>1. j \in 1 .. n - 1
        BY <1>1, <3>1
      <4> QED BY <1>7, <2>1, <3>1, <4>1 DEF Held
    <3>2. CASE j > t
      <4>1. j - 1 \in 1 .. n - 1 /\ ~(j - 1 < t) /\ (j - 1) + 1 = j
        BY <1>1, <3>2
      <4>2. (left \o right)[j - 1] = s[j]
        BY <1>7, <4>1
      <4> QED BY <2>1, <4>1, <4>2 DEF Held
    <3> QED BY <1>1, <2>3, <3>1, <3>2
  <2>4. Held(left \o right) \subseteq Held(s)
    BY <2>1, <2>2 DEF Held
  <2>5. Held(s) \subseteq Held(left \o right) \cup {s[t]}
    BY <2>1, <2>3 DEF Held
  <2>6. s[t] \in Held(s)
    BY DEF Held
  <2> QED BY <2>4, <2>5, <2>6
<1> QED BY <1>4, <1>6, <1>7, <1>8 DEF RemoveAt, left, right

\* Appending adds one element.
LEMMA AppendHolds ==
  ASSUME NEW s, IsSeq(s), NEW x
  PROVE  Held(Append(s, x)) = Held(s) \cup {x}
<1>1. /\ Len(s) \in Nat /\ DOMAIN s = 1 .. Len(s) /\ DOMAIN Append(s, x) = 1 .. Len(s) + 1
      /\ \A i \in 1 .. Len(s) : Append(s, x)[i] = s[i]
      /\ Append(s, x)[Len(s) + 1] = x
  BY AppendKeeps
<1> DEFINE a == Append(s, x)
           n == Len(s)
<1> HIDE DEF a, n
<1>2. /\ n \in Nat /\ DOMAIN s = 1 .. n /\ DOMAIN a = 1 .. n + 1
      /\ \A i \in 1 .. n : a[i] = s[i]
      /\ a[n + 1] = x
  BY <1>1 DEF a, n
<1>3. Held(a) \subseteq Held(s) \cup {x}
  BY <1>2 DEF Held
<1>4. Held(s) \subseteq Held(a)
  BY <1>2 DEF Held
<1>5. x \in Held(a)
  BY <1>2 DEF Held
<1> QED BY <1>3, <1>4, <1>5 DEF a

\* A nonempty set of naturals has a least element, and Min returns it.
LEMMA MinOfNaturals ==
  ASSUME NEW S, S \subseteq Nat, S # {}
  PROVE  Min(S) \in S /\ \A x \in S : Min(S) <= x
<1>1. \E n \in S : \A m \in S : n <= m
  BY LeastNatural
<1> QED BY <1>1 DEF Min

--------------------------------------------------------------------------------
(* The longest common prefix of a set of sequences. *)

\* The sequences of T have at least n places and agree in the first n.
AgreeUpTo(T, n) == \A t \in T : n <= Len(t) /\ \A u \in T : \A k \in 1 .. n : t[k] = u[k]

\* A common prefix is one place for place; ...
LEMMA CommonPrefixIsShared ==
  ASSUME NEW S, NEW T, T \subseteq Seq(S), NEW x \in CommonPrefixes(T)
  PROVE  /\ x \in Seq(S) /\ Len(x) \in Nat
         /\ \A t \in T : Len(x) <= Len(t) /\ \A k \in 1 .. Len(x) : t[k] = x[k]
<1>1. PICK o \in T : \E l \in 0 .. Len(o) : x = SubSeq(o, 1, l)
  BY DEF CommonPrefixes, Prefixes
<1>2. PICK l \in 0 .. Len(o) : x = SubSeq(o, 1, l)
  BY <1>1
<1>3. o \in Seq(S) /\ l \in Int /\ \A i \in 1 .. l : o[i] \in S
  BY <1>2
<1>4. x \in Seq(S)
  BY <1>2, <1>3, SubSeqProperties
<1>5. Len(x) \in Nat
  BY <1>4
<1>6. ASSUME NEW t \in T
      PROVE  Len(x) <= Len(t) /\ \A k \in 1 .. Len(x) : t[k] = x[k]
  <2>1. Len(x) <= Len(t) /\ SubSeq(x, 1, Len(x)) = SubSeq(t, 1, Len(x))
    BY DEF CommonPrefixes, IsPrefix
  <2> DEFINE n == Len(x)
  <2>2. t \in Seq(S) /\ n \in Int /\ n - 1 + 1 = n
    BY <1>5
  <2>3. \A i \in 1 .. n : t[i] \in S /\ x[i] \in S
    BY <1>4, <2>1, <2>2
  <2>4. n <= Len(t) /\ SubSeq(x, 1, n) = SubSeq(t, 1, n)
    BY <2>1
  <2> HIDE DEF n
  <2>5. \A i \in 1 .. n - 1 + 1 : SubSeq(t, 1, n)[i] = t[1 + i - 1]
    BY <2>2, <2>3, SubSeqProperties
  <2>6. \A i \in 1 .. n - 1 + 1 : SubSeq(x, 1, n)[i] = x[1 + i - 1]
    BY <2>2, <2>3, SubSeqProperties
  <2>7. \A k \in 1 .. n : t[k] = x[k]
    BY <2>2, <2>4, <2>5, <2>6
  <2> QED BY <2>4, <2>7 DEF n
<1> QED BY <1>4, <1>5, <1>6

\* ... and the places where all sequences agree make one.
LEMMA SharedIsCommonPrefix ==
  ASSUME NEW S, NEW T, T \subseteq Seq(S), NEW o \in T, NEW n \in Nat, AgreeUpTo(T, n)
  PROVE  SubSeq(o, 1, n) \in CommonPrefixes(T) /\ Len(SubSeq(o, 1, n)) = n
<1> DEFINE x == SubSeq(o, 1, n)
<1>1. /\ n - 1 + 1 = n /\ n \in Int /\ n \in 0 .. Len(o)
      /\ o \in Seq(S) /\ \A i \in 1 .. n : o[i] \in S
  BY DEF AgreeUpTo
<1>2. /\ x \in Seq(S) /\ Len(x) = IF 1 <= n THEN n - 1 + 1 ELSE 0
      /\ \A i \in 1 .. n - 1 + 1 : x[i] = o[1 + i - 1]
  BY <1>1, SubSeqProperties
<1>3. x \in Prefixes(o)
  BY <1>1 DEF Prefixes
<1> HIDE DEF x
<1>4. Len(x) = n /\ \A i \in 1 .. n : x[i] = o[i]
  BY <1>1, <1>2
<1>5. ASSUME NEW t \in T
      PROVE  IsPrefix(x, t)
  <2>1. t \in Seq(S) /\ n <= Len(t) /\ \A k \in 1 .. n : t[k] = x[k]
    BY <1>4 DEF AgreeUpTo
  <2> DEFINE y == SubSeq(t, 1, n)
  <2>2. \A i \in 1 .. n : t[i] \in S
    BY <2>1
  <2>3. /\ y \in Seq(S) /\ Len(y) = IF 1 <= n THEN n - 1 + 1 ELSE 0
        /\ \A i \in 1 .. n - 1 + 1 : y[i] = t[1 + i - 1]
    BY <1>1, <2>2, SubSeqProperties
  <2> HIDE DEF y
  <2>4. Len(y) = Len(x) /\ \A i \in 1 .. Len(x) : y[i] = x[i]
    BY <1>1, <1>4, <2>1, <2>3
  <2>5. y = x
    <3>1. y = [i \in 1 .. Len(y) |-> y[i]] /\ x = [i \in 1 .. Len(x) |-> x[i]]
      BY <1>2, <2>3
    <3> QED BY <2>4, <3>1
  <2>6. SubSeq(x, 1, Len(x)) = x
    BY <1>2, SubSeqFull
  <2> QED BY <1>4, <2>1, <2>5, <2>6 DEF IsPrefix, y
<1>6. x \in CommonPrefixes(T)
  BY <1>3, <1>5 DEF CommonPrefixes
<1> QED BY <1>4, <1>6 DEF x

\* LongestCommonPrefix returns all that the sequences share from the start.
LEMMA LongestCommonPrefixHolds ==
  ASSUME NEW S, NEW T, T \subseteq Seq(S), T # {}
  PROVE  LET p == LongestCommonPrefix(T)
         IN  /\ p \in Seq(S) /\ Len(p) \in Nat
             /\ \A t \in T : Len(p) <= Len(t) /\ \A k \in 1 .. Len(p) : t[k] = p[k]
             /\ \A n \in Nat : AgreeUpTo(T, n) => n <= Len(p)
<1> DEFINE C == CommonPrefixes(T)
           Longest(x) == \A y \in C : Len(y) <= Len(x)
<1>1. PICK o \in T : TRUE
  OBVIOUS
<1>2. \A x \in C : Len(x) \in 0 .. Len(o)
  BY <1>1, CommonPrefixIsShared
<1>3. C # {}
  <2>1. AgreeUpTo(T, 0)
    <3>1. \A t \in T : 0 <= Len(t) /\ 1 .. 0 = {}
      OBVIOUS
    <3> QED BY <3>1 DEF AgreeUpTo
  <2> QED BY <1>1, <2>1, SharedIsCommonPrefix
<1> HIDE DEF C
<1>4. \E x \in C : Longest(x)
  <2> DEFINE D == {Len(x) : x \in C}
  <2>1. IsFiniteSet(0 .. Len(o))
    BY FS_Interval
  <2>2. D \subseteq 0 .. Len(o) /\ D # {}
    BY <1>2, <1>3
  <2>3. IsFiniteSet(D)
    BY <2>1, <2>2, FS_Subset
  <2>4. D \subseteq Nat
    BY <2>2
  <2> DEFINE m == Max(D)
  <2>5. m \in D /\ \A d \in D : d <= m
    <3> HIDE DEF D
    <3> QED BY <2>2, <2>3, <2>4, MaxOfFinite
  <2> HIDE DEF m
  <2>6. PICK x \in C : m = Len(x)
    BY <2>5
  <2> QED BY <2>5, <2>6
<1> DEFINE p == LongestCommonPrefix(T)
<1>5. p \in C /\ Longest(p)
  BY <1>4 DEF LongestCommonPrefix, C
<1> HIDE DEF p
<1>6. /\ p \in Seq(S) /\ Len(p) \in Nat
      /\ \A t \in T : Len(p) <= Len(t) /\ \A k \in 1 .. Len(p) : t[k] = p[k]
  BY <1>5, CommonPrefixIsShared DEF C
<1>7. \A n \in Nat : AgreeUpTo(T, n) => n <= Len(p)
  <2> SUFFICES ASSUME NEW n \in Nat, AgreeUpTo(T, n) PROVE n <= Len(p)
    OBVIOUS
  <2>1. SubSeq(o, 1, n) \in C /\ Len(SubSeq(o, 1, n)) = n
    BY <1>1, SharedIsCommonPrefix DEF C
  <2> QED BY <1>5, <2>1
<1> QED BY <1>6, <1>7 DEF p

--------------------------------------------------------------------------------
(* The localizer over any pool.                                                    *)

ImpairedAmps(pool) == {a \in DOMAIN AmpClass(pool) : AmpClass(pool)[a] # "Clean"}

\* Each amp of the pool is read with the class of one of its classifications, ...
LEMMA AmpClassIsRead ==
  ASSUME NEW pool, IsSeq(pool), NEW a \in DOMAIN AmpClass(pool)
  PROVE  /\ a # RpdRef
         /\ \E i \in DOMAIN pool : pool[i].device = a /\ AmpClass(pool)[a] = pool[i].class
<1> DEFINE places == {i \in DOMAIN pool : pool[i].device = a}
<1>1. DOMAIN pool = 1 .. Len(pool) /\ Len(pool) \in Nat
  BY SeqIsSeq DEF IsSeq
<1>2. a # RpdRef /\ places # {}
  BY DEF AmpClass
<1>3. places \subseteq 1 .. Len(pool)
  BY <1>1
<1>4. AmpClass(pool)[a] = pool[Max(places)].class
  BY DEF AmpClass
<1> HIDE DEF places
<1>5. IsFiniteSet(places) /\ places \subseteq Nat
  <2>1. IsFiniteSet(1 .. Len(pool))
    BY <1>1, FS_Interval
  <2>2. 1 .. Len(pool) \subseteq Nat
    BY <1>1
  <2> QED BY <1>3, <2>1, <2>2, FS_Subset
<1>6. Max(places) \in places
  BY <1>2, <1>5, MaxOfFinite
<1> QED BY <1>2, <1>4, <1>6 DEF places

\* ... and every amp that is classified is read.
LEMMA AmpsAreRead ==
  ASSUME NEW pool
  PROVE  DOMAIN AmpClass(pool) = {pool[i].device : i \in DOMAIN pool} \ {RpdRef}
BY DEF AmpClass

\* Where the classifications of an amp agree, that is the class it is read with.
LEMMA AmpClassAgrees ==
  ASSUME NEW pool, IsSeq(pool), NEW k \in DOMAIN pool, pool[k].device # RpdRef,
         \A i \in DOMAIN pool : pool[i].device = pool[k].device => pool[i].class = pool[k].class
  PROVE  /\ pool[k].device \in DOMAIN AmpClass(pool)
         /\ AmpClass(pool)[pool[k].device] = pool[k].class
<1>1. pool[k].device \in DOMAIN AmpClass(pool)
  BY AmpsAreRead
<1>2. PICK i \in DOMAIN pool : /\ pool[i].device = pool[k].device
                               /\ AmpClass(pool)[pool[k].device] = pool[i].class
  BY <1>1, AmpClassIsRead
<1> QED BY <1>1, <1>2

\* The parts of an answer. The supporting devices are the impaired amps, the uncertain ones
\* those of the segment that nobody read; "localized" takes an impaired amp, no uncertain
\* one and no two impaired classes.
LEMMA LocalizeShape ==
  ASSUME NEW topo, NEW pool
  PROVE  LET answer == Localize(topo, pool)
         IN  /\ answer.status \in {"localized", "low_confidence"}
             /\ answer.supporting = ImpairedAmps(pool)
             /\ answer.uncertain = AmpIds(topo) \ DOMAIN AmpClass(pool)
             /\ answer.boundary \subseteq DOMAIN AmpClass(pool)
             /\ answer.status = "localized" =>
                  /\ ~(Cardinality(ImpairedLabels(pool)) > 1)
                  /\ ImpairedAmps(pool) # {}
                  /\ AmpIds(topo) \subseteq DOMAIN AmpClass(pool)
<1> DEFINE measured == DOMAIN AmpClass(pool)
           impaired == ImpairedAmps(pool)
           uncertain == AmpIds(topo) \ measured
<1>1. CASE Cardinality(ImpairedLabels(pool)) > 1
  <2>1. Localize(topo, pool) = Low(30, impaired, uncertain)
    BY <1>1 DEF Localize, ImpairedAmps
  <2> QED BY <2>1 DEF Low
<1>2. CASE ~(Cardinality(ImpairedLabels(pool)) > 1) /\ impaired = {}
  <2>1. Localize(topo, pool) = Low(20, {}, uncertain)
    BY <1>2 DEF Localize, ImpairedAmps
  <2> QED BY <1>2, <2>1 DEF Low
<1>3. CASE ~(Cardinality(ImpairedLabels(pool)) > 1) /\ impaired # {}
  <2>1. Localize(topo, pool) = CommonPointResult(topo, impaired, measured \ impaired, uncertain)
    BY <1>3 DEF Localize, ImpairedAmps
  <2> HIDE DEF impaired
  <2>2. CleanBoundary(topo, impaired, measured \ impaired) \subseteq measured
    BY DEF CleanBoundary
  <2> HIDE DEF measured
  <2>3. uncertain = {} => AmpIds(topo) \subseteq measured
    OBVIOUS
  <2> HIDE DEF uncertain
  <2> DEFINE r == CommonPointResult(topo, impaired, measured \ impaired, uncertain)
  <2>4. /\ r.supporting = impaired /\ r.uncertain = uncertain
        /\ r.boundary = CleanBoundary(topo, impaired, measured \ impaired)
        /\ r.status \in {"localized", "low_confidence"}
        /\ r.status = "localized" => uncertain = {}
    BY DEF CommonPointResult
  <2> QED BY <1>3, <2>1, <2>2, <2>3, <2>4 DEF impaired, measured, uncertain
<1> QED BY <1>1, <1>2, <1>3

\* The public answer says the same, of at most one candidate.
LEMMA PublicShape ==
  ASSUME NEW topo, NEW pool
  PROVE  LET answer == Localize(topo, pool)
             public == PublicLocalization(answer)
         IN  /\ public.status = answer.status
             /\ ImpairedAmps(pool) = {} => public.candidates = {}
             /\ ImpairedAmps(pool) # {} => \E c : public.candidates = {c}
             /\ \A c \in public.candidates :
                  /\ c.supporting = ImpairedAmps(pool)
                  /\ c.clean = answer.boundary
                  /\ c.uncertain = answer.uncertain
<1>1. Localize(topo, pool).supporting = ImpairedAmps(pool)
  BY LocalizeShape
<1> DEFINE answer == Localize(topo, pool)
           public == PublicLocalization(answer)
<1> HIDE DEF answer
<1>2. public.status = answer.status
  BY DEF PublicLocalization
<1>3. answer.supporting = ImpairedAmps(pool)
  BY <1>1 DEF answer
<1>4. CASE ImpairedAmps(pool) = {}
  <2>1. public.candidates = {}
    BY <1>3, <1>4 DEF PublicLocalization
  <2> QED BY <1>2, <1>4, <2>1 DEF answer
<1>5. CASE ImpairedAmps(pool) # {}
  <2> DEFINE c == [type |-> IF answer.likely = NoLikely THEN "branch" ELSE answer.likely.type,
                   upstream |-> PublicUpstream(answer), supporting |-> answer.supporting,
                   clean |-> answer.boundary, uncertain |-> answer.uncertain]
  <2>1. public.candidates = {c}
    BY <1>3, <1>5 DEF PublicLocalization
  <2>2. /\ c.supporting = ImpairedAmps(pool)
        /\ c.clean = answer.boundary /\ c.uncertain = answer.uncertain
    BY <1>3
  <2> HIDE DEF c
  <2> QED BY <1>2, <1>5, <2>1, <2>2 DEF answer
<1> QED BY <1>4, <1>5

\* The answer of a common point.
LEMMA CommonPointParts ==
  ASSUME NEW t, NEW impaired, NEW clean, NEW uncertain
  PROVE  LET r == CommonPointResult(t, impaired, clean, uncertain)
             source == LikelySource(t, impaired, clean)
         IN  /\ source.score \in {80, 85, 90}
             /\ r.confidence = source.score - (IF uncertain = {} THEN 0 ELSE 15)
             /\ r.confidence \in 0 .. 100
             /\ r.status = IF uncertain = {} THEN "localized" ELSE "low_confidence"
             /\ r.likely = source.likely /\ r.likely # NoLikely
             /\ r.supporting = impaired /\ r.uncertain = uncertain
             /\ r.boundary = CleanBoundary(t, impaired, clean)
             /\ \/ r.likely.upstream = {} /\ Cardinality(impaired) = 1
                \/ \E a : r.likely.upstream = {RefFor(t, a)}
<1> DEFINE r == CommonPointResult(t, impaired, clean, uncertain)
           source == LikelySource(t, impaired, clean)
           common == CommonPoint(t, impaired)
           anchor == IF common # None THEN common ELSE Min(impaired)
<1>1. \/ source = [score |-> 85, likely |-> [type |-> "span", upstream |-> {RefFor(t, common)}]]
      \/ /\ source = [score |-> 90, likely |-> [type |-> "device", upstream |-> {}]]
         /\ Cardinality(impaired) = 1
      \/ source = [score |-> 80, likely |-> [type |-> "branch", upstream |-> {RefFor(t, anchor)}]]
  BY DEF LikelySource
<1>2. /\ r.confidence = source.score - (IF uncertain = {} THEN 0 ELSE 15)
      /\ r.status = IF r.confidence >= 60 /\ uncertain = {} THEN "localized" ELSE "low_confidence"
      /\ r.likely = source.likely
      /\ r.supporting = impaired /\ r.uncertain = uncertain
      /\ r.boundary = CleanBoundary(t, impaired, clean)
  BY DEF CommonPointResult
<1> HIDE DEF r, source, common, anchor
<1>3. source.score \in {80, 85, 90}
  BY <1>1
<1>4. r.confidence \in 0 .. 100 /\ r.confidence >= 60
  BY <1>2, <1>3
<1>5. source.likely.type \in {"span", "device", "branch"}
  BY <1>1
<1>6. source.likely # NoLikely
  BY <1>5 DEF NoLikely
<1>7. \/ source.likely.upstream = {} /\ Cardinality(impaired) = 1
      \/ \E a : source.likely.upstream = {RefFor(t, a)}
  BY <1>1
<1> QED BY <1>2, <1>3, <1>4, <1>6, <1>7 DEF r, source

\* The public answer, of at most one candidate, from the internal one.
LEMMA PublicParts ==
  ASSUME NEW r
  PROVE  LET public == PublicLocalization(r)
         IN  /\ public.status = r.status /\ public.confidence = r.confidence
             /\ Cardinality(public.candidates) <= 1
             /\ r.supporting # {} => \E c : c \in public.candidates
             /\ \A c \in public.candidates :
                  /\ r.supporting # {} /\ c.supporting = r.supporting
                  /\ c.upstream = PublicUpstream(r)
                  /\ c.type = IF r.likely = NoLikely THEN "branch" ELSE r.likely.type
<1> DEFINE public == PublicLocalization(r)
           c == [type |-> IF r.likely = NoLikely THEN "branch" ELSE r.likely.type,
                 upstream |-> PublicUpstream(r), supporting |-> r.supporting,
                 clean |-> r.boundary, uncertain |-> r.uncertain]
<1>1. /\ public.status = r.status /\ public.confidence = r.confidence
      /\ public.candidates = IF r.supporting = {} THEN {} ELSE {c}
  BY DEF PublicLocalization
<1>2. /\ c.supporting = r.supporting /\ c.upstream = PublicUpstream(r)
      /\ c.type = IF r.likely = NoLikely THEN "branch" ELSE r.likely.type
  OBVIOUS
<1> HIDE DEF public, c
<1>3. Cardinality({}) = 0 /\ Cardinality({c}) = 1
  BY FS_EmptySet, FS_Singleton
<1>4. Cardinality(public.candidates) <= 1
  <2>1. CASE r.supporting = {}
    BY <1>1, <1>3, <2>1
  <2>2. CASE r.supporting # {}
    BY <1>1, <1>3, <2>2
  <2> QED BY <2>1, <2>2
<1> QED BY <1>1, <1>2, <1>4 DEF public

\* A "localized" answer, read as what was measured.
LEMMA LocalizedMeans ==
  ASSUME NEW topo, NEW pool, IsSeq(pool),
         PublicLocalization(Localize(topo, pool)).status = "localized"
  PROVE  /\ AmpIds(topo) \subseteq DOMAIN AmpClass(pool)
         /\ ImpairedAmps(pool) # {}
         /\ \A x, y \in ImpairedLabels(pool) : x = y
<1>1. Localize(topo, pool).status = "localized"
  BY PublicShape
<1>2. /\ ~(Cardinality(ImpairedLabels(pool)) > 1)
      /\ ImpairedAmps(pool) # {} /\ AmpIds(topo) \subseteq DOMAIN AmpClass(pool)
  BY <1>1, LocalizeShape
<1>3. DOMAIN pool = 1 .. Len(pool) /\ Len(pool) \in Nat
  BY SeqIsSeq DEF IsSeq
<1> DEFINE class == [i \in DOMAIN pool |-> pool[i].class]
           classes == {class[i] : i \in DOMAIN pool}
<1>4. IsFiniteSet(classes)
  <2>1. IsFiniteSet(DOMAIN pool)
    BY <1>3, FS_Interval
  <2> DEFINE S == DOMAIN pool
             T == {pool[i].class : i \in S}
  <2>2. class \in [S -> T]
    OBVIOUS
  <2> HIDE DEF class, S, T
  <2>3. IsFiniteSet({class[i] : i \in S})
    BY <2>1, <2>2, ImageIsFinite DEF S
  <2> QED BY <2>3 DEF S
<1>5. IsFiniteSet(ImpairedLabels(pool))
  <2>1. ImpairedLabels(pool) \subseteq classes
    BY DEF ImpairedLabels
  <2> HIDE DEF classes
  <2> QED BY <1>4, <2>1, FS_Subset
<1>6. Cardinality(ImpairedLabels(pool)) \in Nat
  BY <1>5, FS_CardinalityType
<1>7. Cardinality(ImpairedLabels(pool)) <= 1
  BY <1>2, <1>6
<1>8. \A x, y \in ImpairedLabels(pool) : x = y
  BY <1>5, <1>7, AtMostOne
<1> QED BY <1>2, <1>8

\* One reading of each of some amps.
OneOfEach(items, amps) ==
  /\ {items[i].device : i \in DOMAIN items} = amps
  /\ \A i, j \in DOMAIN items : items[i].device = items[j].device => i = j

\* The readings are those of all the amps of the segment, the impaired ones show the class
\* that was read at the RPD, and each candidate is supported by exactly these.
ExplainedBy(public, topo, rpd, items) ==
  LET impaired == {r \in Held(items) : r.class # "Clean"}
  IN  /\ {r.device : r \in Held(items)} = AmpIds(topo)
      /\ {r.class : r \in impaired} = {rpd.class}
      /\ \A c \in public.candidates : c.supporting = {r.device : r \in impaired}

\* A "localized" answer over a reading of the RPD and one reading of each of some amps of
\* the segment: these are all its amps, the impaired ones show the class of the RPD, and
\* they are what supports the answer.
LEMMA LocalizedOverReadings ==
  ASSUME NEW topo, NEW rpd, rpd.device = RpdRef, rpd.class # "Clean",
         NEW items, NEW measured, measured \subseteq AmpIds(topo), RpdRef \notin measured,
         OneOfEach(items, measured),
         NEW pool, IsSeq(pool), Held(pool) = {rpd} \cup Held(items),
         PublicLocalization(Localize(topo, pool)).status = "localized"
  PROVE  ExplainedBy(PublicLocalization(Localize(topo, pool)), topo, rpd, items)
<1> DEFINE impaired == {r \in Held(items) : r.class # "Clean"}
<1>1. /\ AmpIds(topo) \subseteq DOMAIN AmpClass(pool)
      /\ ImpairedAmps(pool) # {}
      /\ \A x, y \in ImpairedLabels(pool) : x = y
  BY LocalizedMeans
<1>2. /\ \A k \in DOMAIN pool : pool[k] = rpd \/ pool[k] \in Held(items)
      /\ \A r \in Held(items) : \E k \in DOMAIN pool : pool[k] = r
      /\ \E k \in DOMAIN pool : pool[k] = rpd
  BY DEF Held
<1>3. \A r \in Held(items) : r.device \in measured /\ r.device # RpdRef
  BY DEF Held, OneOfEach
<1>4. \A r, s \in Held(items) : r.device = s.device => r = s
  BY DEF Held, OneOfEach
<1>5. \A a \in measured : \E r \in Held(items) : r.device = a
  BY DEF Held, OneOfEach
<1>6. {r.device : r \in Held(items)} = measured
  BY <1>3, <1>5
<1>7. AmpIds(topo) \subseteq measured
  <2> SUFFICES ASSUME NEW a \in AmpIds(topo) PROVE a \in measured
    OBVIOUS
  <2>1. a # RpdRef /\ \E k \in DOMAIN pool : pool[k].device = a
    BY <1>1, AmpClassIsRead
  <2> QED BY <1>2, <1>3, <2>1
<1>8. rpd.class \in ImpairedLabels(pool)
      /\ \A r \in impaired : r.class \in ImpairedLabels(pool)
  BY <1>2 DEF ImpairedLabels
<1>9. \A a \in ImpairedAmps(pool) : \E r \in impaired : r.device = a
  <2> SUFFICES ASSUME NEW a \in ImpairedAmps(pool) PROVE \E r \in impaired : r.device = a
    OBVIOUS
  <2>1. a \in DOMAIN AmpClass(pool) /\ AmpClass(pool)[a] # "Clean"
    BY DEF ImpairedAmps
  <2>2. PICK k \in DOMAIN pool : /\ a # RpdRef /\ pool[k].device = a
                                /\ AmpClass(pool)[a] = pool[k].class
    BY <2>1, AmpClassIsRead
  <2> QED BY <1>2, <2>1, <2>2
<1>10. {r.class : r \in impaired} = {rpd.class}
  <2>1. impaired # {}
    BY <1>1, <1>9
  <2>2. \A r \in impaired : r.class = rpd.class
    BY <1>1, <1>8
  <2> HIDE DEF impaired
  <2> QED BY <2>1, <2>2
<1>11. \A r \in impaired : r.device \in ImpairedAmps(pool)
  <2> SUFFICES ASSUME NEW r \in impaired PROVE r.device \in ImpairedAmps(pool)
    OBVIOUS
  <2>1. PICK k \in DOMAIN pool : pool[k] = r
    BY <1>2
  <2>2. \A i \in DOMAIN pool : pool[i].device = pool[k].device => pool[i].class = pool[k].class
    BY <1>2, <1>3, <1>4, <2>1
  <2>3. pool[k].device # RpdRef
    BY <1>3, <2>1
  <2>4. /\ pool[k].device \in DOMAIN AmpClass(pool)
        /\ AmpClass(pool)[pool[k].device] = pool[k].class
    BY <2>2, <2>3, AmpClassAgrees
  <2> QED BY <2>1, <2>4 DEF ImpairedAmps
<1>12. ImpairedAmps(pool) = {r.device : r \in impaired}
  BY <1>9, <1>11
<1>13. \A c \in PublicLocalization(Localize(topo, pool)).candidates :
         c.supporting = ImpairedAmps(pool)
  BY PublicShape
<1> QED BY <1>6, <1>7, <1>10, <1>12, <1>13 DEF ExplainedBy

--------------------------------------------------------------------------------
(* Segments that are trees.                                                   *)

\* Ranks that rise from a node to those below it: what a segment without cycles has. Its
\* longest climb passes each node once, so as many ranks as nodes are enough.
Rises(t, rank) ==
  \A n \in NodeIds(t) : t.parent[n] # None => rank[t.parent[n]] < rank[n]

\* A segment that is a tree below "top", the node without a parent: what from_data_package
\* builds for a port, and from_amp_list of a list with one top amp.
IsTree(t, top) ==
  /\ IsTopology(t)
  /\ top \in NodeIds(t)
  /\ \A n \in NodeIds(t) : t.parent[n] = None <=> n = top
  /\ \A n \in NodeIds(t) : t.parent[n] \in NodeIds(t) \cup {None}
  /\ \E rank \in [NodeIds(t) -> 1 .. Cardinality(NodeIds(t))] : Rises(t, rank)

\* No node but the top is an RPD.
OnlyTopIsRpd(t, top) == \A n \in NodeIds(t) : t.kind[n] = "RPD" => n = top

--------------------------------------------------------------------------------
(* The walk from a node to the top.                                           *)

\* The equation that the walk of PathToRpd solves, for its first n steps.
Climbs(up, t, a, n) ==
  up = [k \in 0 .. n |->
          IF k = 0 THEN a
          ELSE IF up[k - 1] \in NodeIds(t) THEN t.parent[up[k - 1]] ELSE None]

\* That equation has a solution.
LEMMA ClimbExists ==
  ASSUME NEW t, NEW a, NEW n \in Nat
  PROVE  \E up : Climbs(up, t, a, n)
<1> DEFINE P == {k \in Nat : \E up : Climbs(up, t, a, k)}
<1>1. 0 \in P
  <2> DEFINE g == [k \in 0 .. 0 |-> a]
  <2>1. g = [k \in 0 .. 0 |-> IF k = 0 THEN a
               ELSE IF g[k - 1] \in NodeIds(t) THEN t.parent[g[k - 1]] ELSE None]
    OBVIOUS
  <2> HIDE DEF g
  <2> QED BY <2>1 DEF Climbs
<1>2. ASSUME NEW k \in 0 .. n - 1, k \in P PROVE k + 1 \in P
  <2> PICK g : Climbs(g, t, a, k)
    BY <1>2
  <2> DEFINE h == [i \in 0 .. k + 1 |->
                     IF i = k + 1 THEN IF g[k] \in NodeIds(t) THEN t.parent[g[k]] ELSE None
                     ELSE g[i]]
  <2>1. ASSUME NEW i \in 0 .. k + 1
        PROVE  h[i] = IF i = 0 THEN a
                      ELSE IF h[i - 1] \in NodeIds(t) THEN t.parent[h[i - 1]] ELSE None
    <3>1. CASE i = k + 1
      <4>1. i # 0 /\ h[i - 1] = g[k]
        BY <3>1
      <4> QED BY <3>1, <4>1
    <3>2. CASE i # k + 1
      <4>1. i \in 0 .. k /\ h[i] = g[i] /\ (i # 0 => h[i - 1] = g[i - 1])
        BY <3>2
      <4>2. g[i] = IF i = 0 THEN a
                   ELSE IF g[i - 1] \in NodeIds(t) THEN t.parent[g[i - 1]] ELSE None
        BY <4>1 DEF Climbs
      <4> HIDE DEF h
      <4> QED BY <4>1, <4>2
    <3> QED BY <3>1, <3>2
  <2>2. h = [i \in 0 .. k + 1 |-> h[i]]
    OBVIOUS
  <2> HIDE DEF h
  <2>3. Climbs(h, t, a, k + 1)
    BY <2>1, <2>2 DEF Climbs
  <2> QED BY <2>3
<1>3. \A k \in 0 .. n : k \in P
  <2> HIDE DEF P
  <2> QED BY <1>1, <1>2, InductionUpTo
<1> QED BY <1>3

\* A sequence of nodes, each the parent of the one before, from a to a node without parent.
GoesUp(s, t, a) ==
  /\ Len(s) \in Nat \ {0}
  /\ s = [k \in 1 .. Len(s) |-> s[k]]
  /\ s[1] = a
  /\ \A k \in 1 .. Len(s) : s[k] \in NodeIds(t)
  /\ \A k \in 1 .. Len(s) - 1 : s[k + 1] = t.parent[s[k]]
  /\ t.parent[s[Len(s)]] = None

\* On a tree the walk leaves the segment after at most as many steps as there are nodes,
\* having met none twice.
LEMMA ClimbEnds ==
  ASSUME NEW t, NEW top, IsTree(t, top), NEW a \in NodeIds(t), NEW up,
         Climbs(up, t, a, Cardinality(NodeIds(t)))
  PROVE  \E n \in 1 .. Cardinality(NodeIds(t)) :
           /\ up[n] = None
           /\ \A k \in 0 .. n - 1 : up[k] \in NodeIds(t)
           /\ \A k \in 0 .. n - 1 : up[k + 1] = t.parent[up[k]]
           /\ \A j, k \in 0 .. n - 1 : j < k => up[j] # up[k]
<1> DEFINE N == NodeIds(t)
           size == Cardinality(N)
<1>1. size \in Nat
  BY FS_CardinalityType DEF IsTree, IsTopology
<1>2. /\ up[0] = a
      /\ \A k \in 0 .. size - 1 :
           up[k + 1] = IF up[k] \in N THEN t.parent[up[k]] ELSE None
  <2>1. \A k \in 0 .. size : up[k] = IF k = 0 THEN a
           ELSE IF up[k - 1] \in N THEN t.parent[up[k - 1]] ELSE None
    BY DEF Climbs
  <2> HIDE DEF N
  <2>2. \A k \in 0 .. size - 1 : k + 1 \in 0 .. size /\ k + 1 # 0 /\ (k + 1) - 1 = k
    BY <1>1
  <2> HIDE DEF size
  <2>3. 0 \in 0 .. size
    BY <1>1
  <2> QED BY <2>1, <2>2, <2>3
<1>3. PICK rank \in [N -> 1 .. size] : Rises(t, rank)
  BY DEF IsTree
<1>4. None \notin N /\ \A m \in N : t.parent[m] \in N \cup {None}
  BY DEF IsTree, IsTopology
<1>5. ASSUME NEW k \in 0 .. size - 1, up[k] \in N, up[k + 1] \in N
      PROVE  rank[up[k + 1]] < rank[up[k]]
  <2>1. up[k + 1] = t.parent[up[k]]
    BY <1>2, <1>5
  <2>2. t.parent[up[k]] # None /\ up[k] \in NodeIds(t)
    BY <1>4, <1>5, <2>1
  <2>3. rank[t.parent[up[k]]] < rank[up[k]]
    BY <1>3, <2>2 DEF Rises
  <2> QED BY <2>1, <2>3
<1> HIDE DEF N, size
<1> DEFINE Out == {k \in 0 .. size : up[k] \notin N}
<1>6. Out # {}
  <2> SUFFICES ASSUME \A k \in 0 .. size : up[k] \in N
               PROVE  FALSE
    OBVIOUS
  <2> DEFINE P == {k \in 0 .. size : rank[up[k]] <= size - k}
  <2>1. 0 \in P
    <3>1. rank[up[0]] \in 1 .. size /\ 0 \in 0 .. size
      BY <1>1, <1>3
    <3> QED BY <1>1, <3>1
  <2>2. ASSUME NEW k \in 0 .. size - 1, k \in P PROVE k + 1 \in P
    <3>1. k \in 0 .. size /\ k + 1 \in 0 .. size
      BY <1>1
    <3>2. rank[up[k]] \in 1 .. size /\ rank[up[k + 1]] \in 1 .. size
      BY <1>3, <3>1
    <3>3. rank[up[k + 1]] < rank[up[k]]
      BY <1>5, <3>1
    <3> QED BY <1>1, <2>2, <3>1, <3>2, <3>3
  <2>3. \A k \in 0 .. size : k \in P
    <3> HIDE DEF P
    <3> QED BY <1>1, <2>1, <2>2, InductionUpTo
  <2>4. rank[up[size]] <= size - size /\ rank[up[size]] \in 1 .. size
    <3>1. size \in 0 .. size
      BY <1>1
    <3> QED BY <1>3, <2>3, <3>1
  <2> QED BY <1>1, <2>4
<1>7. PICK n \in Out : \A k \in Out : n <= k
  <2>1. Out \subseteq Nat
    BY <1>1
  <2> HIDE DEF Out
  <2> QED BY <1>6, <2>1, LeastNatural
<1>8. n \in 1 .. size /\ \A k \in 0 .. n - 1 : k \in 0 .. size - 1 /\ up[k] \in N
  <2>1. n # 0
    BY <1>2, <1>7 DEF N
  <2>2. \A k \in 0 .. n - 1 : k \in 0 .. size /\ k \in 0 .. size - 1 /\ ~(n <= k)
    BY <1>1, <1>7
  <2> QED BY <1>1, <1>7, <2>1, <2>2
<1>9. \A k \in 0 .. n - 1 : up[k + 1] = t.parent[up[k]]
  BY <1>2, <1>8
<1>10. up[n] = None
  <2>1. n - 1 \in 0 .. n - 1 /\ (n - 1) + 1 = n
    BY <1>8
  <2>2. up[n] = t.parent[up[n - 1]] /\ up[n - 1] \in N
    BY <1>8, <1>9, <2>1
  <2> QED BY <1>4, <1>7, <2>2
<1>11. ASSUME NEW j \in 0 .. n - 1, NEW k \in 0 .. n - 1, j < k
       PROVE  up[j] # up[k]
  <2> DEFINE P == {i \in 0 .. n - 1 : rank[up[i]] < rank[up[j]]}
  <2>1. ASSUME NEW i \in 0 .. n - 1, i + 1 \in 0 .. n - 1
        PROVE  /\ rank[up[i + 1]] < rank[up[i]]
               /\ rank[up[i]] \in Nat /\ rank[up[i + 1]] \in Nat
    <3>1. rank[up[i + 1]] < rank[up[i]]
      BY <1>5, <1>8, <2>1
    <3> QED BY <1>3, <1>8, <2>1, <3>1
  <2>2. j + 1 \in P
    <3>1. j + 1 \in 0 .. n - 1
      BY <1>8, <1>11
    <3> QED BY <2>1, <3>1
  <2>3. ASSUME NEW i \in j + 1 .. n - 1 - 1, i \in P PROVE i + 1 \in P
    <3>1. i \in 0 .. n - 1 /\ i + 1 \in 0 .. n - 1
      BY <1>8, <2>3
    <3>2. rank[up[j]] \in Nat
      BY <1>3, <1>8
    <3> QED BY <2>1, <2>3, <3>1, <3>2
  <2>4. \A i \in j + 1 .. n - 1 : i \in P
    <3>1. j + 1 \in Nat /\ n - 1 \in Nat
      BY <1>8
    <3> HIDE DEF P
    <3> QED BY <2>2, <2>3, <3>1, InductionUpTo
  <2>5. rank[up[k]] < rank[up[j]] /\ rank[up[j]] \in Nat
    <3>1. k \in j + 1 .. n - 1
      BY <1>8, <1>11
    <3> QED BY <1>3, <1>8, <2>4, <3>1
  <2> QED BY <2>5
<1> QED BY <1>8, <1>9, <1>10, <1>11 DEF N, size

\* path_to_rpd, on a tree, goes up from the node to the top.
LEMMA PathGoesUp ==
  ASSUME NEW t, NEW top, IsTree(t, top), NEW a \in NodeIds(t)
  PROVE  GoesUp(PathToRpd(t, a), t, a)
<1> DEFINE size == Cardinality(NodeIds(t))
           up == CHOOSE g : Climbs(g, t, a, size)
           New(f, k) == f[k] \in NodeIds(t) /\ \A j \in 0 .. k - 1 : f[j] # f[k]
           Steps(f) == {k \in 0 .. size : \A j \in 0 .. k : New(f, j)}
           Path(f) == [k \in 1 .. Cardinality(Steps(f)) |-> f[k - 1]]
<1>1. PathToRpd(t, a) = Path(up)
  BY DEF PathToRpd, Climbs
<1>2. size \in Nat
  BY FS_CardinalityType DEF IsTree, IsTopology
<1>3. Climbs(up, t, a, size)
  <2> HIDE DEF size
  <2> QED BY <1>2, ClimbExists
<1> HIDE DEF up
<1>4. PICK n \in 1 .. size :
        /\ up[n] = None
        /\ \A k \in 0 .. n - 1 : up[k] \in NodeIds(t)
        /\ \A k \in 0 .. n - 1 : up[k + 1] = t.parent[up[k]]
        /\ \A j, k \in 0 .. n - 1 : j < k => up[j] # up[k]
  BY <1>3, ClimbEnds
<1>5. None \notin NodeIds(t)
  BY DEF IsTree, IsTopology
<1>6. Steps(up) = 0 .. n - 1
  <2>1. \A k \in 0 .. n - 1 : New(up, k)
    <3> TAKE k \in 0 .. n - 1
    <3>1. \A j \in 0 .. k - 1 : j \in 0 .. n - 1 /\ j < k
      BY <1>4
    <3> QED BY <1>4, <3>1
  <2>2. ~New(up, n)
    BY <1>4, <1>5
  <2> HIDE DEF New, size
  <2>3. ASSUME NEW k \in 0 .. n - 1 PROVE k \in Steps(up)
    <3>1. k \in 0 .. size /\ \A j \in 0 .. k : j \in 0 .. n - 1
      BY <1>2, <1>4
    <3> QED BY <2>1, <3>1
  <2>4. ASSUME NEW k \in Steps(up) PROVE k \in 0 .. n - 1
    <3>1. ~(n \in 0 .. k)
      BY <2>2
    <3> QED BY <1>2, <1>4, <3>1
  <2> HIDE DEF Steps
  <2> QED BY <2>3, <2>4
<1>7. Cardinality(Steps(up)) = n
  <2>1. Cardinality(0 .. n - 1) = n
    <3>1. Cardinality(0 .. n - 1) = IF 0 > n - 1 THEN 0 ELSE (n - 1) - 0 + 1
      BY <1>2, <1>4, FS_Interval
    <3> HIDE DEF size
    <3> QED BY <1>2, <1>4, <3>1
  <2> HIDE DEF Steps
  <2> QED BY <1>6, <2>1
<1> HIDE DEF Steps
<1> DEFINE s == Path(up)
<1>8. s = [k \in 1 .. n |-> up[k - 1]]
  BY <1>7
<1> HIDE DEF s, Path, New, size
<1>9. Len(s) = n /\ n \in Nat \ {0} /\ \A k \in 1 .. n : s[k] = up[k - 1]
  BY <1>2, <1>4, <1>8
<1>10. s = [k \in 1 .. n |-> s[k]]
  BY <1>8, <1>9
<1>11. s[1] = a
  <2>1. up[0] = a
    BY <1>2, <1>3 DEF Climbs
  <2> QED BY <1>9, <2>1
<1>12. \A k \in 1 .. n : s[k] \in NodeIds(t)
  BY <1>4, <1>9
<1>13. \A k \in 1 .. n - 1 : s[k + 1] = t.parent[s[k]]
  <2> TAKE k \in 1 .. n - 1
  <2>1. k - 1 \in 0 .. n - 1 /\ (k - 1) + 1 = k /\ (k + 1) - 1 = k /\ k \in 1 .. n /\ k + 1 \in 1 .. n
    BY <1>9
  <2>2. up[k] = t.parent[up[k - 1]]
    BY <1>4, <2>1
  <2> QED BY <1>9, <2>1, <2>2
<1>14. t.parent[s[n]] = None
  <2>1. n - 1 \in 0 .. n - 1 /\ (n - 1) + 1 = n /\ n \in 1 .. n
    BY <1>9
  <2> QED BY <1>4, <1>9, <2>1
<1>15. GoesUp(s, t, a)
  BY <1>9, <1>10, <1>11, <1>12, <1>13, <1>14 DEF GoesUp
<1> QED BY <1>1, <1>15 DEF s

--------------------------------------------------------------------------------
(* Walks compared from the top.                                               *)

\* A sequence of nodes, each the parent of the next, from the top down to a.
GoesDown(r, t, top, a) ==
  /\ Len(r) \in Nat \ {0}
  /\ r \in Seq(NodeIds(t))
  /\ r[1] = top
  /\ r[Len(r)] = a
  /\ \A k \in 1 .. Len(r) - 1 : t.parent[r[k + 1]] = r[k]

\* Reversing a climb from a to the top gives a way from the top down to a, of the same
\* length.
LEMMA ReverseGoesDown ==
  ASSUME NEW t, NEW top, IsTree(t, top), NEW a \in NodeIds(t), NEW s, GoesUp(s, t, a)
  PROVE  /\ GoesDown(Reverse(s), t, top, a)
         /\ Len(Reverse(s)) = Len(s)
         /\ \A k \in 1 .. Len(s) : Reverse(s)[k] = s[(Len(s) - k) + 1]
<1> DEFINE n == Len(s)
           r == Reverse(s)
<1>1. /\ n \in Nat \ {0}
      /\ s[1] = a
      /\ \A k \in 1 .. n : s[k] \in NodeIds(t)
      /\ \A k \in 1 .. n - 1 : s[k + 1] = t.parent[s[k]]
      /\ t.parent[s[n]] = None
  BY DEF GoesUp
<1>2. r = [k \in 1 .. n |-> s[(n - k) + 1]]
  BY DEF Reverse
<1> HIDE DEF r, n
<1>3. \A k \in 1 .. n : (n - k) + 1 \in 1 .. n
  BY <1>1
<1>4. r \in [1 .. n -> NodeIds(t)]
  BY <1>1, <1>2, <1>3
<1>5. r \in Seq(NodeIds(t)) /\ Len(r) = n /\ \A k \in 1 .. n : r[k] = s[(n - k) + 1]
  BY <1>1, <1>2, <1>4
<1>6. r[1] = top
  <2>1. 1 \in 1 .. n /\ (n - 1) + 1 = n /\ n \in 1 .. n
    BY <1>1
  <2>2. s[n] = top
    BY <1>1, <2>1 DEF IsTree
  <2> QED BY <1>5, <2>1, <2>2
<1>7. r[n] = a
  <2>1. n \in 1 .. n /\ (n - n) + 1 = 1
    BY <1>1
  <2> QED BY <1>1, <1>5, <2>1
<1>8. \A k \in 1 .. n - 1 : t.parent[r[k + 1]] = r[k]
  <2> TAKE k \in 1 .. n - 1
  <2> DEFINE j == n - k
  <2>1. /\ k \in 1 .. n /\ k + 1 \in 1 .. n /\ j \in 1 .. n - 1
        /\ (n - k) + 1 = j + 1 /\ (n - (k + 1)) + 1 = j
    BY <1>1
  <2> HIDE DEF j
  <2>2. r[k] = s[j + 1] /\ r[k + 1] = s[j]
    BY <1>5, <2>1
  <2> QED BY <1>1, <2>1, <2>2
<1>9. GoesDown(r, t, top, a)
  BY <1>1, <1>5, <1>6, <1>7, <1>8 DEF GoesDown
<1> QED BY <1>5, <1>9 DEF r, n

\* Two ways down from the top that meet have met at every place until there.
LEMMA WaysMeetOnce ==
  ASSUME NEW t, NEW top, IsTree(t, top), NEW a, NEW b,
         NEW r, GoesDown(r, t, top, a), NEW q, GoesDown(q, t, top, b),
         NEW i \in 1 .. Len(r), NEW j \in 1 .. Len(q), r[i] = q[j]
  PROVE  i = j /\ \A k \in 1 .. i : r[k] = q[k]
<1> DEFINE Meets(m) == \A l \in 1 .. Len(q) : r[m] = q[l] =>
                         m = l /\ \A k \in 1 .. m : r[k] = q[k]
           P == {m \in 1 .. Len(r) : Meets(m)}
<1>1. /\ Len(r) \in Nat /\ Len(q) \in Nat
      /\ r[1] = top /\ q[1] = top
      /\ \A k \in 1 .. Len(r) : r[k] \in NodeIds(t)
      /\ \A k \in 1 .. Len(q) : q[k] \in NodeIds(t)
  BY DEF GoesDown
<1>2. None \notin NodeIds(t) /\ t.parent[top] = None
  BY DEF IsTree, IsTopology
<1>3. \A k \in 1 .. Len(r) - 1 : t.parent[r[k + 1]] = r[k]
  BY DEF GoesDown
<1>4. \A k \in 1 .. Len(q) - 1 : t.parent[q[k + 1]] = q[k]
  BY DEF GoesDown
<1>5. \A l \in 1 .. Len(q) : q[l] = top => l = 1
  <2> SUFFICES ASSUME NEW l \in 1 .. Len(q), q[l] = top, l # 1 PROVE FALSE
    OBVIOUS
  <2> DEFINE k == l - 1
  <2>1. k \in 1 .. Len(q) - 1 /\ k + 1 = l /\ k \in 1 .. Len(q)
    BY <1>1
  <2> HIDE DEF k
  <2>2. t.parent[top] = q[k] /\ q[k] \in NodeIds(t)
    BY <1>1, <1>4, <2>1
  <2> QED BY <1>2, <2>2
<1>6. 1 \in P
  <2>1. 1 \in 1 .. Len(r)
    BY <1>1
  <2>2. Meets(1)
    <3> SUFFICES ASSUME NEW l \in 1 .. Len(q), r[1] = q[l]
                 PROVE  1 = l /\ \A k \in 1 .. 1 : r[k] = q[k]
      OBVIOUS
    <3>1. l = 1
      BY <1>1, <1>5
    <3>2. \A k \in 1 .. 1 : k = 1
      OBVIOUS
    <3> QED BY <1>1, <3>1, <3>2
  <2> QED BY <2>1, <2>2
<1>7. ASSUME NEW m \in 1 .. Len(r) - 1, m \in P PROVE m + 1 \in P
  <2>1. m + 1 \in 1 .. Len(r) /\ m \in 1 .. Len(r)
    BY <1>1
  <2>2. t.parent[r[m + 1]] = r[m] /\ r[m] \in NodeIds(t)
    BY <1>1, <1>3, <2>1
  <2>3. ASSUME NEW l \in 1 .. Len(q), r[m + 1] = q[l]
        PROVE  m + 1 = l /\ \A k \in 1 .. m + 1 : r[k] = q[k]
    <3>1. l # 1
      BY <1>1, <1>2, <2>2, <2>3
    <3> DEFINE h == l - 1
    <3>2. h \in 1 .. Len(q) - 1 /\ h \in 1 .. Len(q) /\ h + 1 = l
      BY <1>1, <3>1
    <3> HIDE DEF h
    <3>3. r[m] = q[h]
      BY <1>4, <2>2, <2>3, <3>2
    <3>4. m = h /\ \A k \in 1 .. m : r[k] = q[k]
      BY <1>7, <3>2, <3>3
    <3>5. \A k \in 1 .. m + 1 : k \in 1 .. m \/ k = m + 1
      BY <1>1
    <3> QED BY <2>3, <3>2, <3>4, <3>5
  <2>4. Meets(m + 1)
    BY <2>3
  <2> HIDE DEF Meets
  <2> QED BY <2>1, <2>4
<1>8. \A m \in 1 .. Len(r) : m \in P
  <2> HIDE DEF P
  <2> QED BY <1>1, <1>6, <1>7, InductionUpTo
<1>9. Meets(i)
  BY <1>8
<1> QED BY <1>9

\* The way from the top down to a node, and the nodes on it.
WayTo(t, a) == Reverse(PathToRpd(t, a))
Above(t, a) == Held(PathToRpd(t, a))

\* WayTo(t, a) is the way from the top to a, and the nodes above a are the ones on it.
LEMMA WayToGoesDown ==
  ASSUME NEW t, NEW top, IsTree(t, top), NEW a \in NodeIds(t)
  PROVE  GoesDown(WayTo(t, a), t, top, a) /\ Above(t, a) = Held(WayTo(t, a))
<1> DEFINE s == PathToRpd(t, a)
           r == Reverse(s)
           n == Len(s)
<1>1. GoesUp(s, t, a)
  BY PathGoesUp
<1> HIDE DEF s
<1>2. GoesDown(r, t, top, a) /\ Len(r) = n /\ \A k \in 1 .. n : r[k] = s[(n - k) + 1]
  BY <1>1, ReverseGoesDown
<1>3. n \in Nat /\ DOMAIN s = 1 .. n
  BY <1>1 DEF GoesUp
<1>4. DOMAIN r = 1 .. n
  BY <1>2, <1>3 DEF GoesDown
<1> HIDE DEF r
<1> HIDE DEF n
<1>5. ASSUME NEW x \in Held(s) PROVE x \in Held(r)
  <2>1. PICK k \in 1 .. n : x = s[k]
    BY <1>3 DEF Held
  <2> DEFINE j == (n - k) + 1
  <2>2. j \in 1 .. n /\ (n - j) + 1 = k
    BY <1>3
  <2> HIDE DEF j
  <2> QED BY <1>2, <1>4, <2>1, <2>2 DEF Held
<1>6. ASSUME NEW x \in Held(r) PROVE x \in Held(s)
  <2>1. PICK k \in 1 .. n : x = r[k]
    BY <1>4 DEF Held
  <2>2. (n - k) + 1 \in 1 .. n
    BY <1>3
  <2> QED BY <1>2, <1>3, <2>1, <2>2 DEF Held
<1> QED BY <1>2, <1>5, <1>6 DEF r, s, WayTo, Above

\* A node on the way to another has its own way as the start of that one.
LEMMA WayBegins ==
  ASSUME NEW t, NEW top, IsTree(t, top), NEW a \in NodeIds(t), NEW m \in Above(t, a)
  PROVE  /\ m \in NodeIds(t)
         /\ Len(WayTo(t, m)) \in 1 .. Len(WayTo(t, a))
         /\ \A k \in 1 .. Len(WayTo(t, m)) : WayTo(t, m)[k] = WayTo(t, a)[k]
         /\ WayTo(t, a)[Len(WayTo(t, m))] = m
         /\ \A i \in 1 .. Len(WayTo(t, a)) : WayTo(t, a)[i] = m => i = Len(WayTo(t, m))
<1> DEFINE r == WayTo(t, a)
           q == WayTo(t, m)
<1>1. GoesDown(r, t, top, a) /\ m \in Held(r)
  BY WayToGoesDown
<1>2. PICK j \in 1 .. Len(r) : m = r[j]
  BY <1>1, LenProperties DEF Held, GoesDown
<1>3. m \in NodeIds(t)
  BY <1>1, <1>2 DEF GoesDown
<1>4. GoesDown(q, t, top, m)
  BY <1>3, WayToGoesDown
<1> HIDE DEF r, q
<1>5. Len(q) \in 1 .. Len(q) /\ q[Len(q)] = m /\ Len(r) \in Nat
  BY <1>1, <1>4 DEF GoesDown
<1>6. \A i \in 1 .. Len(r) : r[i] = m => i = Len(q) /\ \A k \in 1 .. Len(q) : q[k] = r[k]
  BY <1>1, <1>4, <1>5, WaysMeetOnce
<1>7. Len(q) = j /\ \A k \in 1 .. Len(q) : q[k] = r[k]
  BY <1>2, <1>6
<1> QED BY <1>2, <1>3, <1>6, <1>7 DEF r, q

\* Above is reflexive, transitive and antisymmetric.
LEMMA AboveOrders ==
  ASSUME NEW t, NEW top, IsTree(t, top), NEW a \in NodeIds(t)
  PROVE  /\ a \in Above(t, a)
         /\ \A m \in Above(t, a) : m \in NodeIds(t) /\ Above(t, m) \subseteq Above(t, a)
         /\ \A m \in Above(t, a) : a \in Above(t, m) => m = a
<1>1. /\ Len(WayTo(t, a)) \in 1 .. Len(WayTo(t, a)) /\ WayTo(t, a)[Len(WayTo(t, a))] = a
      /\ DOMAIN WayTo(t, a) = 1 .. Len(WayTo(t, a)) /\ Above(t, a) = Held(WayTo(t, a))
  BY WayToGoesDown, LenProperties DEF GoesDown
<1>2. a \in Above(t, a)
  BY <1>1 DEF Held
<1>3. ASSUME NEW m \in Above(t, a)
      PROVE  /\ m \in NodeIds(t) /\ Above(t, m) \subseteq Above(t, a)
             /\ a \in Above(t, m) => m = a
  <2>1. /\ m \in NodeIds(t)
        /\ Len(WayTo(t, m)) \in 1 .. Len(WayTo(t, a))
        /\ \A k \in 1 .. Len(WayTo(t, m)) : WayTo(t, m)[k] = WayTo(t, a)[k]
        /\ WayTo(t, a)[Len(WayTo(t, m))] = m
    BY WayBegins
  <2>2. DOMAIN WayTo(t, m) = 1 .. Len(WayTo(t, m)) /\ Above(t, m) = Held(WayTo(t, m))
    BY <2>1, WayToGoesDown, LenProperties DEF GoesDown
  <2>3. \A k \in 1 .. Len(WayTo(t, m)) : k \in 1 .. Len(WayTo(t, a))
    BY <1>1, <2>1
  <2>4. Above(t, m) \subseteq Above(t, a)
    BY <1>1, <2>1, <2>2, <2>3 DEF Held
  <2>5. ASSUME a \in Above(t, m) PROVE m = a
    <3>1. Len(WayTo(t, a)) \in 1 .. Len(WayTo(t, m))
      BY <2>1, <2>5, WayBegins
    <3>2. Len(WayTo(t, a)) = Len(WayTo(t, m))
      BY <2>1, <3>1
    <3> QED BY <1>1, <2>1, <3>2
  <2> QED BY <2>1, <2>4, <2>5
<1> QED BY <1>2, <1>3

\* The parent of a node is above it.
LEMMA ParentIsAbove ==
  ASSUME NEW t, NEW top, IsTree(t, top), NEW a \in NodeIds(t), t.parent[a] \in NodeIds(t)
  PROVE  t.parent[a] \in Above(t, a)
<1> DEFINE s == PathToRpd(t, a)
<1>1. GoesUp(s, t, a)
  BY PathGoesUp
<1> HIDE DEF s
<1>2. Len(s) # 1
  BY <1>1 DEF GoesUp, IsTree, IsTopology
<1>3. 2 \in DOMAIN s /\ s[2] = t.parent[a]
  <2>1. Len(s) \in Nat \ {0} /\ DOMAIN s = 1 .. Len(s)
    BY <1>1 DEF GoesUp
  <2>2. 1 \in 1 .. Len(s) - 1 /\ 1 + 1 = 2 /\ 2 \in 1 .. Len(s)
    BY <1>2, <2>1
  <2>3. s[1] = a /\ \A k \in 1 .. Len(s) - 1 : s[k + 1] = t.parent[s[k]]
    BY <1>1 DEF GoesUp
  <2>4. s[1 + 1] = t.parent[s[1]]
    BY <2>2, <2>3
  <2> QED BY <2>1, <2>2, <2>3, <2>4
<1> QED BY <1>3 DEF Above, Held, s

\* The common point of some nodes: what is above all of them is above it, and it is one of
\* these.
LEMMA CommonPointHolds ==
  ASSUME NEW t, NEW top, IsTree(t, top), NEW I, I \subseteq NodeIds(t), I # {}
  PROVE  /\ CommonPoint(t, I) \in NodeIds(t)
         /\ \A m : (\A a \in I : m \in Above(t, a)) <=> m \in Above(t, CommonPoint(t, I))
<1> DEFINE T == {WayTo(t, a) : a \in I}
           p == LongestCommonPrefix(T)
           n == Len(p)
           c == CommonPoint(t, I)
<1>1. PICK o \in I : TRUE
  OBVIOUS
<1>2. \A a \in I : GoesDown(WayTo(t, a), t, top, a) /\ Above(t, a) = Held(WayTo(t, a))
  BY WayToGoesDown
<1>3. T \subseteq Seq(NodeIds(t)) /\ T # {}
  BY <1>2 DEF GoesDown
<1>4. CommonPoint(t, I) = IF p = <<>> THEN None ELSE Last(p)
  BY DEF CommonPoint, WayTo
<1> HIDE DEF T
<1>5. /\ p \in Seq(NodeIds(t)) /\ n \in Nat
      /\ \A w \in T : n <= Len(w) /\ \A k \in 1 .. n : w[k] = p[k]
      /\ \A i \in Nat : AgreeUpTo(T, i) => i <= n
  BY <1>3, LongestCommonPrefixHolds
<1> HIDE DEF p
<1>6. n # 0
  <2>1. AgreeUpTo(T, 1)
    <3>1. ASSUME NEW w \in T PROVE 1 <= Len(w) /\ w[1] = top
      BY <1>2 DEF GoesDown, T
    <3>2. \A k \in 1 .. 1 : k = 1
      OBVIOUS
    <3> QED BY <3>1, <3>2 DEF AgreeUpTo
  <2> QED BY <1>5, <2>1
<1>7. c = p[n] /\ c \in NodeIds(t)
  <2>1. p # <<>>
    BY <1>5, <1>6, EmptySeq
  <2> QED BY <1>4, <1>5, <1>6, <2>1 DEF Last
<1>8. \A a \in I : n \in 1 .. Len(WayTo(t, a)) /\ WayTo(t, a)[n] = c
  BY <1>2, <1>5, <1>6, <1>7 DEF GoesDown, T
<1> HIDE DEF c
<1>9. \A a \in I : c \in Above(t, a)
  BY <1>2, <1>8, LenProperties DEF Held, GoesDown
<1>10. Len(WayTo(t, c)) = n
  <2>1. o \in NodeIds(t) /\ c \in Above(t, o)
    BY <1>1, <1>9
  <2> QED BY <1>1, <1>8, <2>1, WayBegins
<1> HIDE DEF n
<1>11. ASSUME NEW m \in Above(t, c), NEW a \in I PROVE m \in Above(t, a)
  BY <1>9, <1>11, AboveOrders
<1>12. ASSUME NEW m, \A a \in I : m \in Above(t, a)
       PROVE  m \in Above(t, c)
  <2> DEFINE i == Len(WayTo(t, m))
  <2>1. \A a \in I : /\ m \in NodeIds(t) /\ i \in 1 .. Len(WayTo(t, a))
                     /\ \A k \in 1 .. i : WayTo(t, m)[k] = WayTo(t, a)[k]
                     /\ WayTo(t, a)[i] = m
    BY <1>12, WayBegins
  <2> HIDE DEF i
  <2>2. i \in Nat /\ i # 0
    BY <1>1, <1>2, <2>1 DEF GoesDown
  <2>3. AgreeUpTo(T, i)
    BY <2>1, <2>2 DEF AgreeUpTo, T
  <2>4. i \in 1 .. n
    BY <1>5, <2>2, <2>3
  <2>5. /\ n \in Nat /\ Len(WayTo(t, c)) = n
        /\ \A k \in 1 .. n : WayTo(t, c)[k] = WayTo(t, o)[k]
    BY <1>1, <1>5, <1>9, <1>10, WayBegins
  <2>6. WayTo(t, c)[i] = m
    BY <1>1, <2>1, <2>4, <2>5
  <2>7. GoesDown(WayTo(t, c), t, top, c) /\ Above(t, c) = Held(WayTo(t, c))
    BY <1>7, WayToGoesDown
  <2>8. i \in DOMAIN WayTo(t, c)
    BY <2>4, <2>5, <2>7, LenProperties DEF GoesDown
  <2> QED BY <2>6, <2>7, <2>8 DEF Held
<1> QED BY <1>7, <1>11, <1>12 DEF c

\* The reference of a node: the nearest amp above it, and the RPD when there is none.
LEMMA RefForHolds ==
  ASSUME NEW t, NEW top, IsTree(t, top), OnlyTopIsRpd(t, top), NEW a \in NodeIds(t)
  PROVE  IF \A m \in Above(t, a) : t.kind[m] # "AMP" THEN RefFor(t, a) = RpdRef
         ELSE /\ RefFor(t, a) \in Above(t, a) /\ t.kind[RefFor(t, a)] = "AMP"
              /\ \A m \in Above(t, a) : t.kind[m] # "PASSIVE" => m \in Above(t, RefFor(t, a))
<1> DEFINE s == PathToRpd(t, a)
           n == Len(s)
           Measurable == {i \in DOMAIN s : t.kind[s[i]] # "PASSIVE"}
           f == Min(Measurable)
<1>1. GoesUp(s, t, a) /\ RefFor(t, a) = IF Measurable = {} \/ t.kind[s[f]] = "RPD"
                                         THEN RpdRef ELSE s[f]
  BY PathGoesUp DEF RefFor
<1>2. Above(t, a) = Held(s)
  BY DEF Above
<1> HIDE DEF s
<1>3. /\ n \in Nat \ {0} /\ DOMAIN s = 1 .. n
      /\ \A k \in 1 .. n : s[k] \in NodeIds(t)
      /\ \A k \in 1 .. n - 1 : s[k + 1] = t.parent[s[k]]
  BY <1>1 DEF GoesUp
<1>4. \A m \in NodeIds(t) : t.kind[m] \in {"AMP", "PASSIVE", "RPD"}
  BY DEF IsTree, IsTopology
<1>5. \A m \in NodeIds(t) : t.kind[m] = "RPD" => t.parent[m] = None
  BY DEF IsTree, OnlyTopIsRpd
<1>6. None \notin NodeIds(t)
  BY DEF IsTree, IsTopology
<1> HIDE DEF n
<1>7. CASE Measurable = {}
  <2>1. \A m \in Above(t, a) : t.kind[m] # "AMP"
    BY <1>2, <1>3, <1>7 DEF Held
  <2> QED BY <1>1, <1>7, <2>1
<1>8. CASE Measurable # {}
  <2>1. f \in Measurable /\ \A i \in Measurable : f <= i
    <3>1. Measurable \subseteq Nat
      BY <1>3
    <3> HIDE DEF Measurable
    <3> QED BY <1>8, <3>1, MinOfNaturals
  <2> HIDE DEF f
  <2>2. f \in 1 .. n /\ s[f] \in NodeIds(t) /\ t.kind[s[f]] \in {"AMP", "RPD"}
    BY <1>3, <1>4, <2>1
  <2>3. s[f] \in Above(t, a)
    BY <1>2, <1>3, <2>2 DEF Held
  <2>4. \A m \in Above(t, a) : t.kind[m] # "PASSIVE" => \E i \in f .. n : m = s[i]
    <3> TAKE m \in Above(t, a)
    <3>1. PICK i \in 1 .. n : m = s[i]
      BY <1>2, <1>3 DEF Held
    <3>2. t.kind[m] # "PASSIVE" => f <= i
      BY <1>3, <2>1, <3>1
    <3> QED BY <1>3, <2>2, <3>1, <3>2
  <2>5. CASE t.kind[s[f]] = "RPD"
    <3>1. f = n
      <4> SUFFICES ASSUME f # n PROVE FALSE
        OBVIOUS
      <4>1. f \in 1 .. n - 1 /\ f + 1 \in 1 .. n
        BY <1>3, <2>2
      <4> QED BY <1>3, <1>5, <1>6, <2>2, <2>5, <4>1
    <3>2. \A i \in f .. n : i = f
      BY <1>3, <3>1
    <3>3. \A m \in Above(t, a) : t.kind[m] # "AMP"
      BY <2>4, <2>5, <3>2
    <3> QED BY <1>1, <2>5, <3>3
  <2>6. CASE t.kind[s[f]] = "AMP"
    <3>1. RefFor(t, a) = s[f]
      BY <1>1, <1>8, <2>6
    <3>2. \A i \in f .. n : s[i] \in Above(t, s[f])
      <4> DEFINE P == {i \in f .. n : s[i] \in Above(t, s[f])}
      <4>1. f \in P
        BY <1>3, <2>2, AboveOrders
      <4>2. ASSUME NEW i \in f .. n - 1, i \in P PROVE i + 1 \in P
        <5>1. i \in 1 .. n - 1 /\ i + 1 \in f .. n /\ i + 1 \in 1 .. n
          BY <1>3, <2>2
        <5>2. s[i + 1] = t.parent[s[i]] /\ s[i] \in NodeIds(t) /\ s[i + 1] \in NodeIds(t)
          BY <1>3, <5>1
        <5>3. s[i + 1] \in Above(t, s[i])
          BY <5>2, ParentIsAbove
        <5>4. s[i + 1] \in Above(t, s[f])
          BY <2>2, <4>2, <5>3, AboveOrders
        <5> QED BY <5>1, <5>4
      <4>3. \A i \in f .. n : i \in P
        <5>1. f \in Nat /\ n \in Nat
          BY <1>3, <2>2
        <5> HIDE DEF P
        <5> QED BY <4>1, <4>2, <5>1, InductionUpTo
      <4> QED BY <4>3
    <3> QED BY <2>3, <2>4, <2>6, <3>1, <3>2
  <2> QED BY <2>2, <2>5, <2>6
<1> QED BY <1>7, <1>8

\* Measured from the common point, the reference is the lowest common ancestor among the
\* amps: below all others, if there is one at all.
LEMMA LowestCommonAncestor ==
  ASSUME NEW t, NEW top, IsTree(t, top), OnlyTopIsRpd(t, top), NEW I, I \subseteq NodeIds(t), I # {}
  PROVE  LET common == {m \in NodeIds(t) : t.kind[m] # "PASSIVE" /\ \A a \in I : m \in Above(t, a)}
             ref == RefFor(t, CommonPoint(t, I))
         IN  IF common \cap AmpIds(t) = {} THEN ref = RpdRef
             ELSE ref \in common /\ t.kind[ref] = "AMP" /\ common \subseteq Above(t, ref)
<1> DEFINE c == CommonPoint(t, I)
           common == {m \in NodeIds(t) : t.kind[m] # "PASSIVE" /\ \A a \in I : m \in Above(t, a)}
           ref == RefFor(t, c)
<1>1. c \in NodeIds(t) /\ \A m : (\A a \in I : m \in Above(t, a)) <=> m \in Above(t, c)
  BY CommonPointHolds
<1> HIDE DEF c
<1>2. \A m \in Above(t, c) : m \in NodeIds(t)
  BY <1>1, AboveOrders
<1>3. common = {m \in Above(t, c) : t.kind[m] # "PASSIVE"}
  BY <1>1, <1>2
<1> HIDE DEF common
<1>4. common \cap AmpIds(t) = {m \in Above(t, c) : t.kind[m] = "AMP"}
  BY <1>2, <1>3 DEF AmpIds
<1>5. IF \A m \in Above(t, c) : t.kind[m] # "AMP" THEN ref = RpdRef
      ELSE /\ ref \in Above(t, c) /\ t.kind[ref] = "AMP"
           /\ \A m \in Above(t, c) : t.kind[m] # "PASSIVE" => m \in Above(t, ref)
  BY <1>1, RefForHolds
<1> HIDE DEF ref
<1>6. IF common \cap AmpIds(t) = {} THEN ref = RpdRef
      ELSE ref \in common /\ t.kind[ref] = "AMP" /\ common \subseteq Above(t, ref)
  BY <1>3, <1>4, <1>5
<1> QED BY <1>6 DEF c, common, ref

--------------------------------------------------------------------------------
(* Any segment.                                                                *)

\* Any walk stays inside the segment, dangling parents and cycles or not.
LEMMA PathStaysInside ==
  ASSUME NEW t, IsTopology(t), NEW a
  PROVE  /\ DOMAIN PathToRpd(t, a) \subseteq Nat
         /\ \A i \in DOMAIN PathToRpd(t, a) : PathToRpd(t, a)[i] \in NodeIds(t)
<1> DEFINE size == Cardinality(NodeIds(t))
           up == CHOOSE g : Climbs(g, t, a, size)
           New(k) == up[k] \in NodeIds(t) /\ \A j \in 0 .. k - 1 : up[j] # up[k]
           Steps == {k \in 0 .. size : \A j \in 0 .. k : New(j)}
           s == [k \in 1 .. Cardinality(Steps) |-> up[k - 1]]
<1>1. PathToRpd(t, a) = s
  BY DEF PathToRpd, Climbs
<1>2. size \in Nat
  BY FS_CardinalityType DEF IsTopology
<1>3. \A k \in Steps : up[k] \in NodeIds(t)
  <2> TAKE k \in Steps
  <2>1. k \in 0 .. k
    BY <1>2
  <2>2. New(k)
    BY <2>1
  <2> QED BY <2>2
<1>4. \A k \in Steps : k \in 0 .. size /\ \A j \in 0 .. k : j \in Steps
  <2> TAKE k \in Steps
  <2>1. k \in 0 .. size /\ \A j \in 0 .. k : New(j)
    OBVIOUS
  <2> HIDE DEF New, size
  <2>2. \A j \in 0 .. k : j \in 0 .. size /\ \A i \in 0 .. j : i \in 0 .. k
    BY <1>2, <2>1
  <2> QED BY <2>1, <2>2
<1> HIDE DEF up, New
<1> HIDE DEF Steps
<1>5. \E n \in Nat : Steps = 0 .. n - 1
  <2> DEFINE Out == {k \in 0 .. size + 1 : k \notin Steps}
  <2>1. size + 1 \in Out
    <3> HIDE DEF size
    <3> QED BY <1>2, <1>4
  <2> HIDE DEF size
  <2>2. PICK n \in Out : \A k \in Out : n <= k
    <3>1. Out \subseteq Nat
      BY <1>2
    <3> HIDE DEF Out
    <3> QED BY <2>1, <3>1, LeastNatural
  <2>3. n \in Nat
    BY <1>2
  <2>4. \A k \in 0 .. n - 1 : k \in Steps
    BY <1>2, <2>2
  <2>5. ASSUME NEW k \in Steps PROVE k \in 0 .. n - 1
    <3>1. k \in 0 .. size /\ n \notin 0 .. k
      BY <1>4
    <3> QED BY <1>2, <2>3, <3>1
  <2>6. Steps = 0 .. n - 1
    BY <2>4, <2>5
  <2> QED BY <2>3, <2>6
<1>6. PICK n \in Nat : Steps = 0 .. n - 1
  BY <1>5
<1>7. Cardinality(Steps) = n
  <2>1. Cardinality(0 .. n - 1) = IF 0 > n - 1 THEN 0 ELSE (n - 1) - 0 + 1
    BY FS_Interval
  <2> QED BY <1>6, <2>1
<1>8. s = [k \in 1 .. n |-> up[k - 1]]
  BY <1>7
<1> HIDE DEF s
<1>9. DOMAIN s = 1 .. n /\ \A k \in 1 .. n : s[k] = up[k - 1] /\ k - 1 \in Steps
  BY <1>6, <1>8
<1> QED BY <1>1, <1>3, <1>9

\* A reference is the RPD or an amp of the segment.
LEMMA RefIsDevice ==
  ASSUME NEW t, IsTopology(t), NEW a
  PROVE  RefFor(t, a) \in AmpIds(t) \cup {RpdRef}
<1> DEFINE s == PathToRpd(t, a)
           Measurable == {i \in DOMAIN s : t.kind[s[i]] # "PASSIVE"}
           f == Min(Measurable)
<1>1. RefFor(t, a) = IF Measurable = {} \/ t.kind[s[f]] = "RPD" THEN RpdRef ELSE s[f]
  BY DEF RefFor
<1>2. DOMAIN s \subseteq Nat /\ \A i \in DOMAIN s : s[i] \in NodeIds(t)
  BY PathStaysInside
<1> HIDE DEF s
<1>3. Measurable # {} => f \in Measurable
  <2>1. Measurable \subseteq Nat
    BY <1>2
  <2> HIDE DEF Measurable
  <2> QED BY <2>1, MinOfNaturals
<1> HIDE DEF f
<1>4. \A m \in NodeIds(t) : t.kind[m] \in {"AMP", "PASSIVE", "RPD"}
  BY DEF IsTopology
<1> QED BY <1>1, <1>2, <1>3, <1>4 DEF AmpIds

\* The minimum of one number is that number.
LEMMA MinOfOne == ASSUME NEW n \in Nat PROVE Min({n}) = n
BY MinOfNaturals

================================================================================
