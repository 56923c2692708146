------------------------------ MODULE SpectrumProofs ------------------------------
(* Proofs about what is read in a capture, for all noise that is ordinary, and every  *)
(* jitter and stub of a range. The median is an order statistic, so it is bounded by   *)
(* the levels that enough bins have.                                                  *)
EXTENDS Spectrum, FiniteSetTheorems, WellFoundedInduction, TLAPS

--------------------------------------------------------------------------------
(* Order statistics of finitely many integers.                                      *)

\* Among finitely many places one has the highest level.
LEMMA HighestPlace ==
  ASSUME NEW S, IsFiniteSet(S), S # {}, NEW f, \A i \in S : f[i] \in Int
  PROVE  \E m \in S : \A i \in S : f[i] <= f[m]
<1> DEFINE Above(m) == {i \in S : f[i] > f[m]}
           B == {Above(m) : m \in S}
<1>1. IsWellFoundedOn(StrictSubsetOrdering(S), FiniteSubsetsOf(S))
  BY FS_StrictSubsetOrderingWellFounded
<1>2. B \subseteq FiniteSubsetsOf(S)
  <2> SUFFICES ASSUME NEW m \in S PROVE Above(m) \in SUBSET S /\ IsFiniteSet(Above(m))
    BY DEF FiniteSubsetsOf
  <2>1. Above(m) \in SUBSET S
    OBVIOUS
  <2> QED BY <2>1, FS_Subset
<1>3. PICK b \in B : \A c \in B : <<c, b>> \notin StrictSubsetOrdering(S)
  <2>1. B # {}
    OBVIOUS
  <2> HIDE DEF B
  <2> QED BY <1>1, <1>2, <2>1, WFMin
<1>4. PICK m \in S : b = Above(m)
  OBVIOUS
<1>5. ASSUME NEW i \in S, f[i] > f[m] PROVE FALSE
  <2>1. <<Above(i), Above(m)>> \notin StrictSubsetOrdering(S)
    BY <1>3, <1>4
  <2>2. i \in Above(m) /\ i \notin Above(i)
    BY <1>5
  <2>3. Above(i) \in SUBSET S /\ Above(m) \in SUBSET S
    OBVIOUS
  <2>4. \A j \in S : f[j] > f[i] => f[j] > f[m]
    BY <1>5
  <2>5. Above(i) \subseteq Above(m)
    BY <2>4
  <2> HIDE DEF Above
  <2> QED BY <2>1, <2>2, <2>3, <2>5 DEF StrictSubsetOrdering
<1> QED BY <1>5

\* ... and one the lowest.
LEMMA LowestPlace ==
  ASSUME NEW S, IsFiniteSet(S), S # {}, NEW f, \A i \in S : f[i] \in Int
  PROVE  \E m \in S : \A i \in S : f[m] <= f[i]
<1> DEFINE g == [i \in S |-> -f[i]]
<1>1. \A i \in S : g[i] \in Int /\ g[i] = -f[i]
  OBVIOUS
<1> HIDE DEF g
<1>2. PICK m \in S : \A i \in S : g[i] <= g[m]
  BY <1>1, HighestPlace
<1>3. \A i \in S : f[m] <= f[i]
  BY <1>1, <1>2
<1> QED BY <1>3

Below(S, f, v) == {i \in S : f[i] < v}
UpTo(S, f, v) == {i \in S : f[i] <= v}

\* There is a level of every rank.
LEMMA LevelOfRank ==
  ASSUME NEW S, IsFiniteSet(S), NEW f, \A i \in S : f[i] \in Int,
         NEW k \in 1 .. Cardinality(S)
  PROVE  \E v \in {f[i] : i \in S} :
           Cardinality(Below(S, f, v)) < k /\ k <= Cardinality(UpTo(S, f, v))
<1>1. /\ Cardinality(S) \in Nat /\ k \in Nat /\ k >= 1
      /\ \A T \in SUBSET S : IsFiniteSet(T) /\ Cardinality(T) \in Nat
  <2>1. Cardinality(S) \in Nat
    BY FS_CardinalityType
  <2>2. \A T \in SUBSET S : IsFiniteSet(T)
    BY FS_Subset
  <2>3. \A T \in SUBSET S : Cardinality(T) \in Nat
    BY <2>2, FS_CardinalityType
  <2> QED BY <2>1, <2>2, <2>3
<1>2. S # {}
  BY <1>1, FS_EmptySet
<1> DEFINE Enough == {i \in S : k <= Cardinality(UpTo(S, f, f[i]))}
<1>3. Enough # {} /\ Enough \in SUBSET S
  <2>1. PICK m \in S : \A i \in S : f[i] <= f[m]
    BY <1>2, HighestPlace
  <2>2. UpTo(S, f, f[m]) = S
    BY <2>1 DEF UpTo
  <2> QED BY <2>2
<1>4. PICK m \in Enough : \A i \in Enough : f[m] <= f[i]
  <2> HIDE DEF Enough
  <2> QED BY <1>1, <1>3, LowestPlace
<1>5. m \in S /\ k <= Cardinality(UpTo(S, f, f[m]))
  OBVIOUS
<1> DEFINE L == Below(S, f, f[m])
<1>6. L \in SUBSET S
  BY DEF Below
<1>7. ASSUME k <= Cardinality(L) PROVE FALSE
  <2>1. L # {}
    BY <1>1, <1>7, FS_EmptySet
  <2>2. PICK w \in L : \A i \in L : f[i] <= f[w]
    <3> HIDE DEF L
    <3> QED BY <1>1, <1>6, <2>1, HighestPlace
  <2>3. w \in S /\ f[w] < f[m] /\ f[w] \in Int /\ f[m] \in Int
    BY <1>5 DEF Below
  <2>4. UpTo(S, f, f[w]) = L
    BY <2>2, <2>3 DEF UpTo, Below
  <2>5. w \in Enough
    BY <1>7, <2>3, <2>4
  <2> QED BY <1>4, <2>3, <2>5
<1>8. Cardinality(L) \in Nat
  BY <1>1, <1>6
<1> QED BY <1>1, <1>5, <1>7, <1>8

--------------------------------------------------------------------------------
(* The median of the levels of a capture.                                           *)

Levels(bins) == {average[i] : i \in bins}
Ranked(bins, k) ==
  CHOOSE v \in Levels(bins) : /\ Cardinality({i \in bins : average[i] < v}) < k
                              /\ k <= Cardinality({i \in bins : average[i] <= v})

\* The level of a rank is bounded by one that enough bins keep.
LEMMA RankIsBounded ==
  ASSUME NEW bins, IsFiniteSet(bins), \A i \in bins : average[i] \in Int,
         NEW k \in 1 .. Cardinality(bins)
  PROVE  /\ Ranked(bins, k) \in Levels(bins)
         /\ \A T \in SUBSET bins, x \in Int :
              /\ k <= Cardinality(T) /\ (\A i \in T : average[i] <= x) => Ranked(bins, k) <= x
              /\ /\ Cardinality(bins) < k + Cardinality(T)
                 /\ \A i \in T : average[i] >= x
                 => Ranked(bins, k) >= x
<1> DEFINE v == Ranked(bins, k)
           less == {i \in bins : average[i] < v}
           most == {i \in bins : average[i] <= v}
<1>1. v \in Levels(bins) /\ Cardinality(less) < k /\ k <= Cardinality(most)
  <2>1. \E w \in {average[i] : i \in bins} :
          /\ Cardinality(Below(bins, average, w)) < k
          /\ k <= Cardinality(UpTo(bins, average, w))
    BY LevelOfRank
  <2>2. \E w \in Levels(bins) : /\ Cardinality({i \in bins : average[i] < w}) < k
                                /\ k <= Cardinality({i \in bins : average[i] <= w})
    BY <2>1 DEF Levels, Below, UpTo
  <2> QED BY <2>2 DEF Ranked
<1>2. v \in Int
  BY <1>1 DEF Levels
<1>3. /\ Cardinality(bins) \in Nat /\ k \in Nat
      /\ \A T \in SUBSET bins : IsFiniteSet(T) /\ Cardinality(T) \in Nat
  <2>1. Cardinality(bins) \in Nat
    BY FS_CardinalityType
  <2>2. \A T \in SUBSET bins : IsFiniteSet(T)
    BY FS_Subset
  <2>3. \A T \in SUBSET bins : Cardinality(T) \in Nat
    BY <2>2, FS_CardinalityType
  <2> QED BY <2>1, <2>2, <2>3
<1>4. less \in SUBSET bins /\ most \in SUBSET bins
  OBVIOUS
<1> HIDE DEF v
<1>5. ASSUME NEW T \in SUBSET bins, NEW x \in Int, k <= Cardinality(T),
             \A i \in T : average[i] <= x, ~(v <= x)
      PROVE  FALSE
  <2>1. T \subseteq less
    BY <1>2, <1>5
  <2> HIDE DEF less, most
  <2>2. Cardinality(T) <= Cardinality(less)
    BY <1>3, <1>4, <2>1, FS_Subset
  <2> QED BY <1>1, <1>3, <1>4, <1>5, <2>2
<1>6. ASSUME NEW T \in SUBSET bins, NEW x \in Int, Cardinality(bins) < k + Cardinality(T),
             \A i \in T : average[i] >= x, ~(v >= x)
      PROVE  FALSE
  <2>1. most \cap T = {}
    BY <1>2, <1>6
  <2> HIDE DEF less, most
  <2>2. Cardinality(most) + Cardinality(T) > Cardinality(bins)
    BY <1>1, <1>3, <1>4, <1>6
  <2> QED BY <1>4, <2>1, <2>2, FS_MajoritiesIntersect
<1> QED BY <1>1, <1>5, <1>6 DEF v

\* So is the median, which is between the two middle ranks.
LEMMA MedianIsBounded ==
  ASSUME NEW bins, IsFiniteSet(bins), bins # {}, \A i \in bins : average[i] \in Int
  PROVE  /\ TwiceMedian(bins) \in Int
         /\ \A T \in SUBSET bins, x \in Int :
              /\ /\ Cardinality(bins) \div 2 < Cardinality(T)
                 /\ \A i \in T : average[i] <= x
                 => TwiceMedian(bins) <= 2 * x
              /\ /\ Cardinality(bins) \div 2 < Cardinality(T)
                 /\ \A i \in T : average[i] >= x
                 => TwiceMedian(bins) >= 2 * x
<1> DEFINE n == Cardinality(bins)
           low == Ranked(bins, (n + 1) \div 2)
           high == Ranked(bins, n \div 2 + 1)
<1>1. TwiceMedian(bins) = low + high
  BY DEF TwiceMedian, Ranked, Levels
<1>2. n \in Nat /\ n # 0
  BY FS_CardinalityType, FS_EmptySet
<1>3. \A T \in SUBSET bins : Cardinality(T) \in Nat
  <2>1. \A T \in SUBSET bins : IsFiniteSet(T)
    BY FS_Subset
  <2> QED BY <2>1, FS_CardinalityType
<1> HIDE DEF n
<1>4. /\ (n + 1) \div 2 \in 1 .. n /\ n \div 2 + 1 \in 1 .. n
      /\ (n + 1) \div 2 <= n \div 2 + 1 /\ n <= (n + 1) \div 2 + n \div 2
      /\ n \div 2 \in Nat /\ (n + 1) \div 2 \in Nat
  BY <1>2
<1>5. /\ (n + 1) \div 2 \in 1 .. Cardinality(bins) /\ n \div 2 + 1 \in 1 .. Cardinality(bins)
  BY <1>4 DEF n
<1> HIDE DEF low, high
<1>6. low \in Int /\ high \in Int
  BY <1>5, RankIsBounded DEF Levels, low, high
<1>7. ASSUME NEW T \in SUBSET bins, NEW x \in Int, n \div 2 < Cardinality(T)
      PROVE  /\ (\A i \in T : average[i] <= x) => low <= x /\ high <= x
             /\ (\A i \in T : average[i] >= x) => low >= x /\ high >= x
  <2>1. Cardinality(T) \in Nat
    BY <1>3
  <2>2. /\ (n + 1) \div 2 <= Cardinality(T) /\ n \div 2 + 1 <= Cardinality(T)
        /\ n < (n + 1) \div 2 + Cardinality(T) /\ n < n \div 2 + 1 + Cardinality(T)
    BY <1>2, <1>4, <1>7, <2>1
  <2>3. /\ Cardinality(bins) < (n + 1) \div 2 + Cardinality(T)
        /\ Cardinality(bins) < n \div 2 + 1 + Cardinality(T)
    BY <2>2 DEF n
  <2> QED BY <1>5, <2>2, <2>3, RankIsBounded DEF low, high
<1> QED BY <1>1, <1>6, <1>7 DEF n

--------------------------------------------------------------------------------
(* The bands and levels of the signatures.                                          *)

\* The bins of each band, and some of the CPD comb.
LEMMA BandsAre ==
  /\ Floor = -400 /\ Bins = 0 .. 255
  /\ Band(Start, 42 * MHz) = 0 .. 117 /\ LowBand = 0 .. 117 /\ Bins \ LowBand = 118 .. 255
  /\ Band(18 * MHz, 24 * MHz) = 42 .. 60
  /\ Band(27 * MHz - MHz \div 4, 27 * MHz + MHz \div 4) = {70}
  /\ Comb \subseteq 0 .. 117 /\ {0, 19, 38, 57, 76, 96} \subseteq Comb
<1>1. /\ MHz = 4000 /\ Start = 20000 /\ NumBins = 256 /\ Width = 1250 /\ Floor = -400
      /\ MHz \div 4 = 1000 /\ 42 * MHz = 168000
      /\ 18 * MHz = 72000 /\ 24 * MHz = 96000 /\ 27 * MHz = 108000 /\ 6 * MHz = 24000
  BY DEF MHz, Start, NumBins, Width, Floor
<1>2. Bins = 0 .. 255
  BY <1>1 DEF Bins
<1>3. \A i \in Bins : Center(i) = 20625 + 1250 * i
  BY <1>1, <1>2 DEF Center
<1>4. \A lo, hi \in Int :
        Band(lo, hi) = {i \in 0 .. 255 : lo <= 20625 + 1250 * i /\ 20625 + 1250 * i <= hi}
  BY <1>2, <1>3 DEF Band
<1>5. Band(Start, 42 * MHz) = 0 .. 117
  BY <1>1, <1>4
<1>6. LowBand = 0 .. 117
  BY <1>1, <1>2, <1>3 DEF LowBand
<1>7. Band(18 * MHz, 24 * MHz) = 42 .. 60
  BY <1>1, <1>4
<1>8. Band(27 * MHz - MHz \div 4, 27 * MHz + MHz \div 4) = {70}
  <2>1. 27 * MHz - MHz \div 4 = 107000 /\ 27 * MHz + MHz \div 4 = 109000
    BY <1>1
  <2>2. Band(107000, 109000) = {70}
    BY <1>4
  <2> QED BY <2>1, <2>2
<1>9. Comb = {(24000 * k) \div 1250 : k \in 0 .. 6}
  BY <1>1 DEF Comb
<1>10. Comb \subseteq 0 .. 117
  BY <1>9
<1>11. /\ (24000 * 0) \div 1250 = 0 /\ (24000 * 1) \div 1250 = 19 /\ (24000 * 2) \div 1250 = 38
       /\ (24000 * 3) \div 1250 = 57 /\ (24000 * 4) \div 1250 = 76 /\ (24000 * 5) \div 1250 = 96
  OBVIOUS
<1>12. {0, 19, 38, 57, 76, 96} \subseteq Comb
  BY <1>9, <1>11
<1> QED BY <1>1, <1>2, <1>5, <1>6, <1>7, <1>8, <1>10, <1>12

\* What a capture of each label is, bin by bin.
IsCapture(noise, jitter, stub) ==
  Ordinary(noise) /\ jitter \in -60 .. 60 /\ stub \in 30 .. 60 /\ average = Generate(noise, jitter, stub)

\* What a label adds to the noise of a bin.
Rise(i, jitter, stub) ==
  CASE label = "Clean" -> 0
    [] label = "CPD" -> IF i \in Comb THEN 140 + jitter ELSE IF i \in 0 .. 117 THEN 80 + jitter ELSE 0
    [] label = "Ingress" -> IF i \in 42 .. 60 THEN 120 ELSE 0
    [] label = "NarrowbandInterference" -> IF i = 70 THEN 200 ELSE 0
    [] OTHER -> stub

\* The draws of a capture are in their ranges.
LEMMA DrawsAre ==
  ASSUME NEW noise, NEW jitter, NEW stub, IsCapture(noise, jitter, stub)
  PROVE  /\ average = Generate(noise, jitter, stub)
         /\ jitter \in -60 .. 60 /\ stub \in 30 .. 60
         /\ \A i \in Bins : noise[i] \in -50 .. 50
<1>1. noise \in [Bins -> -50 .. 50]
  BY DEF IsCapture, Ordinary
<1>2. Bins = 0 .. 255
  BY BandsAre
<1>3. \A i \in Bins : noise[i] \in -50 .. 50
  BY <1>1, <1>2
<1> QED BY <1>3 DEF IsCapture

\* A capture, bin by bin.
LEMMA LevelsAre ==
  ASSUME NEW noise, NEW jitter, NEW stub, IsCapture(noise, jitter, stub), label \in Labels
  PROVE  /\ average = [i \in Bins |-> average[i]]
         /\ \A i \in Bins : average[i] = -400 + noise[i] + Rise(i, jitter, stub)
<1> DEFINE clean == [i \in Bins |-> -400 + noise[i]]
           Lifted1(avg, bins, db) == [i \in Bins |-> IF i \in bins THEN avg[i] + db ELSE avg[i]]
<1>1. /\ \A i \in Bins : noise[i] \in -50 .. 50
      /\ jitter \in -60 .. 60 /\ stub \in 30 .. 60 /\ average = Generate(noise, jitter, stub)
  BY DrawsAre
<1>2. [i \in Bins |-> Floor + noise[i]] = clean
  BY BandsAre
<1>3. \A avg, bins, db : Raise(avg, bins, db) = Lifted1(avg, bins, db)
  BY BandsAre DEF Raise
<1>4. /\ label = "Clean" => average = clean
      /\ label = "CPD" => average = Lifted1(Lifted1(clean, 0 .. 117, 80 + jitter), Comb, 60)
      /\ label = "Ingress" => average = Lifted1(clean, 42 .. 60, 120)
      /\ label = "NarrowbandInterference" => average = Lifted1(clean, {70}, 200)
      /\ label \notin {"Clean", "CPD", "Ingress", "NarrowbandInterference"} =>
           average = Lifted1(clean, Bins, stub)
  <2> HIDE DEF clean, Lifted1
  <2>1. /\ Band(Start, 42 * MHz) = 0 .. 117 /\ Band(18 * MHz, 24 * MHz) = 42 .. 60
        /\ Band(27 * MHz - MHz \div 4, 27 * MHz + MHz \div 4) = {70}
    BY BandsAre
  <2>2. average = Generate(noise, jitter, stub)
    BY <1>1
  <2> QED BY <1>2, <1>3, <2>1, <2>2 DEF Generate
<1>5. \A i \in Bins : clean[i] = -400 + noise[i]
  OBVIOUS
<1>6. \A avg, bins, db : /\ Lifted1(avg, bins, db) = [i \in Bins |-> Lifted1(avg, bins, db)[i]]
                         /\ \A i \in Bins : Lifted1(avg, bins, db)[i] =
                              IF i \in bins THEN avg[i] + db ELSE avg[i]
  OBVIOUS
<1>7. clean = [i \in Bins |-> clean[i]]
  OBVIOUS
<1> HIDE DEF clean, Lifted1
<1>8. average = [i \in Bins |-> average[i]]
  BY <1>4, <1>6, <1>7
<1>9. ASSUME NEW i \in Bins PROVE average[i] = -400 + noise[i] + Rise(i, jitter, stub)
  <2>1. clean[i] = -400 + noise[i] /\ noise[i] \in Int /\ jitter \in Int /\ stub \in Int
    <3>1. clean[i] = -400 + noise[i] /\ noise[i] \in -50 .. 50
      BY <1>1, <1>5
    <3>2. \A x \in -50 .. 50 : x \in Int
      OBVIOUS
    <3>3. jitter \in Int /\ stub \in Int
      BY <1>1
    <3> QED BY <3>1, <3>2, <3>3
  <2>2. CASE label = "Clean"
    BY <1>4, <2>1, <2>2 DEF Rise
  <2>3. CASE label = "CPD"
    <3> DEFINE floor == Lifted1(clean, 0 .. 117, 80 + jitter)
    <3>1. average[i] = IF i \in Comb THEN floor[i] + 60 ELSE floor[i]
      BY <1>4, <1>6, <2>3
    <3>2. floor[i] = IF i \in 0 .. 117 THEN clean[i] + (80 + jitter) ELSE clean[i]
      BY DEF Lifted1
    <3> HIDE DEF floor
    <3>3. i \in Comb => i \in 0 .. 117
      BY BandsAre
    <3>4. Rise(i, jitter, stub) =
            IF i \in Comb THEN 140 + jitter ELSE IF i \in 0 .. 117 THEN 80 + jitter ELSE 0
      BY <2>3 DEF Rise
    <3>5. CASE i \in Comb
      <4>1. /\ floor[i] = clean[i] + (80 + jitter) /\ average[i] = floor[i] + 60
            /\ Rise(i, jitter, stub) = 140 + jitter
        BY <3>1, <3>2, <3>3, <3>4, <3>5
      <4> QED BY <2>1, <4>1
    <3>6. CASE i \notin Comb /\ i \in 0 .. 117
      <4>1. floor[i] = clean[i] + (80 + jitter) /\ average[i] = floor[i]
            /\ Rise(i, jitter, stub) = 80 + jitter
        BY <3>1, <3>2, <3>4, <3>6
      <4> QED BY <2>1, <4>1
    <3>7. CASE i \notin Comb /\ i \notin 0 .. 117
      <4>1. average[i] = clean[i] /\ Rise(i, jitter, stub) = 0
        BY <3>1, <3>2, <3>4, <3>7
      <4> QED BY <2>1, <4>1
    <3> QED BY <3>5, <3>6, <3>7
  <2>4. CASE label = "Ingress"
    <3>1. average[i] = IF i \in 42 .. 60 THEN clean[i] + 120 ELSE clean[i]
      BY <1>4, <1>6, <2>4
    <3>2. Rise(i, jitter, stub) = IF i \in 42 .. 60 THEN 120 ELSE 0
      BY <2>4 DEF Rise
    <3> QED BY <2>1, <3>1, <3>2
  <2>5. CASE label = "NarrowbandInterference"
    <3>1. average[i] = IF i = 70 THEN clean[i] + 200 ELSE clean[i]
      BY <1>4, <1>6, <2>5
    <3>2. Rise(i, jitter, stub) = IF i = 70 THEN 200 ELSE 0
      BY <2>5 DEF Rise
    <3> QED BY <2>1, <3>1, <3>2
  <2>6. CASE label \notin {"Clean", "CPD", "Ingress", "NarrowbandInterference"}
    <3>1. average[i] = clean[i] + stub
      BY <1>4, <1>6, <2>6
    <3>2. Rise(i, jitter, stub) = stub
      BY <2>6 DEF Rise
    <3> QED BY <2>1, <3>1, <3>2
  <2> QED BY <2>2, <2>3, <2>4, <2>5, <2>6
<1> QED BY <1>8, <1>9

\* A label adds at most 20 dB, so levels stay in the range of TypeOK.
LEMMA LevelsInRange ==
  ASSUME NEW noise, NEW jitter, NEW stub, IsCapture(noise, jitter, stub), label \in Labels
  PROVE  /\ \A i \in Bins : Rise(i, jitter, stub) \in 0 .. 200
         /\ \A i \in Bins : average[i] \in -450 .. -150 /\ average[i] \in Int
         /\ average \in [Bins -> Floor - 50 .. Floor + 250]
<1>1. /\ jitter \in -60 .. 60 /\ stub \in 30 .. 60
      /\ \A i \in Bins : noise[i] \in -50 .. 50
  BY DrawsAre
<1>2. \A i \in Bins : Rise(i, jitter, stub) \in 0 .. 200
  <2> TAKE i \in Bins
  <2>1. 140 + jitter \in 0 .. 200 /\ 80 + jitter \in 0 .. 200 /\ stub \in 0 .. 200
    BY <1>1
  <2>2. 0 \in 0 .. 200 /\ 120 \in 0 .. 200 /\ 200 \in 0 .. 200
    OBVIOUS
  <2>3. \/ Rise(i, jitter, stub) \in {0, 120, 200, stub}
        \/ Rise(i, jitter, stub) = 140 + jitter \/ Rise(i, jitter, stub) = 80 + jitter
    BY DEF Rise
  <2> QED BY <2>1, <2>2, <2>3
<1>3. ASSUME NEW i \in Bins PROVE average[i] \in -450 .. -150
  <2> DEFINE r == Rise(i, jitter, stub)
             n == noise[i]
  <2>1. r \in 0 .. 200 /\ n \in -50 .. 50
    BY <1>1, <1>2
  <2>2. average[i] = -400 + n + r
    BY LevelsAre
  <2> HIDE DEF r, n
  <2> QED BY <2>1, <2>2
<1>4. average = [i \in Bins |-> average[i]]
  BY LevelsAre
<1>5. Bins = 0 .. 255 /\ Floor - 50 = -450 /\ Floor + 250 = -150
  <2>1. Bins = 0 .. 255 /\ Floor = -400
    BY BandsAre
  <2> QED BY <2>1
<1>6. average \in [Bins -> -450 .. -150]
  BY <1>3, <1>4
<1>7. \A x \in -450 .. -150 : x \in Int
  OBVIOUS
<1>8. \A i \in Bins : average[i] \in -450 .. -150 /\ average[i] \in Int
  BY <1>3, <1>7
<1>9. average \in [Bins -> Floor - 50 .. Floor + 250]
  BY <1>5, <1>6
<1> QED BY <1>2, <1>8, <1>9

--------------------------------------------------------------------------------
(* Which bins are raised, and what the medians are.                                 *)

\* How many numbers an interval holds.
LEMMA IntervalHolds ==
  ASSUME NEW a \in Int, NEW b \in Int, NEW n \in Int, a <= b, n = b - a + 1
  PROVE  IsFiniteSet(a .. b) /\ Cardinality(a .. b) = n
<1>1. IsFiniteSet(a .. b) /\ Cardinality(a .. b) = IF a > b THEN 0 ELSE b - a + 1
  BY FS_Interval
<1>2. ~(a > b)
  OBVIOUS
<1> QED BY <1>1, <1>2

\* The parts of the band.
LEMMA PartsHold ==
  /\ IsFiniteSet(Bins) /\ Cardinality(Bins) = 256
  /\ Cardinality(0 .. 117) = 118 /\ Cardinality(118 .. 255) = 138
  /\ Cardinality(42 .. 60) = 19
  /\ 0 .. 117 \in SUBSET Bins /\ 118 .. 255 \in SUBSET Bins /\ 42 .. 60 \in SUBSET Bins
<1>1. 0 \in Int /\ 255 \in Int /\ 256 \in Int /\ 0 <= 255 /\ 256 = 255 - 0 + 1
  OBVIOUS
<1>2. IsFiniteSet(0 .. 255) /\ Cardinality(0 .. 255) = 256
  BY <1>1, IntervalHolds, ZenonT(30)
<1>3. 0 \in Int /\ 117 \in Int /\ 118 \in Int /\ 0 <= 117 /\ 118 = 117 - 0 + 1
  OBVIOUS
<1>4. Cardinality(0 .. 117) = 118
  BY <1>3, IntervalHolds, ZenonT(30)
<1>5. PICK a \in Int, b \in Int, n \in Int : a = 118 /\ b = 255 /\ n = 138
  OBVIOUS
<1>6. Cardinality(118 .. 255) = 138
  <2>1. a <= b /\ n = b - a + 1
    BY <1>5
  <2>2. Cardinality(a .. b) = n
    BY <2>1, IntervalHolds
  <2> QED BY <1>5, <2>2, Zenon
<1>7. 42 \in Int /\ 60 \in Int /\ 19 \in Int /\ 42 <= 60 /\ 19 = 60 - 42 + 1
  OBVIOUS
<1>8. Cardinality(42 .. 60) = 19
  BY <1>7, IntervalHolds, ZenonT(30)
<1>9. Bins = 0 .. 255
  BY BandsAre
<1>10. IsFiniteSet(Bins) /\ Cardinality(Bins) = 256
  BY <1>2, <1>9
<1>11. 0 .. 117 \in SUBSET Bins /\ 118 .. 255 \in SUBSET Bins /\ 42 .. 60 \in SUBSET Bins
  BY <1>9
<1> QED BY <1>4, <1>6, <1>8, <1>10, <1>11

\* Sets of bins are finite, and a subset has no more of them.
LEMMA BinsAreFinite ==
  \A U \in SUBSET Bins :
    /\ IsFiniteSet(U) /\ Cardinality(U) \in Nat
    /\ \A T \in SUBSET U : IsFiniteSet(T) /\ Cardinality(T) \in Nat
                           /\ Cardinality(T) <= Cardinality(U)
<1>1. IsFiniteSet(Bins)
  BY PartsHold
<1> TAKE U \in SUBSET Bins
<1>2. IsFiniteSet(U)
  BY <1>1, FS_Subset
<1>3. Cardinality(U) \in Nat
  BY <1>2, FS_CardinalityType
<1>4. ASSUME NEW T \in SUBSET U
      PROVE  IsFiniteSet(T) /\ Cardinality(T) \in Nat /\ Cardinality(T) <= Cardinality(U)
  <2>1. IsFiniteSet(T) /\ Cardinality(T) <= Cardinality(U)
    BY <1>2, FS_Subset
  <2> QED BY <2>1, FS_CardinalityType
<1> QED BY <1>2, <1>3, <1>4

\* The bins whose noise is far from the floor.
Far(noise) == {i \in Bins : noise[i] \notin -39 .. 39}

\* They are two at most, so leaving them out takes two bins from a part of the band.
LEMMA FarAreFew ==
  ASSUME NEW noise, Ordinary(noise)
  PROVE  /\ Far(noise) \in SUBSET Bins /\ Cardinality(Far(noise)) \in 0 .. 2
         /\ \A U \in SUBSET Bins :
              /\ U \ Far(noise) \in SUBSET U
              /\ Cardinality(U \ Far(noise)) >= Cardinality(U) - 2
<1>1. Far(noise) \in SUBSET Bins
  BY DEF Far
<1>2. Cardinality(Far(noise)) \in Nat /\ Cardinality(Far(noise)) <= 2
  <2>1. Bins = 0 .. 255
    BY BandsAre
  <2>2. Cardinality({i \in Bins : noise[i] \notin -39 .. 39}) <= 2
    BY DEF Ordinary
  <2>3. Cardinality(Far(noise)) <= 2
    BY <2>1, <2>2 DEF Far
  <2> QED BY <1>1, <2>3, BinsAreFinite
<1>3. ASSUME NEW U \in SUBSET Bins
      PROVE  Cardinality(U \ Far(noise)) >= Cardinality(U) - 2
  <2>1. IsFiniteSet(U) /\ Cardinality(U) \in Nat /\ U \cap Far(noise) \in SUBSET Far(noise)
    BY BinsAreFinite
  <2>2. Cardinality(U \ Far(noise)) = Cardinality(U) - Cardinality(U \cap Far(noise))
    BY <2>1, FS_Difference
  <2>3. /\ Cardinality(U \cap Far(noise)) <= Cardinality(Far(noise))
        /\ Cardinality(U \cap Far(noise)) \in Nat
    BY <1>1, <2>1, BinsAreFinite
  <2> QED BY <1>2, <2>1, <2>2, <2>3
<1> QED BY <1>1, <1>2, <1>3

\* The bins that are raised, as levels in the capture.
LEMMA RaisedAre ==
  ASSUME NEW noise, NEW jitter, NEW stub, IsCapture(noise, jitter, stub), label \in Labels
  PROVE  /\ Raised \in SUBSET Bins
         /\ \A i \in Bins : i \in Raised <=> noise[i] + Rise(i, jitter, stub) > 40
<1>1. Raised = {i \in Bins : average[i] - (-400) > 40}
  <2>1. Bins = 0 .. 255 /\ Floor = -400
    BY BandsAre
  <2> QED BY <2>1 DEF Raised, Margin
<1>2. ASSUME NEW i \in Bins
      PROVE  average[i] - (-400) > 40 <=> noise[i] + Rise(i, jitter, stub) > 40
  <2> DEFINE r == Rise(i, jitter, stub)
             n == noise[i]
  <2>1. r \in 0 .. 200
    BY LevelsInRange
  <2>2. n \in -50 .. 50
    BY DrawsAre
  <2>3. average[i] = -400 + n + r
    BY LevelsAre
  <2> HIDE DEF r, n
  <2>4. average[i] - (-400) > 40 <=> n + r > 40
    BY <2>1, <2>2, <2>3
  <2> QED BY <2>4 DEF r, n
<1> QED BY <1>1, <1>2

\* Six bins of the CPD comb.
LEMMA SixOfComb ==
  LET six == {0, 19, 38, 57, 76, 96}
  IN  six \in SUBSET Bins /\ Cardinality(six) = 6
<1>1. IsFiniteSet({0}) /\ Cardinality({0}) = 1
  BY FS_Singleton
<1>2. IsFiniteSet({0} \cup {19}) /\ Cardinality({0} \cup {19}) = 2
  BY <1>1, FS_AddElement
<1>3. {0} \cup {19} = {0, 19}
  OBVIOUS
<1>4. IsFiniteSet({0, 19} \cup {38}) /\ Cardinality({0, 19} \cup {38}) = 3
  BY <1>2, <1>3, FS_AddElement
<1>5. {0, 19} \cup {38} = {0, 19, 38}
  OBVIOUS
<1>6. IsFiniteSet({0, 19, 38} \cup {57}) /\ Cardinality({0, 19, 38} \cup {57}) = 4
  BY <1>4, <1>5, FS_AddElement
<1>7. {0, 19, 38} \cup {57} = {0, 19, 38, 57}
  OBVIOUS
<1>8. IsFiniteSet({0, 19, 38, 57} \cup {76}) /\ Cardinality({0, 19, 38, 57} \cup {76}) = 5
  BY <1>6, <1>7, FS_AddElement
<1>9. {0, 19, 38, 57} \cup {76} = {0, 19, 38, 57, 76}
  OBVIOUS
<1>10. Cardinality({0, 19, 38, 57, 76} \cup {96}) = 6
  BY <1>8, <1>9, FS_AddElement
<1>11. {0, 19, 38, 57, 76} \cup {96} = {0, 19, 38, 57, 76, 96}
  OBVIOUS
<1>12. {0, 19, 38, 57, 76, 96} \in SUBSET Bins
  <2>1. Bins = 0 .. 255
    BY BandsAre
  <2> QED BY <2>1
<1> QED BY <1>10, <1>11, <1>12

\* The signature of every label but the narrowband one raises four bins or more.
LEMMA ManyAreRaised ==
  ASSUME NEW noise, NEW jitter, NEW stub, IsCapture(noise, jitter, stub),
         label \in Labels \ {"Clean", "NarrowbandInterference"}
  PROVE  Cardinality(Raised) >= 4
<1>1. /\ jitter \in -60 .. 60 /\ stub \in 30 .. 60
      /\ \A i \in Bins : noise[i] \in -50 .. 50
  BY DrawsAre
<1>2. /\ Raised \in SUBSET Bins
      /\ \A i \in Bins : i \in Raised <=> noise[i] + Rise(i, jitter, stub) > 40
  BY RaisedAre
<1>3. ASSUME NEW T \in SUBSET Bins, Cardinality(T) >= 4,
             \A i \in T : noise[i] + Rise(i, jitter, stub) > 40
      PROVE  Cardinality(Raised) >= 4
  <2>1. T \in SUBSET Raised
    BY <1>2, <1>3
  <2>2. /\ Cardinality(T) <= Cardinality(Raised)
        /\ Cardinality(T) \in Nat /\ Cardinality(Raised) \in Nat
    BY <1>2, <2>1, BinsAreFinite
  <2> QED BY <1>3, <2>2
<1>4. CASE label = "CPD"
  <2> DEFINE six == {0, 19, 38, 57, 76, 96}
             T == six \ Far(noise)
  <2>1. six \in SUBSET Bins /\ Cardinality(six) = 6 /\ six \subseteq Comb
    BY SixOfComb, BandsAre
  <2> HIDE DEF six
  <2>2. Cardinality(T) >= 4 /\ T \in SUBSET Bins
    <3>1. Cardinality(T) >= Cardinality(six) - 2 /\ T \in SUBSET six
      BY <2>1, FarAreFew DEF IsCapture
    <3>2. Cardinality(T) \in Nat
      BY <2>1, <3>1, BinsAreFinite
    <3>3. T \in SUBSET Bins
      BY <2>1
    <3> HIDE DEF T
    <3>4. Cardinality(T) >= 6 - 2
      BY <2>1, <3>1
    <3> QED BY <3>2, <3>3, <3>4
  <2>3. ASSUME NEW i \in T PROVE noise[i] + Rise(i, jitter, stub) > 40
    <3>1. i \in Bins /\ i \in Comb /\ noise[i] \in -39 .. 39
      BY <2>1 DEF Far
    <3>2. Rise(i, jitter, stub) = 140 + jitter
      BY <1>4, <3>1 DEF Rise
    <3> QED BY <1>1, <3>1, <3>2
  <2> QED BY <1>3, <2>2, <2>3
<1>5. CASE label = "Ingress"
  <2>1. \A i \in 42 .. 60 : i \in Bins /\ Rise(i, jitter, stub) = 120
    BY <1>5, PartsHold DEF Rise
  <2>2. ASSUME NEW i \in 42 .. 60 PROVE noise[i] + Rise(i, jitter, stub) > 40
    <3>1. i \in Bins /\ Rise(i, jitter, stub) = 120
      BY <2>1
    <3>2. noise[i] \in -50 .. 50
      BY <1>1, <3>1
    <3>3. \A x \in -50 .. 50 : x + 120 > 40
      OBVIOUS
    <3> QED BY <3>1, <3>2, <3>3
  <2>3. Cardinality(42 .. 60) = 19
    BY PartsHold
  <2>4. 42 .. 60 \in SUBSET Bins
    BY PartsHold
  <2> QED BY <1>3, <2>2, <2>3, <2>4
<1>6. CASE label \notin {"CPD", "Ingress"}
  <2> DEFINE T == {i \in Bins : noise[i] > 10}
  <2>1. Cardinality(T) >= 4
    <3>1. Bins = 0 .. 255
      BY BandsAre
    <3> QED BY <3>1 DEF IsCapture, Ordinary
  <2>2. ASSUME NEW i \in T PROVE noise[i] + Rise(i, jitter, stub) > 40
    <3>1. Rise(i, jitter, stub) = stub
      BY <1>6 DEF Rise
    <3>2. noise[i] \in -50 .. 50 /\ noise[i] > 10
      BY <1>1
    <3>3. \A x \in -50 .. 50, y \in 30 .. 60 : x > 10 => x + y > 40
      OBVIOUS
    <3> QED BY <1>1, <3>1, <3>2, <3>3
  <2>3. T \in SUBSET Bins
    OBVIOUS
  <2> HIDE DEF T
  <2> QED BY <1>3, <2>1, <2>2, <2>3
<1> QED BY <1>4, <1>5, <1>6

\* A clean capture has at most two raised bins, a narrowband one three.
LEMMA FewAreRaised ==
  ASSUME NEW noise, NEW jitter, NEW stub, IsCapture(noise, jitter, stub),
         label \in {"Clean", "NarrowbandInterference"}
  PROVE  /\ Cardinality(Raised) <= 3
         /\ label = "Clean" => Cardinality(Raised) <= 2
<1>1. /\ Raised \in SUBSET Bins /\ \A i \in Bins : noise[i] \in -50 .. 50
      /\ \A i \in Bins : i \in Raised <=> noise[i] + Rise(i, jitter, stub) > 40
  <2>1. label \in Labels
    BY DEF Labels
  <2>2. \A i \in Bins : noise[i] \in -50 .. 50
    BY DrawsAre
  <2> QED BY <2>1, <2>2, RaisedAre
<1>2. /\ Far(noise) \in SUBSET Bins /\ Cardinality(Far(noise)) \in 0 .. 2
  BY FarAreFew DEF IsCapture
<1>3. ASSUME NEW i \in Raised PROVE i \in Far(noise) \/ (label # "Clean" /\ i = 70)
  <2>1. CASE label # "Clean" /\ i = 70
    BY <2>1
  <2>2. CASE label = "Clean" \/ i # 70
    <3>1. Rise(i, jitter, stub) = 0
      BY <2>2 DEF Rise
    <3>2. noise[i] \in -50 .. 50 /\ noise[i] + 0 > 40 /\ i \in Bins
      <4>1. i \in Bins
        BY <1>1
      <4>2. noise[i] + Rise(i, jitter, stub) > 40
        BY <1>1, <4>1
      <4>3. noise[i] \in -50 .. 50
        BY <1>1, <4>1
      <4> QED BY <3>1, <4>1, <4>2, <4>3
    <3>3. \A x \in -50 .. 50 : x + 0 > 40 => x \notin -39 .. 39
      OBVIOUS
    <3> QED BY <3>2, <3>3 DEF Far
  <2> QED BY <2>1, <2>2
<1>4. label = "Clean" => Cardinality(Raised) <= 2
  <2>1. label = "Clean" => Raised \in SUBSET Far(noise)
    BY <1>3
  <2>2. label = "Clean" => Cardinality(Raised) <= Cardinality(Far(noise)) /\ Cardinality(Raised) \in Nat
    BY <1>2, <2>1, BinsAreFinite
  <2> QED BY <1>2, <2>2
<1>5. Cardinality(Raised) <= 3
  <2>1. IsFiniteSet(Far(noise))
    BY <1>2, BinsAreFinite
  <2> DEFINE U == Far(noise) \cup {70}
  <2>2. Cardinality(U) = IF 70 \in Far(noise) THEN Cardinality(Far(noise)) ELSE Cardinality(Far(noise)) + 1
    BY <2>1, FS_AddElement
  <2>3. Raised \in SUBSET U
    BY <1>3
  <2>4. U \in SUBSET Bins
    <3>1. 70 \in Bins
      <4>1. Bins = 0 .. 255
        BY BandsAre
      <4> QED BY <4>1
    <3> QED BY <1>2, <3>1
  <2> HIDE DEF U
  <2>5. Cardinality(Raised) <= Cardinality(U) /\ Cardinality(Raised) \in Nat /\ Cardinality(U) \in Nat
    BY <2>3, <2>4, BinsAreFinite
  <2>6. Cardinality(U) <= 3
    BY <1>2, <2>2
  <2> QED BY <2>5, <2>6
<1> QED BY <1>4, <1>5

\* The median of some bins, by what more than half of them keep.
LEMMA MedianOfBins ==
  ASSUME NEW noise, NEW jitter, NEW stub, IsCapture(noise, jitter, stub), label \in Labels,
         NEW bins \in SUBSET Bins, bins # {},
         NEW T \in SUBSET bins, NEW half \in Nat, Cardinality(bins) \div 2 = half,
         Cardinality(T) > half, NEW x \in Int
  PROVE  /\ TwiceMedian(bins) \in Int
         /\ (\A i \in T : average[i] <= x) => TwiceMedian(bins) <= 2 * x
         /\ (\A i \in T : average[i] >= x) => TwiceMedian(bins) >= 2 * x
<1>1. \A i \in Bins : average[i] \in Int
  BY LevelsInRange
<1>2. \A i \in bins : average[i] \in Int
  BY <1>1
<1>3. IsFiniteSet(bins)
  BY BinsAreFinite
<1> QED BY <1>2, <1>3, MedianIsBounded

\* A part of the band is not lifted where more than half of its bins, and two more, are
\* left as they are.
LEMMA QuietIsNotLifted ==
  ASSUME NEW noise, NEW jitter, NEW stub, IsCapture(noise, jitter, stub), label \in Labels,
         NEW bins \in SUBSET Bins, bins # {},
         NEW half \in Nat, Cardinality(bins) \div 2 = half,
         NEW U \in SUBSET bins, Cardinality(U) > half + 2,
         \A i \in U : Rise(i, jitter, stub) = 0
  PROVE  ~Lifted(bins)
<1> DEFINE T == U \ Far(noise)
<1>1. T \in SUBSET U /\ Cardinality(T) >= Cardinality(U) - 2
  BY FarAreFew DEF IsCapture
<1>2. Cardinality(T) \in Nat /\ Cardinality(U) \in Nat
  BY <1>1, BinsAreFinite
<1>3. ASSUME NEW i \in T PROVE average[i] <= -361
  <2>1. i \in Bins /\ noise[i] \in -39 .. 39
    BY DEF Far
  <2>2. average[i] = -400 + noise[i] + 0
    BY <2>1, LevelsAre
  <2>3. \A n \in -39 .. 39 : -400 + n + 0 <= -361
    OBVIOUS
  <2> QED BY <2>1, <2>2, <2>3
<1> HIDE DEF T
<1>4. Cardinality(T) > half /\ T \in SUBSET bins /\ -361 \in Int
  BY <1>1, <1>2
<1>5. TwiceMedian(bins) \in Int /\ TwiceMedian(bins) <= 2 * (-361)
  BY <1>3, <1>4, MedianOfBins
<1>6. Floor = -400
  BY BandsAre
<1> QED BY <1>5, <1>6 DEF Lifted, Margin

\* The highest level of a capture.
Peak == Max({average[i] : i \in Bins})

\* It is the level of some bin, and no bin is above it.
LEMMA PeakIsHighest ==
  ASSUME NEW noise, NEW jitter, NEW stub, IsCapture(noise, jitter, stub), label \in Labels
  PROVE  /\ \E m \in Bins : Peak = average[m]
         /\ \A i \in Bins : average[i] <= Peak
<1>2. \A i \in Bins : average[i] \in Int
  BY LevelsInRange
<1>3. IsFiniteSet(Bins) /\ Bins # {}
  BY PartsHold
<1>4. PICK m \in Bins : \A i \in Bins : average[i] <= average[m]
  BY <1>2, <1>3, HighestPlace
<1> DEFINE S == {average[i] : i \in Bins}
<1>5. Peak = Max(S)
  <2>1. Bins = 0 .. 255
    BY BandsAre
  <2> QED BY <2>1 DEF Peak
<1>6. \E x \in S : \A y \in S : x >= y
  BY <1>2, <1>4
<1>7. Max(S) \in S /\ \A y \in S : Max(S) >= y
  BY <1>6 DEF Max
<1> QED BY <1>2, <1>5, <1>7

\* A clean capture has no sharp peak, and a narrowband one has.
LEMMA PeakIsSharp ==
  ASSUME NEW noise, NEW jitter, NEW stub, IsCapture(noise, jitter, stub),
         label \in {"Clean", "NarrowbandInterference"}
  PROVE  SharpPeak <=> label = "NarrowbandInterference"
<1> DEFINE all == Bins
<1>1. label \in Labels /\ Bins = all
  BY BandsAre DEF Labels
<1>2. all \in SUBSET Bins /\ all # {} /\ Cardinality(all) = 256
  BY PartsHold
<1>3. 128 \in Nat /\ Cardinality(all) \div 2 = 128
  BY <1>2
<1>4. /\ \E m \in all : Peak = average[m]
      /\ \A i \in all : average[i] <= Peak
  BY <1>1, PeakIsHighest
<1>5. \A i \in all : /\ average[i] = -400 + noise[i] + Rise(i, jitter, stub)
                     /\ noise[i] \in -50 .. 50 /\ average[i] \in -450 .. -150
  <2>1. \A i \in Bins : average[i] = -400 + noise[i] + Rise(i, jitter, stub)
    BY <1>1, LevelsAre
  <2>2. \A i \in Bins : average[i] \in -450 .. -150
    BY <1>1, LevelsInRange
  <2>3. \A i \in Bins : noise[i] \in -50 .. 50
    BY DrawsAre
  <2> QED BY <2>1, <2>2, <2>3
<1> HIDE DEF all
<1>6. Peak \in -450 .. -150
  BY <1>4, <1>5
<1>7. SharpPeak <=> 2 * Peak - TwiceMedian(all) > 240 /\ Cardinality(Raised) <= 3
  BY <1>1 DEF SharpPeak, Peak
<1>8. CASE label = "Clean"
  <2>1. PICK m \in all : Peak = average[m]
    BY <1>4
  <2>2. Rise(m, jitter, stub) = 0
    BY <1>8 DEF Rise
  <2>3. average[m] = -400 + noise[m] + 0 /\ noise[m] \in -50 .. 50
    BY <1>5, <2>2
  <2>4. \A n \in -50 .. 50 : -400 + n + 0 <= -350
    OBVIOUS
  <2>5. Peak <= -350
    BY <2>1, <2>3, <2>4
  <2>6. TwiceMedian(all) \in Int /\ TwiceMedian(all) >= 2 * (-450)
    <3>1. \A i \in all : average[i] >= -450
      BY <1>5
    <3>2. Cardinality(all) > 128 /\ -450 \in Int /\ all \in SUBSET all
      BY <1>2
    <3> QED BY <1>1, <1>2, <1>3, <3>1, <3>2, MedianOfBins
  <2>7. ~(2 * Peak - TwiceMedian(all) > 240)
    BY <1>6, <2>5, <2>6
  <2> QED BY <1>7, <1>8, <2>7
<1>9. CASE label = "NarrowbandInterference"
  <2> DEFINE low == {i \in Bins : noise[i] <= 20}
             T == low \ {70}
  <2>1. Cardinality(T) > 128 /\ T \in SUBSET all
    <3>1. Cardinality(low) >= 130
      BY <1>1 DEF IsCapture, Ordinary, all
    <3>2. low \in SUBSET Bins
      OBVIOUS
    <3> HIDE DEF low
    <3>3. IsFiniteSet(low) /\ Cardinality(low) \in Nat
      BY <3>2, BinsAreFinite
    <3>4. Cardinality(T) = IF 70 \in low THEN Cardinality(low) - 1 ELSE Cardinality(low)
      BY <3>3, FS_RemoveElement
    <3>5. Cardinality(T) > 128
      BY <3>1, <3>3, <3>4
    <3> QED BY <3>2, <3>5 DEF all
  <2>2. ASSUME NEW i \in T PROVE average[i] <= -380
    <3>1. i \in all /\ i # 70 /\ noise[i] <= 20 /\ noise[i] \in -50 .. 50
      BY <1>5 DEF all
    <3>2. Rise(i, jitter, stub) = 0
      BY <1>9, <3>1 DEF Rise
    <3>3. average[i] = -400 + noise[i] + 0
      BY <1>5, <3>1, <3>2
    <3>4. \A n \in -50 .. 50 : n <= 20 => -400 + n + 0 <= -380
      OBVIOUS
    <3> QED BY <3>1, <3>3, <3>4
  <2>3. TwiceMedian(all) \in Int /\ TwiceMedian(all) <= 2 * (-380)
    <3>1. -380 \in Int
      OBVIOUS
    <3> HIDE DEF T
    <3> QED BY <1>1, <1>2, <1>3, <2>1, <2>2, <3>1, MedianOfBins
  <2>4. Peak >= -250
    <3>1. 70 \in all
      <4>1. Bins = 0 .. 255
        BY BandsAre
      <4> QED BY <4>1 DEF all
    <3>2. Rise(70, jitter, stub) = 200
      BY <1>9 DEF Rise
    <3>3. average[70] = -400 + noise[70] + 200 /\ noise[70] \in -50 .. 50
      BY <1>5, <3>1, <3>2
    <3>4. \A n \in -50 .. 50 : -400 + n + 200 >= -250
      OBVIOUS
    <3>5. average[70] >= -250 /\ average[70] \in -450 .. -150 /\ average[70] <= Peak
      BY <1>4, <1>5, <3>1, <3>3, <3>4
    <3> QED BY <1>6, <3>5
  <2>5. 2 * Peak - TwiceMedian(all) > 240
    BY <1>6, <2>3, <2>4
  <2>6. Cardinality(Raised) <= 3
    BY FewAreRaised
  <2> QED BY <1>7, <1>9, <2>5, <2>6
<1> QED BY <1>8, <1>9

--------------------------------------------------------------------------------
(* What is read.                                                                    *)

\* The class the rules find in a capture.
Read ==
  IF SharpPeak THEN "NarrowbandInterference"
  ELSE IF Lifted(LowBand) /\ ~Lifted(Bins \ LowBand) THEN "CPD"
  ELSE IF Lifted(LowBand) /\ Lifted(Bins \ LowBand) THEN "WidebandNoise"
  ELSE IF Cardinality(Raised) >= 4 THEN "Ingress" ELSE "Clean"

\* The two parts of the band, and half of the bins of each.
LEMMA HalvesAre ==
  /\ LowBand = 0 .. 117 /\ LowBand \in SUBSET Bins /\ LowBand # {}
  /\ Cardinality(LowBand) = 118 /\ Cardinality(LowBand) \div 2 = 59
  /\ Bins \ LowBand = 118 .. 255 /\ Bins \ LowBand \in SUBSET Bins /\ Bins \ LowBand # {}
  /\ Cardinality(Bins \ LowBand) = 138 /\ Cardinality(Bins \ LowBand) \div 2 = 69
<1>1. LowBand = 0 .. 117 /\ Bins \ LowBand = 118 .. 255
  BY BandsAre
<1>2. Cardinality(0 .. 117) = 118 /\ Cardinality(118 .. 255) = 138
  BY PartsHold
<1>3. Cardinality(LowBand) = 118 /\ Cardinality(Bins \ LowBand) = 138
  BY <1>1, <1>2
<1>4. 0 .. 117 # {} /\ 118 .. 255 # {} /\ 118 \div 2 = 59 /\ 138 \div 2 = 69
  OBVIOUS
<1>5. LowBand \in SUBSET Bins /\ LowBand # {} /\ Bins \ LowBand \in SUBSET Bins /\ Bins \ LowBand # {}
  <2>1. 0 .. 117 \in SUBSET Bins /\ 118 .. 255 \in SUBSET Bins
    BY PartsHold
  <2> QED BY <1>1, <1>4, <2>1
<1>6. Cardinality(LowBand) \div 2 = 59 /\ Cardinality(Bins \ LowBand) \div 2 = 69
  BY <1>3, <1>4
<1> QED BY <1>1, <1>3, <1>5, <1>6

\* No capture of a fault reads clean.
LEMMA FaultIsNotClean ==
  ASSUME NEW noise, NEW jitter, NEW stub, IsCapture(noise, jitter, stub),
         label \in Labels, label # "Clean"
  PROVE  Read # "Clean"
<1>1. CASE label = "NarrowbandInterference"
  <2>1. SharpPeak
    BY <1>1, PeakIsSharp
  <2> QED BY <2>1 DEF Read
<1>2. CASE label # "NarrowbandInterference"
  <2>1. Cardinality(Raised) >= 4
    BY <1>2, ManyAreRaised
  <2> QED BY <2>1 DEF Read
<1> QED BY <1>1, <1>2

\* A label with a signature, and Clean, is read back, if the CPD floor is not drawn too low.
LEMMA SignatureIsRead ==
  ASSUME NEW noise, NEW jitter, NEW stub, IsCapture(noise, jitter, stub), jitter >= -35,
         label \in {"Clean", "CPD", "Ingress", "NarrowbandInterference"}
  PROVE  Read = label
<1>1. label \in Labels /\ jitter \in -60 .. 60
  BY DrawsAre DEF Labels
<1>2. CASE label = "NarrowbandInterference"
  <2>1. SharpPeak
    BY <1>2, PeakIsSharp
  <2> QED BY <1>2, <2>1 DEF Read
<1>3. CASE label = "Clean"
  <2>1. ~SharpPeak
    BY <1>3, PeakIsSharp
  <2>2. ~(Cardinality(Raised) >= 4)
    <3>1. Cardinality(Raised) <= 3 /\ Raised \in SUBSET Bins
      BY <1>1, <1>3, FewAreRaised, RaisedAre
    <3>2. Cardinality(Raised) \in Nat
      BY <3>1, BinsAreFinite
    <3> QED BY <3>1, <3>2
  <2>3. ~Lifted(LowBand)
    <3>1. \A i \in LowBand : Rise(i, jitter, stub) = 0
      BY <1>3 DEF Rise
    <3>2. 59 \in Nat /\ Cardinality(LowBand) > 59 + 2 /\ LowBand \in SUBSET LowBand
      BY HalvesAre
    <3>3. LowBand \in SUBSET Bins /\ LowBand # {} /\ Cardinality(LowBand) \div 2 = 59
      BY HalvesAre
    <3> QED BY <1>1, <3>1, <3>2, <3>3, QuietIsNotLifted
  <2> QED BY <1>3, <2>1, <2>2, <2>3 DEF Read
<1>4. ASSUME label \in {"CPD", "Ingress"} PROVE ~SharpPeak /\ Cardinality(Raised) >= 4
  <2>1. Cardinality(Raised) >= 4 /\ Raised \in SUBSET Bins
    BY <1>1, <1>4, ManyAreRaised, RaisedAre
  <2>2. Cardinality(Raised) \in Nat
    BY <2>1, BinsAreFinite
  <2>3. ~(Cardinality(Raised) <= 3)
    BY <2>1, <2>2
  <2> QED BY <2>1, <2>3 DEF SharpPeak
<1>5. CASE label = "Ingress"
  <2> DEFINE band == 42 .. 60
             U == LowBand \ band
  <2>1. U \in SUBSET LowBand /\ LowBand \cap band = band
    BY HalvesAre
  <2>2. Cardinality(U) = 118 - 19
    <3>1. IsFiniteSet(LowBand) /\ Cardinality(LowBand) = 118 /\ Cardinality(LowBand \cap band) = 19
      BY <2>1, HalvesAre, BinsAreFinite, PartsHold
    <3> HIDE DEF band
    <3> QED BY <3>1, FS_Difference
  <2>3. \A i \in U : Rise(i, jitter, stub) = 0
    BY <1>5 DEF Rise
  <2> HIDE DEF U
  <2>4. Cardinality(U) > 59 + 2 /\ 59 \in Nat
    BY <2>2
  <2>5. ~Lifted(LowBand)
    <3>1. LowBand \in SUBSET Bins /\ LowBand # {} /\ Cardinality(LowBand) \div 2 = 59
      BY HalvesAre
    <3> QED BY <1>1, <2>1, <2>3, <2>4, <3>1, QuietIsNotLifted
  <2> QED BY <1>4, <1>5, <2>5 DEF Read
<1>6. CASE label = "CPD"
  <2> DEFINE high == Bins \ LowBand
             T == {i \in 0 .. 117 : noise[i] >= -5}
  <2>1. ~Lifted(high)
    <3>1. ASSUME NEW i \in high PROVE Rise(i, jitter, stub) = 0
      <4>1. i \notin 0 .. 117
        BY HalvesAre
      <4>2. i \notin Comb
        BY <4>1, BandsAre
      <4> QED BY <1>6, <4>1, <4>2 DEF Rise
    <3>2. /\ high \in SUBSET Bins /\ high # {} /\ high \in SUBSET high
          /\ 69 \in Nat /\ Cardinality(high) \div 2 = 69 /\ Cardinality(high) > 69 + 2
      BY HalvesAre
    <3> HIDE DEF high
    <3> QED BY <1>1, <3>1, <3>2, QuietIsNotLifted
  <2>2. T \in SUBSET LowBand /\ Cardinality(T) > 59
    <3>1. Band(Start, 42 * MHz) = 0 .. 117
      BY BandsAre
    <3>2. Cardinality(T) >= 60
      BY <3>1 DEF IsCapture, Ordinary
    <3>3. T \in SUBSET LowBand
      BY HalvesAre
    <3> HIDE DEF T
    <3>4. Cardinality(T) \in Nat
      BY <3>3, HalvesAre, BinsAreFinite
    <3> QED BY <3>2, <3>3, <3>4
  <2>3. ASSUME NEW i \in T PROVE average[i] >= -360
    <3>1. i \in 0 .. 117 /\ i \in Bins /\ noise[i] >= -5
      BY PartsHold
    <3>2. noise[i] \in -50 .. 50
      BY <3>1, DrawsAre
    <3>3. average[i] = -400 + noise[i] + Rise(i, jitter, stub)
      BY <1>1, <3>1, LevelsAre
    <3>4. Rise(i, jitter, stub) = 140 + jitter \/ Rise(i, jitter, stub) = 80 + jitter
      BY <1>6, <3>1 DEF Rise
    <3>5. \A n \in -50 .. 50, j \in -60 .. 60 :
            n >= -5 /\ j >= -35 => -400 + n + (140 + j) >= -360 /\ -400 + n + (80 + j) >= -360
      OBVIOUS
    <3> QED BY <1>1, <3>1, <3>2, <3>3, <3>4, <3>5
  <2>4. TwiceMedian(LowBand) \in Int /\ TwiceMedian(LowBand) >= 2 * (-360)
    <3>1. PICK least \in Int : least = -360
      OBVIOUS
    <3>2. LowBand \in SUBSET Bins /\ LowBand # {}
      BY HalvesAre
    <3>3. Cardinality(LowBand) \div 2 = 59 /\ 59 \in Nat
      BY HalvesAre
    <3>4. T \in SUBSET LowBand /\ Cardinality(T) > 59
      BY <2>2
    <3>5. \A i \in T : average[i] >= least
      BY <2>3, <3>1
    <3> HIDE DEF T, high
    <3>6. TwiceMedian(LowBand) \in Int /\ TwiceMedian(LowBand) >= 2 * least
      BY <1>1, <3>2, <3>3, <3>4, <3>5, MedianOfBins
    <3> QED BY <3>1, <3>6
  <2>5. Lifted(LowBand)
    <3>1. Floor = -400
      BY BandsAre
    <3> QED BY <2>4, <3>1 DEF Lifted, Margin
  <2> QED BY <1>4, <1>6, <2>1, <2>5 DEF Read
<1> QED BY <1>2, <1>3, <1>5, <1>6

--------------------------------------------------------------------------------
(* The behaviours: one capture, and what is read in it.                             *)

\* A capture is one of the label's, and nothing is read before there is one.
Drawn ==
  /\ label \in Labels /\ class \in Labels \cup {"none"}
  /\ average = <<>> => class = "none"
  /\ average # <<>> => \E noise \in Noises, jitter \in Jitters, stub \in Stubs :
                         IsCapture(noise, jitter, stub)

\* Nothing has been read in a first capture.
LEMMA CaptureIsDrawn ==
  ASSUME Drawn, Capture
  PROVE  Drawn' /\ class' = "none" /\ UNCHANGED label
<1>1. PICK noise \in Noises, jitter \in Jitters, stub \in Stubs :
        average' = Generate(noise, jitter, stub)
  BY DEF Capture
<1>2. label' = label /\ class' = class /\ class = "none"
  BY DEF Capture, Drawn
<1>3. Generate(noise, jitter, stub)' = Generate(noise, jitter, stub)
  BY <1>2 DEF Generate
<1>4. IsCapture(noise, jitter, stub)'
  BY <1>1, <1>3, NoisesAreOrdinary, JittersAreNear, StubsAreUniform DEF IsCapture
<1> QED BY <1>2, <1>4 DEF Drawn

\* What is read is what the rules find in the capture.
LEMMA ClassifyReads ==
  ASSUME Drawn, Classify
  PROVE  /\ Drawn' /\ class' = Read /\ UNCHANGED label
         /\ \E noise \in Noises, jitter \in Jitters, stub \in Stubs :
              IsCapture(noise, jitter, stub)
<1>1. PICK noise \in Noises, jitter \in Jitters, stub \in Stubs : IsCapture(noise, jitter, stub)
  BY DEF Classify, Drawn
<1>2. class' = Read /\ label' = label /\ average' = average /\ average # <<>>
  BY DEF Classify, Read
<1>3. Read \in Labels
  BY DEF Read, Labels
<1>4. IsCapture(noise, jitter, stub)'
  <2>1. Generate(noise, jitter, stub)' = Generate(noise, jitter, stub)
    BY <1>2 DEF Generate
  <2> QED BY <1>1, <1>2, <2>1 DEF IsCapture
<1> QED BY <1>1, <1>2, <1>3, <1>4 DEF Drawn

\* Nothing changes in a stuttering step.
LEMMA StutterIsDrawn ==
  ASSUME Drawn, UNCHANGED vars
  PROVE  Drawn' /\ class' = class /\ UNCHANGED label
<1>1. label' = label /\ class' = class /\ average' = average
  BY DEF vars
<1>2. ASSUME NEW noise, NEW jitter, NEW stub
      PROVE  IsCapture(noise, jitter, stub) => IsCapture(noise, jitter, stub)'
  <2>1. Generate(noise, jitter, stub)' = Generate(noise, jitter, stub)
    BY <1>1 DEF Generate
  <2> QED BY <1>1, <2>1 DEF IsCapture
<1> QED BY <1>1, <1>2 DEF Drawn

\* The initial states, before any capture.
LEMMA InitIsDrawn == Init => Drawn /\ class = "none"
BY DEF Init, Drawn

\* Captures stay drawn.
LEMMA DrawnHolds == Spec => []Drawn
<1>1. Drawn /\ [Next]_vars => Drawn'
  BY CaptureIsDrawn, ClassifyReads, StutterIsDrawn DEF Next
<1> QED BY <1>1, InitIsDrawn, PTL DEF Spec

\* A capture of any label, whatever is drawn, is a level for each bin between 5 dB under the
\* noise floor and 25 dB over it, and what is read in it is a label.
THEOREM SpectrumTypes == Spec => []TypeOK
<1>1. Drawn => TypeOK
  <2> SUFFICES ASSUME Drawn PROVE TypeOK
    OBVIOUS
  <2>1. ASSUME average # <<>> PROVE average \in [Bins -> Floor - 50 .. Floor + 250]
    BY <2>1, LevelsInRange DEF Drawn
  <2> QED BY <2>1 DEF Drawn, TypeOK
<1> QED BY <1>1, DrawnHolds, PTL

\* No fault is cleared: whatever label but Clean is planted, and whatever noise, jitter and
\* stub are drawn, the capture does not read Clean. (evaluation-harness.md:86-87 has the
\* stubs of ImpulseNoise, Ripple and Suckout classify as Clean; they do not.)
THEOREM NoFaultIsCleared == Spec => []FaultsAreNeverCleared
<1>1. Init => FaultsAreNeverCleared
  BY DEF Init, FaultsAreNeverCleared
<1>2. Drawn /\ FaultsAreNeverCleared /\ [Next]_vars => FaultsAreNeverCleared'
  <2> SUFFICES ASSUME Drawn, FaultsAreNeverCleared, [Next]_vars, label' # "Clean"
               PROVE  class' # "Clean"
    BY DEF FaultsAreNeverCleared
  <2>1. CASE Capture
    BY <2>1, CaptureIsDrawn
  <2>2. CASE Classify
    BY <2>2, ClassifyReads, FaultIsNotClean DEF Drawn
  <2>3. CASE UNCHANGED vars
    BY <2>3, StutterIsDrawn DEF FaultsAreNeverCleared
  <2> QED BY <2>1, <2>2, <2>3 DEF Next
<1> QED BY <1>1, <1>2, DrawnHolds, PTL DEF Spec

\* The labels with a signature, and Clean, are read back exactly, for every noise and stub
\* that is drawn, when the CPD floor is not drawn more than 3.5 dB low; beyond that a CPD
\* capture may read as another fault. (generator.py:32-34 grants this to CPD alone; it is
\* true of Ingress and NarrowbandInterference, too.)
THEOREM SignaturesAreReadBack ==
  ASSUME \A jitter \in Jitters : jitter >= -35
  PROVE  Spec => []SignaturesReadBack
<1>1. Init => SignaturesReadBack
  BY DEF Init, SignaturesReadBack
<1>2. Drawn /\ SignaturesReadBack /\ [Next]_vars => SignaturesReadBack'
  <2> SUFFICES ASSUME Drawn, SignaturesReadBack, [Next]_vars,
                      label' \in {"Clean", "CPD", "Ingress", "NarrowbandInterference"}
               PROVE  class' \in {label', "none"}
    BY DEF SignaturesReadBack
  <2>1. CASE Capture
    BY <2>1, CaptureIsDrawn
  <2>2. CASE Classify
    BY <2>2, ClassifyReads, SignatureIsRead
  <2>3. CASE UNCHANGED vars
    BY <2>3, StutterIsDrawn DEF SignaturesReadBack
  <2> QED BY <2>1, <2>2, <2>3 DEF Next
<1> QED BY <1>1, <1>2, DrawnHolds, PTL DEF Spec

================================================================================
