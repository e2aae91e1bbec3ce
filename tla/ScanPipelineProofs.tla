------------------------- MODULE ScanPipelineProofs --------------------------
(***************************************************************************)
(* Proofs about ScanPipeline, for every number of frames and faces: what   *)
(* the sum of liveness signals comes to, and that a scan with a probe      *)
(* shows movement and a face of quality.                                   *)
(***************************************************************************)
EXTENDS ScanPipeline, FiniteSetTheorems, WellFoundedInduction, TLAPS

\* What replaces induction: a set of numbers has a least one.
LEMMA LeastNumber ==
  ASSUME NEW T \in SUBSET Nat, T # {}
  PROVE  \E n \in T : \A m \in T : n <= m
<1>1. PICK x \in T : \A y \in T : ~ (<<y, x>> \in OpToRel(<, Nat))
  BY NatLessThanWellFounded, WFMin
<1>2. \A m \in T : ~ (m < x)
  BY <1>1 DEF OpToRel
<1> QED BY <1>2

\* A finite set has an element where a number is largest.
LEMMA LargestExists ==
  ASSUME NEW S, IsFiniteSet(S), S # {}, NEW p \in [S -> Nat]
  PROVE  \E x \in S : \A y \in S : p[y] <= p[x]
<1> DEFINE HasMax(s) == \E x \in s : \A y \in s : p[y] <= p[x]
           T == {n \in Nat : \E s \in SUBSET S : s # {} /\ Cardinality(s) = n /\ ~HasMax(s)}
<1>1. SUFFICES ASSUME ~HasMax(S) PROVE FALSE
  OBVIOUS
<1>2. Cardinality(S) \in T
  BY <1>1, FS_CardinalityType
<1>3. PICK n \in T : \A m \in T : n <= m
  BY <1>2, LeastNumber
<1>4. PICK s \in SUBSET S : s # {} /\ Cardinality(s) = n /\ ~HasMax(s)
  BY <1>3
<1>5. PICK x \in s : TRUE
  BY <1>4
<1> DEFINE rest == s \ {x}
<1>6. IsFiniteSet(s) /\ IsFiniteSet(rest) /\ Cardinality(rest) = n - 1 /\ n \in Nat
  BY <1>3, <1>4, <1>5, FS_Subset, FS_RemoveElement
<1>7. CASE rest = {}
  <2>1. s = {x} /\ p[x] \in Nat
    BY <1>4, <1>5, <1>7
  <2> QED BY <1>4, <2>1
<1>8. CASE rest # {}
  <2>1. HasMax(rest)
    <3>1. n - 1 \in Nat
      BY <1>6, FS_CardinalityType
    <3>2. SUFFICES ASSUME ~HasMax(rest) PROVE FALSE
      OBVIOUS
    <3>3. n - 1 \in T
      BY <1>4, <1>6, <1>8, <3>1, <3>2
    <3> HIDE DEF T
    <3> QED BY <1>3, <1>6, <3>3
  <2>2. PICK y \in rest : \A z \in rest : p[z] <= p[y]
    BY <2>1
  <2>3. p[x] \in Nat /\ \A z \in s : p[z] \in Nat
    BY <1>4, <1>5
  <2>4. CASE p[x] <= p[y]
    BY <1>4, <2>2, <2>3, <2>4
  <2>5. CASE p[y] <= p[x]
    <3>1. \A z \in s : p[z] <= p[x]
      BY <1>4, <1>5, <2>2, <2>3, <2>5
    <3> QED BY <1>4, <1>5, <3>1
  <2> QED BY <1>4, <1>5, <2>2, <2>3, <2>4, <2>5
<1> QED BY <1>7, <1>8

-----------------------------------------------------------------------------
\* Decoded drops frames and keeps the others in order: its recursion is well founded.
KeptUpTo(frames, kept, m) ==
  \A n \in 0..m : kept[n] = IF n = 0 THEN <<>>
                            ELSE IF frames[n].readable THEN Append(kept[n - 1], frames[n])
                                                       ELSE kept[n - 1]

LEMMA KeptExists ==
  ASSUME NEW frames, Len(frames) \in Nat
  PROVE  \E kept : kept = [n \in 0..Len(frames) |->
                            IF n = 0 THEN <<>>
                            ELSE IF frames[n].readable THEN Append(kept[n - 1], frames[n])
                                                       ELSE kept[n - 1]]
<1> DEFINE Has(m) == \E kept : kept = [n \in 0..m |-> kept[n]] /\ KeptUpTo(frames, kept, m)
           T == {m \in Nat : ~Has(m)}
<1>1. ASSUME T # {} PROVE FALSE
  <2>1. PICK m \in T : \A k \in T : m <= k
    BY <1>1, LeastNumber
  <2>2. Has(0)
    <3> DEFINE k == [n \in 0..0 |-> <<>>]
    <3>1. k = [n \in 0..0 |-> k[n]] /\ k[0] = <<>>
      OBVIOUS
    <3> HIDE DEF k
    <3> QED BY <3>1 DEF KeptUpTo
  <2>3. m # 0 /\ m \in Nat /\ m - 1 \in Nat
    <3>1. m \in Nat /\ ~Has(m)
      BY <2>1
    <3>2. m # 0
      <4> HIDE DEF Has
      <4> QED BY <2>2, <3>1
    <3> HIDE DEF Has
    <3> QED BY <3>1, <3>2
  <2>4. Has(m - 1)
    <3> HIDE DEF Has
    <3> QED BY <2>1, <2>3
  <2>5. PICK kept : kept = [n \in 0..(m - 1) |-> kept[n]] /\ KeptUpTo(frames, kept, m - 1)
    BY <2>4
  <2> DEFINE last == IF frames[m].readable THEN Append(kept[m - 1], frames[m])
                                           ELSE kept[m - 1]
             more == [n \in 0..m |-> IF n = m THEN last ELSE kept[n]]
  <2>6. more = [n \in 0..m |-> more[n]]
    OBVIOUS
  <2>7. \A n \in 0..m : more[n] = IF n = m THEN last ELSE kept[n]
    OBVIOUS
  <2> HIDE DEF more
  <2>8. KeptUpTo(frames, more, m)
    <3>1. ASSUME NEW n \in 0..m, n # m
          PROVE  more[n] = IF n = 0 THEN <<>>
                            ELSE IF frames[n].readable THEN Append(more[n - 1], frames[n])
                                                       ELSE more[n - 1]
      <4>1. n \in 0..(m - 1) /\ more[n] = kept[n]
        BY <2>3, <2>7, <3>1
      <4>2. n # 0 => more[n - 1] = kept[n - 1]
        BY <2>3, <2>7, <3>1, <4>1
      <4> QED BY <2>5, <4>1, <4>2 DEF KeptUpTo
    <3>2. more[m] = last /\ more[m - 1] = kept[m - 1]
      BY <2>3, <2>7
    <3> QED BY <2>3, <3>1, <3>2 DEF KeptUpTo
  <2> QED BY <2>1, <2>6, <2>8
<1>2. Has(Len(frames))
  BY <1>1
<1> QED BY <1>2 DEF KeptUpTo

\* What it keeps are readable frames of the upload.
LEMMA DecodedKeeps ==
  ASSUME NEW frames, IsUpload(frames)
  PROVE  /\ Decoded(frames) \in Seq({frames[i] : i \in DOMAIN frames})
         /\ \A k \in DOMAIN Decoded(frames) : \E i \in DOMAIN frames :
              Decoded(frames)[k] = frames[i] /\ frames[i].readable
<1> DEFINE F == {frames[i] : i \in DOMAIN frames}
           Fine(s) == /\ s \in Seq(F)
                      /\ \A k \in DOMAIN s : \E i \in DOMAIN frames :
                           s[k] = frames[i] /\ frames[i].readable
<1>1. /\ frames \in Seq(F) /\ Len(frames) \in Nat /\ DOMAIN frames = 1..Len(frames)
  BY DEF IsUpload
<1> DEFINE Eq(g) == g = [n \in 0..Len(frames) |->
                            IF n = 0 THEN <<>>
                            ELSE IF frames[n].readable THEN Append(g[n - 1], frames[n])
                                                       ELSE g[n - 1]]
           kept == CHOOSE g : Eq(g)
<1>2. Decoded(frames) = kept[Len(frames)]
  BY DEF Decoded
<1>3. Eq(kept)
  BY <1>1, KeptExists
<1> HIDE DEF kept
<1>4. \A n \in 0..Len(frames) : kept[n] = IF n = 0 THEN <<>>
                            ELSE IF frames[n].readable THEN Append(kept[n - 1], frames[n])
                                                       ELSE kept[n - 1]
  BY <1>3
<1> DEFINE T == {n \in 0..Len(frames) : ~Fine(kept[n])}
<1>5. ASSUME T # {} PROVE FALSE
  <2>1. PICK m \in T : \A k \in T : m <= k
    <3>1. T \in SUBSET Nat
      BY <1>1
    <3> HIDE DEF T
    <3> QED BY <1>5, <3>1, LeastNumber
  <2>2. Fine(<<>>)
    OBVIOUS
  <2>3. m # 0 /\ m \in 1..Len(frames) /\ m - 1 \in 0..Len(frames)
    <3>1. m \in 0..Len(frames) /\ ~Fine(kept[m])
      BY <2>1
    <3>2. kept[0] = <<>>
      BY <1>1, <1>4
    <3>3. m # 0
      <4> HIDE DEF Fine
      <4> QED BY <2>2, <3>1, <3>2
    <3> HIDE DEF Fine
    <3> QED BY <1>1, <3>1, <3>3
  <2>4. Fine(kept[m - 1])
    BY <1>1, <2>1, <2>3
  <2>5. kept[m] = IF frames[m].readable THEN Append(kept[m - 1], frames[m]) ELSE kept[m - 1]
    BY <1>4, <2>3
  <2>6. frames[m] \in F /\ m \in DOMAIN frames
    BY <1>1, <2>3
  <2>7. Fine(kept[m])
    <3> DEFINE s == kept[m - 1]
    <3>1. CASE ~frames[m].readable
      BY <2>4, <2>5, <3>1
    <3>2. CASE frames[m].readable
      <4>1. s \in Seq(F) /\ Len(s) \in Nat /\ DOMAIN s = 1..Len(s)
        BY <2>4
      <4> HIDE DEF s, F
      <4>2. /\ Append(s, frames[m]) \in Seq(F)
            /\ DOMAIN Append(s, frames[m]) = 1..(Len(s) + 1)
            /\ \A k \in 1..Len(s) : Append(s, frames[m])[k] = s[k]
            /\ Append(s, frames[m])[Len(s) + 1] = frames[m]
        BY <2>6, <4>1
      <4>3. kept[m] = Append(s, frames[m])
        BY <2>5, <3>2 DEF s
      <4>4. \A k \in DOMAIN s : \E i \in DOMAIN frames : s[k] = frames[i] /\ frames[i].readable
        BY <2>4 DEF s
      <4> QED BY <2>6, <3>2, <4>1, <4>2, <4>3, <4>4
    <3> QED BY <3>1, <3>2
  <2> QED BY <2>1, <2>7
<1>6. Fine(kept[Len(frames)])
  BY SMTT(30), <1>1, <1>5
<1> QED BY <1>2, <1>6

-----------------------------------------------------------------------------
\* The sum of differences adds one of them to the sum over the others.
One(s) == CHOOSE x \in s : TRUE
SumUpTo(fs, sum, m) ==
  \A s \in SUBSET Compared(fs) :
    Cardinality(s) <= m => sum[s] = IF s = {} THEN 0
                                    ELSE Diff(fs, One(s)) + sum[s \ {One(s)}]

LEMMA RestIsSmaller ==
  ASSUME NEW S, IsFiniteSet(S), NEW s \in SUBSET S, s # {}
  PROVE  /\ One(s) \in s /\ s \ {One(s)} \in SUBSET S
         /\ Cardinality(s) \in Nat /\ Cardinality(s \ {One(s)}) = Cardinality(s) - 1
<1>1. One(s) \in s
  BY DEF One
<1>2. IsFiniteSet(s)
  BY FS_Subset
<1> QED BY <1>1, <1>2, FS_CardinalityType, FS_RemoveElement

LEMMA SumExists ==
  ASSUME NEW fs, IsFiniteSet(Compared(fs))
  PROVE  \E sum : sum = [s \in SUBSET Compared(fs) |->
                           IF s = {} THEN 0
                           ELSE Diff(fs, One(s)) + sum[s \ {One(s)}]]
<1> DEFINE S == Compared(fs)
           Has(m) == \E sum : sum = [s \in SUBSET S |-> sum[s]] /\ SumUpTo(fs, sum, m)
           T == {m \in Nat : ~Has(m)}
<1>1. ASSUME T # {} PROVE FALSE
  <2>1. PICK m \in T : \A k \in T : m <= k
    BY <1>1, LeastNumber
  <2>2. Has(0)
    <3> DEFINE g == [s \in SUBSET S |-> 0]
    <3>1. g = [s \in SUBSET S |-> g[s]] /\ \A s \in SUBSET S : g[s] = 0
      OBVIOUS
    <3> HIDE DEF g
    <3>2. ASSUME NEW s \in SUBSET S, Cardinality(s) <= 0 PROVE s = {}
      <4>1. IsFiniteSet(s) /\ Cardinality(s) \in Nat
        BY FS_Subset, FS_CardinalityType
      <4>2. Cardinality(s) = 0
        BY <3>2, <4>1
      <4> QED BY <4>1, <4>2, FS_EmptySet
    <3>3. SumUpTo(fs, g, 0)
      BY <3>1, <3>2 DEF SumUpTo
    <3> QED BY <3>1, <3>3
  <2>3. m \in Nat /\ ~Has(m)
    BY <2>1
  <2>4. m # 0 /\ m - 1 \in Nat
    <3> HIDE DEF Has
    <3> QED BY <2>2, <2>3
  <2>5. Has(m - 1)
    <3> HIDE DEF Has
    <3> QED BY <2>1, <2>3, <2>4
  <2>6. PICK sum : sum = [s \in SUBSET S |-> sum[s]] /\ SumUpTo(fs, sum, m - 1)
    BY <2>5
  <2> DEFINE g == [s \in SUBSET S |->
                     IF Cardinality(s) <= m - 1 THEN sum[s]
                     ELSE Diff(fs, One(s)) + sum[s \ {One(s)}]]
  <2>7. g = [s \in SUBSET S |-> g[s]]
    OBVIOUS
  <2>8. \A s \in SUBSET S : g[s] = IF Cardinality(s) <= m - 1 THEN sum[s]
                                   ELSE Diff(fs, One(s)) + sum[s \ {One(s)}]
    OBVIOUS
  <2> HIDE DEF g
  <2>9. ASSUME NEW s \in SUBSET S, Cardinality(s) <= m
        PROVE  g[s] = IF s = {} THEN 0 ELSE Diff(fs, One(s)) + g[s \ {One(s)}]
    <3>1. CASE s = {}
      <4>1. Cardinality(s) = 0
        BY <3>1, FS_EmptySet
      <4>2. Cardinality(s) <= m - 1
        BY <2>4, <4>1
      <4>3. sum[s] = 0
        BY <2>6, <3>1, <4>2 DEF SumUpTo
      <4> QED BY <2>8, <3>1, <4>2, <4>3
    <3>2. CASE s # {}
      <4> DEFINE rest == s \ {One(s)}
      <4>1. rest \in SUBSET S /\ Cardinality(rest) <= m - 1
        BY <2>3, <2>9, <3>2, RestIsSmaller
      <4>2. g[rest] = sum[rest]
        BY <2>8, <4>1
      <4>3. CASE Cardinality(s) <= m - 1
        <5>1. g[s] = sum[s]
          BY <2>8, <4>3
        <5>2. sum[s] = Diff(fs, One(s)) + sum[rest]
          BY <2>6, <3>2, <4>3 DEF SumUpTo
        <5> QED BY <3>2, <4>2, <5>1, <5>2
      <4>4. CASE ~(Cardinality(s) <= m - 1)
        <5>1. g[s] = Diff(fs, One(s)) + sum[rest]
          BY <2>8, <4>4
        <5> QED BY <3>2, <4>2, <5>1
      <4> QED BY <4>3, <4>4
    <3> QED BY <3>1, <3>2
  <2>10. SumUpTo(fs, g, m)
    BY <2>9 DEF SumUpTo
  <2> QED BY <2>3, <2>7, <2>10
<1>2. Cardinality(S) \in Nat
  BY FS_CardinalityType
<1>3. Has(Cardinality(S))
  BY <1>1, <1>2
<1>4. PICK sum : sum = [s \in SUBSET S |-> sum[s]] /\ SumUpTo(fs, sum, Cardinality(S))
  BY <1>3
<1>5. ASSUME NEW s \in SUBSET S
      PROVE  sum[s] = IF s = {} THEN 0 ELSE Diff(fs, One(s)) + sum[s \ {One(s)}]
  BY <1>4, FS_Subset DEF SumUpTo
<1>6. sum = [s \in SUBSET S |-> IF s = {} THEN 0
                                ELSE Diff(fs, One(s)) + sum[s \ {One(s)}]]
  BY <1>4, <1>5
<1> QED BY <1>6

\* Differences that are all at most b sum up to at most b for each.
LEMMA SumBound ==
  ASSUME NEW fs, IsFiniteSet(Compared(fs)), NEW b \in Nat,
         \A i \in Compared(fs) : Diff(fs, i) \in 0..b
  PROVE  MapThenSumSet(LAMBDA i : Diff(fs, i), Compared(fs))
           \in 0..(b * Cardinality(Compared(fs)))
<1> DEFINE S == Compared(fs)
           Eq(g) == g = [s \in SUBSET S |-> IF s = {} THEN 0
                                            ELSE Diff(fs, One(s)) + g[s \ {One(s)}]]
           sum == CHOOSE g : Eq(g)
<1>1. MapThenSumSet(LAMBDA i : Diff(fs, i), S) = sum[S]
  BY DEF MapThenSumSet, MapThenFoldSet, One
<1>2. Eq(sum)
  BY SumExists
<1> HIDE DEF sum
<1>3. \A s \in SUBSET S : sum[s] = IF s = {} THEN 0
                                   ELSE Diff(fs, One(s)) + sum[s \ {One(s)}]
  BY <1>2
<1> DEFINE Fits(s) == sum[s] \in Nat /\ sum[s] <= b * Cardinality(s)
           T == {n \in Nat : \E s \in SUBSET S : Cardinality(s) = n /\ ~Fits(s)}
<1>4. ASSUME T # {} PROVE FALSE
  <2>1. PICK n \in T : \A k \in T : n <= k
    BY <1>4, LeastNumber
  <2>2. PICK s \in SUBSET S : Cardinality(s) = n /\ ~Fits(s)
    BY <2>1
  <2>3. n \in Nat
    BY <2>1
  <2>4. s # {}
    <3>1. CASE s = {}
      <4>1. Cardinality(s) = 0 /\ sum[s] = 0
        BY <1>3, <3>1, FS_EmptySet
      <4> QED BY <2>2, <4>1
    <3> QED BY <3>1
  <2> DEFINE rest == s \ {One(s)}
  <2>5. One(s) \in S /\ rest \in SUBSET S /\ Cardinality(rest) = n - 1
    BY <2>2, <2>4, RestIsSmaller
  <2>6. n - 1 \in Nat
    BY <2>5, FS_Subset, FS_CardinalityType
  <2>7. Fits(rest)
    <3> HIDE DEF Fits, rest
    <3>1. n - 1 \notin T
      <4> HIDE DEF T
      <4> QED BY <2>1, <2>3
    <3> QED BY <2>5, <2>6, <3>1
  <2>8. sum[s] = Diff(fs, One(s)) + sum[rest]
    BY <1>3, <2>4
  <2>9. Diff(fs, One(s)) \in 0..b
    BY <2>5
  <2>10. Fits(s)
    <3> HIDE DEF rest
    <3>1. b * n = b * (n - 1) + b
      BY <2>3
    <3>2. b * (n - 1) \in Nat
      BY <2>6
    <3> QED BY <2>2, <2>5, <2>6, <2>7, <2>8, <2>9, <3>1, <3>2
  <2> QED BY <2>2, <2>10
<1>5. Cardinality(S) \in Nat
  BY FS_CardinalityType
<1>6. Fits(S)
  <2> HIDE DEF Fits
  <2> QED BY <1>4, <1>5
<1> QED BY <1>1, <1>5, <1>6

-----------------------------------------------------------------------------
\* Frames differ by whole numbers of steps, and only finitely many are compared.
Numbered(fs) ==
  /\ fs \in Seq({fs[i] : i \in DOMAIN fs})
  /\ \A i \in DOMAIN fs : fs[i].level \in Nat

LEMMA ComparedFinite ==
  ASSUME NEW fs, Numbered(fs)
  PROVE  /\ Compared(fs) \in SUBSET (2..Len(fs)) /\ IsFiniteSet(Compared(fs))
         /\ \A i \in Compared(fs) : Diff(fs, i) \in Nat
<1>1. Len(fs) \in Nat /\ DOMAIN fs = 1..Len(fs)
  BY DEF Numbered
<1>2. Compared(fs) \in SUBSET (2..Len(fs))
  BY DEF Compared
<1>3. IsFiniteSet(2..Len(fs))
  BY <1>1, FS_Interval
<1>4. IsFiniteSet(Compared(fs))
  BY <1>2, <1>3, FS_Subset
<1>5. ASSUME NEW i \in Compared(fs) PROVE Diff(fs, i) \in Nat
  <2>1. i \in DOMAIN fs /\ i - 1 \in DOMAIN fs
    BY <1>1, <1>2
  <2>2. fs[i].level \in Nat /\ fs[i - 1].level \in Nat
    BY <2>1 DEF Numbered
  <2> QED BY <2>2 DEF Diff, Abs
<1> QED BY <1>2, <1>4, <1>5

\* The greatest of two numbers, and the least.
LEMMA MaxOfTwo ==
  ASSUME NEW a \in Int, NEW b \in Int
  PROVE  Max({a, b}) = IF a <= b THEN b ELSE a
BY DEF Max

LEMMA MinOfTwo ==
  ASSUME NEW a \in Int, NEW b \in Int
  PROVE  Min({a, b}) = IF a <= b THEN a ELSE b
BY DEF Min

\* There is a largest difference if there is one at all.
LEMMA LargestDiff ==
  ASSUME NEW fs, Numbered(fs), Diffs(fs) # {}
  PROVE  /\ Max(Diffs(fs)) \in Diffs(fs) /\ Diffs(fs) \in SUBSET Nat
         /\ \A d \in Diffs(fs) : d <= Max(Diffs(fs))
<1> DEFINE S == Compared(fs)
           p == [i \in S |-> Diff(fs, i)]
<1>1. IsFiniteSet(S) /\ S # {} /\ \A i \in S : Diff(fs, i) \in Nat
  BY ComparedFinite DEF Diffs
<1>2. p \in [S -> Nat] /\ \A i \in S : p[i] = Diff(fs, i)
  BY <1>1
<1>3. PICK x \in S : \A y \in S : p[y] <= p[x]
  <2> HIDE DEF p, S
  <2> QED BY <1>1, <1>2, LargestExists
<1>4. \A y \in S : Diff(fs, y) \in Nat /\ Diff(fs, x) \in Nat /\ Diff(fs, x) >= Diff(fs, y)
  BY <1>1, <1>2, <1>3
<1>5. Diff(fs, x) \in Diffs(fs) /\ \A d \in Diffs(fs) : Diff(fs, x) >= d
  BY <1>4 DEF Diffs
<1>6. Max(Diffs(fs)) \in Diffs(fs) /\ \A d \in Diffs(fs) : Max(Diffs(fs)) >= d
  BY <1>5 DEF Max
<1>7. Diffs(fs) \in SUBSET Nat
  BY <1>1 DEF Diffs
<1> QED BY <1>6, <1>7

LEMMA TimesKeepsOrder ==
  ASSUME NEW k \in Nat \ {0}, NEW x \in Nat, NEW y \in Nat
  PROVE  /\ k * x \in Nat /\ k * y \in Nat
         /\ x <= y => k * x <= k * y
         /\ x < y => k * x < k * y
<1>1. k * x \in Nat /\ k * y \in Nat
  OBVIOUS
<1>2. ASSUME x <= y PROVE k * x <= k * y
  <2>1. PICK z \in Nat : y = x + z
    <3>1. y - x \in Nat /\ y = x + (y - x)
      BY <1>2
    <3> QED BY <3>1
  <2>2. k * y = k * x + k * z /\ k * z \in Nat
    BY <2>1
  <2> QED BY <1>1, <2>2
<1>3. ASSUME x < y PROVE k * x < k * y
  <2>1. PICK z \in Nat : y = x + 1 + z
    <3>1. y - x - 1 \in Nat /\ y = x + 1 + (y - x - 1)
      BY <1>3
    <3> QED BY <3>1
  <2>2. k * y = k * x + k + k * z /\ k * z \in Nat
    BY <2>1
  <2> QED BY <1>1, <2>2
<1> QED BY <1>1, <1>2, <1>3

\* If no two neighbours differ by more than b, every signal is small.
LEMMA SmallSignals ==
  ASSUME NEW fs, Numbered(fs), NEW b \in Nat, \A d \in Diffs(fs) : d <= b
  PROVE  /\ Pairs(fs) \in Nat \ {0}
         /\ TextureNumerator(fs) \in Nat /\ TextureNumerator(fs) <= Pairs(fs) * b
         /\ HeadPoseVariation(fs) \in 0..Scale /\ HeadPoseVariation(fs) <= b
<1> DEFINE S == Compared(fs)
           n == Cardinality(S)
           m == Pairs(fs)
           sum == MapThenSumSet(LAMBDA i : Diff(fs, i), S)
<1>1. /\ IsFiniteSet(S) /\ n \in Nat /\ \A i \in S : Diff(fs, i) \in Nat
  BY ComparedFinite, FS_CardinalityType
<1>2. \A i \in S : Diff(fs, i) \in 0..b
  BY <1>1 DEF Diffs
<1>3. sum \in 0..(b * n)
  BY <1>1, <1>2, SumBound
<1>4. m \in Nat \ {0} /\ n <= m
  BY <1>1, MaxOfTwo DEF Pairs
<1>5. TextureNumerator(fs) \in Nat /\ TextureNumerator(fs) <= m * b
  <2>1. TextureNumerator(fs) = Min({sum, TextureDenominator(fs)})
    BY DEF TextureNumerator
  <2>2. b * n \in Nat /\ m * b \in Nat /\ b * n <= m * b
    <3> HIDE DEF n, m
    <3>1. PICK k \in Nat : m = n + k
      <4>1. m - n \in Nat /\ m = n + (m - n)
        BY <1>1, <1>4
      <4> QED BY <4>1
    <3>2. m * b = b * n + b * k /\ b * n \in Nat /\ b * k \in Nat
      BY <1>1, <3>1
    <3> QED BY <3>2
  <2>3. sum \in Nat /\ sum <= m * b
    <3> HIDE DEF n, m, sum
    <3> QED BY <1>3, <2>2
  <2>4. TextureDenominator(fs) \in Nat
    BY <1>4, ScaleAssumption DEF TextureDenominator
  <2> HIDE DEF n, m, sum
  <2> QED BY <2>1, <2>2, <2>3, <2>4, MinOfTwo
<1>6. HeadPoseVariation(fs) \in 0..Scale /\ HeadPoseVariation(fs) <= b
  <2>1. CASE Diffs(fs) = {}
    BY <2>1, ScaleAssumption DEF HeadPoseVariation, Capped
  <2>2. CASE Diffs(fs) # {}
    <3>1. Max(Diffs(fs)) \in 0..b
      BY <2>2, LargestDiff
    <3>2. HeadPoseVariation(fs) = Min({Max(Diffs(fs)), Scale})
      BY <2>2 DEF HeadPoseVariation, Capped
    <3>3. ASSUME NEW k \in 0..b
          PROVE  Min({k, Scale}) \in 0..Scale /\ Min({k, Scale}) <= b
      BY MinOfTwo, ScaleAssumption
    <3> QED BY <3>1, <3>2, <3>3
  <2> QED BY <2>1, <2>2
<1> QED BY <1>4, <1>5, <1>6

\* The score of 0.65, for a sum of signals and the unit Scale * Pairs.
Reaches(sum, unit, model) ==
  IF model THEN 10 * sum >= 12250 * unit ELSE 14 * sum >= 19250 * unit

\* The fusion in multiples of u = Scale * Pairs: b is the blink's share of the sum s,
\* v the movement's before its weight.
InUnits(fs, model, u, v, b, s) ==
  /\ u = Pairs(fs) * Scale /\ v = Pairs(fs) * HeadPoseVariation(fs)
  /\ BlinkDetected(fs) => b = 750 * u
  /\ ~BlinkDetected(fs) => b = 0
  /\ s = b + 1250 * v + 15 * TextureNumerator(fs)
  /\ FusionPasses(fs, model) <=> Reaches(s, u, model)

LEMMA FusionUnits ==
  ASSUME NEW fs, Pairs(fs) \in Nat \ {0}, HeadPoseVariation(fs) \in Nat,
         TextureNumerator(fs) \in Nat, NEW model \in BOOLEAN
  PROVE  \E u \in Nat \ {0}, v \in Nat, b \in Nat, s \in Nat :
           InUnits(fs, model, u, v, b, s)
<1> DEFINE m == Pairs(fs)
           u == m * Scale
           v == m * HeadPoseVariation(fs)
           t == TextureNumerator(fs)
<1>1. u \in Nat \ {0} /\ v \in Nat
  BY ScaleAssumption
<1>2. TextureDenominator(fs) = 50 * u
  BY ScaleAssumption DEF TextureDenominator
<1>3. 25 * 50 * m * HeadPoseVariation(fs) = 1250 * v
  OBVIOUS
<1> HIDE DEF u, v
<1>4. PICK b \in Nat : /\ BlinkDetected(fs) => b = 750 * u
                       /\ ~BlinkDetected(fs) => b = 0
                       /\ Signals(fs) = b + 1250 * v + 15 * t
  <2>1. CASE BlinkDetected(fs)
    <3>1. 750 * u \in Nat /\ Signals(fs) = 750 * u + 1250 * v + 15 * t
      BY <1>1, <1>2, <1>3, <2>1 DEF Signals
    <3> QED BY <2>1, <3>1
  <2>2. CASE ~BlinkDetected(fs)
    <3>1. Signals(fs) = 0 + 1250 * v + 15 * t
      BY <1>1, <1>2, <1>3, <2>2 DEF Signals
    <3> QED BY <2>2, <3>1
  <2> QED BY <2>1, <2>2
<1>5. Signals(fs) \in Nat
  BY <1>1, <1>4
<1>6. FusionPasses(fs, model) <=> Reaches(Signals(fs), u, model)
  <2>1. CASE model
    BY <1>1, <1>2, <1>5, <2>1 DEF FusionPasses, Reaches
  <2>2. CASE ~model
    BY <1>1, <1>2, <1>5, <2>2 DEF FusionPasses, Reaches
  <2> QED BY <2>1, <2>2
<1>7. InUnits(fs, model, u, v, b, Signals(fs))
  BY <1>4, <1>6 DEF InUnits, u, v
<1> QED BY <1>1, <1>4, <1>5, <1>7

\* A scan whose signals add up to a pass has two neighbouring frames that differ, by
\* more than 5 levels if the model does not vouch for it.
LEMMA FusionMeansMovement ==
  ASSUME NEW fs, Numbered(fs), NEW model \in BOOLEAN, FusionPasses(fs, model)
  PROVE  ReferenceLiveness(fs, model)
<1> DEFINE m == Pairs(fs)
           h == HeadPoseVariation(fs)
           t == TextureNumerator(fs)
<1>1. SUFFICES ASSUME ~ReferenceLiveness(fs, model) PROVE FALSE
  OBVIOUS
<1>2. Scale \in Nat \ {0} /\ \A d \in Diffs(fs) : d \in Nat
  BY ScaleAssumption, ComparedFinite DEF Diffs
<1>3. PICK b \in Nat :
        /\ \A d \in Diffs(fs) : d <= b
        /\ IF model THEN 253 * b < 245 * Scale ELSE b <= 5 * Scale
  <2>1. CASE Diffs(fs) = {}
    <3>1. IF model THEN 253 * 0 < 245 * Scale ELSE 0 <= 5 * Scale
      BY <1>2
    <3> QED BY <2>1, <3>1
  <2>2. CASE Diffs(fs) # {}
    <3>1. /\ Max(Diffs(fs)) \in Diffs(fs) /\ Max(Diffs(fs)) \in Nat
          /\ \A d \in Diffs(fs) : d <= Max(Diffs(fs))
      BY <2>2, LargestDiff
    <3>2. \A d \in Diffs(fs) :
            IF model THEN ~(253 * d >= 245 * Scale) ELSE ~(d > 5 * Scale)
      BY <1>1 DEF ReferenceLiveness
    <3> QED BY <1>2, <3>1, <3>2
  <2> QED BY <2>1, <2>2
<1>4. /\ m \in Nat \ {0} /\ t \in Nat /\ t <= m * b
      /\ h \in 0..Scale /\ h <= b /\ h \in Nat
  BY <1>2, <1>3, SmallSignals
<1>5. PICK u \in Nat \ {0}, v \in Nat, blink \in Nat, s \in Nat :
        InUnits(fs, model, u, v, blink, s)
  <2>1. Pairs(fs) \in Nat \ {0} /\ HeadPoseVariation(fs) \in Nat
        /\ TextureNumerator(fs) \in Nat
    BY <1>4
  <2> QED BY <2>1, FusionUnits
<1>6. /\ u = m * Scale /\ v = m * h
      /\ ~BlinkDetected(fs) => blink = 0
      /\ s = blink + 1250 * v + 15 * t
      /\ Reaches(s, u, model)
  BY <1>5, Zenon DEF InUnits
<1> HIDE DEF m, h, t
<1>7. v <= u /\ v <= m * b /\ m * b \in Nat
  BY <1>2, <1>4, <1>6, TimesKeepsOrder
<1>8. ~BlinkDetected(fs)
  <2>1. b <= 5 * Scale
    BY <1>2, <1>3
  <2> QED BY <1>2, <1>3, <2>1 DEF BlinkDetected
<1>9. CASE model
  <2>1. m * (253 * b) < m * (245 * Scale)
    BY <1>2, <1>3, <1>4, <1>9, TimesKeepsOrder
  <2>2. m * (253 * b) = 253 * (m * b) /\ m * (245 * Scale) = 245 * u
    BY <1>2, <1>4, <1>6
  <2>3. PICK w \in Nat : w = m * b
    BY <1>7
  <2>4. 253 * w < 245 * u /\ v <= w /\ t <= w
    BY <1>4, <1>7, <2>1, <2>2, <2>3
  <2>5. 10 * (1250 * v + 15 * t) >= 12250 * u
    BY <1>4, <1>6, <1>8, <1>9 DEF Reaches
  <2> QED BY <1>4, <1>6, <2>3, <2>4, <2>5
<1>10. CASE ~model
  <2>1. m * b <= m * (5 * Scale)
    BY <1>2, <1>3, <1>4, <1>10, TimesKeepsOrder
  <2>2. m * (5 * Scale) = 5 * u
    BY <1>2, <1>4, <1>6
  <2>3. v <= u /\ t <= 5 * u
    BY <1>4, <1>7, <2>1, <2>2
  <2>4. 14 * (1250 * v + 15 * t) >= 19250 * u
    BY <1>4, <1>6, <1>8, <1>10 DEF Reaches
  <2> QED BY <1>4, <1>6, <2>3, <2>4
<1> QED BY <1>9, <1>10

\* And one with neighbours that differ by a whole level passes with the model, one with
\* neighbours more than 5 levels apart without it, whatever the texture.
LEMMA MovementPasses ==
  ASSUME NEW fs, Numbered(fs), NEW model \in BOOLEAN, EnoughMovement(fs, model)
  PROVE  FusionPasses(fs, model)
<1> DEFINE b == Max(Diffs(fs))
           m == Pairs(fs)
           t == TextureNumerator(fs)
<1>1. PICK d \in Diffs(fs) : IF model THEN d >= Scale ELSE d > 5 * Scale
  BY DEF EnoughMovement
<1>2. b \in Nat /\ b \in Diffs(fs) /\ d \in Nat /\ d <= b /\ \A x \in Diffs(fs) : x <= b
  BY <1>1, LargestDiff
<1> HIDE DEF b
<1>3. Scale \in Nat \ {0} /\ b >= Scale
  BY <1>1, <1>2, ScaleAssumption
<1>4. m \in Nat \ {0} /\ t \in Nat
  BY <1>2, SmallSignals
<1>5. HeadPoseVariation(fs) = Scale
  <2>1. HeadPoseVariation(fs) = Min({b, Scale})
    BY <1>1 DEF HeadPoseVariation, Capped, b
  <2> QED BY <1>2, <1>3, <2>1, MinOfTwo
<1>6. PICK u \in Nat \ {0}, v \in Nat, blink \in Nat, s \in Nat :
        InUnits(fs, model, u, v, blink, s)
  <2>1. Pairs(fs) \in Nat \ {0} /\ HeadPoseVariation(fs) \in Nat
        /\ TextureNumerator(fs) \in Nat
    BY <1>3, <1>4, <1>5
  <2> QED BY <2>1, FusionUnits
<1>7. /\ u = m * Scale /\ v = m * Scale
      /\ BlinkDetected(fs) => blink = 750 * u
      /\ s = blink + 1250 * v + 15 * t
      /\ FusionPasses(fs, model) <=> Reaches(s, u, model)
  BY <1>5, <1>6, Zenon DEF InUnits
<1> HIDE DEF m, t
<1>8. v = u
  BY <1>7
<1>9. CASE model
  <2>1. Reaches(s, u, model)
    BY <1>4, <1>7, <1>8, <1>9 DEF Reaches
  <2> QED BY <1>7, <2>1
<1>10. CASE ~model
  <2>1. BlinkDetected(fs)
    BY <1>1, <1>10 DEF BlinkDetected
  <2>2. blink = 750 * u
    BY <1>7, <2>1
  <2>3. Reaches(s, u, model)
    BY <1>4, <1>7, <1>8, <1>10, <2>2 DEF Reaches
  <2> QED BY <1>7, <2>3
<1> QED BY <1>9, <1>10

\* LivenessChecker.check adds up three signals and a weight; of the mean differences
\* of uploads, in whatever steps and however many, this comes to one comparison of
\* neighbouring frames.  Without the model a scan passes exactly if two are more
\* than 5 levels apart: the blink signal decides.  With it, a difference of one level
\* is enough and one of 245 / 253 of a level is needed.
THEOREM SignalsMeanMovement ==
  ASSUME NEW fs, Numbered(fs), NEW model \in BOOLEAN
  PROVE  /\ ~model => (FusionPasses(fs, model) <=> BlinkDetected(fs))
         /\ FusionPasses(fs, model) => ReferenceLiveness(fs, model)
         /\ EnoughMovement(fs, model) => FusionPasses(fs, model)
<1>1. /\ FusionPasses(fs, model) => ReferenceLiveness(fs, model)
      /\ EnoughMovement(fs, model) => FusionPasses(fs, model)
  BY FusionMeansMovement, MovementPasses
<1>2. ~model => /\ ReferenceLiveness(fs, model) <=> BlinkDetected(fs)
                /\ EnoughMovement(fs, model) <=> BlinkDetected(fs)
  BY DEF ReferenceLiveness, EnoughMovement, BlinkDetected
<1> QED BY <1>1, <1>2

-----------------------------------------------------------------------------
\* The face a frame stands for is one the detector is confident of.
LEMMA DominantIsConfident ==
  ASSUME NEW frame, IsFiniteSet(frame.faces),
         \A d \in frame.faces : d.conf \in Nat /\ d.area \in Nat,
         Confident(frame) # {}
  PROVE  DominantFace(frame) \in Confident(frame)
<1> DEFINE S == Confident(frame)
           p == [d \in S |-> Prominence(d)]
<1>1. IsFiniteSet(S)
  BY FS_Subset DEF Confident
<1>2. \A d \in S : Prominence(d) \in Nat
  BY DEF Confident, Prominence
<1>3. p \in [S -> Nat] /\ (\A d \in S : p[d] = Prominence(d)) /\ S # {}
  BY <1>2
<1> HIDE DEF p
<1>4. \E d \in S : \A c \in S : p[c] <= p[d]
  <2> HIDE DEF S
  <2> QED BY <1>1, <1>3, LargestExists
<1>5. \E d \in S : \A c \in S : Prominence(c) <= Prominence(d)
  BY <1>3, <1>4
<1> QED BY <1>5 DEF DominantFace

\* A scan that yields a probe shows movement, and a face of quality in a readable frame.
LEMMA PassingIsLive ==
  ASSUME NEW frames, IsUpload(frames), NEW model \in BOOLEAN, ProbeOf(frames, model) # {}
  PROVE  /\ ReferenceLiveness(Decoded(frames), model)
         /\ \E i \in DOMAIN frames : \E d \in frames[i].faces :
              frames[i].readable /\ QualityPassed(d)
<1> DEFINE fs == Decoded(frames)
           F == {frames[i] : i \in DOMAIN frames}
<1>1. /\ fs \in Seq(F)
      /\ \A k \in DOMAIN fs : \E i \in DOMAIN frames :
           fs[k] = frames[i] /\ frames[i].readable
  BY DecodedKeeps
<1>2. GoodFaces(fs) # {} /\ FusionPasses(fs, model)
  BY DEF ProbeOf, LivenessPassed
<1> HIDE DEF fs
<1>3. Numbered(fs)
  <2>1. fs \in Seq({fs[k] : k \in DOMAIN fs})
    <3>1. Len(fs) \in Nat /\ DOMAIN fs = 1..Len(fs) /\ fs = [k \in 1..Len(fs) |-> fs[k]]
      BY <1>1
    <3> QED BY <3>1
  <2>2. \A k \in DOMAIN fs : fs[k].level \in Nat
    BY <1>1 DEF IsUpload
  <2> QED BY <2>1, <2>2 DEF Numbered
<1>4. ReferenceLiveness(fs, model)
  BY <1>2, <1>3, FusionMeansMovement
<1>5. PICK k \in DOMAIN fs :
        Confident(fs[k]) # {} /\ QualityPassed(DominantFace(fs[k]))
  BY <1>2 DEF GoodFaces, UsableFaces
<1>6. PICK i \in DOMAIN frames : fs[k] = frames[i] /\ frames[i].readable
  BY <1>1, <1>5
<1>7. DominantFace(fs[k]) \in Confident(fs[k])
  <2>1. /\ IsFiniteSet(frames[i].faces)
        /\ \A d \in frames[i].faces : d.conf \in Nat /\ d.area \in Nat
    BY <1>6 DEF IsUpload
  <2> QED BY <1>5, <1>6, <2>1, DominantIsConfident
<1>8. DominantFace(fs[k]) \in frames[i].faces
  BY <1>6, <1>7 DEF Confident
<1> QED BY <1>4, <1>5, <1>6, <1>8 DEF fs
=============================================================================
