------------------------- MODULE LatencyReportProofs -------------------------
(***************************************************************************)
(* What percentile() of the report returns, for tables of any length, and  *)
(* how it relates to the percentile the phone shows.                       *)
(***************************************************************************)
EXTENDS LatencyReport, TLAPS

\* What the provers know of a sorted list of samples.
SortedList(s) ==
    /\ s \in Seq(Int) /\ s # <<>>
    /\ \A i, j \in 1..Len(s) : i <= j => s[i] <= s[j]

----------------------------------------------------------------------------
\* Rounding moves a number by half a unit at most.
LEMMA RoundNear ==
    ASSUME NEW a \in Nat
    PROVE  /\ Round(a, 100) \in Nat
           /\ 2 * a - 100 <= 200 * Round(a, 100)
           /\ 200 * Round(a, 100) <= 2 * a + 100
  <1>1. /\ a \div 100 \in Nat /\ a % 100 \in 0..99
        /\ a = 100 * (a \div 100) + (a % 100)
    OBVIOUS
  <1>2. QED
    BY <1>1 DEF Round

\* Rounding keeps the order.
LEMMA RoundMonotone ==
    ASSUME NEW a \in Nat, NEW b \in Nat, a <= b
    PROVE  Round(a, 100) <= Round(b, 100)
  <1>1. /\ a \div 100 \in Nat /\ a % 100 \in 0..99 /\ a = 100 * (a \div 100) + (a % 100)
        /\ b \div 100 \in Nat /\ b % 100 \in 0..99 /\ b = 100 * (b \div 100) + (b % 100)
    OBVIOUS
  <1>2. CASE a \div 100 = b \div 100
    BY <1>1, <1>2 DEF Round
  <1>3. CASE a \div 100 + 1 <= b \div 100
    BY <1>1, <1>3 DEF Round
  <1>4. QED
    BY <1>1, <1>2, <1>3

\* A percentage of a whole lies between zero and the whole, and grows with it.
LEMMA Share ==
    ASSUME NEW n \in Nat \ {0}, NEW p \in 0..100
    PROVE  (n - 1) * p \in 0..(100 * (n - 1))
  <1>1. (n - 1) * p >= 0 /\ (n - 1) * p <= (n - 1) * 100
    <2>1. n - 1 \in Nat
      OBVIOUS
    <2>2. \A m, q \in Nat : m * q \in Nat
      OBVIOUS
    <2>3. (n - 1) * (100 - p) \in Nat
      BY <2>1, <2>2
    <2>4. (n - 1) * (100 - p) = (n - 1) * 100 - (n - 1) * p
      OBVIOUS
    <2>5. QED
      BY <2>1, <2>2, <2>3, <2>4
  <1>2. QED
    BY <1>1

LEMMA ShareGrows ==
    ASSUME NEW n \in Nat \ {0}, NEW p \in 0..100, NEW q \in 0..100, p <= q
    PROVE  (n - 1) * p <= (n - 1) * q
  <1>1. n - 1 \in Nat /\ q - p \in Nat
    OBVIOUS
  <1>2. \A m, k \in Nat : m * k \in Nat
    OBVIOUS
  <1>3. (n - 1) * (q - p) \in Nat
    BY <1>1, <1>2
  <1>4. (n - 1) * (q - p) = (n - 1) * q - (n - 1) * p
    OBVIOUS
  <1>5. QED
    BY <1>3, <1>4

----------------------------------------------------------------------------
\* The index percentile() computes is one of the list, for every length and
\* percentage: sorted_values[idx] never raises and never counts from the end.
THEOREM RankInRange ==
    ASSUME NEW n \in Nat \ {0}, NEW p \in 0..100
    PROVE  Rank(n, p) \in 0..(n - 1)
  <1>1. (n - 1) * p \in 0..(100 * (n - 1))
    BY Share
  <1>2. DEFINE a == (n - 1) * p
  <1>3. a \in Nat /\ a <= 100 * (n - 1)
    BY <1>1
  <1>4. Round(a, 100) \in Nat
    BY <1>3, RoundNear
  <1>5. Round(a, 100) <= Round(100 * (n - 1), 100)
    BY <1>3, RoundMonotone
  <1>6. Round(100 * (n - 1), 100) = n - 1
    BY DEF Round
  <1>7. QED
    BY <1>4, <1>5, <1>6 DEF Rank

\* percentile() returns a sample.
THEOREM PercentileIsSample ==
    ASSUME NEW s, SortedList(s), NEW p \in 0..100
    PROVE  \E i \in 1..Len(s) : Percentile(s, p) = s[i]
  <1>1. Len(s) \in Nat \ {0}
    BY DEF SortedList
  <1>2. Rank(Len(s), p) \in 0..(Len(s) - 1)
    BY <1>1, RankInRange
  <1>3. Rank(Len(s), p) + 1 \in 1..Len(s)
    BY <1>1, <1>2
  <1>4. QED
    BY <1>3 DEF Percentile

\* The columns of every report are in order: p50 <= p90 <= p95 <= p99.
THEOREM PercentileMonotone ==
    ASSUME NEW s, SortedList(s), NEW p \in 0..100, NEW q \in 0..100, p <= q
    PROVE  Percentile(s, p) <= Percentile(s, q)
  <1>1. Len(s) \in Nat \ {0}
    BY DEF SortedList
  <1>2. Rank(Len(s), p) \in 0..(Len(s) - 1) /\ Rank(Len(s), q) \in 0..(Len(s) - 1)
    BY <1>1, RankInRange
  <1>3. Rank(Len(s), p) <= Rank(Len(s), q)
    <2>1. (Len(s) - 1) * p \in Nat /\ (Len(s) - 1) * q \in Nat
      BY <1>1, Share
    <2>2. (Len(s) - 1) * p <= (Len(s) - 1) * q
      BY <1>1, ShareGrows
    <2>3. QED
      BY <2>1, <2>2, RoundMonotone DEF Rank
  <1>4. /\ Rank(Len(s), p) + 1 \in 1..Len(s)
        /\ Rank(Len(s), q) + 1 \in 1..Len(s)
        /\ Rank(Len(s), p) + 1 <= Rank(Len(s), q) + 1
    BY <1>1, <1>2, <1>3
  <1>5. \A i, j \in 1..Len(s) : i <= j => s[i] <= s[j]
    BY DEF SortedList
  <1>6. QED
    BY <1>4, <1>5 DEF Percentile

\* A gate on a percentile says how many samples may exceed it: passing it
\* means that only samples after the index may, and failing it that the sample
\* at the index and all after it do.
THEOREM GateCountsLateSamples ==
    ASSUME NEW s, SortedList(s), NEW p \in 0..100, NEW target \in Int
    PROVE  Percentile(s, p) <= target
               <=> {i \in 1..Len(s) : s[i] > target} \subseteq (Rank(Len(s), p) + 2)..Len(s)
  <1>1. Len(s) \in Nat \ {0}
    BY DEF SortedList
  <1>2. Rank(Len(s), p) \in 0..(Len(s) - 1)
    BY <1>1, RankInRange
  <1>3. PICK k \in 1..Len(s) : k = Rank(Len(s), p) + 1
    BY <1>1, <1>2
  <1>4. Percentile(s, p) = s[k]
    BY <1>3 DEF Percentile
  <1>5. ASSUME s[k] <= target
        PROVE  {i \in 1..Len(s) : s[i] > target} \subseteq (k + 1)..Len(s)
    BY <1>1, <1>5 DEF SortedList
  <1>6. ASSUME {i \in 1..Len(s) : s[i] > target} \subseteq (k + 1)..Len(s)
        PROVE  s[k] <= target
    BY <1>1, <1>6 DEF SortedList
  <1>7. QED
    BY <1>2, <1>3, <1>4, <1>5, <1>6

\* Python rounds a half to the even neighbour, Dart upwards: the report takes
\* the phone's sample or the one just below it, so that what passed on the
\* phone passes in the report.
THEOREM PhoneWithinOneSample ==
    ASSUME NEW n \in Nat \ {0}, NEW p \in 0..100
    PROVE  PhoneRank(n, p) \in {Rank(n, p), Rank(n, p) + 1}
  <1>1. DEFINE a == (n - 1) * p
  <1>2. a \in Nat
    BY Share
  <1>3. ASSUME NEW b \in Nat
        PROVE  (2 * b + 100) \div 200 \in {Round(b, 100), Round(b, 100) + 1}
    <2>1. b \div 100 \in Nat /\ b % 100 \in 0..99 /\ b = 100 * (b \div 100) + (b % 100)
      OBVIOUS
    <2>2. QED
      BY <2>1 DEF Round
  <1>4. (2 * a + 100) \div 200 \in {Round(a, 100), Round(a, 100) + 1}
    BY <1>2, <1>3
  <1>5. 2 * a = 2 * (n - 1) * p
    OBVIOUS
  <1>6. QED
    BY <1>4, <1>5 DEF PhoneRank, Rank
=============================================================================
