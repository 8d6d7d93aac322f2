-------------------------- MODULE ServicingProofs --------------------------
(***************************************************************************)
(* Theorems about ServicingRelay, for every set of notes, every schedule   *)
(* and terms that IssuanceQueue lets through, every fee and every sequence *)
(* of payments.  IndInv is inductive; each invariant is a conjunct of it.  *)
(***************************************************************************)
EXTENDS ServicingHistory, SumLemmas, FiniteSetTheorems

----------------------------------------------------------------------------
\* The lemmas about sums, for the sum over the periods.
LEMMA PeriodCountType == PeriodCount \in Nat /\ Periods = 0..(PeriodCount - 1)
BY TermsAssumption DEF Periods

LEMMA PeriodSumType ==
  ASSUME NEW f \in [Periods -> Nat]
  PROVE  SumOf(f) \in Nat
BY PeriodCountType, SumType, Zenon DEF SumOf

LEMMA PeriodSumOfDifference ==
  ASSUME NEW f \in [Periods -> Int], NEW g \in [Periods -> Int],
         NEW d \in [0..PeriodCount -> Int], RunningDifference(d, f, g, PeriodCount)
  PROVE  SumOf(g) = SumOf(f) + d[PeriodCount]
BY PeriodCountType, SumOfDifference, Zenon DEF SumOf

LEMMA PeriodSumBump ==
  ASSUME NEW f \in [Periods -> Int], NEW g \in [Periods -> Int],
         NEW k \in Periods, NEW x \in Int,
         g[k] = f[k] + x, \A i \in Periods : i # k => g[i] = f[i]
  PROVE  SumOf(g) = SumOf(f) + x
BY PeriodCountType, SumBump, Zenon DEF SumOf

LEMMA PeriodSumZero ==
  ASSUME NEW f \in [Periods -> Int], \A i \in Periods : f[i] = 0
  PROVE  SumOf(f) = 0
BY PeriodCountType, SumZero, Zenon DEF SumOf

\* left is what remains as the loop of repay() walks the periods.
Cascades(left, room, first, value) ==
  /\ left \in [0..PeriodCount -> Nat]
  /\ \A i \in 0..PeriodCount :
        left[i] = IF i <= first THEN value
                  ELSE left[i - 1] - Taken(left[i - 1], room[i - 1])

\* What repay() hands from one period to the next is what its loop says.
LEMMA RemainingFollows ==
  ASSUME NEW room \in [Periods -> Nat], NEW first \in Periods, NEW value \in Nat
  PROVE  Cascades(Remaining(room, first, value), room, first, value)
<1> USE TermsAssumption DEF Periods
<1> DEFINE D(h) == [i \in 0..PeriodCount |->
                      IF i <= first THEN value
                      ELSE h[i - 1] - Taken(h[i - 1], room[i - 1])]
           pass == [i \in 0..(PeriodCount - 1) |-> [x \in Nat |->
                      IF i + 1 <= first THEN value ELSE x - Taken(x, room[i])]]
<1>1. PICK g \in [0..PeriodCount -> Nat] : Follows(g, PeriodCount, value, pass)
  <2>1. pass \in [0..(PeriodCount - 1) -> [Nat -> Nat]]
    BY DEF Taken
  <2>2. PeriodCount \in Nat
    OBVIOUS
  <2> HIDE DEF pass
  <2>3. \A S : \A base \in S : \A step \in [0..(PeriodCount - 1) -> [S -> S]] :
          \E g \in [0..PeriodCount -> S] : Follows(g, PeriodCount, base, step)
    BY <2>2, RecursionExists, Zenon
  <2> QED BY <2>1, <2>3, Zenon
<1>2. g = D(g)
  <2>1. ASSUME NEW i \in 0..PeriodCount
        PROVE  g[i] = IF i <= first THEN value
                      ELSE g[i - 1] - Taken(g[i - 1], room[i - 1])
    <3>1. CASE i = 0
      BY <1>1, <3>1 DEF Follows
    <3>2. CASE i # 0
      <4>1. i \in 1..PeriodCount /\ i - 1 \in 0..(PeriodCount - 1) /\ i - 1 \in 0..PeriodCount
        BY <3>2
      <4>2. g[i] = pass[i - 1][g[i - 1]]
        <5> HIDE DEF pass
        <5>1. \A k \in 1..PeriodCount : g[k] = pass[k - 1][g[k - 1]]
          BY <1>1, Zenon DEF Follows
        <5> QED BY <4>1, <5>1, Zenon
      <4>3. g[i - 1] \in Nat
        BY <4>1, <1>1
      <4>4. pass[i - 1][g[i - 1]] = IF (i - 1) + 1 <= first THEN value
                                    ELSE g[i - 1] - Taken(g[i - 1], room[i - 1])
        BY <4>1, <4>3, Zenon
      <4>5. (i - 1) + 1 = i
        OBVIOUS
      <4> HIDE DEF pass
      <4> QED BY <4>2, <4>4, <4>5, Zenon
    <3> QED BY <3>1, <3>2
  <2> QED BY <2>1, <1>1
<1>3. Remaining(room, first, value) = D(Remaining(room, first, value))
  BY <1>2, Zenon DEF Remaining
<1> DEFINE s == Remaining(room, first, value)
<1> HIDE DEF s
<1>4. /\ s = [i \in 0..PeriodCount |-> s[i]]
      /\ \A i \in 0..PeriodCount :
            s[i] = IF i <= first THEN value
                   ELSE s[i - 1] - Taken(s[i - 1], room[i - 1])
  <2>1. s = D(s)
    BY <1>3, Zenon DEF s
  <2>2. ASSUME NEW i \in 0..PeriodCount
        PROVE  s[i] = IF i <= first THEN value
                      ELSE s[i - 1] - Taken(s[i - 1], room[i - 1])
    BY <2>1
  <2>3. s = [i \in 0..PeriodCount |-> s[i]]
    BY <2>1
  <2> QED BY <2>2, <2>3
<1> DEFINE T == {k \in Nat : k <= PeriodCount => s[k] \in Nat}
<1>5. Nat \subseteq T
  <2>1. 0 \in T
    <3>1. 0 \in 0..PeriodCount /\ 0 <= first
      OBVIOUS
    <3>2. s[0] = value
      BY <3>1, <1>4, Zenon
    <3> QED BY <3>2
  <2>2. ASSUME NEW k \in Nat, k \in T PROVE k + 1 \in T
    <3> SUFFICES ASSUME k + 1 <= PeriodCount PROVE s[k + 1] \in Nat
      OBVIOUS
    <3>1. s[k] \in Nat /\ room[k] \in Nat /\ k + 1 \in 0..PeriodCount /\ (k + 1) - 1 = k
      BY <2>2
    <3>2. s[k + 1] = IF k + 1 <= first THEN value ELSE s[k] - Taken(s[k], room[k])
      BY <3>1, <1>4, Zenon
    <3> QED BY <3>1, <3>2 DEF Taken
  <2> HIDE DEF T
  <2> QED BY <2>1, <2>2, SetInduction
<1>6. s \in [0..PeriodCount -> Nat]
  <2>1. \A k \in 0..PeriodCount : s[k] \in Nat
    BY <1>5
  <2> QED BY <2>1, <1>4
<1>7. Cascades(s, room, first, value)
  BY <1>4, <1>6, Zenon DEF Cascades
<1> QED BY <1>7, Zenon DEF s

\* A repayment credits no period beyond its room, and what it credits in all
\* is what it does not leave over.
LEMMA CreditsSpread ==
  ASSUME NEW room \in [Periods -> Nat], NEW first \in Periods, NEW value \in Nat,
         NEW f \in [Periods -> Nat]
  PROVE  /\ Credits(room, first, value) \in [Periods -> Nat]
         /\ \A i \in Periods : Credits(room, first, value)[i] <= room[i]
         /\ Remaining(room, first, value)[PeriodCount] \in Nat
         /\ SumOf([i \in Periods |-> f[i] + Credits(room, first, value)[i]])
              = SumOf(f) + (value - Remaining(room, first, value)[PeriodCount])
<1> USE TermsAssumption
<1> DEFINE left == Remaining(room, first, value)
           c == Credits(room, first, value)
           d == [i \in 0..PeriodCount |-> value - left[i]]
           g == [i \in Periods |-> f[i] + c[i]]
<1>1. /\ left \in [0..PeriodCount -> Nat]
      /\ \A i \in 0..PeriodCount :
            left[i] = IF i <= first THEN value
                      ELSE left[i - 1] - Taken(left[i - 1], room[i - 1])
  <2>1. Cascades(left, room, first, value)
    BY RemainingFollows, Zenon
  <2> QED BY <2>1, Zenon DEF Cascades
<1>2. c = [i \in Periods |-> IF i < first THEN 0 ELSE Taken(left[i], room[i])]
  BY Zenon DEF Credits
<1> HIDE DEF left, c
<1>3. ASSUME NEW i \in Periods
      PROVE  c[i] \in Nat /\ c[i] <= room[i] /\ c[i] = left[i] - left[i + 1]
  <2>1. i \in 0..PeriodCount /\ i + 1 \in 0..PeriodCount /\ (i + 1) - 1 = i
    BY DEF Periods
  <2>2. left[i] \in Nat /\ left[i + 1] \in Nat /\ room[i] \in Nat
    BY <2>1, <1>1
  <2>3. c[i] = IF i < first THEN 0 ELSE Taken(left[i], room[i])
    BY <1>2
  <2>4. left[i + 1] = IF i + 1 <= first THEN value ELSE left[i] - Taken(left[i], room[i])
    BY <2>1, <1>1, Zenon
  <2>5. left[i] = value \/ ~(i <= first)
    BY <2>1, <1>1, Zenon
  <2> QED BY <2>1, <2>2, <2>3, <2>4, <2>5 DEF Taken, Periods
<1>4. c \in [Periods -> Nat]
  BY <1>2, <1>3
<1>5. d \in [0..PeriodCount -> Int] /\ g \in [Periods -> Nat]
  BY <1>1, <1>4
<1>6. RunningDifference(d, f, g, PeriodCount)
  <2>1. d[0] = 0
    BY <1>1 DEF Periods
  <2>2. ASSUME NEW i \in Periods PROVE g[i] = f[i] + d[i + 1] - d[i]
    <3>1. i \in 0..PeriodCount /\ i + 1 \in 0..PeriodCount
      BY DEF Periods
    <3>2. d[i] = value - left[i] /\ d[i + 1] = value - left[i + 1] /\ g[i] = f[i] + c[i]
      BY <3>1
    <3>3. left[i] \in Nat /\ left[i + 1] \in Nat /\ f[i] \in Nat /\ c[i] = left[i] - left[i + 1]
      BY <3>1, <1>1, <1>3
    <3> HIDE DEF d, g
    <3> QED BY <3>2, <3>3
  <2> HIDE DEF d, g
  <2> QED BY <2>1, <2>2, Zenon DEF RunningDifference, Periods
<1>7. PeriodCount \in 0..PeriodCount
  OBVIOUS
<1>8. d[PeriodCount] = value - left[PeriodCount] /\ left[PeriodCount] \in Nat
  BY <1>1, <1>7
<1>9. SumOf(g) = SumOf(f) + d[PeriodCount]
  <2>1. f \in [Periods -> Int] /\ g \in [Periods -> Int]
    BY <1>5
  <2> HIDE DEF d, g
  <2> QED BY <2>1, <1>5, <1>6, PeriodSumOfDifference
<1>10. SumOf(g) = SumOf(f) + (value - left[PeriodCount])
  <2> HIDE DEF d, g
  <2> QED BY <1>8, <1>9, Zenon
<1> QED BY <1>3, <1>4, <1>8, <1>10, Zenon DEF c, left

\* What a period costs is a natural, and so are the fee and the net in it.
LEMMA DueIsNat ==
  ASSUME NEW i \in Periods
  PROVE  PeriodDue(i) \in Nat
<1>1. Principal * CouponBps \in Nat
  BY TermsAssumption
<1>2. Coupon \in Nat
  BY <1>1 DEF Coupon, BPS
<1> QED BY <1>2, TermsAssumption DEF PeriodDue

\* The first period ends first.
LEMMA FirstPeriodEndsFirst ==
  ASSUME NEW i \in Periods
  PROVE  /\ PeriodEnd(i) \in Nat
         /\ PeriodEnd(0) \in Nat
         /\ PeriodEnd(0) <= PeriodEnd(i)
         /\ PeriodEnd(0) >= MintedAt
<1>1. i * PeriodLength \in Nat
  BY TermsAssumption DEF Periods
<1>2. (i + 1) * PeriodLength = i * PeriodLength + PeriodLength
  BY TermsAssumption DEF Periods
<1>3. (0 + 1) * PeriodLength = PeriodLength
  BY TermsAssumption
<1> QED BY <1>1, <1>2, <1>3, TermsAssumption DEF PeriodEnd

----------------------------------------------------------------------------
\* Fees and nets.

LEMMA DivisionBounds ==
  ASSUME NEW x \in Nat, NEW b \in Nat, b <= 500
  PROVE  (x * b) \div 10000 \in Nat /\ (x * b) \div 10000 <= x
<1>1. x * b \in Nat /\ x * (10000 - b) \in Nat
  OBVIOUS
<1>2. x * (10000 - b) = x * 10000 - x * b
  OBVIOUS
<1>3. x * b <= x * 10000
  BY <1>1, <1>2
<1> DEFINE y == x * b
<1>4. y \in Nat /\ y <= x * 10000
  BY <1>1, <1>3
<1> HIDE DEF y
<1>5. y \div 10000 \in Nat /\ y \div 10000 <= x
  BY <1>4
<1> QED BY <1>5 DEF y

\* Neither the fee nor the net of a period is negative.
LEMMA FeeAndNet ==
  ASSUME NEW i \in Periods
  PROVE  /\ PeriodDue(i) \in Nat
         /\ Fee(i) \in Nat
         /\ Net(i) \in Nat
<1>1. PeriodDue(i) \in Nat
  BY DueIsNat
<1>2. ServicingFeeBps \in Nat /\ ServicingFeeBps <= 500
  BY RelayAssumption DEF MAX_SERVICING_FEE_BPS
<1>3. Fee(i) \in Nat /\ Fee(i) <= PeriodDue(i)
  BY <1>1, <1>2, DivisionBounds DEF Fee, BPS
<1> QED BY <1>1, <1>3 DEF Net

----------------------------------------------------------------------------
\* Counting periods by status.

\* Every set of periods is finite; all of them are PeriodCount.
LEMMA PeriodSets ==
  ASSUME NEW T \in SUBSET Periods
  PROVE  /\ IsFiniteSet(T)
         /\ Cardinality(T) \in Nat
         /\ Cardinality(T) = 0 <=> T = {}
         /\ Cardinality(T) = PeriodCount <=> T = Periods
<1>1. IsFiniteSet(Periods) /\ Cardinality(Periods) = PeriodCount
  <2>1. 0 \in Int /\ PeriodCount - 1 \in Int /\ PeriodCount \in Nat \ {0}
    BY TermsAssumption
  <2>2. /\ IsFiniteSet(0..(PeriodCount - 1))
        /\ Cardinality(0..(PeriodCount - 1)) =
             IF 0 > PeriodCount - 1 THEN 0 ELSE (PeriodCount - 1) - 0 + 1
    BY <2>1, FS_Interval, Zenon
  <2> QED BY <2>1, <2>2 DEF Periods
<1>2. IsFiniteSet(T) /\ (Cardinality(Periods) = Cardinality(T) => Periods = T)
  BY <1>1, FS_Subset, Zenon
<1> QED BY <1>1, <1>2, FS_EmptySet, FS_CardinalityType, Zenon

\* One period moves from one status to another: the sets of periods by
\* status, of this note and of the others.
LEMMA StatusMoves ==
  ASSUME NEW n \in NoteIds, NEW i \in Periods, NEW to, NEW S,
         periodStatus \in [NoteIds -> [Periods -> PeriodStatus]],
         periodStatus' = [periodStatus EXCEPT ![n][i] = to]
  PROVE  /\ to \in S => InStatus(n, S)' = InStatus(n, S) \cup {i}
         /\ to \notin S => InStatus(n, S)' = InStatus(n, S) \ {i}
         /\ \A m \in NoteIds : m # n => InStatus(m, S)' = InStatus(m, S)
BY DEF InStatus

\* How many periods have a status, after one of them moved.
LEMMA CountMoves ==
  ASSUME NEW n \in NoteIds, NEW i \in Periods, NEW to, NEW S,
         periodStatus \in [NoteIds -> [Periods -> PeriodStatus]],
         periodStatus' = [periodStatus EXCEPT ![n][i] = to]
  PROVE  /\ Cardinality(InStatus(n, S)) \in Nat
         /\ Cardinality(InStatus(n, S)') =
              Cardinality(InStatus(n, S))
                + (IF to \in S THEN 1 ELSE 0)
                - (IF periodStatus[n][i] \in S THEN 1 ELSE 0)
<1> DEFINE T == InStatus(n, S)
<1>1. T \in SUBSET Periods /\ (i \in T <=> periodStatus[n][i] \in S)
  BY DEF InStatus
<1>2. IsFiniteSet(T) /\ Cardinality(T) \in Nat
  BY <1>1, PeriodSets, Zenon
<1>3. CASE to \in S
  <2>1. InStatus(n, S)' = T \cup {i}
    BY <1>3 DEF InStatus
  <2>2. Cardinality(T \cup {i}) = IF i \in T THEN Cardinality(T) ELSE Cardinality(T) + 1
    BY <1>2, FS_AddElement, Zenon
  <2> HIDE DEF T
  <2> QED BY <1>1, <1>2, <1>3, <2>1, <2>2 DEF T
<1>4. CASE to \notin S
  <2>1. InStatus(n, S)' = T \ {i}
    BY <1>4, StatusMoves, Zenon
  <2>2. Cardinality(T \ {i}) = IF i \in T THEN Cardinality(T) - 1 ELSE Cardinality(T)
    BY <1>2, FS_RemoveElement, Zenon
  <2> HIDE DEF T
  <2> QED BY <1>1, <1>2, <1>4, <2>1, <2>2 DEF T
<1> QED BY <1>3, <1>4

----------------------------------------------------------------------------
\* The counters and the standing of a note.

\* StandingMatchesPeriods, for one note.
StandingAt(n) ==
  /\ periodsSettled[n] = Cardinality(InStatus(n, Done))
  /\ periodsMissed[n]  = Cardinality(InStatus(n, {"Missed"}))
  /\ status[n] = "Matured" <=> InStatus(n, Done) = Periods
  /\ status[n] \in {"Delinquent", "Defaulted"} => InStatus(n, {"Missed"}) # {}
  /\ status[n] = "Active" => InStatus(n, {"Missed"}) = {}

\* The step leaves the note's standing alone.
SameNote(n) ==
  /\ status'[n] = status[n]
  /\ periodStatus'[n] = periodStatus[n]
  /\ periodsSettled'[n] = periodsSettled[n]
  /\ periodsMissed'[n] = periodsMissed[n]
  /\ firstMissedAt'[n] = firstMissedAt[n]

LEMMA StandingKept ==
  ASSUME NEW n \in NoteIds, SameNote(n), StandingAt(n)
  PROVE  StandingAt(n)'
<1>1. \A S : InStatus(n, S)' = InStatus(n, S)
  BY DEF InStatus, SameNote
<1>2. InStatus(n, Done)' = InStatus(n, Done) /\ InStatus(n, {"Missed"})' = InStatus(n, {"Missed"})
  BY <1>1
<1> QED BY <1>2 DEF StandingAt, SameNote, Done

\* What settling a period does to the counts and the status of its note.
LEMMA SettleMoves ==
  ASSUME TypeOK, NEW n \in NoteIds, NEW i \in Periods, MarkSettled(n, i),
         periodStatus[n][i] \notin Done, StandingAt(n)
  PROVE  /\ Cardinality(InStatus(n, Done)') = Cardinality(InStatus(n, Done)) + 1
         /\ Cardinality(InStatus(n, {"Missed"})') = periodsMissed'[n]
         /\ periodsSettled'[n] = Cardinality(InStatus(n, Done)')
         /\ periodsMissed'[n] \in Nat
         /\ periodsSettled'[n] \in Nat
         /\ InStatus(n, {"Missed"})' \subseteq InStatus(n, {"Missed"})
<1> DEFINE to == StatusOnPayout(n, i)
<1>1. to \in Done /\ to \notin {"Missed"} /\ to \in PeriodStatus
  BY DEF StatusOnPayout, Done, PeriodStatus
<1>2. /\ periodStatus \in [NoteIds -> [Periods -> PeriodStatus]]
      /\ periodStatus' = [periodStatus EXCEPT ![n][i] = to]
  BY DEF TypeOK, MarkSettled
<1> HIDE DEF to
<1>3. /\ Cardinality(InStatus(n, Done)) \in Nat
      /\ Cardinality(InStatus(n, Done)') = Cardinality(InStatus(n, Done)) + 1
  <2>1. /\ Cardinality(InStatus(n, Done)) \in Nat
        /\ Cardinality(InStatus(n, Done)') =
              Cardinality(InStatus(n, Done))
                + (IF to \in Done THEN 1 ELSE 0)
                - (IF periodStatus[n][i] \in Done THEN 1 ELSE 0)
    BY <1>2, CountMoves, Zenon
  <2> QED BY <1>1, <2>1
<1>4. /\ Cardinality(InStatus(n, {"Missed"})) \in Nat
      /\ Cardinality(InStatus(n, {"Missed"})') =
           Cardinality(InStatus(n, {"Missed"}))
             - (IF periodStatus[n][i] = "Missed" THEN 1 ELSE 0)
  <2> DEFINE S == {"Missed"}
  <2>1. to \notin S /\ (periodStatus[n][i] \in S <=> periodStatus[n][i] = "Missed")
    BY <1>1
  <2> HIDE DEF S
  <2>2. /\ Cardinality(InStatus(n, S)) \in Nat
        /\ Cardinality(InStatus(n, S)') =
              Cardinality(InStatus(n, S))
                + (IF to \in S THEN 1 ELSE 0)
                - (IF periodStatus[n][i] \in S THEN 1 ELSE 0)
    BY <1>2, CountMoves, Zenon
  <2>3. /\ Cardinality(InStatus(n, S)) \in Nat
        /\ Cardinality(InStatus(n, S)') =
              Cardinality(InStatus(n, S)) - (IF periodStatus[n][i] = "Missed" THEN 1 ELSE 0)
    BY <2>1, <2>2
  <2> QED BY <2>3, Zenon DEF S
<1>5. /\ periodsMissed'[n] = periodsMissed[n]
                               - (IF periodStatus[n][i] = "Missed" THEN 1 ELSE 0)
      /\ periodsSettled'[n] = periodsSettled[n] + 1
  BY DEF TypeOK, MarkSettled
<1>6. /\ periodsSettled[n] = Cardinality(InStatus(n, Done))
      /\ periodsMissed[n] = Cardinality(InStatus(n, {"Missed"}))
  BY DEF StandingAt
<1>7. Cardinality(InStatus(n, {"Missed"})') \in Nat
  <2>1. InStatus(n, {"Missed"})' \in SUBSET Periods
    BY DEF InStatus
  <2> QED BY <2>1, PeriodSets, Zenon
<1>8. InStatus(n, {"Missed"})' = InStatus(n, {"Missed"}) \ {i}
  BY <1>1, <1>2 DEF InStatus
<1> QED BY <1>3, <1>4, <1>5, <1>6, <1>7, <1>8

LEMMA SettleKeepsStanding ==
  ASSUME TypeOK, NEW n \in NoteIds, NEW i \in Periods, MarkSettled(n, i),
         periodStatus[n][i] \notin Done, StandingAt(n)
  PROVE  StandingAt(n)'
<1> DEFINE done   == InStatus(n, Done)'
           missed == InStatus(n, {"Missed"})'
<1>1. /\ periodsSettled'[n] = Cardinality(done)
      /\ periodsMissed'[n] = Cardinality(missed)
      /\ missed \subseteq InStatus(n, {"Missed"})
  BY SettleMoves
<1>2. /\ Cardinality(done) = PeriodCount <=> done = Periods
      /\ Cardinality(missed) = 0 <=> missed = {}
  <2>1. done \in SUBSET Periods /\ missed \in SUBSET Periods
    BY DEF InStatus
  <2> HIDE DEF done, missed
  <2> QED BY <2>1, PeriodSets, Zenon
<1>3. status'[n] = StatusOnSettle(n, periodsSettled'[n], periodsMissed'[n])
  BY DEF TypeOK, MarkSettled
<1>4. status[n] \in {"Active", "Delinquent"}
  BY DEF MarkSettled, Live, TypeOK, NoteStatus
<1>5. status[n] = "Active" => InStatus(n, {"Missed"}) = {}
  BY DEF StandingAt
<1> HIDE DEF done, missed
<1>6. /\ status'[n] = "Matured" <=> done = Periods
      /\ status'[n] \in {"Delinquent", "Defaulted"} => missed # {}
      /\ status'[n] = "Active" => missed = {}
  <2>1. CASE done = Periods
    BY <1>1, <1>2, <1>3, <2>1 DEF StatusOnSettle
  <2>2. CASE done # Periods
    BY <1>1, <1>2, <1>3, <1>4, <1>5, <2>2 DEF StatusOnSettle
  <2> QED BY <2>1, <2>2
<1> QED BY <1>1, <1>6, Zenon DEF StandingAt, done, missed

LEMMA MissKeepsStanding ==
  ASSUME TypeOK, NEW n \in NoteIds, NEW i \in Periods, MarkMissed(n, i), StandingAt(n)
  PROVE  StandingAt(n)'
<1>1. /\ periodStatus \in [NoteIds -> [Periods -> PeriodStatus]]
      /\ periodStatus' = [periodStatus EXCEPT ![n][i] = "Missed"]
      /\ periodStatus[n][i] = "Pending"
  BY DEF TypeOK, MarkMissed
<1>2. "Missed" \notin Done /\ "Pending" \notin Done /\ "Pending" # "Missed"
  BY DEF Done
<1>3. Cardinality(InStatus(n, {"Missed"})') = Cardinality(InStatus(n, {"Missed"})) + 1
  <2>1. /\ Cardinality(InStatus(n, {"Missed"})) \in Nat
        /\ Cardinality(InStatus(n, {"Missed"})') =
              Cardinality(InStatus(n, {"Missed"}))
                + (IF "Missed" \in {"Missed"} THEN 1 ELSE 0)
                - (IF periodStatus[n][i] \in {"Missed"} THEN 1 ELSE 0)
    BY <1>1, CountMoves, Zenon
  <2> QED BY <1>1, <1>2, <2>1
<1>4. InStatus(n, Done)' = InStatus(n, Done) /\ i \notin InStatus(n, Done)
  BY <1>1, <1>2 DEF InStatus
<1>5. InStatus(n, {"Missed"})' # {}
  BY <1>1 DEF InStatus
<1>6. /\ periodsSettled'[n] = periodsSettled[n]
      /\ periodsMissed'[n] = periodsMissed[n] + 1
      /\ status'[n] = "Delinquent"
  BY DEF TypeOK, MarkMissed
<1>7. /\ periodsSettled[n] = Cardinality(InStatus(n, Done))
      /\ periodsMissed[n] = Cardinality(InStatus(n, {"Missed"}))
  BY DEF StandingAt
<1>8. /\ periodsSettled'[n] = Cardinality(InStatus(n, Done)')
      /\ periodsMissed'[n] = Cardinality(InStatus(n, {"Missed"})')
  <2>1. Cardinality(InStatus(n, Done)') = Cardinality(InStatus(n, Done))
    BY <1>4, Zenon
  <2> QED BY <1>3, <1>6, <1>7, <2>1
<1>9. InStatus(n, Done)' # Periods
  BY <1>4
<1> QED BY <1>5, <1>6, <1>8, <1>9 DEF StandingAt, Done

LEMMA DefaultKeepsStanding ==
  ASSUME TypeOK, NEW n \in NoteIds, MarkDefaulted(n), StandingAt(n)
  PROVE  /\ InStatus(n, {"Missed"}) # {} => StandingAt(n)'
<1>1. \A S : InStatus(n, S)' = InStatus(n, S)
  BY DEF InStatus, MarkDefaulted
<1>2. /\ InStatus(n, Done)' = InStatus(n, Done)
      /\ InStatus(n, {"Missed"})' = InStatus(n, {"Missed"})
  BY <1>1
<1>3. status'[n] = "Defaulted" /\ status[n] # "Matured"
  BY DEF MarkDefaulted, TypeOK, Live
<1>4. periodsSettled'[n] = periodsSettled[n] /\ periodsMissed'[n] = periodsMissed[n]
  BY DEF MarkDefaulted
<1> QED BY <1>2, <1>3, <1>4 DEF StandingAt, Done

----------------------------------------------------------------------------
\* The cure window.

\* CureWindowTimed, for one note.
CureWindowAt(n) ==
  /\ firstMissedAt[n] = 0 <=> InStatus(n, {"Missed"}) = {}
  /\ firstMissedAt[n] # 0 =>
       firstMissedAt[n] \in (PeriodEnd(0) + GracePeriod + 1)..now
  /\ status[n] = "Defaulted" => now > firstMissedAt[n] + CureWindow

LEMMA CureWindowKept ==
  ASSUME TypeOK, NEW n \in NoteIds, SameNote(n), CureWindowAt(n),
         now' \in Nat, now' >= now
  PROVE  CureWindowAt(n)'
<1>1. InStatus(n, {"Missed"})' = InStatus(n, {"Missed"})
  BY DEF InStatus, SameNote
<1>2. /\ now \in Nat /\ firstMissedAt[n] \in Nat
      /\ PeriodEnd(0) + GracePeriod + 1 \in Int /\ CureWindow \in Nat
  <2>1. 0 \in Periods
    BY TermsAssumption DEF Periods
  <2> QED BY <2>1, FirstPeriodEndsFirst, TermsAssumption DEF TypeOK
<1>3. firstMissedAt'[n] = firstMissedAt[n] /\ status'[n] = status[n]
  BY DEF SameNote
<1>4. firstMissedAt[n] # 0 =>
        firstMissedAt[n] \in (PeriodEnd(0) + GracePeriod + 1)..now'
  BY <1>2 DEF CureWindowAt
<1>5. status[n] = "Defaulted" => now' > firstMissedAt[n] + CureWindow
  BY <1>2 DEF CureWindowAt
<1> QED BY <1>1, <1>3, <1>4, <1>5 DEF CureWindowAt, PeriodEnd

LEMMA SettleKeepsCureWindow ==
  ASSUME TypeOK, NEW n \in NoteIds, NEW i \in Periods, MarkSettled(n, i),
         periodStatus[n][i] \notin Done, StandingAt(n), CureWindowAt(n), now' = now
  PROVE  CureWindowAt(n)'
<1> DEFINE before == InStatus(n, {"Missed"})
           after  == InStatus(n, {"Missed"})'
<1>1. after \subseteq before /\ periodsMissed'[n] = Cardinality(after)
  BY SettleMoves
<1>2. Cardinality(after) = 0 <=> after = {}
  <2>1. after \in SUBSET Periods
    BY DEF InStatus
  <2> HIDE DEF after
  <2> QED BY <2>1, PeriodSets, Zenon
<1>3. firstMissedAt'[n] = IF periodStatus[n][i] = "Missed"
                          THEN FirstMissedOnCure(n, periodsMissed'[n])
                          ELSE firstMissedAt[n]
  BY DEF TypeOK, MarkSettled
<1>4. periodStatus[n][i] # "Missed" => after = before
  <2>1. periodStatus' = [periodStatus EXCEPT ![n][i] = StatusOnPayout(n, i)]
    BY DEF MarkSettled
  <2>2. periodStatus \in [NoteIds -> [Periods -> PeriodStatus]]
    BY DEF TypeOK
  <2>3. StatusOnPayout(n, i) # "Missed"
    BY DEF StatusOnPayout
  <2> QED BY <2>1, <2>2, <2>3 DEF InStatus
<1>5. periodStatus[n][i] = "Missed" => before # {}
  BY DEF InStatus
<1>6. firstMissedAt[n] = 0 <=> before = {}
  BY DEF CureWindowAt
<1>7. status'[n] # "Defaulted"
  BY DEF TypeOK, MarkSettled, StatusOnSettle, Live
<1>8. firstMissedAt[n] # 0 => firstMissedAt[n] \in (PeriodEnd(0) + GracePeriod + 1)..now
  BY DEF CureWindowAt
<1> HIDE DEF before, after
<1>9. firstMissedAt'[n] = 0 <=> after = {}
  <2>1. CASE periodStatus[n][i] = "Missed"
    BY <1>1, <1>2, <1>3, <1>5, <1>6, <2>1 DEF FirstMissedOnCure
  <2>2. CASE periodStatus[n][i] # "Missed"
    BY <1>3, <1>4, <1>6, <2>2
  <2> QED BY <2>1, <2>2
<1>10. firstMissedAt'[n] # 0 => firstMissedAt'[n] = firstMissedAt[n]
  BY <1>3 DEF FirstMissedOnCure
<1>11. firstMissedAt'[n] # 0 => firstMissedAt'[n] \in (PeriodEnd(0) + GracePeriod + 1)..now'
  BY <1>8, <1>10
<1> QED BY <1>7, <1>9, <1>11 DEF CureWindowAt, PeriodEnd, after

LEMMA MissKeepsCureWindow ==
  ASSUME TypeOK, NEW n \in NoteIds, NEW i \in Periods, MayMiss(n, i),
         MarkMissed(n, i), StandingAt(n), CureWindowAt(n), now' = now
  PROVE  CureWindowAt(n)'
<1>1. /\ PeriodEnd(i) \in Nat /\ PeriodEnd(0) \in Nat
      /\ PeriodEnd(0) <= PeriodEnd(i)
      /\ GracePeriod \in Nat /\ MintedAt \in Nat \ {0}
  BY FirstPeriodEndsFirst, TermsAssumption
<1>2. now \in Nat /\ now >= MintedAt /\ firstMissedAt[n] \in Nat
  BY DEF TypeOK
<1>3. firstMissedAt'[n] = IF firstMissedAt[n] = 0 THEN now ELSE firstMissedAt[n]
  BY DEF TypeOK, MarkMissed
<1>4. now \in (PeriodEnd(0) + GracePeriod + 1)..now
  BY <1>1, <1>2 DEF MayMiss
<1>5. firstMissedAt[n] # 0 => firstMissedAt[n] \in (PeriodEnd(0) + GracePeriod + 1)..now
  BY DEF CureWindowAt
<1>6. /\ firstMissedAt'[n] # 0
      /\ firstMissedAt'[n] \in (PeriodEnd(0) + GracePeriod + 1)..now'
  BY <1>1, <1>2, <1>3, <1>4, <1>5
<1>7. InStatus(n, {"Missed"})' # {}
  BY DEF InStatus, TypeOK, MarkMissed
<1>8. status'[n] = "Delinquent"
  BY DEF TypeOK, MarkMissed
<1> QED BY <1>6, <1>7, <1>8 DEF CureWindowAt, PeriodEnd

LEMMA DefaultKeepsCureWindow ==
  ASSUME TypeOK, NEW n \in NoteIds, MayDefault(n), MarkDefaulted(n),
         CureWindowAt(n), now' = now
  PROVE  CureWindowAt(n)' /\ InStatus(n, {"Missed"}) # {}
<1>1. InStatus(n, {"Missed"})' = InStatus(n, {"Missed"})
  BY DEF InStatus, MarkDefaulted
<1>2. firstMissedAt'[n] = firstMissedAt[n]
  BY DEF MarkDefaulted
<1>3. firstMissedAt[n] # 0 /\ now > firstMissedAt[n] + CureWindow
  BY DEF MayDefault
<1> QED BY <1>1, <1>2, <1>3 DEF CureWindowAt, PeriodEnd

----------------------------------------------------------------------------
\* The ledgers.

\* LedgersAgree, for one note.
LedgersAt(n) ==
  \A i \in Periods :
     /\ periodPaid[n][i] = paidOf[n][i]
     /\ paidOf[n][i] <= PeriodDue(i)
     /\ periodStatus[n][i] \in Done => paidOf[n][i] = PeriodDue(i)

\* VaultBacked and HoldersCreditedOnce, for one note.
BackedAt(n)   == balanceOf[n] = SumOf(Unreleased(n)) + surplusOf[n]
CreditedAt(n) == totalDistributed[n] = SumOf(Earned(n))

\* The step leaves the money of the note alone.
SameMoney(n) ==
  /\ balanceOf'[n] = balanceOf[n]
  /\ paidOf'[n] = paidOf[n]
  /\ surplusOf'[n] = surplusOf[n]
  /\ periodPaid'[n] = periodPaid[n]
  /\ totalDistributed'[n] = totalDistributed[n]

LEMMA MoneyKept ==
  ASSUME NEW n \in NoteIds, SameMoney(n), periodStatus'[n] = periodStatus[n]
  PROVE  /\ LedgersAt(n) => LedgersAt(n)'
         /\ BackedAt(n) => BackedAt(n)'
         /\ CreditedAt(n) => CreditedAt(n)'
<1>1. Unreleased(n)' = Unreleased(n) /\ Earned(n)' = Earned(n)
  BY DEF Unreleased, Earned, SameMoney, Net, Fee, PeriodDue, Coupon, Done
<1>2. \A i \in Periods : PeriodDue(i)' = PeriodDue(i)
  BY DEF PeriodDue, Coupon
<1>3. SumOf(Unreleased(n))' = SumOf(Unreleased(n)) /\ SumOf(Earned(n))' = SumOf(Earned(n))
  BY <1>1 DEF SumOf, SumTo, PartialSums
<1>4. LedgersAt(n) => LedgersAt(n)'
  BY <1>2 DEF LedgersAt, SameMoney, Done
<1>5. BackedAt(n) => BackedAt(n)'
  BY <1>3 DEF BackedAt, SameMoney
<1>6. CreditedAt(n) => CreditedAt(n)'
  BY <1>3 DEF CreditedAt, SameMoney
<1> QED BY <1>4, <1>5, <1>6

LEMMA UnreleasedAndEarned ==
  ASSUME TypeOK, NEW n \in NoteIds
  PROVE  /\ Unreleased(n) \in [Periods -> Nat]
         /\ Earned(n) \in [Periods -> Nat]
<1>1. \A i \in Periods : paidOf[n][i] \in Nat
  BY DEF TypeOK
<1>2. \A i \in Periods : Net(i) \in Nat
  BY FeeAndNet
<1> QED BY <1>1, <1>2 DEF Unreleased, Earned

\* What the periods can still take.
LEMMA RoomIsRoom ==
  ASSUME TypeOK, NEW n \in NoteIds, LedgersAt(n)
  PROVE  /\ Room(n) \in [Periods -> Nat]
         /\ \A i \in Periods : paidOf[n][i] + Room(n)[i] = PeriodDue(i)
<1>1. ASSUME NEW i \in Periods
      PROVE  /\ Room(n)[i] = IF paidOf[n][i] >= PeriodDue(i) THEN 0
                             ELSE PeriodDue(i) - paidOf[n][i]
             /\ Room(n)[i] \in Nat
             /\ paidOf[n][i] + Room(n)[i] = PeriodDue(i)
  <2>1. Room(n)[i] = IF paidOf[n][i] >= PeriodDue(i) THEN 0
                     ELSE PeriodDue(i) - paidOf[n][i]
    BY DEF Room
  <2>2. PeriodDue(i) \in Nat /\ paidOf[n][i] \in Nat /\ paidOf[n][i] <= PeriodDue(i)
    BY DueIsNat DEF TypeOK, LedgersAt
  <2> QED BY <2>1, <2>2
<1>2. Room(n) = [i \in Periods |-> Room(n)[i]]
  BY DEF Room
<1> QED BY <1>1, <1>2

\* What a repayment does to the ledgers of its note.
RepayEffect(n, value, credit, left) ==
  /\ \A i \in Periods : /\ paidOf'[n][i] = paidOf[n][i] + credit[i]
                        /\ paidOf'[n][i] <= PeriodDue(i)
                        /\ periodPaid'[n][i] = periodPaid[n][i] + credit[i]
                        /\ periodStatus[n][i] \in Done => credit[i] = 0
  /\ (\E i \in Periods : credit[i] > 0) => Live(n)
  /\ balanceOf'[n] = balanceOf[n] + value
  /\ surplusOf'[n] = surplusOf[n] + left
  /\ SumOf([i \in Periods |-> Unreleased(n)[i] + credit[i]])
       = SumOf(Unreleased(n)) + (value - left)
  /\ (\A i \in Periods : credit[i] = 0) => left = value

LEMMA RepayMoves ==
  ASSUME TypeOK, NEW n \in NoteIds, NEW first \in Periods, NEW value \in Nat,
         Repay(n, first, value), LedgersAt(n)
  PROVE  \E credit \in [Periods -> Nat], left \in Nat :
           RepayEffect(n, value, credit, left)
<1> DEFINE credit == Credits(Room(n), first, value)
           left   == Remaining(Room(n), first, value)[PeriodCount]
<1>1. /\ Room(n) \in [Periods -> Nat]
      /\ \A i \in Periods : paidOf[n][i] + Room(n)[i] = PeriodDue(i)
  BY RoomIsRoom, Zenon
<1>2. Unreleased(n) \in [Periods -> Nat]
  BY UnreleasedAndEarned
<1>3. /\ credit \in [Periods -> Nat]
      /\ \A i \in Periods : credit[i] <= Room(n)[i]
      /\ left \in Nat
      /\ SumOf([i \in Periods |-> Unreleased(n)[i] + credit[i]])
           = SumOf(Unreleased(n)) + (value - left)
  BY <1>1, <1>2, CreditsSpread, Zenon
<1>4. /\ paidOf' = [paidOf EXCEPT ![n] = [i \in Periods |-> paidOf[n][i] + credit[i]]]
      /\ periodPaid' = [periodPaid EXCEPT ![n] = [i \in Periods |-> periodPaid[n][i] + credit[i]]]
      /\ balanceOf' = [balanceOf EXCEPT ![n] = @ + value]
      /\ surplusOf' = [surplusOf EXCEPT ![n] = @ + left]
      /\ (\E i \in Periods : credit[i] > 0) => Live(n)
  BY Zenon DEF Repay, RecordPayments
<1> HIDE DEF credit, left
<1>5. ASSUME NEW i \in Periods
      PROVE  /\ paidOf'[n][i] = paidOf[n][i] + credit[i]
             /\ paidOf'[n][i] <= PeriodDue(i)
             /\ periodPaid'[n][i] = periodPaid[n][i] + credit[i]
             /\ periodStatus[n][i] \in Done => credit[i] = 0
  <2>1. /\ paidOf'[n][i] = paidOf[n][i] + credit[i]
        /\ periodPaid'[n][i] = periodPaid[n][i] + credit[i]
    BY <1>4 DEF TypeOK
  <2>2. /\ paidOf[n][i] \in Nat /\ credit[i] \in Nat /\ Room(n)[i] \in Nat
        /\ credit[i] <= Room(n)[i]
        /\ paidOf[n][i] + Room(n)[i] = PeriodDue(i)
    BY <1>1, <1>3 DEF TypeOK
  <2>3. periodStatus[n][i] \in Done => paidOf[n][i] = PeriodDue(i)
    BY DEF LedgersAt
  <2>4. PeriodDue(i) \in Nat
    BY DueIsNat
  <2> QED BY <2>1, <2>2, <2>3, <2>4
<1>6. balanceOf'[n] = balanceOf[n] + value /\ surplusOf'[n] = surplusOf[n] + left
  BY <1>4 DEF TypeOK
<1>7. (\A i \in Periods : credit[i] = 0) => left = value
  <2> SUFFICES ASSUME \A i \in Periods : credit[i] = 0 PROVE left = value
    OBVIOUS
  <2> DEFINE g == [i \in Periods |-> Unreleased(n)[i] + credit[i]]
  <2>1. \A i \in Periods : Unreleased(n)[i] + credit[i] = Unreleased(n)[i]
    BY <1>2
  <2>2. g = Unreleased(n)
    BY <1>2, <2>1
  <2>3. SumOf(Unreleased(n)) \in Nat
    BY <1>2, PeriodSumType
  <2> HIDE DEF g
  <2>4. SumOf(Unreleased(n)) = SumOf(Unreleased(n)) + (value - left)
    BY <1>3, <2>2, Zenon DEF g
  <2> QED BY <1>3, <2>3, <2>4
<1>8. RepayEffect(n, value, credit, left)
  BY <1>3, <1>4, <1>5, <1>6, <1>7, Zenon DEF RepayEffect
<1> QED BY <1>3, <1>8, Zenon

LEMMA RepayKeepsMoney ==
  ASSUME TypeOK, NEW n \in NoteIds, NEW first \in Periods, NEW value \in Nat,
         Repay(n, first, value), totalDistributed' = totalDistributed, LedgersAt(n)
  PROVE  /\ LedgersAt(n)'
         /\ BackedAt(n) => BackedAt(n)'
         /\ CreditedAt(n) => CreditedAt(n)'
<1>0. PICK credit \in [Periods -> Nat], left \in Nat : RepayEffect(n, value, credit, left)
  BY RepayMoves, Zenon
<1>1. /\ \A i \in Periods : /\ paidOf'[n][i] = paidOf[n][i] + credit[i]
                            /\ paidOf'[n][i] <= PeriodDue(i)
                            /\ periodPaid'[n][i] = periodPaid[n][i] + credit[i]
                            /\ periodStatus[n][i] \in Done => credit[i] = 0
      /\ balanceOf'[n] = balanceOf[n] + value
      /\ surplusOf'[n] = surplusOf[n] + left
      /\ SumOf([i \in Periods |-> Unreleased(n)[i] + credit[i]])
           = SumOf(Unreleased(n)) + (value - left)
  BY <1>0, Zenon DEF RepayEffect
<1>2. periodStatus' = periodStatus
  BY DEF Repay, RecordPayments
<1>3. \A i \in Periods : /\ PeriodDue(i)' = PeriodDue(i) /\ PeriodDue(i) \in Nat
                         /\ paidOf[n][i] \in Nat /\ credit[i] \in Nat
  BY DueIsNat DEF PeriodDue, Coupon, TypeOK
<1>4. LedgersAt(n)'
  <2>1. ASSUME NEW i \in Periods
        PROVE  /\ periodPaid'[n][i] = paidOf'[n][i]
               /\ paidOf'[n][i] <= PeriodDue(i)
               /\ periodStatus'[n][i] \in Done => paidOf'[n][i] = PeriodDue(i)
    BY <1>1, <1>2, <1>3 DEF LedgersAt
  <2> QED BY <1>3, <2>1 DEF LedgersAt, Done
<1>5. BackedAt(n) => BackedAt(n)'
  <2> DEFINE g == [i \in Periods |-> Unreleased(n)[i] + credit[i]]
  <2>1. Unreleased(n)' = g
    <3>1. ASSUME NEW i \in Periods
          PROVE  (IF periodStatus[n][i] \in Done THEN 0 ELSE paidOf'[n][i])
                    = Unreleased(n)[i] + credit[i]
      BY <1>1, <1>3 DEF Unreleased
    <3> QED BY <1>2, <3>1 DEF Unreleased, Done
  <2>2. SumOf(Unreleased(n))' = SumOf(g)
    BY <2>1 DEF SumOf, SumTo, PartialSums
  <2>3. SumOf(Unreleased(n)) \in Nat /\ balanceOf[n] \in Nat /\ surplusOf[n] \in Nat
    BY UnreleasedAndEarned, PeriodSumType DEF TypeOK
  <2> HIDE DEF g
  <2>4. SumOf(g) = SumOf(Unreleased(n)) + (value - left)
    BY <1>1, Zenon DEF g
  <2> SUFFICES ASSUME BackedAt(n) PROVE BackedAt(n)'
    OBVIOUS
  <2>5. balanceOf[n] = SumOf(Unreleased(n)) + surplusOf[n]
    BY DEF BackedAt
  <2>6. balanceOf'[n] = SumOf(g) + surplusOf'[n]
    BY <1>1, <2>3, <2>4, <2>5
  <2> QED BY <2>2, <2>6 DEF BackedAt
<1>6. CreditedAt(n) => CreditedAt(n)'
  <2>1. Earned(n)' = Earned(n)
    BY <1>2 DEF Earned, Net, Fee, PeriodDue, Coupon, Done
  <2>2. SumOf(Earned(n))' = SumOf(Earned(n))
    BY <2>1 DEF SumOf, SumTo, PartialSums
  <2> QED BY <2>2 DEF CreditedAt
<1> QED BY <1>4, <1>5, <1>6

\* A settlement takes from the vault what the period was paid, and credits
\* its net.
LEMMA SettleKeepsMoney ==
  ASSUME TypeOK, NEW n \in NoteIds, NEW i \in Periods, MaySettle(n, i),
         Release(n, PeriodDue(i)), MarkSettled(n, i),
         totalDistributed' = [totalDistributed EXCEPT ![n] = @ + Net(i)], LedgersAt(n)
  PROVE  /\ LedgersAt(n)'
         /\ BackedAt(n) => BackedAt(n)'
         /\ CreditedAt(n) => CreditedAt(n)'
<1>1. /\ PeriodDue(i) \in Nat /\ Net(i) \in Nat
      /\ paidOf[n][i] = PeriodDue(i)
  <2>1. PeriodDue(i) \in Nat /\ Net(i) \in Nat
    BY FeeAndNet
  <2>2. paidOf[n][i] \in Nat /\ paidOf[n][i] <= PeriodDue(i) /\ paidOf[n][i] >= PeriodDue(i)
    BY DEF LedgersAt, MaySettle, TypeOK
  <2> QED BY <2>1, <2>2
<1>2. /\ periodStatus[n][i] \notin Done
      /\ periodStatus'[n][i] \in Done
      /\ \A j \in Periods : j # i => periodStatus'[n][j] = periodStatus[n][j]
      /\ paidOf' = paidOf /\ periodPaid' = periodPaid /\ surplusOf' = surplusOf
  BY DEF MaySettle, MarkSettled, Release, TypeOK, StatusOnPayout, Done
<1>3. \A j \in Periods : PeriodDue(j)' = PeriodDue(j) /\ Net(j)' = Net(j)
  BY DEF PeriodDue, Coupon, Net, Fee
<1>4. LedgersAt(n)'
  <2>1. ASSUME NEW j \in Periods
        PROVE  /\ periodPaid'[n][j] = paidOf'[n][j]
               /\ paidOf'[n][j] <= PeriodDue(j)
               /\ periodStatus'[n][j] \in Done => paidOf'[n][j] = PeriodDue(j)
    BY <1>1, <1>2 DEF LedgersAt
  <2> QED BY <1>3, <2>1 DEF LedgersAt, Done
<1>5. BackedAt(n) => BackedAt(n)'
  <2> DEFINE f == Unreleased(n)
             g == [j \in Periods |-> IF periodStatus'[n][j] \in Done THEN 0 ELSE paidOf[n][j]]
             x == - PeriodDue(i)
  <2>1. f \in [Periods -> Nat] /\ g \in [Periods -> Int] /\ x \in Int
    BY UnreleasedAndEarned, <1>1 DEF TypeOK
  <2>2. g[i] = f[i] + x /\ \A j \in Periods : j # i => g[j] = f[j]
    BY <1>1, <1>2 DEF Unreleased
  <2>3. SumOf(Unreleased(n))' = SumOf(g)
    <3>1. Unreleased(n)' = g
      BY <1>2 DEF Unreleased, Done
    <3> QED BY <3>1 DEF SumOf, SumTo, PartialSums
  <2>4. SumOf(f) \in Nat
    BY <2>1, PeriodSumType
  <2>5. balanceOf'[n] = balanceOf[n] + x
    BY <1>1 DEF Release, TypeOK
  <2> HIDE DEF f, g, x
  <2>6. SumOf(g) = SumOf(f) + x
    <3>1. f \in [Periods -> Int]
      BY <2>1
    <3> QED BY <3>1, <2>1, <2>2, PeriodSumBump
  <2> SUFFICES ASSUME BackedAt(n) PROVE BackedAt(n)'
    OBVIOUS
  <2>7. balanceOf[n] = SumOf(f) + surplusOf[n] /\ surplusOf[n] \in Nat
    BY DEF BackedAt, TypeOK, f
  <2>8. balanceOf'[n] = SumOf(g) + surplusOf'[n]
    BY <1>2, <2>1, <2>4, <2>5, <2>6, <2>7
  <2> QED BY <2>3, <2>8 DEF BackedAt
<1>6. CreditedAt(n) => CreditedAt(n)'
  <2> DEFINE f == Earned(n)
             g == [j \in Periods |-> IF periodStatus'[n][j] \in Done THEN Net(j) ELSE 0]
             x == Net(i)
  <2>1. f \in [Periods -> Nat] /\ g \in [Periods -> Int] /\ x \in Int
    BY UnreleasedAndEarned, FeeAndNet
  <2>2. g[i] = f[i] + x /\ \A j \in Periods : j # i => g[j] = f[j]
    BY <1>1, <1>2 DEF Earned
  <2>3. SumOf(Earned(n))' = SumOf(g)
    <3>1. Earned(n)' = g
      BY <1>2, <1>3 DEF Earned, Done
    <3> QED BY <3>1 DEF SumOf, SumTo, PartialSums
  <2>4. totalDistributed'[n] = totalDistributed[n] + x
    BY <1>1 DEF TypeOK
  <2> HIDE DEF f, g, x
  <2>5. SumOf(g) = SumOf(f) + x
    <3>1. f \in [Periods -> Int]
      BY <2>1
    <3> QED BY <3>1, <2>1, <2>2, PeriodSumBump
  <2> SUFFICES ASSUME CreditedAt(n) PROVE CreditedAt(n)'
    OBVIOUS
  <2>6. totalDistributed[n] = SumOf(f)
    BY DEF CreditedAt, f
  <2>7. totalDistributed'[n] = SumOf(g)
    BY <2>4, <2>5, <2>6
  <2> QED BY <2>3, <2>7 DEF CreditedAt
<1> QED BY <1>4, <1>5, <1>6

----------------------------------------------------------------------------
\* The inductive invariant: a settlement is only sure to leave the counters
\* natural and the vault solvent if the counters count, the ledgers agree and
\* every note is backed, so these are proved together.
NoteAt(n) == /\ StandingAt(n)
             /\ CureWindowAt(n)
             /\ LedgersAt(n)
             /\ BackedAt(n)
             /\ CreditedAt(n)

IndInv == TypeOK /\ \A n \in NoteIds : NoteAt(n)

LEMMA IndInvInit == Init => IndInv
<1> SUFFICES ASSUME Init PROVE IndInv
  OBVIOUS
<1> USE DEF Init, NoteInit, VaultInit
<1>1. TypeOK
  BY TermsAssumption, RelayAssumption DEF TypeOK, NoteStatus, PeriodStatus
<1>2. ASSUME NEW n \in NoteIds PROVE NoteAt(n)
  <2>1. InStatus(n, Done) = {} /\ InStatus(n, {"Missed"}) = {}
    BY DEF InStatus, Done
  <2>2. Cardinality({}) = 0 /\ {} # Periods
    <3>1. 0 \in Periods
      BY TermsAssumption DEF Periods
    <3>2. Cardinality({}) = 0
      BY FS_EmptySet, Zenon
    <3> QED BY <3>1, <3>2
  <2>3. StandingAt(n)
    BY <2>1, <2>2 DEF StandingAt
  <2>4. CureWindowAt(n)
    BY <2>1 DEF CureWindowAt
  <2>5. LedgersAt(n)
    BY DueIsNat DEF LedgersAt, Done
  <2>6. SumOf(Unreleased(n)) = 0 /\ SumOf(Earned(n)) = 0
    <3>1. /\ Unreleased(n) \in [Periods -> Int] /\ \A i \in Periods : Unreleased(n)[i] = 0
          /\ Earned(n) \in [Periods -> Int] /\ \A i \in Periods : Earned(n)[i] = 0
      BY DEF Unreleased, Earned, Done
    <3> QED BY <3>1, PeriodSumZero
  <2>7. BackedAt(n) /\ CreditedAt(n)
    BY <2>6 DEF BackedAt, CreditedAt
  <2> QED BY <2>3, <2>4, <2>5, <2>7 DEF NoteAt
<1> QED BY <1>1, <1>2 DEF IndInv

\* Notes the step does not touch.
LEMMA OthersKept ==
  ASSUME TypeOK, NEW m \in NoteIds, SameNote(m), SameMoney(m), NoteAt(m),
         now' \in Nat, now' >= now
  PROVE  NoteAt(m)'
<1>1. periodStatus'[m] = periodStatus[m]
  BY DEF SameNote
<1>2. StandingAt(m) /\ CureWindowAt(m) /\ LedgersAt(m) /\ BackedAt(m) /\ CreditedAt(m)
  BY DEF NoteAt
<1>3. StandingAt(m)'
  BY <1>2, StandingKept
<1>4. CureWindowAt(m)'
  BY <1>2, CureWindowKept
<1>5. LedgersAt(m)' /\ BackedAt(m)' /\ CreditedAt(m)'
  BY <1>1, <1>2, MoneyKept
<1> QED BY <1>3, <1>4, <1>5 DEF NoteAt

LEMMA RepayStep ==
  ASSUME IndInv, NEW n \in NoteIds, NEW first \in Periods, NEW value \in Nat,
         RepayNote(n, first, value)
  PROVE  IndInv'
<1>0. TypeOK /\ NoteAt(n)
  BY DEF IndInv
<1>1. StandingAt(n) /\ CureWindowAt(n) /\ LedgersAt(n) /\ BackedAt(n) /\ CreditedAt(n)
  BY <1>0 DEF NoteAt
<1>2. /\ Repay(n, first, value)
      /\ UNCHANGED <<now, status, periodStatus, periodsSettled, periodsMissed,
                     firstMissedAt, agentOf, owedFees, relayFunds, totalDistributed>>
  BY DEF RepayNote, Repay, RecordPayments, relayVars
<1>3. PICK credit \in [Periods -> Nat], left \in Nat : RepayEffect(n, value, credit, left)
  BY <1>0, <1>1, <1>2, RepayMoves, Zenon
<1>4. TypeOK'
  <2>1. /\ \A i \in Periods : paidOf'[n][i] = paidOf[n][i] + credit[i]
                              /\ periodPaid'[n][i] = periodPaid[n][i] + credit[i]
        /\ balanceOf'[n] = balanceOf[n] + value
        /\ surplusOf'[n] = surplusOf[n] + left
    BY <1>3, Zenon DEF RepayEffect
  <2> DEFINE c  == Credits(Room(n), first, value)
             l  == Remaining(Room(n), first, value)[PeriodCount]
  <2>2. /\ balanceOf' = [balanceOf EXCEPT ![n] = @ + value]
        /\ surplusOf' = [surplusOf EXCEPT ![n] = @ + l]
        /\ paidOf' = [paidOf EXCEPT ![n] = [i \in Periods |-> paidOf[n][i] + c[i]]]
        /\ periodPaid' = [periodPaid EXCEPT ![n] = [i \in Periods |-> periodPaid[n][i] + c[i]]]
    BY <1>2, Zenon DEF Repay, RecordPayments
  <2> HIDE DEF c, l
  <2>3. balanceOf' \in [NoteIds -> Nat] /\ surplusOf' \in [NoteIds -> Nat]
    BY <1>0, <2>1, <2>2 DEF TypeOK
  <2>4. paidOf' \in [NoteIds -> [Periods -> Nat]]
    <3>1. \A i \in Periods : paidOf[n][i] + c[i] \in Nat
      BY <1>0, <2>1, <2>2 DEF TypeOK
    <3> QED BY <1>0, <2>2, <3>1 DEF TypeOK
  <2>5. periodPaid' \in [NoteIds -> [Periods -> Nat]]
    <3>1. \A i \in Periods : periodPaid[n][i] + c[i] \in Nat
      BY <1>0, <2>1, <2>2 DEF TypeOK
    <3> QED BY <1>0, <2>2, <3>1 DEF TypeOK
  <2> QED BY <1>0, <1>2, <2>3, <2>4, <2>5 DEF TypeOK
<1>5. ASSUME NEW m \in NoteIds PROVE NoteAt(m)'
  <2>1. CASE m = n
    <3>1. SameNote(n) /\ now' \in Nat /\ now' >= now
      BY <1>0, <1>2 DEF SameNote, TypeOK
    <3>2. StandingAt(n)' /\ CureWindowAt(n)'
      BY <1>0, <1>1, <3>1, StandingKept, CureWindowKept
    <3>3. LedgersAt(n)' /\ BackedAt(n)' /\ CreditedAt(n)'
      BY <1>0, <1>1, <1>2, RepayKeepsMoney
    <3> QED BY <2>1, <3>2, <3>3 DEF NoteAt
  <2>2. CASE m # n
    <3>1. SameNote(m) /\ SameMoney(m)
      BY <1>0, <1>2, <2>2 DEF SameNote, SameMoney, Repay, RecordPayments, TypeOK
    <3>2. now' \in Nat /\ now' >= now /\ NoteAt(m)
      BY <1>2 DEF IndInv, TypeOK
    <3> QED BY <1>0, <3>1, <3>2, OthersKept
  <2> QED BY <2>1, <2>2
<1> QED BY <1>4, <1>5 DEF IndInv

LEMMA SettleStep ==
  ASSUME IndInv, NEW n \in NoteIds, NEW i \in Periods, NEW caller \in Agents,
         NEW accepted \in BOOLEAN, SettlePeriod(n, i, caller, accepted)
  PROVE  IndInv'
<1>0. TypeOK /\ NoteAt(n)
  BY DEF IndInv
<1>1. StandingAt(n) /\ CureWindowAt(n) /\ LedgersAt(n) /\ BackedAt(n) /\ CreditedAt(n)
  BY <1>0 DEF NoteAt
<1>2. /\ MaySettle(n, i) /\ Release(n, PeriodDue(i)) /\ MarkSettled(n, i)
      /\ periodStatus[n][i] \notin Done
      /\ totalDistributed' = [totalDistributed EXCEPT ![n] = @ + Net(i)]
      /\ PayFee(FeeRecipient[n], Fee(i), accepted)
      /\ now' = now /\ agentOf' = agentOf
  BY DEF SettlePeriod, MaySettle
<1>3. PeriodDue(i) \in Nat /\ Fee(i) \in Nat /\ Net(i) \in Nat
  BY FeeAndNet
<1>4. TypeOK'
  <2>1. /\ balanceOf' \in [NoteIds -> Nat]
        /\ paidOf' = paidOf /\ surplusOf' = surplusOf /\ periodPaid' = periodPaid
    BY <1>0, <1>2, <1>3 DEF Release, TypeOK, MarkSettled
  <2>2. totalDistributed' \in [NoteIds -> Nat]
    BY <1>0, <1>2, <1>3 DEF TypeOK
  <2>3. owedFees' \in [Recipients -> Nat] /\ relayFunds' \in Nat
    <3>1. FeeRecipient[n] \in Recipients
      BY RelayAssumption
    <3>2. owedFees \in [Recipients -> Nat] /\ relayFunds \in Nat
      BY <1>0 DEF TypeOK
    <3>3. CASE accepted
      BY <1>2, <3>2, <3>3 DEF PayFee
    <3>4. CASE ~accepted
      <4>1. /\ owedFees' = [owedFees EXCEPT ![FeeRecipient[n]] = @ + Fee(i)]
            /\ relayFunds' = relayFunds + Fee(i)
        BY <1>2, <3>4, Zenon DEF PayFee
      <4> QED BY <1>3, <3>1, <3>2, <4>1
    <3> QED BY <3>3, <3>4
  <2>4. periodsMissed' \in [NoteIds -> Nat] /\ periodsSettled' \in [NoteIds -> Nat]
    <3>1. periodsMissed'[n] \in Nat /\ periodsSettled'[n] \in Nat
      BY <1>0, <1>1, <1>2, SettleMoves
    <3> QED BY <1>0, <1>2, <3>1 DEF MarkSettled, TypeOK
  <2>5. /\ periodStatus' \in [NoteIds -> [Periods -> PeriodStatus]]
        /\ firstMissedAt' \in [NoteIds -> Nat]
    BY <1>0, <1>2 DEF MarkSettled, TypeOK, StatusOnPayout, FirstMissedOnCure, PeriodStatus
  <2>6. status' \in [NoteIds -> NoteStatus]
    BY <1>0, <1>2 DEF MarkSettled, TypeOK, StatusOnSettle, NoteStatus
  <2> QED BY <1>0, <1>2, <2>1, <2>2, <2>3, <2>4, <2>5, <2>6 DEF TypeOK
<1>5. ASSUME NEW m \in NoteIds PROVE NoteAt(m)'
  <2>1. CASE m = n
    <3>1. StandingAt(n)'
      BY <1>0, <1>1, <1>2, SettleKeepsStanding
    <3>2. CureWindowAt(n)'
      BY <1>0, <1>1, <1>2, SettleKeepsCureWindow
    <3>3. LedgersAt(n)' /\ BackedAt(n)' /\ CreditedAt(n)'
      BY <1>0, <1>1, <1>2, SettleKeepsMoney
    <3> QED BY <2>1, <3>1, <3>2, <3>3 DEF NoteAt
  <2>2. CASE m # n
    <3>1. SameNote(m) /\ SameMoney(m)
      BY <1>0, <1>2, <2>2 DEF SameNote, SameMoney, MarkSettled, Release, TypeOK
    <3>2. now' \in Nat /\ now' >= now /\ NoteAt(m)
      BY <1>2 DEF IndInv, TypeOK
    <3> QED BY <1>0, <3>1, <3>2, OthersKept
  <2> QED BY <2>1, <2>2
<1> QED BY <1>4, <1>5 DEF IndInv

LEMMA MissStep ==
  ASSUME IndInv, NEW n \in NoteIds, NEW i \in Periods, NEW caller \in Agents,
         MarkDelinquent(n, i, caller)
  PROVE  IndInv'
<1>0. TypeOK /\ NoteAt(n)
  BY DEF IndInv
<1>1. StandingAt(n) /\ CureWindowAt(n) /\ LedgersAt(n) /\ BackedAt(n) /\ CreditedAt(n)
  BY <1>0 DEF NoteAt
<1>2. /\ MayMiss(n, i) /\ MarkMissed(n, i) /\ now' = now
      /\ UNCHANGED <<balanceOf, paidOf, surplusOf, agentOf, owedFees, relayFunds,
                     totalDistributed>>
  BY DEF MarkDelinquent, vaultVars, relayVars
<1>3. TypeOK'
  BY <1>0, <1>2 DEF TypeOK, MarkMissed, NoteStatus, PeriodStatus
<1>4. ASSUME NEW m \in NoteIds PROVE NoteAt(m)'
  <2>1. CASE m = n
    <3>1. StandingAt(n)' /\ CureWindowAt(n)'
      BY <1>0, <1>1, <1>2, MissKeepsStanding, MissKeepsCureWindow
    <3>2. InStatus(n, Done)' = InStatus(n, Done)
      BY <1>0, <1>2 DEF InStatus, MarkMissed, TypeOK, Done
    <3>3. \A j \in Periods : periodStatus'[n][j] \in Done <=> periodStatus[n][j] \in Done
      BY <1>0, <1>2 DEF MarkMissed, TypeOK, Done
    <3>4. /\ Unreleased(n)' = Unreleased(n) /\ Earned(n)' = Earned(n)
      BY <1>2, <3>3 DEF Unreleased, Earned, Net, Fee, PeriodDue, Coupon, Done
    <3>5. BackedAt(n)' /\ CreditedAt(n)'
      BY <1>1, <1>2, <3>4 DEF BackedAt, CreditedAt, SumOf, SumTo, PartialSums
    <3>6. periodPaid' = periodPaid
      BY <1>2 DEF MarkMissed
    <3>7. LedgersAt(n)'
      BY <1>1, <1>2, <3>3, <3>6 DEF LedgersAt, PeriodDue, Coupon, Done
    <3> QED BY <2>1, <3>1, <3>5, <3>7 DEF NoteAt
  <2>2. CASE m # n
    <3>1. SameNote(m) /\ SameMoney(m)
      BY <1>0, <1>2, <2>2 DEF SameNote, SameMoney, MarkMissed, TypeOK
    <3>2. now' \in Nat /\ now' >= now /\ NoteAt(m)
      BY <1>2 DEF IndInv, TypeOK
    <3> QED BY <1>0, <3>1, <3>2, OthersKept
  <2> QED BY <2>1, <2>2
<1> QED BY <1>3, <1>4 DEF IndInv

LEMMA DefaultStep ==
  ASSUME IndInv, NEW n \in NoteIds, NEW caller \in Agents, DefaultNote(n, caller)
  PROVE  IndInv'
<1>0. TypeOK /\ NoteAt(n)
  BY DEF IndInv
<1>1. StandingAt(n) /\ CureWindowAt(n) /\ LedgersAt(n) /\ BackedAt(n) /\ CreditedAt(n)
  BY <1>0 DEF NoteAt
<1>2. /\ MayDefault(n) /\ MarkDefaulted(n) /\ now' = now
      /\ UNCHANGED <<balanceOf, paidOf, surplusOf, agentOf, owedFees, relayFunds,
                     totalDistributed>>
  BY DEF DefaultNote, vaultVars, relayVars
<1>3. TypeOK'
  BY <1>0, <1>2 DEF TypeOK, MarkDefaulted, NoteStatus
<1>4. \A m \in NoteIds : SameMoney(m) /\ periodStatus'[m] = periodStatus[m]
  BY <1>2 DEF SameMoney, MarkDefaulted
<1>5. ASSUME NEW m \in NoteIds PROVE NoteAt(m)'
  <2>1. CASE m = n
    <3>1. CureWindowAt(n)' /\ InStatus(n, {"Missed"}) # {}
      BY <1>0, <1>1, <1>2, DefaultKeepsCureWindow
    <3>2. StandingAt(n)'
      BY <1>0, <1>1, <1>2, <3>1, DefaultKeepsStanding
    <3>3. LedgersAt(n)' /\ BackedAt(n)' /\ CreditedAt(n)'
      BY <1>1, <1>4, MoneyKept
    <3> QED BY <2>1, <3>1, <3>2, <3>3 DEF NoteAt
  <2>2. CASE m # n
    <3>1. SameNote(m)
      BY <1>0, <1>2, <2>2 DEF SameNote, MarkDefaulted, TypeOK
    <3>2. now' \in Nat /\ now' >= now /\ NoteAt(m)
      BY <1>2 DEF IndInv, TypeOK
    <3> QED BY <1>0, <1>4, <3>1, <3>2, OthersKept
  <2> QED BY <2>1, <2>2
<1> QED BY <1>3, <1>5 DEF IndInv

\* The actions that touch no note: delegation, the clock, a fee withdrawal.
LEMMA QuietStep ==
  ASSUME IndInv, TypeOK', UNCHANGED <<noteVars, vaultVars, totalDistributed>>,
         now' >= now
  PROVE  IndInv'
<1>1. ASSUME NEW m \in NoteIds PROVE NoteAt(m)'
  <2>1. SameNote(m) /\ SameMoney(m)
    BY DEF SameNote, SameMoney, noteVars, vaultVars
  <2>2. TypeOK /\ NoteAt(m) /\ now' \in Nat
    BY DEF IndInv, TypeOK
  <2> QED BY <2>1, <2>2, OthersKept
<1> QED BY <1>1 DEF IndInv

LEMMA IndInvStep == IndInv /\ [Next]_vars => IndInv'
<1> SUFFICES ASSUME IndInv, [Next]_vars PROVE IndInv'
  OBVIOUS
<1>1. now \in Nat /\ TypeOK
  BY DEF IndInv, TypeOK
<1>2. CASE Tick
  <2>1. TypeOK'
    BY <1>1, <1>2, TermsAssumption DEF Tick, TypeOK, noteVars, vaultVars, relayVars
  <2> QED BY <1>1, <1>2, <2>1, QuietStep DEF Tick, relayVars
<1>3. ASSUME NEW n \in NoteIds, NEW agent \in Agents, Delegate(n, agent) PROVE IndInv'
  <2>1. TypeOK'
    BY <1>1, <1>3 DEF Delegate, TypeOK, noteVars, vaultVars
  <2> QED BY <1>1, <1>3, <2>1, QuietStep DEF Delegate
<1>4. ASSUME NEW n \in NoteIds, RevokeDelegation(n) PROVE IndInv'
  <2>1. TypeOK'
    BY <1>1, <1>4 DEF RevokeDelegation, TypeOK, noteVars, vaultVars
  <2> QED BY <1>1, <1>4, <2>1, QuietStep DEF RevokeDelegation
<1>5. ASSUME NEW n \in NoteIds, NEW first \in Periods, NEW value \in Payments,
             PayByHand(n, first, value)
      PROVE  IndInv'
  BY <1>5, PaymentsAssumption, RepayStep DEF PayByHand
<1>6. ASSUME NEW n \in NoteIds, NEW i \in Periods, NEW caller \in Agents,
             NEW accepted \in BOOLEAN, SettlePeriod(n, i, caller, accepted)
      PROVE  IndInv'
  BY <1>6, SettleStep
<1>7. ASSUME NEW n \in NoteIds, NEW i \in Periods, NEW caller \in Agents,
             MarkDelinquent(n, i, caller)
      PROVE  IndInv'
  BY <1>7, MissStep
<1>8. ASSUME NEW n \in NoteIds, NEW caller \in Agents, DefaultNote(n, caller) PROVE IndInv'
  BY <1>8, DefaultStep
<1>9. ASSUME NEW r \in Recipients, WithdrawFees(r) PROVE IndInv'
  <2>1. TypeOK'
    BY <1>1, <1>9 DEF WithdrawFees, TypeOK, noteVars, vaultVars
  <2> QED BY <1>1, <1>9, <2>1, QuietStep DEF WithdrawFees
<1>10. CASE UNCHANGED vars
  <2>1. UNCHANGED <<noteVars, vaultVars, totalDistributed>> /\ now' >= now
    BY <1>1, <1>10 DEF vars, relayVars
  <2>2. TypeOK'
    BY <1>1, <1>10 DEF vars, noteVars, vaultVars, relayVars, TypeOK
  <2> QED BY <2>1, <2>2, QuietStep
<1> QED BY <1>2, <1>3, <1>4, <1>5, <1>6, <1>7, <1>8, <1>9, <1>10 DEF Next

----------------------------------------------------------------------------
(***************************************************************************)
(* The inductive invariant holds, for every value of the constants.        *)
(***************************************************************************)
THEOREM Invariant == Spec => []IndInv
BY IndInvInit, IndInvStep, PTL DEF Spec

(***************************************************************************)
(* Every variable of the three contracts keeps its type; in particular no  *)
(* subtraction of the code underflows: not the missed counter when a       *)
(* period is cured, not the vault's balance when a period is released.     *)
(***************************************************************************)
THEOREM TypeCorrect == Spec => []TypeOK
<1>1. IndInv => TypeOK
  BY DEF IndInv
<1> QED BY <1>1, Invariant, PTL

(***************************************************************************)
(* The note's counters count its periods, and its status is what they say, *)
(* whatever order the periods are settled, missed and cured in.            *)
(***************************************************************************)
THEOREM StandingCorrect == Spec => []StandingMatchesPeriods
<1>1. IndInv => StandingMatchesPeriods
  BY DEF IndInv, NoteAt, StandingAt, StandingMatchesPeriods
<1> QED BY <1>1, Invariant, PTL

(***************************************************************************)
(* The cure window runs exactly while a miss is outstanding, from no       *)
(* earlier than a period could first be missed, and a note in default has  *)
(* outlived it.                                                            *)
(***************************************************************************)
THEOREM CureWindowCorrect == Spec => []CureWindowTimed
<1>1. IndInv => CureWindowTimed
  BY DEF IndInv, NoteAt, CureWindowAt, CureWindowTimed
<1> QED BY <1>1, Invariant, PTL

(***************************************************************************)
(* The vault's ledger and the note's agree, and no period is credited more *)
(* than it is due, for every cascade over every schedule.                  *)
(***************************************************************************)
THEOREM LedgersCorrect == Spec => []LedgersAgree
<1>1. IndInv => LedgersAgree
  BY DEF IndInv, NoteAt, LedgersAt, LedgersAgree
<1> QED BY <1>1, Invariant, PTL

(***************************************************************************)
(* The vault holds exactly the unreleased payments and the surplus of      *)
(* every note: repay() loses nothing to rounding or to its loop, and       *)
(* release() is always covered by what was paid for the period released.   *)
(***************************************************************************)
THEOREM VaultSolvent == Spec => []VaultBacked
<1>1. IndInv => VaultBacked
  BY DEF IndInv, NoteAt, BackedAt, VaultBacked
<1> QED BY <1>1, Invariant, PTL

(***************************************************************************)
(* Holders are credited the net of each period that is settled or cured,   *)
(* exactly once.                                                           *)
(***************************************************************************)
THEOREM HoldersPaidOnce == Spec => []HoldersCreditedOnce
<1>1. IndInv => HoldersCreditedOnce
  BY DEF IndInv, NoteAt, CreditedAt, HoldersCreditedOnce
<1> QED BY <1>1, Invariant, PTL

----------------------------------------------------------------------------
\* What the relay keeps for fees.

LEMMA FeesMove ==
  ASSUME TypeOK, TypeOK', RelayHoldsOwedFees, NEW r \in Recipients, NEW x \in Int,
         owedFees'[r] = owedFees[r] + x, relayFunds' = relayFunds + x,
         \A q \in Recipients : q # r => owedFees'[q] = owedFees[q]
  PROVE  RelayHoldsOwedFees'
<1>1. /\ RecipientCount \in Nat /\ Recipients = 0..(RecipientCount - 1)
      /\ owedFees \in [Recipients -> Nat] /\ owedFees' \in [Recipients -> Nat]
  BY RelayAssumption DEF TypeOK, Recipients
<1>2. owedFees \in [0..(RecipientCount - 1) -> Int] /\ owedFees' \in [0..(RecipientCount - 1) -> Int]
  BY <1>1
<1>3. SumTo(owedFees', RecipientCount) = SumTo(owedFees, RecipientCount) + x
  BY <1>1, <1>2, SumBump
<1> QED BY <1>3 DEF RelayHoldsOwedFees

LEMMA RelayStep ==
  IndInv /\ IndInv' /\ RelayHoldsOwedFees /\ [Next]_vars => RelayHoldsOwedFees'
<1> SUFFICES ASSUME IndInv, IndInv', RelayHoldsOwedFees, [Next]_vars
             PROVE  RelayHoldsOwedFees'
  OBVIOUS
<1>1. TypeOK /\ TypeOK'
  BY DEF IndInv
<1>2. ASSUME UNCHANGED <<owedFees, relayFunds>> PROVE RelayHoldsOwedFees'
  BY <1>2 DEF RelayHoldsOwedFees
<1>3. ASSUME NEW n \in NoteIds, NEW i \in Periods, NEW caller \in Agents,
             NEW accepted \in BOOLEAN, SettlePeriod(n, i, caller, accepted)
      PROVE  RelayHoldsOwedFees'
  <2>1. PayFee(FeeRecipient[n], Fee(i), accepted)
    BY <1>3 DEF SettlePeriod
  <2>2. CASE accepted
    BY <1>2, <2>1, <2>2 DEF PayFee
  <2>3. CASE ~accepted
    <3>1. /\ owedFees' = [owedFees EXCEPT ![FeeRecipient[n]] = @ + Fee(i)]
          /\ relayFunds' = relayFunds + Fee(i)
      BY <2>1, <2>3, Zenon DEF PayFee
    <3>2. FeeRecipient[n] \in Recipients /\ Fee(i) \in Int
      BY RelayAssumption, FeeAndNet
    <3>3. owedFees \in [Recipients -> Nat]
      BY <1>1 DEF TypeOK
    <3>4. /\ owedFees'[FeeRecipient[n]] = owedFees[FeeRecipient[n]] + Fee(i)
          /\ \A q \in Recipients : q # FeeRecipient[n] => owedFees'[q] = owedFees[q]
      BY <3>1, <3>2, <3>3
    <3> QED BY <1>1, <3>1, <3>2, <3>4, FeesMove
  <2> QED BY <2>2, <2>3
<1>4. ASSUME NEW r \in Recipients, WithdrawFees(r) PROVE RelayHoldsOwedFees'
  <2>1. owedFees \in [Recipients -> Nat] /\ relayFunds \in Nat
    BY <1>1 DEF TypeOK
  <2>2. owedFees' = [owedFees EXCEPT ![r] = 0] /\ relayFunds' = relayFunds - owedFees[r]
    BY <1>4 DEF WithdrawFees
  <2> DEFINE x == 0 - owedFees[r]
  <2>3. /\ x \in Int /\ owedFees'[r] = owedFees[r] + x /\ relayFunds' = relayFunds + x
        /\ \A q \in Recipients : q # r => owedFees'[q] = owedFees[q]
    BY <2>1, <2>2
  <2> HIDE DEF x
  <2> QED BY <1>1, <2>3, FeesMove
<1>5. CASE Tick
  BY <1>2, <1>5 DEF Tick, relayVars
<1>6. ASSUME NEW n \in NoteIds, NEW agent \in Agents, Delegate(n, agent)
      PROVE  RelayHoldsOwedFees'
  BY <1>2, <1>6 DEF Delegate
<1>7. ASSUME NEW n \in NoteIds, RevokeDelegation(n) PROVE RelayHoldsOwedFees'
  BY <1>2, <1>7 DEF RevokeDelegation
<1>8. ASSUME NEW n \in NoteIds, NEW first \in Periods, NEW value \in Payments,
             PayByHand(n, first, value)
      PROVE  RelayHoldsOwedFees'
  BY <1>2, <1>8 DEF PayByHand, RepayNote, relayVars
<1>9. ASSUME NEW n \in NoteIds, NEW i \in Periods, NEW caller \in Agents,
             MarkDelinquent(n, i, caller)
      PROVE  RelayHoldsOwedFees'
  BY <1>2, <1>9 DEF MarkDelinquent, relayVars
<1>10. ASSUME NEW n \in NoteIds, NEW caller \in Agents, DefaultNote(n, caller)
       PROVE  RelayHoldsOwedFees'
  BY <1>2, <1>10 DEF DefaultNote, relayVars
<1>11. CASE UNCHANGED vars
  BY <1>2, <1>11 DEF vars, relayVars
<1> QED BY <1>3, <1>4, <1>5, <1>6, <1>7, <1>8, <1>9, <1>10, <1>11 DEF Next

(***************************************************************************)
(* Whatever notes share the relay, and whichever recipients refuse their   *)
(* fees, between transactions it holds what it owes them: every withdrawal *)
(* is covered, and no note's money stays behind.                           *)
(***************************************************************************)
THEOREM RelaySolvent == Spec => []RelayHoldsOwedFees
<1>1. Init => RelayHoldsOwedFees
  <2> SUFFICES ASSUME Init PROVE RelayHoldsOwedFees
    OBVIOUS
  <2>1. /\ RecipientCount \in Nat
        /\ owedFees \in [0..(RecipientCount - 1) -> Int]
        /\ \A r \in 0..(RecipientCount - 1) : owedFees[r] = 0
    BY RelayAssumption DEF Init, Recipients
  <2>2. SumTo(owedFees, RecipientCount) = 0
    BY <2>1, SumZero
  <2> QED BY <2>2 DEF Init, RelayHoldsOwedFees
<1> QED BY <1>1, Invariant, RelayStep, PTL DEF Spec

----------------------------------------------------------------------------
\* What a step may never do.

LEMMA TerminalNextStep == IndInv /\ [Next]_vars => [TerminalStep]_vars
<1> SUFFICES ASSUME IndInv, Next, NEW n \in NoteIds,
                    status[n] \in {"Matured", "Defaulted"}
             PROVE  ClosedNoteKept(n)
  BY DEF TerminalStep
<1>0. TypeOK /\ NoteAt(n) /\ ~Live(n)
  BY DEF IndInv, Live
<1> USE DEF ClosedNoteKept
<1>a. balanceOf[n] \in Nat /\ surplusOf[n] \in Nat
  BY <1>0 DEF TypeOK
<1>1. CASE UNCHANGED <<noteVars, vaultVars, totalDistributed>>
  BY <1>1, <1>a DEF noteVars, vaultVars
<1>2. ASSUME NEW m \in NoteIds, NEW first \in Periods, NEW value \in Payments,
             PayByHand(m, first, value)
      PROVE  ClosedNoteKept(n)
  <2>1. /\ Repay(m, first, value)
        /\ status' = status /\ periodStatus' = periodStatus
        /\ totalDistributed' = totalDistributed
    BY <1>2 DEF PayByHand, RepayNote, Repay, RecordPayments, relayVars
  <2>2. CASE m # n
    <3>1. paidOf'[n] = paidOf[n] /\ balanceOf'[n] = balanceOf[n] /\ surplusOf'[n] = surplusOf[n]
      BY <1>0, <2>1, <2>2 DEF Repay, TypeOK
    <3> QED BY <2>1, <3>1, <1>a
  <2>3. CASE m = n
    <3>0. value \in Nat /\ LedgersAt(n) /\ Repay(n, first, value)
      BY <1>0, <2>1, <2>3, PaymentsAssumption DEF NoteAt
    <3>1. PICK credit \in [Periods -> Nat], left \in Nat : RepayEffect(n, value, credit, left)
      BY <1>0, <3>0, RepayMoves, Zenon
    <3>2. /\ \A i \in Periods : paidOf'[n][i] = paidOf[n][i] + credit[i]
          /\ ~ (\E i \in Periods : credit[i] > 0)
          /\ balanceOf'[n] = balanceOf[n] + value
          /\ surplusOf'[n] = surplusOf[n] + left
          /\ (\A i \in Periods : credit[i] = 0) => left = value
      BY <1>0, <3>1, Zenon DEF RepayEffect
    <3>3. \A i \in Periods : credit[i] = 0
      BY <3>2
    <3>4. paidOf'[n] = paidOf[n]
      <4>1. \A i \in Periods : paidOf'[n][i] = paidOf[n][i]
        BY <1>0, <3>2, <3>3 DEF TypeOK
      <4>2. /\ paidOf[n] \in [Periods -> Nat]
            /\ paidOf'[n] = [i \in Periods |-> paidOf[n][i]
                                + Credits(Room(n), first, value)[i]]
        BY <1>0, <3>0 DEF Repay, TypeOK
      <4>3. paidOf'[n] = [i \in Periods |-> paidOf'[n][i]]
        BY <4>2
      <4> QED BY <4>1, <4>2, <4>3
    <3> QED BY <1>a, <2>1, <3>0, <3>2, <3>3, <3>4
  <2> QED BY <2>2, <2>3
<1>3. ASSUME NEW m \in NoteIds, NEW i \in Periods, NEW caller \in Agents,
             NEW accepted \in BOOLEAN, SettlePeriod(m, i, caller, accepted)
      PROVE  ClosedNoteKept(n)
  <2>1. m # n
    BY <1>0, <1>3 DEF SettlePeriod, MaySettle
  <2> QED BY <1>0, <1>3, <1>a, <2>1 DEF SettlePeriod, MarkSettled, Release, TypeOK
<1>4. ASSUME NEW m \in NoteIds, NEW i \in Periods, NEW caller \in Agents,
             MarkDelinquent(m, i, caller)
      PROVE  ClosedNoteKept(n)
  <2>1. m # n
    BY <1>0, <1>4 DEF MarkDelinquent, MayMiss
  <2> QED BY <1>0, <1>4, <1>a, <2>1
          DEF MarkDelinquent, MarkMissed, TypeOK, vaultVars, relayVars
<1>5. ASSUME NEW m \in NoteIds, NEW caller \in Agents, DefaultNote(m, caller)
      PROVE  ClosedNoteKept(n)
  <2>1. m # n
    BY <1>0, <1>5 DEF DefaultNote, MayDefault
  <2> QED BY <1>0, <1>5, <1>a, <2>1
          DEF DefaultNote, MarkDefaulted, TypeOK, vaultVars, relayVars
<1>6. CASE Tick
  BY <1>1, <1>6 DEF Tick, relayVars
<1>7. ASSUME NEW m \in NoteIds, NEW agent \in Agents, Delegate(m, agent)
      PROVE  ClosedNoteKept(n)
  BY <1>1, <1>7 DEF Delegate
<1>8. ASSUME NEW m \in NoteIds, RevokeDelegation(m) PROVE ClosedNoteKept(n)
  BY <1>1, <1>8 DEF RevokeDelegation
<1>9. ASSUME NEW r \in Recipients, WithdrawFees(r) PROVE ClosedNoteKept(n)
  BY <1>1, <1>9 DEF WithdrawFees
<1> QED BY <1>2, <1>3, <1>4, <1>5, <1>6, <1>7, <1>8, <1>9 DEF Next

(***************************************************************************)
(* A note that has matured or defaulted is closed for good: whatever comes *)
(* in after that is surplus, down to the last unit.                        *)
(***************************************************************************)
THEOREM TerminalStays == Spec => TerminalIsFinal
BY Invariant, TerminalNextStep, PTL DEF Spec, TerminalIsFinal

LEMMA RecordNextStep == IndInv /\ [Next]_vars => [RecordStep]_vars
<1> SUFFICES ASSUME IndInv, Next, NEW n \in NoteIds, NEW i \in Periods
             PROVE  /\ periodStatus[n][i] = "Missed" => periodStatus'[n][i] \in {"Missed", "Cured"}
                    /\ periodStatus[n][i] \in Done => periodStatus'[n][i] = periodStatus[n][i]
  BY DEF RecordStep
<1>0. TypeOK
  BY DEF IndInv
<1>1. CASE periodStatus' = periodStatus
  BY <1>1
<1>2. ASSUME NEW m \in NoteIds, NEW j \in Periods, NEW caller \in Agents,
             NEW accepted \in BOOLEAN, SettlePeriod(m, j, caller, accepted)
      PROVE  /\ periodStatus[n][i] = "Missed" => periodStatus'[n][i] \in {"Missed", "Cured"}
             /\ periodStatus[n][i] \in Done => periodStatus'[n][i] = periodStatus[n][i]
  BY <1>0, <1>2 DEF SettlePeriod, MaySettle, MarkSettled, StatusOnPayout, TypeOK, Done
<1>3. ASSUME NEW m \in NoteIds, NEW j \in Periods, NEW caller \in Agents,
             MarkDelinquent(m, j, caller)
      PROVE  /\ periodStatus[n][i] = "Missed" => periodStatus'[n][i] \in {"Missed", "Cured"}
             /\ periodStatus[n][i] \in Done => periodStatus'[n][i] = periodStatus[n][i]
  BY <1>0, <1>3 DEF MarkDelinquent, MarkMissed, TypeOK, Done
<1>4. ASSUME ~ \E m \in NoteIds, j \in Periods, caller \in Agents, accepted \in BOOLEAN :
                 SettlePeriod(m, j, caller, accepted),
             ~ \E m \in NoteIds, j \in Periods, caller \in Agents : MarkDelinquent(m, j, caller)
      PROVE  periodStatus' = periodStatus
  BY <1>4 DEF Next, Tick, Delegate, RevokeDelegation, PayByHand, RepayNote, Repay, RecordPayments,
              DefaultNote, MarkDefaulted, WithdrawFees, noteVars
<1> QED BY <1>1, <1>2, <1>3, <1>4

(***************************************************************************)
(* A miss is never un-recorded and a paid-out period never re-opened.      *)
(***************************************************************************)
THEOREM RecordStays == Spec => MissesStayOnRecord
BY Invariant, RecordNextStep, PTL DEF Spec, MissesStayOnRecord

----------------------------------------------------------------------------
\* The misses themselves, with the moment of each: ServicingHistory.

\* The one timestamp is set when a first miss is recorded, and then kept until
\* it is cleared.
LEMMA FirstMissMoves ==
  ASSUME IndInv, [Next]_vars, NEW n \in NoteIds
  PROVE  firstMissedAt'[n] \in {0, IF firstMissedAt[n] = 0 THEN now ELSE firstMissedAt[n]}
<1> DEFINE Moved == firstMissedAt'[n] \in {0, IF firstMissedAt[n] = 0 THEN now
                                              ELSE firstMissedAt[n]}
<1>1. TypeOK
  BY DEF IndInv
<1>2. firstMissedAt' = firstMissedAt => Moved
  OBVIOUS
<1>3. ASSUME NEW m \in NoteIds, NEW i \in Periods, NEW caller \in Agents,
             NEW accepted \in BOOLEAN, SettlePeriod(m, i, caller, accepted)
      PROVE  Moved
  BY <1>1, <1>3 DEF SettlePeriod, MarkSettled, FirstMissedOnCure, TypeOK
<1>4. ASSUME NEW m \in NoteIds, NEW i \in Periods, NEW caller \in Agents,
             MarkDelinquent(m, i, caller)
      PROVE  Moved
  BY <1>1, <1>4 DEF MarkDelinquent, MarkMissed, TypeOK
<1>5. ASSUME ~ \E m \in NoteIds, i \in Periods, caller \in Agents, accepted \in BOOLEAN :
                 SettlePeriod(m, i, caller, accepted),
             ~ \E m \in NoteIds, i \in Periods, caller \in Agents : MarkDelinquent(m, i, caller)
      PROVE  firstMissedAt' = firstMissedAt
  <2>1. CASE UNCHANGED vars
    BY <2>1 DEF vars, noteVars
  <2>2. CASE Next
    BY <1>5, <2>2 DEF Next, Tick, Delegate, RevokeDelegation, PayByHand, RepayNote, Repay,
                      RecordPayments, DefaultNote, MarkDefaulted, WithdrawFees, noteVars
  <2> QED BY <2>1, <2>2
<1> HIDE DEF Moved
<1>6. Moved
  BY <1>2, <1>3, <1>4, <1>5
<1> QED BY <1>6 DEF Moved

LEMMA WindowKept ==
  ASSUME IndInv, IndInv', WindowNeverRestarts, HNext
  PROVE  WindowNeverRestarts'
<1> SUFFICES ASSUME NEW n \in NoteIds, NEW i \in Periods, periodStatus'[n][i] = "Missed"
             PROVE  firstMissedAt'[n] # 0 /\ firstMissedAt'[n] <= missedAt'[n][i]
  BY DEF WindowNeverRestarts, Uncured, InStatus
<1>1. firstMissedAt'[n] # 0
  <2>1. i \in InStatus(n, {"Missed"})'
    BY DEF InStatus
  <2>2. CureWindowAt(n)'
    BY DEF IndInv, NoteAt
  <2> QED BY <2>1, <2>2 DEF CureWindowAt
<1>2. firstMissedAt'[n] = IF firstMissedAt[n] = 0 THEN now ELSE firstMissedAt[n]
  BY <1>1, FirstMissMoves DEF HNext
<1>3. missedAt'[n][i] = IF periodStatus[n][i] # "Missed" THEN now ELSE missedAt[n][i]
  BY DEF HNext
<1>4. firstMissedAt[n] \in Nat /\ now \in Nat /\ (firstMissedAt[n] # 0 => firstMissedAt[n] <= now)
  <2>1. CureWindowAt(n) /\ firstMissedAt[n] \in Nat /\ now \in Nat /\ PeriodEnd(0) \in Nat
    <3>1. 0 \in Periods
      BY TermsAssumption DEF Periods
    <3> QED BY <3>1, FirstPeriodEndsFirst DEF IndInv, NoteAt, TypeOK
  <2> QED BY <2>1, TermsAssumption DEF CureWindowAt
<1>5. CASE periodStatus[n][i] = "Missed"
  <2>1. firstMissedAt[n] # 0 /\ firstMissedAt[n] <= missedAt[n][i]
    BY <1>5 DEF WindowNeverRestarts, Uncured, InStatus
  <2> QED BY <1>1, <1>2, <1>3, <1>5, <2>1
<1>6. CASE periodStatus[n][i] # "Missed"
  BY <1>1, <1>2, <1>3, <1>4, <1>6
<1> QED BY <1>5, <1>6

(***************************************************************************)
(* A cure does not restart the cure window: while any miss is outstanding, *)
(* the note's one timestamp is no later than that miss, for any number of  *)
(* periods missed and cured in any order.                                  *)
(***************************************************************************)
THEOREM WindowHolds == HSpec => []WindowNeverRestarts
<1>1. HInit => IndInv /\ WindowNeverRestarts
  <2>1. HInit => IndInv
    BY IndInvInit DEF HInit
  <2>2. HInit => WindowNeverRestarts
    BY DEF HInit, Init, NoteInit, WindowNeverRestarts, Uncured, InStatus
  <2> QED BY <2>1, <2>2
<1>2. IndInv /\ WindowNeverRestarts /\ [HNext]_<<vars, missedAt>>
        => IndInv' /\ WindowNeverRestarts'
  <2> SUFFICES ASSUME IndInv, WindowNeverRestarts, [HNext]_<<vars, missedAt>>
               PROVE  IndInv' /\ WindowNeverRestarts'
    OBVIOUS
  <2>1. IndInv'
    BY IndInvStep DEF HNext
  <2>2. CASE HNext
    BY <2>1, <2>2, WindowKept
  <2>3. CASE UNCHANGED <<vars, missedAt>>
    <3>1. UNCHANGED <<periodStatus, firstMissedAt, missedAt>>
      BY <2>3 DEF vars, noteVars
    <3>2. ASSUME NEW n \in NoteIds, NEW i \in Periods, periodStatus'[n][i] = "Missed"
          PROVE  firstMissedAt'[n] # 0 /\ firstMissedAt'[n] <= missedAt'[n][i]
      <4>1. i \in Uncured(n)
        BY <3>1, <3>2 DEF Uncured, InStatus
      <4> QED BY <3>1, <4>1 DEF WindowNeverRestarts
    <3> QED BY <2>1, <3>2 DEF WindowNeverRestarts, Uncured, InStatus
  <2> QED BY <2>1, <2>2, <2>3
<1> QED BY <1>1, <1>2, PTL DEF HSpec

----------------------------------------------------------------------------
\* Servicing implements the loan book.

LEMMA BookInitially == Init => Book!BookInit
BY DEF Init, NoteInit, VaultInit, Book!BookInit

\* A standing that agrees with the outcomes is the one the loan book computes.
LEMMA StandingIsFunction ==
  ASSUME NEW st \in {"Active", "Delinquent", "Matured"}, NEW ps,
         st = "Matured" <=> \A i \in Periods : ps[i] \in Done,
         st = "Delinquent" => \E i \in Periods : ps[i] = "Missed",
         st = "Active" => ~ \E i \in Periods : ps[i] = "Missed"
  PROVE  st = Book!StandingOf(ps)
<1>1. CASE st = "Matured"
  BY <1>1 DEF Book!StandingOf, Book!PaidOut, Done
<1>2. CASE st = "Delinquent"
  <2>1. ~ \A i \in Periods : ps[i] \in Done
    BY <1>2
  <2> QED BY <1>2, <2>1 DEF Book!StandingOf, Book!PaidOut, Done
<1>3. CASE st = "Active"
  <2>1. ~ \A i \in Periods : ps[i] \in Done
    BY <1>3
  <2> QED BY <1>3, <2>1 DEF Book!StandingOf, Book!PaidOut, Done
<1> QED BY <1>1, <1>2, <1>3

\* A step that changes the status of one period, and leaves the note short of
\* default, resolves that period in the loan book.
LEMMA StandingResolves ==
  ASSUME TypeOK, TypeOK', NEW n \in NoteIds, NEW i \in Periods, NEW to, StandingAt(n)',
         Live(n), status'[n] # "Defaulted",
         periodStatus' = [periodStatus EXCEPT ![n][i] = to],
         \A m \in NoteIds : m # n => status'[m] = status[m]
  PROVE  Book!Resolve(n, i, to)
<1>1. status'[n] = Book!StandingOf(periodStatus'[n])
  <2> DEFINE st == status'[n]
             ps == periodStatus'[n]
  <2>1. /\ st = "Matured" <=> InStatus(n, Done)' = Periods
        /\ st \in {"Delinquent", "Defaulted"} => InStatus(n, {"Missed"})' # {}
        /\ st = "Active" => InStatus(n, {"Missed"})' = {}
    BY DEF StandingAt, Done
  <2>2. /\ InStatus(n, Done)' = {j \in Periods : ps[j] \in Done}
        /\ InStatus(n, {"Missed"})' = {j \in Periods : ps[j] = "Missed"}
    BY DEF InStatus, Done
  <2>3. st \in {"Active", "Delinquent", "Matured"}
    BY DEF TypeOK, NoteStatus
  <2> HIDE DEF st, ps
  <2>4. /\ st = "Matured" <=> \A j \in Periods : ps[j] \in Done
        /\ st = "Delinquent" => \E j \in Periods : ps[j] = "Missed"
        /\ st = "Active" => ~ \E j \in Periods : ps[j] = "Missed"
    BY <2>1, <2>2
  <2>5. st = Book!StandingOf(ps)
    BY <2>3, <2>4, StandingIsFunction
  <2> QED BY <2>5 DEF st, ps
<1>2. status' = [status EXCEPT ![n] = status'[n]]
  BY DEF TypeOK
<1>3. status[n] \in {"Active", "Delinquent"}
  BY DEF Live, TypeOK, NoteStatus
<1> QED BY <1>1, <1>2, <1>3 DEF Book!Resolve, Book!Open

LEMMA BookStep == IndInv /\ IndInv' /\ [Next]_vars => [Book!BookNext]_(Book!bookVars)
<1> SUFFICES ASSUME IndInv, IndInv', [Next]_vars,
                    ~ UNCHANGED <<status, periodStatus, balanceOf, totalDistributed>>
             PROVE  Book!BookNext
  BY DEF Book!bookVars
<1>0. TypeOK /\ TypeOK' /\ \A n \in NoteIds : NoteAt(n) /\ StandingAt(n)'
  BY DEF IndInv, NoteAt
<1>1. ASSUME NEW n \in NoteIds, NEW first \in Periods, NEW value \in Payments,
             PayByHand(n, first, value)
      PROVE  Book!Receive(n)
  <2>1. /\ balanceOf' = [balanceOf EXCEPT ![n] = @ + value]
        /\ status' = status /\ periodStatus' = periodStatus
        /\ totalDistributed' = totalDistributed
    BY <1>1 DEF PayByHand, RepayNote, Repay, RecordPayments, relayVars
  <2>2. value \in Nat \ {0} /\ balanceOf[n] \in Nat
    BY <1>0, PaymentsAssumption DEF TypeOK
  <2>3. balanceOf'[n] = balanceOf[n] + value
    BY <1>0, <2>1 DEF TypeOK
  <2>4. balanceOf'[n] \in Nat /\ balanceOf'[n] > balanceOf[n]
    BY <2>2, <2>3
  <2>5. balanceOf' = [balanceOf EXCEPT ![n] = balanceOf'[n]]
    BY <2>1, <2>3
  <2> QED BY <2>1, <2>4, <2>5, Zenon DEF Book!Receive
<1>2. ASSUME NEW n \in NoteIds, NEW i \in Periods, NEW caller \in Agents,
             NEW accepted \in BOOLEAN, SettlePeriod(n, i, caller, accepted)
      PROVE  Book!PayOut(n, i)
  <2>1. /\ Live(n) /\ periodStatus[n][i] \notin Done
        /\ balanceOf[n] >= PeriodDue(i)
        /\ balanceOf' = [balanceOf EXCEPT ![n] = @ - PeriodDue(i)]
        /\ totalDistributed' = [totalDistributed EXCEPT ![n] = @ + Net(i)]
        /\ periodStatus' = [periodStatus EXCEPT ![n][i] = StatusOnPayout(n, i)]
    BY <1>2 DEF SettlePeriod, MaySettle, Release, MarkSettled
  <2>2. status'[n] # "Defaulted" /\ \A m \in NoteIds : m # n => status'[m] = status[m]
    BY <1>0, <1>2 DEF SettlePeriod, MarkSettled, StatusOnSettle, Live, TypeOK
  <2>3. Book!Resolve(n, i, StatusOnPayout(n, i))
    BY <1>0, <2>1, <2>2, StandingResolves
  <2> QED BY <2>1, <2>3 DEF Book!PayOut, StatusOnPayout, Book!PaidOut, Done
<1>3. ASSUME NEW n \in NoteIds, NEW i \in Periods, NEW caller \in Agents,
             MarkDelinquent(n, i, caller)
      PROVE  Book!Miss(n, i)
  <2>1. /\ Live(n) /\ periodStatus[n][i] = "Pending"
        /\ periodStatus' = [periodStatus EXCEPT ![n][i] = "Missed"]
        /\ balanceOf' = balanceOf /\ totalDistributed' = totalDistributed
    BY <1>3 DEF MarkDelinquent, MayMiss, MarkMissed, vaultVars, relayVars
  <2>2. status'[n] # "Defaulted" /\ \A m \in NoteIds : m # n => status'[m] = status[m]
    BY <1>0, <1>3 DEF MarkDelinquent, MarkMissed, TypeOK
  <2>3. Book!Resolve(n, i, "Missed")
    BY <1>0, <2>1, <2>2, StandingResolves
  <2> QED BY <2>1, <2>3 DEF Book!Miss
<1>4. ASSUME NEW n \in NoteIds, NEW caller \in Agents, DefaultNote(n, caller)
      PROVE  Book!Default(n)
  <2>1. /\ Live(n) /\ firstMissedAt[n] # 0
        /\ status' = [status EXCEPT ![n] = "Defaulted"]
        /\ periodStatus' = periodStatus
        /\ balanceOf' = balanceOf /\ totalDistributed' = totalDistributed
    BY <1>4 DEF DefaultNote, MayDefault, MarkDefaulted, vaultVars, relayVars
  <2>2. \E i \in Periods : periodStatus[n][i] = "Missed"
    BY <1>0, <2>1 DEF NoteAt, CureWindowAt, InStatus
  <2>3. status[n] \in {"Active", "Delinquent"}
    BY <1>0, <2>1 DEF Live, TypeOK, NoteStatus
  <2> QED BY <2>1, <2>2, <2>3 DEF Book!Default, Book!Open
<1>5. CASE UNCHANGED <<noteVars, vaultVars, totalDistributed>>
  BY <1>5 DEF noteVars, vaultVars
<1>6. CASE Tick
  BY <1>5, <1>6 DEF Tick, relayVars
<1>7. ASSUME NEW n \in NoteIds, NEW agent \in Agents, Delegate(n, agent) PROVE FALSE
  BY <1>7 DEF Delegate, noteVars, vaultVars
<1>8. ASSUME NEW n \in NoteIds, RevokeDelegation(n) PROVE FALSE
  BY <1>8 DEF RevokeDelegation, noteVars, vaultVars
<1>9. ASSUME NEW r \in Recipients, WithdrawFees(r) PROVE FALSE
  BY <1>9 DEF WithdrawFees, noteVars, vaultVars
<1>10. CASE UNCHANGED vars
  BY <1>5, <1>10 DEF vars, relayVars
<1> QED BY <1>1, <1>2, <1>3, <1>4, <1>6, <1>7, <1>8, <1>9, <1>10
        DEF Next, Book!BookNext

(***************************************************************************)
(* The three contracts together implement the loan book: money in, each    *)
(* period paid out once and in full from its own note's money, a standing  *)
(* that is a function of the periods, default only on an outstanding miss, *)
(* and nothing after a note has closed.                                    *)
(***************************************************************************)
THEOREM Refinement == Spec => ImplementsLoanBook
<1>1. Spec => [][Book!BookNext]_(Book!bookVars)
  BY Invariant, BookStep, PTL DEF Spec
<1> QED BY <1>1, BookInitially, PTL DEF Spec, ImplementsLoanBook, Book!BookSpec
============================================================================
