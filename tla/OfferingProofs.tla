--------------------------- MODULE OfferingProofs ---------------------------
(***************************************************************************)
(* The coupon ledger, and the Offering over it.                            *)
(*                                                                         *)
(* The ledger: for every supply, every scale of the accumulator, any       *)
(* number of holders and any amounts.  The accumulator is followed in      *)
(* units of 1 / PRECISION, where nothing is rounded: Scaled(h) is what     *)
(* holder h would be owed without the rounding down of a claim.            *)
(*                                                                         *)
(* The Offering: for every supply, price and number of buyers, and any     *)
(* bound on the purchases.                                                 *)
(***************************************************************************)
EXTENDS Market, CouponHistory, SumLemmas

\* Integer division rounds down, by less than one.
LEMMA DivBounds ==
  ASSUME NEW a \in Nat, NEW p \in Nat \ {0}
  PROVE  /\ a \div p \in Nat
         /\ p * (a \div p) <= a
         /\ a < p * (a \div p) + p
OBVIOUS

Pending(h) == (accPerShare - snapshot[h]) * balances[h]
Scaled(h)  == withdrawable[h] * PRECISION + Pending(h)
AllScaled  == SumTo([h \in Holders |-> Scaled(h)], HolderCount)

\* The ledger in units of 1 / PRECISION.  Every holder's share is within what
\* the accumulator credited, and that is within what was distributed, but for
\* the fraction each distribution may lose to rounding twice over.
ScaledInv ==
  /\ SumTo(balances, HolderCount) = Supply
  /\ funds = totalDistributed - totalClaimed
  /\ AllScaled + totalClaimed * PRECISION <= accPerShare * Supply
  /\ accPerShare * Supply <= PRECISION * (totalDistributed - dust)
                               + (PRECISION - 1) * distributions
  /\ ExactScale => accPerShare * Supply = PRECISION * (totalDistributed - dust)

LedgerInv == LedgerTypeOK /\ ScaledInv /\ DustBounded

LEMMA HolderNumbers == HolderCount \in Nat /\ Holders = 0..(HolderCount - 1)
BY LedgerAssumption DEF Holders

\* The types of the derived amounts.
LEMMA ShareTypes ==
  ASSUME LedgerTypeOK, NEW h \in Holders
  PROVE  /\ Pending(h) \in Nat
         /\ Scaled(h) \in Nat
         /\ Claimable(h) \in Nat
         /\ PRECISION * Claimable(h) <= Scaled(h)
<1>1. /\ accPerShare - snapshot[h] \in Nat /\ balances[h] \in Nat /\ withdrawable[h] \in Nat
      /\ PRECISION \in Nat \ {0}
  BY LedgerAssumption DEF LedgerTypeOK
<1>2. Pending(h) \in Nat
  BY <1>1 DEF Pending
<1>3. withdrawable[h] * PRECISION \in Nat
  BY <1>1
<1>4. Scaled(h) \in Nat
  BY <1>2, <1>3 DEF Scaled
<1> DEFINE q == Pending(h) \div PRECISION
<1>5. q \in Nat /\ PRECISION * q <= Pending(h)
  BY <1>1, <1>2, DivBounds
<1>6. Claimable(h) = withdrawable[h] + q
  BY DEF Claimable, Pending
<1> HIDE DEF q
<1>7. PRECISION * (withdrawable[h] + q) = withdrawable[h] * PRECISION + PRECISION * q
  BY <1>1, <1>5
<1>8. PRECISION * q \in Nat
  BY <1>1, <1>5
<1>9. PRECISION * Claimable(h) <= Scaled(h)
  BY <1>2, <1>3, <1>5, <1>6, <1>7, <1>8 DEF Scaled
<1> QED BY <1>1, <1>2, <1>4, <1>5, <1>6, <1>9

\* All that holders could claim is within their scaled shares.
LEMMA OutstandingScaled ==
  ASSUME LedgerTypeOK
  PROVE  /\ Outstanding \in Nat
         /\ AllScaled \in Nat
         /\ PRECISION * Outstanding <= AllScaled
<1> DEFINE c == [h \in Holders |-> Claimable(h)]
           z == [h \in Holders |-> 0]
           p == [h \in Holders |-> PRECISION * Claimable(h)]
           s == [h \in Holders |-> Scaled(h)]
<1>0. PRECISION \in Nat /\ PRECISION \in Int
  BY LedgerAssumption
<1>1. \A h \in Holders : /\ Claimable(h) \in Nat /\ Scaled(h) \in Nat
                         /\ PRECISION * Claimable(h) \in Nat
                         /\ PRECISION * Claimable(h) <= Scaled(h)
  BY <1>0, ShareTypes
<1>2. /\ c \in [Holders -> Nat] /\ c \in [Holders -> Int]
      /\ s \in [Holders -> Nat] /\ s \in [Holders -> Int]
      /\ p \in [Holders -> Int] /\ z \in [Holders -> Int]
  BY <1>1
<1>3. \A h \in Holders : p[h] = z[h] + PRECISION * c[h] /\ p[h] <= s[h] /\ z[h] = 0
  BY <1>1
<1> HIDE DEF c, z, p, s
<1>4. SumTo(c, HolderCount) \in Nat /\ SumTo(s, HolderCount) \in Nat
  BY <1>2, HolderNumbers, SumType, Zenon
<1>5. SumTo(p, HolderCount) <= SumTo(s, HolderCount)
  BY <1>2, <1>3, HolderNumbers, SumBelow, Zenon
<1>6. SumTo(p, HolderCount) = SumTo(z, HolderCount) + PRECISION * SumTo(c, HolderCount)
  BY <1>0, <1>2, <1>3, HolderNumbers, SumPlusMultiple, Zenon
<1>7. SumTo(z, HolderCount) = 0
  BY <1>2, <1>3, HolderNumbers, SumZero, Zenon
<1>8. PRECISION * SumTo(c, HolderCount) \in Nat
  BY <1>0, <1>4
<1>9. PRECISION * SumTo(c, HolderCount) <= SumTo(s, HolderCount)
  BY <1>5, <1>6, <1>7, <1>8
<1> QED BY <1>4, <1>9 DEF Outstanding, AllScaled, c, s

----------------------------------------------------------------------------
\* From the scaled ledger to the one in whole units.

LEMMA UnitsBelow ==
  ASSUME NEW p \in Nat \ {0}, NEW x \in Int, NEW y \in Int, p * x < p * (y + 1)
  PROVE  x <= y
<1> SUFFICES ASSUME x >= y + 1 PROVE FALSE
  OBVIOUS
<1> DEFINE k == x - (y + 1)
<1>1. k \in Nat /\ x = (y + 1) + k
  OBVIOUS
<1> HIDE DEF k
<1>2. /\ p * ((y + 1) + k) = p * (y + 1) + p * k
      /\ p * k \in Nat /\ p * (y + 1) \in Int
  BY <1>1
<1> QED BY <1>1, <1>2

LEMMA WholeUnits ==
  ASSUME NEW p \in Nat \ {0}, NEW x \in Int, NEW y \in Int, p * x <= p * y
  PROVE  x <= y
<1>1. p * (y + 1) = p * y + p /\ p * x \in Int /\ p * y \in Int
  OBVIOUS
<1>2. p * x < p * (y + 1)
  BY <1>1
<1> QED BY <1>2, UnitsBelow

LEMMA BoundedByInv == LedgerInv => OverCreditBounded
<1> SUFFICES ASSUME LedgerInv PROVE Outstanding + dust <= funds + distributions
  BY DEF OverCreditBounded
<1> DEFINE P == PRECISION
           D == distributions
           E == totalDistributed - dust
           A == accPerShare * Supply
<1>0. /\ P \in Nat \ {0} /\ D \in Nat /\ E \in Int /\ A \in Int
      /\ dust \in Nat /\ funds \in Nat /\ totalClaimed \in Nat /\ totalDistributed \in Nat
      /\ Outstanding \in Nat /\ AllScaled \in Nat
  BY LedgerAssumption, OutstandingScaled DEF LedgerInv, LedgerTypeOK
<1>1. /\ P * Outstanding <= AllScaled
      /\ AllScaled + totalClaimed * P <= A
      /\ A <= P * E + (P - 1) * D
      /\ funds = totalDistributed - totalClaimed
  BY OutstandingScaled DEF LedgerInv, ScaledInv
<1> HIDE DEF P, D, E, A
<1>2. P * (Outstanding + totalClaimed) <= P * (E + D)
  <2>1. P * (Outstanding + totalClaimed) = P * Outstanding + totalClaimed * P
    BY <1>0
  <2>2. P * (E + D) = P * E + P * D /\ (P - 1) * D = P * D - D
    BY <1>0
  <2>3. /\ P * Outstanding \in Int /\ totalClaimed * P \in Int
        /\ P * E \in Int /\ P * D \in Int /\ (P - 1) * D \in Int
    BY <1>0
  <2> QED BY <1>0, <1>1, <2>1, <2>2, <2>3
<1>3. Outstanding + totalClaimed <= E + D
  BY <1>0, <1>2, WholeUnits
<1> QED BY <1>0, <1>1, <1>3 DEF E, D

LEMMA ExactByInv == LedgerInv => CoveredAtExactScale
<1> SUFFICES ASSUME LedgerInv, ExactScale PROVE Outstanding + dust <= funds
  BY DEF CoveredAtExactScale
<1> DEFINE P == PRECISION
           E == totalDistributed - dust
<1>0. /\ P \in Nat \ {0} /\ E \in Int
      /\ dust \in Nat /\ funds \in Nat /\ totalClaimed \in Nat /\ totalDistributed \in Nat
      /\ Outstanding \in Nat /\ AllScaled \in Nat
  BY LedgerAssumption, OutstandingScaled DEF LedgerInv, LedgerTypeOK
<1>1. /\ P * Outstanding <= AllScaled
      /\ AllScaled + totalClaimed * P <= P * E
      /\ funds = totalDistributed - totalClaimed
  BY OutstandingScaled DEF LedgerInv, ScaledInv
<1> HIDE DEF P, E
<1>2. P * (Outstanding + totalClaimed) <= P * E
  <2>1. P * (Outstanding + totalClaimed) = P * Outstanding + totalClaimed * P
    BY <1>0
  <2>2. P * Outstanding \in Int /\ totalClaimed * P \in Int /\ P * E \in Int
    BY <1>0
  <2> QED BY <1>0, <1>1, <2>1, <2>2
<1>3. Outstanding + totalClaimed <= E
  BY <1>0, <1>2, WholeUnits
<1> QED BY <1>0, <1>1, <1>3 DEF E

----------------------------------------------------------------------------
\* The initial state.

LEMMA LedgerInvInit == LedgerInit => LedgerInv
<1> SUFFICES ASSUME LedgerInit PROVE LedgerInv
  OBVIOUS
<1>0. /\ Supply \in Nat \ {0} /\ PRECISION \in Nat \ {0} /\ MaxDistributions \in Nat
      /\ HolderCount \in Nat \ {0} /\ 0 \in Holders
  BY LedgerAssumption DEF Holders
<1>1. LedgerTypeOK
  BY <1>0 DEF LedgerInit, LedgerTypeOK
<1>2. SumTo(balances, HolderCount) = Supply
  <2> DEFINE z == [h \in Holders |-> 0]
             b == balances
             o == Originator
  <2>1. /\ z \in [Holders -> Int] /\ b \in [Holders -> Int] /\ Supply \in Int
        /\ o \in Holders
        /\ b[o] = z[o] + Supply
        /\ \A h \in Holders : h # o => b[h] = z[h]
        /\ \A h \in Holders : z[h] = 0
    BY <1>0 DEF LedgerInit, Originator
  <2> HIDE DEF z, b, o
  <2>2. SumTo(z, HolderCount) = 0
    BY <2>1, HolderNumbers, SumZero, Zenon
  <2>3. SumTo(b, HolderCount) = SumTo(z, HolderCount) + Supply
    BY <2>1, HolderNumbers, SumBump, Zenon
  <2>4. SumTo(b, HolderCount) = Supply
    BY <1>0, <2>2, <2>3
  <2> QED BY <2>4 DEF b
<1>3. AllScaled = 0
  <2> DEFINE s == [h \in Holders |-> Scaled(h)]
  <2>1. \A h \in Holders : Scaled(h) = 0
    <3> SUFFICES ASSUME NEW h \in Holders PROVE Scaled(h) = 0
      OBVIOUS
    <3>1. withdrawable[h] = 0 /\ accPerShare - snapshot[h] = 0 /\ balances[h] \in Nat
      BY <1>0 DEF LedgerInit
    <3>2. 0 * balances[h] = 0 /\ 0 * PRECISION = 0
      BY <1>0, <3>1
    <3> QED BY <3>1, <3>2 DEF Scaled, Pending
  <2>2. s \in [Holders -> Int] /\ \A h \in Holders : s[h] = 0
    BY <2>1
  <2> HIDE DEF s
  <2>3. SumTo(s, HolderCount) = 0
    BY <2>2, HolderNumbers, SumZero, Zenon
  <2> QED BY <2>3 DEF AllScaled, s
<1>4. DustBounded
  BY <1>0 DEF DustBounded, LedgerInit
<1>5. ScaledInv
  <2>1. /\ funds = 0 /\ totalDistributed = 0 /\ totalClaimed = 0 /\ accPerShare = 0
        /\ dust = 0 /\ distributions = 0
    BY DEF LedgerInit
  <2>2. 0 * PRECISION = 0 /\ 0 * Supply = 0 /\ PRECISION * (0 - 0) = 0 /\ (PRECISION - 1) * 0 = 0
    BY <1>0
  <2> QED BY <1>2, <1>3, <2>1, <2>2 DEF ScaledInv
<1> QED BY <1>1, <1>4, <1>5 DEF LedgerInv

----------------------------------------------------------------------------
\* A transfer.

LEMMA MovedSum ==
  ASSUME LedgerTypeOK, NEW from \in Holders, NEW to \in Holders, NEW amount \in Nat,
         balances[from] >= amount
  PROVE  /\ Moved(from, to, amount) \in [Holders -> Nat]
         /\ SumTo(Moved(from, to, amount), HolderCount) = SumTo(balances, HolderCount)
<1> DEFINE m == Moved(from, to, amount)
           d == [h \in Holders |-> balances[h] - (IF h = from THEN amount ELSE 0)]
           minus == - amount
<1>1. /\ balances \in [Holders -> Nat] /\ balances \in [Holders -> Int]
      /\ amount \in Int /\ minus \in Int
  BY DEF LedgerTypeOK
<1>2. d \in [Holders -> Int] /\ m \in [Holders -> Nat] /\ m \in [Holders -> Int]
  BY <1>1 DEF Moved
<1>3. /\ d[from] = balances[from] + minus
      /\ \A h \in Holders : h # from => d[h] = balances[h]
      /\ m[to] = d[to] + amount
      /\ \A h \in Holders : h # to => m[h] = d[h]
  BY <1>1 DEF Moved
<1>4. SumTo(balances, HolderCount) \in Nat
  BY <1>1, HolderNumbers, SumType, Zenon
<1> HIDE DEF m, d
<1>5. SumTo(d, HolderCount) = SumTo(balances, HolderCount) + minus
  BY <1>1, <1>2, <1>3, HolderNumbers, SumBump, Zenon
<1>6. SumTo(m, HolderCount) = SumTo(d, HolderCount) + amount
  BY <1>1, <1>2, <1>3, HolderNumbers, SumBump, Zenon
<1>7. SumTo(m, HolderCount) = SumTo(balances, HolderCount)
  BY <1>1, <1>4, <1>5, <1>6
<1> QED BY <1>2, <1>7 DEF m

LEMMA TransferKeeps ==
  ASSUME LedgerInv, NEW from \in Holders, NEW to \in Holders, NEW amount \in Nat,
         Transfer(from, to, amount)
  PROVE  LedgerInv' /\ \A h \in Holders : Claimable(h)' = Claimable(h)
<1>0. LedgerTypeOK /\ balances[from] >= amount /\ PRECISION \in Nat \ {0}
  BY LedgerAssumption DEF LedgerInv, Transfer
<1>1. /\ balances' = Moved(from, to, amount)
      /\ balances' \in [Holders -> Nat]
      /\ SumTo(balances', HolderCount) = SumTo(balances, HolderCount)
  BY <1>0, MovedSum DEF Transfer
<1>2. /\ withdrawable' = [h \in Holders |-> IF h \in {from, to} THEN Claimable(h) ELSE withdrawable[h]]
      /\ snapshot' = [h \in Holders |-> IF h \in {from, to} THEN accPerShare ELSE snapshot[h]]
      /\ UNCHANGED <<accPerShare, dust, totalDistributed, totalClaimed, funds, distributions>>
  BY DEF Transfer, Settle
<1>3. \A h \in Holders : Claimable(h) \in Nat /\ Scaled(h) \in Nat
                         /\ PRECISION * Claimable(h) <= Scaled(h)
  BY <1>0, ShareTypes
<1>4. LedgerTypeOK'
  BY <1>0, <1>1, <1>2, <1>3 DEF LedgerTypeOK
<1> DEFINE s == [h \in Holders |-> Scaled(h)]
           t == [h \in Holders |-> withdrawable'[h] * PRECISION
                                     + (accPerShare' - snapshot'[h]) * balances'[h]]
<1>5. ASSUME NEW h \in Holders
      PROVE  t[h] \in Int /\ t[h] <= Scaled(h) /\ Claimable(h)' = Claimable(h)
  <2>0. balances'[h] \in Nat /\ accPerShare \in Nat /\ Claimable(h) \in Nat
    BY <1>0, <1>1, <1>3 DEF LedgerTypeOK
  <2>1. CASE h \in {from, to}
    <3>1. withdrawable'[h] = Claimable(h) /\ accPerShare' - snapshot'[h] = 0
      BY <1>2, <2>0, <2>1
    <3>2. 0 * balances'[h] = 0
      BY <2>0
    <3>3. t[h] = Claimable(h) * PRECISION + 0
      BY <3>1, <3>2
    <3>4. Claimable(h) * PRECISION = PRECISION * Claimable(h) /\ PRECISION * Claimable(h) \in Nat
      BY <1>0, <2>0
    <3>5. t[h] \in Int /\ t[h] <= Scaled(h)
      BY <1>3, <3>3, <3>4
    <3>6. 0 \div PRECISION = 0
      BY <1>0
    <3>7. Claimable(h)' = Claimable(h)
      BY <2>0, <3>1, <3>2, <3>6 DEF Claimable
    <3> QED BY <3>5, <3>7
  <2>2. CASE h \notin {from, to}
    <3>1. /\ withdrawable'[h] = withdrawable[h] /\ snapshot'[h] = snapshot[h]
          /\ accPerShare' = accPerShare
      BY <1>2, <2>2
    <3>2. balances'[h] = balances[h]
      BY <1>0, <1>1, <2>2 DEF Moved, LedgerTypeOK
    <3>3. t[h] = Scaled(h)
      BY <3>1, <3>2 DEF Scaled, Pending
    <3>4. Claimable(h)' = Claimable(h)
      BY <3>1, <3>2 DEF Claimable
    <3> QED BY <1>3, <3>3, <3>4
  <2> QED BY <2>1, <2>2
<1>6. AllScaled' <= AllScaled /\ AllScaled' \in Int
  <2>1. AllScaled' = SumTo(t, HolderCount)
    BY DEF AllScaled, Scaled, Pending, Holders, SumTo, PartialSums
  <2>2. s \in [Holders -> Int] /\ t \in [Holders -> Int] /\ \A h \in Holders : t[h] <= s[h]
    BY <1>3, <1>5
  <2> HIDE DEF s, t
  <2>3. SumTo(t, HolderCount) <= SumTo(s, HolderCount)
    BY <2>2, HolderNumbers, SumBelow, Zenon
  <2>4. AllScaled' \in Nat
    <3>1. (LedgerTypeOK)'
      BY <1>4
    <3>2. \A h \in Holders : t[h] \in Nat
      <4> SUFFICES ASSUME NEW h \in Holders PROVE t[h] \in Nat
        OBVIOUS
      <4>1. /\ withdrawable'[h] \in Nat /\ accPerShare' - snapshot'[h] \in Nat
            /\ balances'[h] \in Nat
        BY <3>1 DEF LedgerTypeOK
      <4>2. /\ withdrawable'[h] * PRECISION \in Nat
            /\ (accPerShare' - snapshot'[h]) * balances'[h] \in Nat
        BY <1>0, <4>1
      <4> QED BY <4>2 DEF t
    <3>3. t \in [Holders -> Nat]
      BY <2>2, <3>2
    <3>4. SumTo(t, HolderCount) \in Nat
      BY <3>3, HolderNumbers, SumType, Zenon
    <3> QED BY <2>1, <3>4
  <2> QED BY <2>1, <2>3, <2>4 DEF AllScaled, s
<1>7. ScaledInv'
  <2>1. ScaledInv /\ AllScaled \in Nat /\ totalClaimed * PRECISION \in Nat /\ accPerShare * Supply \in Nat
    BY <1>0, OutstandingScaled, LedgerAssumption DEF LedgerInv, LedgerTypeOK
  <2>2. AllScaled' + totalClaimed' * PRECISION <= accPerShare' * Supply
    BY <1>2, <1>6, <2>1 DEF ScaledInv
  <2>3. SumTo(balances, HolderCount)' = Supply
    BY <1>1, <2>1 DEF ScaledInv, SumTo, PartialSums
  <2> QED BY <1>2, <2>1, <2>2, <2>3 DEF ScaledInv, ExactScale
<1>8. DustBounded'
  BY <1>2 DEF DustBounded, LedgerInv
<1> QED BY <1>4, <1>5, <1>7, <1>8 DEF LedgerInv

----------------------------------------------------------------------------
\* A distribution.

\* The increment and the dust of a pot, in units of 1 / PRECISION.
LEMMA PotSplits ==
  ASSUME NEW pot \in Nat
  PROVE  /\ Increment(pot) \in Nat
         /\ Dust(pot) \in Nat
         /\ Increment(pot) * Supply <= PRECISION * (pot - Dust(pot)) + (PRECISION - 1)
         /\ Dust(pot) * PRECISION < Supply + PRECISION
         /\ ExactScale => Increment(pot) * Supply = PRECISION * (pot - Dust(pot))
<1> DEFINE P == PRECISION
           S == Supply
           inc == Increment(pot)
           e == inc * S
           q == e \div P
<1>0. P \in Nat \ {0} /\ S \in Nat \ {0}
  BY LedgerAssumption
<1>1. pot * P \in Nat
  BY <1>0
<1>2. inc \in Nat /\ S * inc <= pot * P /\ pot * P < S * inc + S
  BY <1>0, <1>1, DivBounds DEF Increment
<1>3. e \in Nat /\ e = S * inc
  BY <1>0, <1>2
<1>4. q \in Nat /\ P * q <= e /\ e < P * q + P
  BY <1>0, <1>3, DivBounds
<1>5. Dust(pot) = pot - q
  BY DEF Dust
<1>6. ExactScale => e = P * q
  <2>1. CASE S % P = 0
    <3> DEFINE m == S \div P
    <3>1. m \in Nat /\ S = P * m
      BY <1>0, <2>1
    <3> HIDE DEF m, P, S, inc, q
    <3>2. inc * m \in Nat /\ e = P * (inc * m)
      BY <1>0, <1>2, <1>3, <3>1
    <3>3. inc * m <= q
      <4>1. P * (q + 1) = P * q + P
        BY <1>0, <1>4
      <4>2. P * (inc * m) < P * (q + 1)
        BY <1>4, <3>2, <4>1
      <4> QED BY <1>0, <1>4, <3>2, <4>2, UnitsBelow
    <3>4. q <= inc * m
      BY <1>0, <1>4, <3>2, WholeUnits
    <3> QED BY <1>4, <3>2, <3>3, <3>4
  <2>2. CASE P % S = 0
    <3> DEFINE m == P \div S
    <3>1. m \in Nat /\ P = S * m
      BY <1>0, <2>2
    <3> HIDE DEF m, P, S, inc, q
    <3>2. pot * m \in Nat /\ pot * P = S * (pot * m)
      BY <1>0, <3>1
    <3>3. inc <= pot * m
      BY <1>0, <1>2, <3>2, WholeUnits
    <3>4. pot * m <= inc
      <4>1. S * (inc + 1) = S * inc + S
        BY <1>0, <1>2
      <4>2. S * (pot * m) < S * (inc + 1)
        BY <1>2, <3>2, <4>1
      <4> QED BY <1>0, <1>2, <3>2, <4>2, UnitsBelow
    <3>5. inc = pot * m
      BY <1>2, <3>2, <3>3, <3>4
    <3>6. e = P * pot
      BY <1>0, <1>3, <3>2, <3>5
    <3>7. q <= pot
      BY <1>0, <1>4, <3>6, WholeUnits
    <3>8. e < P * (q + 1)
      <4>1. P * (q + 1) = P * q + P
        BY <1>0, <1>4
      <4> QED BY <1>4, <4>1
    <3>9. pot <= q
      BY <1>0, <1>4, <3>6, <3>8, UnitsBelow
    <3>10. q = pot
      BY <1>4, <3>7, <3>9
    <3> QED BY <3>6, <3>10
  <2> QED BY <2>1, <2>2 DEF ExactScale
<1> HIDE DEF P, S, inc, e, q
<1>7. q <= pot
  <2>1. P * q <= P * pot
    BY <1>0, <1>2, <1>3, <1>4
  <2> QED BY <1>0, <1>4, <2>1, WholeUnits
<1>8. Dust(pot) \in Nat /\ pot - Dust(pot) = q
  BY <1>4, <1>5, <1>7
<1>9. e <= P * (pot - Dust(pot)) + (P - 1)
  BY <1>0, <1>3, <1>4, <1>8
<1>10. Dust(pot) * P < S + P
  <2>1. (pot - q) * P = pot * P - P * q /\ P * q \in Nat
    BY <1>0, <1>4
  <2> QED BY <1>0, <1>1, <1>2, <1>3, <1>4, <1>5, <2>1
<1>11. ExactScale => e = P * (pot - Dust(pot))
  BY <1>6, <1>8
<1> QED BY <1>2, <1>8, <1>9, <1>10, <1>11 DEF P, S, inc, e

LEMMA DistributeKeeps ==
  ASSUME LedgerInv, NEW amount \in Nat, Distribute(amount)
  PROVE  /\ LedgerInv'
         /\ \A h \in Holders : Claimable(h)' \in Nat /\ Claimable(h)' >= Claimable(h)
<1> DEFINE pot == amount + dust
           inc == Increment(pot)
           s == [h \in Holders |-> Scaled(h)]
           t == [h \in Holders |-> withdrawable'[h] * PRECISION
                                     + (accPerShare' - snapshot'[h]) * balances'[h]]
<1>0. /\ LedgerTypeOK /\ ScaledInv
      /\ PRECISION \in Nat \ {0} /\ Supply \in Nat \ {0} /\ MaxDistributions \in Nat
      /\ distributions \in Nat /\ dust \in Nat /\ accPerShare \in Nat
      /\ totalDistributed \in Nat /\ totalClaimed \in Nat /\ pot \in Nat
  BY LedgerAssumption DEF LedgerInv, LedgerTypeOK
<1>1. /\ distributions < MaxDistributions
      /\ accPerShare' = accPerShare + inc
      /\ dust' = Dust(pot)
      /\ totalDistributed' = totalDistributed + amount
      /\ funds' = funds + amount
      /\ distributions' = distributions + 1
      /\ UNCHANGED <<balances, snapshot, withdrawable, totalClaimed>>
  BY DEF Distribute
<1>2. /\ inc \in Nat /\ Dust(pot) \in Nat
      /\ inc * Supply <= PRECISION * (pot - Dust(pot)) + (PRECISION - 1)
      /\ Dust(pot) * PRECISION < Supply + PRECISION
      /\ ExactScale => inc * Supply = PRECISION * (pot - Dust(pot))
  BY <1>0, PotSplits
<1> HIDE DEF inc
<1>3. LedgerTypeOK'
  <2>1. snapshot' \in [Holders -> 0..accPerShare']
    <3>1. \A h \in Holders : snapshot[h] \in 0..(accPerShare + inc)
      BY <1>0, <1>2 DEF LedgerTypeOK
    <3> QED BY <1>0, <1>1, <3>1 DEF LedgerTypeOK
  <2> QED BY <1>0, <1>1, <1>2, <2>1 DEF LedgerTypeOK
<1>4. ASSUME NEW h \in Holders
      PROVE  /\ t[h] \in Int /\ Scaled(h) \in Int
             /\ t[h] = Scaled(h) + inc * balances[h]
             /\ Claimable(h)' \in Nat /\ Claimable(h)' >= Claimable(h)
  <2>1. /\ withdrawable[h] \in Nat /\ balances[h] \in Nat /\ accPerShare - snapshot[h] \in Nat
        /\ snapshot[h] \in Nat
    BY <1>0 DEF LedgerTypeOK
  <2> DEFINE a == accPerShare - snapshot[h]
             b == balances[h]
             w == withdrawable[h] * PRECISION
  <2>2. accPerShare' - snapshot'[h] = a + inc
    BY <1>0, <1>1, <1>2, <2>1
  <2>3. t[h] = w + (a + inc) * b
    BY <1>1, <2>2
  <2>4. Scaled(h) = w + a * b
    BY DEF Scaled, Pending
  <2>5. a \in Nat /\ b \in Nat /\ w \in Nat
    BY <1>0, <2>1
  <2> HIDE DEF a, b, w, t
  <2>6. (a + inc) * b = a * b + inc * b /\ a * b \in Nat /\ inc * b \in Nat
    BY <1>2, <2>5
  <2>7. t[h] \in Int /\ Scaled(h) \in Int /\ t[h] = Scaled(h) + inc * b
    BY <2>3, <2>4, <2>5, <2>6
  <2>8. Claimable(h)' \in Nat /\ Claimable(h)' >= Claimable(h)
    <3> DEFINE x == a * b
               y == a * b + inc * b
    <3>1. x \in Nat /\ y \in Nat /\ x <= y
      BY <2>6
    <3>2. Claimable(h)' = withdrawable[h] + y \div PRECISION
      BY <1>1, <2>2, <2>6 DEF Claimable, b
    <3>3. Claimable(h) = withdrawable[h] + x \div PRECISION
      BY DEF Claimable, a, b
    <3> HIDE DEF x, y
    <3>4. x \div PRECISION <= y \div PRECISION
      <4> DEFINE u == x \div PRECISION
                 v == y \div PRECISION
      <4>1. /\ u \in Nat /\ v \in Nat /\ PRECISION * u <= x /\ y < PRECISION * v + PRECISION
        BY <1>0, <3>1, DivBounds
      <4> HIDE DEF u, v
      <4>2. PRECISION * u < PRECISION * (v + 1)
        <5>1. PRECISION * (v + 1) = PRECISION * v + PRECISION
          BY <1>0, <4>1
        <5> QED BY <1>0, <3>1, <4>1, <5>1
      <4>3. u <= v
        BY <1>0, <4>1, <4>2, UnitsBelow
      <4> QED BY <4>3 DEF u, v
    <3>5. x \div PRECISION \in Nat /\ y \div PRECISION \in Nat
      BY <1>0, <3>1, DivBounds
    <3> QED BY <2>1, <3>2, <3>3, <3>4, <3>5
  <2> QED BY <2>7, <2>8 DEF b
<1>5. AllScaled' = AllScaled + inc * Supply
  <2>1. AllScaled' = SumTo(t, HolderCount)
    BY DEF AllScaled, Scaled, Pending, Holders, SumTo, PartialSums
  <2>2. /\ s \in [Holders -> Int] /\ t \in [Holders -> Int] /\ balances \in [Holders -> Int]
        /\ inc \in Int
        /\ \A h \in Holders : t[h] = s[h] + inc * balances[h]
    BY <1>0, <1>2, <1>4 DEF LedgerTypeOK
  <2> HIDE DEF s, t
  <2>3. SumTo(t, HolderCount) = SumTo(s, HolderCount) + inc * SumTo(balances, HolderCount)
    BY <2>2, HolderNumbers, SumPlusMultiple, Zenon
  <2>4. SumTo(balances, HolderCount) = Supply /\ SumTo(s, HolderCount) = AllScaled
    BY <1>0 DEF ScaledInv, AllScaled, s
  <2> QED BY <2>1, <2>3, <2>4, Zenon
<1>6. ScaledInv'
  <2> DEFINE P == PRECISION
             D == distributions
             e == inc * Supply
             A == accPerShare * Supply
             C == totalClaimed * P
             E == totalDistributed - dust
             x == pot - Dust(pot)
  <2>1. /\ e \in Nat /\ A \in Nat /\ C \in Nat /\ E \in Int /\ x \in Int /\ D \in Nat
        /\ P \in Nat \ {0} /\ AllScaled \in Nat
    BY <1>0, <1>2, OutstandingScaled
  <2>2. accPerShare' * Supply = A + e
    <3>1. (accPerShare + inc) * Supply = accPerShare * Supply + inc * Supply
      BY <1>0, <1>2
    <3> QED BY <1>1, <3>1
  <2>3. totalDistributed' - dust' = E + x
    BY <1>0, <1>1, <1>2
  <2>4. /\ AllScaled + C <= A
        /\ A <= P * E + (P - 1) * D
        /\ ExactScale => A = P * E
        /\ e <= P * x + (P - 1)
        /\ ExactScale => e = P * x
    BY <1>0, <1>2 DEF ScaledInv
  <2>5. totalClaimed' * PRECISION = C /\ distributions' = D + 1
    BY <1>1
  <2>6. AllScaled' = AllScaled + e
    BY <1>5
  <2> HIDE DEF P, D, e, A, C, E, x
  <2>7. /\ P * (E + x) = P * E + P * x
        /\ (P - 1) * (D + 1) = (P - 1) * D + (P - 1)
        /\ P * E \in Int /\ P * x \in Int /\ (P - 1) * D \in Int
    BY <2>1
  <2>8. AllScaled' + totalClaimed' * PRECISION <= accPerShare' * Supply
    BY <2>1, <2>2, <2>4, <2>5, <2>6
  <2>9. A + e <= P * (E + x) + (P - 1) * (D + 1)
    BY <2>1, <2>4, <2>7
  <2>10. ExactScale => A + e = P * (E + x)
    BY <2>1, <2>4, <2>7
  <2>11. accPerShare' * Supply <= PRECISION * (totalDistributed' - dust')
                                    + (PRECISION - 1) * distributions'
    BY <2>2, <2>3, <2>5, <2>9, Zenon DEF P
  <2>12. ExactScale => accPerShare' * Supply = PRECISION * (totalDistributed' - dust')
    BY <2>2, <2>3, <2>10, Zenon DEF P
  <2>13. SumTo(balances, HolderCount)' = Supply
    BY <1>0, <1>1 DEF ScaledInv, SumTo, PartialSums
  <2>14. funds' = totalDistributed' - totalClaimed'
    <3>1. funds = totalDistributed - totalClaimed
      BY <1>0 DEF ScaledInv
    <3> QED BY <1>0, <1>1, <3>1
  <2> QED BY <2>8, <2>11, <2>12, <2>13, <2>14 DEF ScaledInv, ExactScale
<1>7. DustBounded'
  BY <1>1, <1>2 DEF DustBounded
<1> QED BY <1>3, <1>4, <1>6, <1>7 DEF LedgerInv
----------------------------------------------------------------------------
\* A claim.
LEMMA ClaimKeeps ==
  ASSUME LedgerInv, NEW c \in Holders, Claim(c)
  PROVE  /\ LedgerInv'
         /\ totalClaimed' = totalClaimed + Claimable(c)
         /\ Claimable(c)' = 0
         /\ \A h \in Holders : h # c => Claimable(h)' = Claimable(h)
<1> DEFINE amount == Claimable(c)
           s == [h \in Holders |-> Scaled(h)]
           t == [h \in Holders |-> withdrawable'[h] * PRECISION
                                     + (accPerShare' - snapshot'[h]) * balances'[h]]
<1>0. /\ LedgerTypeOK /\ ScaledInv
      /\ PRECISION \in Nat \ {0} /\ Supply \in Nat \ {0}
      /\ accPerShare \in Nat /\ totalClaimed \in Nat /\ funds \in Nat
  BY LedgerAssumption DEF LedgerInv, LedgerTypeOK
<1>1. /\ funds >= amount
      /\ snapshot' = [snapshot EXCEPT ![c] = accPerShare]
      /\ withdrawable' = [withdrawable EXCEPT ![c] = 0]
      /\ totalClaimed' = totalClaimed + amount
      /\ funds' = funds - amount
      /\ UNCHANGED <<balances, accPerShare, dust, totalDistributed, distributions>>
  BY DEF Claim
<1>2. amount \in Nat /\ \A h \in Holders : Scaled(h) \in Nat /\ Claimable(h) \in Nat
  BY <1>0, ShareTypes
<1>3. PRECISION * amount <= Scaled(c)
  BY <1>0, ShareTypes
<1> HIDE DEF amount
<1>4. LedgerTypeOK'
  BY <1>0, <1>1, <1>2 DEF LedgerTypeOK
<1>5. t[c] = 0 /\ Claimable(c)' = 0
  <2>1. withdrawable'[c] = 0 /\ accPerShare' - snapshot'[c] = 0 /\ balances'[c] \in Nat
    BY <1>0, <1>1 DEF LedgerTypeOK
  <2>2. 0 * PRECISION = 0 /\ 0 * balances'[c] = 0 /\ 0 \div PRECISION = 0
    BY <1>0, <2>1
  <2>3. t[c] = 0
    BY <2>1, <2>2
  <2>4. Claimable(c)' = 0
    BY <2>1, <2>2 DEF Claimable
  <2> QED BY <2>3, <2>4
<1>6. ASSUME NEW h \in Holders, h # c
      PROVE  t[h] = Scaled(h) /\ Claimable(h)' = Claimable(h)
  <2>1. /\ withdrawable'[h] = withdrawable[h] /\ snapshot'[h] = snapshot[h]
        /\ accPerShare' = accPerShare /\ balances'[h] = balances[h]
    BY <1>0, <1>1, <1>6 DEF LedgerTypeOK
  <2> QED BY <2>1 DEF Scaled, Pending, Claimable
<1>7. AllScaled' = AllScaled - Scaled(c)
  <2> DEFINE x == 0 - Scaled(c)
  <2>1. AllScaled' = SumTo(t, HolderCount)
    BY DEF AllScaled, Scaled, Pending, Holders, SumTo, PartialSums
  <2>2. \A h \in Holders : t[h] \in Int
    BY <1>2, <1>5, <1>6
  <2>3. /\ s \in [Holders -> Int] /\ t \in [Holders -> Int] /\ x \in Int
        /\ t[c] = s[c] + x
        /\ \A h \in Holders : h # c => t[h] = s[h]
    BY <1>2, <1>5, <1>6, <2>2
  <2> HIDE DEF s, t, x
  <2>4. SumTo(t, HolderCount) = SumTo(s, HolderCount) + x
    BY <2>3, HolderNumbers, SumBump, Zenon
  <2>5. SumTo(s, HolderCount) \in Int
    BY <1>0, OutstandingScaled DEF AllScaled, s
  <2> QED BY <1>2, <2>1, <2>4, <2>5 DEF AllScaled, s, x
<1>8. ScaledInv'
  <2>1. /\ totalClaimed' * PRECISION = totalClaimed * PRECISION + PRECISION * amount
        /\ totalClaimed * PRECISION \in Nat /\ PRECISION * amount \in Nat
    BY <1>0, <1>1, <1>2
  <2>2. AllScaled \in Nat /\ Scaled(c) \in Nat /\ accPerShare * Supply \in Nat
    BY <1>0, <1>2, OutstandingScaled
  <2>3. AllScaled + totalClaimed * PRECISION <= accPerShare * Supply
    BY <1>0 DEF ScaledInv
  <2>4. AllScaled' + totalClaimed' * PRECISION <= accPerShare * Supply
    BY <1>3, <1>7, <2>1, <2>2, <2>3
  <2>5. SumTo(balances, HolderCount)' = Supply
    BY <1>0, <1>1 DEF ScaledInv, SumTo, PartialSums
  <2>6. funds' = totalDistributed' - totalClaimed'
    <3>1. funds = totalDistributed - totalClaimed /\ totalDistributed \in Nat
      BY <1>0 DEF ScaledInv, LedgerTypeOK
    <3> QED BY <1>0, <1>1, <1>2, <3>1
  <2> QED BY <1>0, <1>1, <2>4, <2>5, <2>6 DEF ScaledInv, ExactScale
<1>9. DustBounded'
  BY <1>1 DEF DustBounded, LedgerInv
<1> QED BY <1>1, <1>4, <1>5, <1>6, <1>8, <1>9 DEF LedgerInv, amount

----------------------------------------------------------------------------
\* Every step.

LEMMA LedgerStep ==
  ASSUME LedgerInv, [LedgerNext]_ledgerVars
  PROVE  LedgerInv' /\ TransferStep /\ EntitlementStep
<1>0. \A h \in Holders : Claimable(h) \in Nat
  BY ShareTypes DEF LedgerInv
<1>1. ASSUME NEW amount \in Distributions, Distribute(amount)
      PROVE  LedgerInv' /\ TransferStep /\ EntitlementStep
  <2>1. amount \in Nat
    BY LedgerAssumption
  <2>2. /\ LedgerInv'
        /\ \A h \in Holders : Claimable(h)' \in Nat /\ Claimable(h)' >= Claimable(h)
    BY <1>1, <2>1, DistributeKeeps
  <2>3. EntitlementStep
    BY <1>0, <2>2 DEF EntitlementStep
  <2>4. distributions' # distributions
    BY <1>1 DEF Distribute, LedgerInv, LedgerTypeOK
  <2> QED BY <2>2, <2>3, <2>4 DEF TransferStep
<1>2. ASSUME NEW from \in Holders, NEW to \in Holders, NEW amount \in TokenAmounts,
             Transfer(from, to, amount)
      PROVE  LedgerInv' /\ TransferStep /\ EntitlementStep
  <2>1. amount \in Nat
    BY LedgerAssumption
  <2>2. LedgerInv' /\ \A h \in Holders : Claimable(h)' = Claimable(h)
    BY <1>2, <2>1, TransferKeeps
  <2>3. EntitlementStep
    BY <1>0, <2>2 DEF EntitlementStep
  <2> QED BY <2>2, <2>3 DEF TransferStep
<1>3. ASSUME NEW c \in Holders, Claim(c)
      PROVE  LedgerInv' /\ TransferStep /\ EntitlementStep
  <2>1. /\ LedgerInv'
        /\ totalClaimed' = totalClaimed + Claimable(c)
        /\ Claimable(c)' = 0
        /\ \A h \in Holders : h # c => Claimable(h)' = Claimable(h)
    BY <1>3, ClaimKeeps
  <2>2. totalClaimed' # totalClaimed
    BY <1>0, <1>3, <2>1 DEF Claim, LedgerInv, LedgerTypeOK
  <2>3. EntitlementStep
    BY <1>0, <2>1 DEF EntitlementStep
  <2> QED BY <2>1, <2>2, <2>3 DEF TransferStep
<1>4. CASE UNCHANGED ledgerVars
  <2>1. \A h \in Holders : Claimable(h)' = Claimable(h)
    BY <1>4 DEF ledgerVars, Claimable
  <2>2. LedgerInv'
    BY <1>4 DEF ledgerVars, LedgerInv, LedgerTypeOK, ScaledInv, DustBounded, AllScaled,
                Scaled, Pending, ExactScale, SumTo, PartialSums
  <2> QED BY <1>0, <2>1, <2>2 DEF TransferStep, EntitlementStep
<1> QED BY <1>1, <1>2, <1>3, <1>4 DEF LedgerNext

THEOREM LedgerInvariant == LedgerSpec => []LedgerInv
<1>1. LedgerInv /\ [LedgerNext]_ledgerVars => LedgerInv'
  BY LedgerStep
<1> QED BY LedgerInvInit, <1>1, PTL DEF LedgerSpec

(***************************************************************************)
(* The ledger's state stays of its type: no balance, entitlement or carry  *)
(* ever underflows.                                                        *)
(***************************************************************************)
THEOREM LedgerTypeCorrect == LedgerSpec => []LedgerTypeOK
<1>1. LedgerInv => LedgerTypeOK
  BY DEF LedgerInv
<1> QED BY LedgerInvariant, <1>1, PTL

(***************************************************************************)
(* distribute() and claim() of RWANote: however many transfers, claims and *)
(* distributions happen in whatever order, holders together are owed at    *)
(* most one smallest unit per distribution more than the contract holds.   *)
(***************************************************************************)
THEOREM OverCreditIsBounded == LedgerSpec => []OverCreditBounded
BY LedgerInvariant, BoundedByInv, PTL

(***************************************************************************)
(* When the supply divides the accumulator's scale or is a multiple of it, *)
(* the contract can pay every holder in full and still holds the dust.     *)
(***************************************************************************)
THEOREM CoveredWhenExact == LedgerSpec => []CoveredAtExactScale
BY LedgerInvariant, ExactByInv, PTL

(***************************************************************************)
(* The dust that distribute() carries forward does not accumulate.         *)
(***************************************************************************)
THEOREM DustIsBounded == LedgerSpec => []DustBounded
<1>1. LedgerInv => DustBounded
  BY DEF LedgerInv
<1> QED BY LedgerInvariant, <1>1, PTL

(***************************************************************************)
(* _update settles both sides before it moves tokens: no transfer changes  *)
(* any holder's entitlement.                                               *)
(***************************************************************************)
THEOREM TransfersNeutral == LedgerSpec => TransfersMoveNoCoupons
<1>1. LedgerInv /\ [LedgerNext]_ledgerVars => [TransferStep]_ledgerVars
  BY LedgerStep
<1> QED BY LedgerInvariant, <1>1, PTL DEF LedgerSpec, TransfersMoveNoCoupons

(***************************************************************************)
(* An entitlement falls only by being paid out, the whole of it, to its    *)
(* holder.                                                                 *)
(***************************************************************************)
THEOREM EntitlementsPreserved == LedgerSpec => EntitlementsKept
<1>1. LedgerInv /\ [LedgerNext]_ledgerVars => [EntitlementStep]_ledgerVars
  BY LedgerStep
<1> QED BY LedgerInvariant, <1>1, PTL DEF LedgerSpec, EntitlementsKept

-----------------------------------------------------------------------------
(* The fairness of the accumulator.  A holder loses a fraction of a unit   *)
(* when they are settled, but only the first time after a distribution:    *)
(* until the next one nothing is pending.                                  *)

\* The distributions holder h may have lost a fraction to.
Roundings(h) == IF snapshot[h] = accPerShare THEN distributions ELSE distributions - 1

ShareKept(h) ==
  /\ Scaled(h) + claimedBy[h] * PRECISION <= accrued[h]
  /\ accrued[h] <= Scaled(h) + claimedBy[h] * PRECISION + (PRECISION - 1) * Roundings(h)

HistoryInv ==
  /\ LedgerInv
  /\ accrued \in [Holders -> Nat]
  /\ claimedBy \in [Holders -> Nat]
  /\ \A h \in Holders : ShareKept(h)

\* Settling a holder loses less than a unit, and nothing if nothing is pending.
LEMMA SettledShare ==
  ASSUME LedgerTypeOK, NEW h \in Holders
  PROVE  /\ Claimable(h) \in Nat /\ Scaled(h) \in Nat
         /\ Claimable(h) * PRECISION <= Scaled(h)
         /\ Scaled(h) <= Claimable(h) * PRECISION + (PRECISION - 1)
         /\ snapshot[h] = accPerShare => Scaled(h) = Claimable(h) * PRECISION
<1> DEFINE P == PRECISION
           w == withdrawable[h]
           a == accPerShare - snapshot[h]
           b == balances[h]
           x == a * b
           q == x \div P
<1>1. P \in Nat \ {0} /\ w \in Nat /\ a \in Nat /\ b \in Nat
  BY LedgerAssumption DEF LedgerTypeOK
<1>2. Claimable(h) = w + q /\ Scaled(h) = w * P + x
  BY DEF Claimable, Scaled, Pending
<1>3. snapshot[h] = accPerShare => a = 0
  BY DEF LedgerTypeOK
<1> HIDE DEF P, w, a, b
<1>4. x \in Nat /\ (a = 0 => x = 0)
  BY <1>1
<1> HIDE DEF x
<1>5. q \in Nat /\ P * q <= x /\ x < P * q + P
  BY <1>1, <1>4, DivBounds
<1>6. x = 0 => q = 0
  BY <1>1
<1> HIDE DEF q
<1>7. (w + q) * P = w * P + P * q /\ w * P \in Nat /\ P * q \in Nat /\ (q = 0 => P * q = 0)
  BY <1>1, <1>5
<1>8. w + q \in Nat /\ w * P + x \in Nat
  BY <1>1, <1>4, <1>5, <1>7
<1>9. (w + q) * P <= w * P + x /\ w * P + x <= (w + q) * P + (P - 1)
  BY <1>1, <1>4, <1>5, <1>7
<1>10. snapshot[h] = accPerShare => w * P + x = (w + q) * P
  BY <1>1, <1>3, <1>4, <1>6, <1>7
<1> QED BY <1>2, <1>8, <1>9, <1>10 DEF P

LEMMA FairByInv == HistoryInv => FairShare
<1> SUFFICES ASSUME HistoryInv, NEW h \in Holders
             PROVE  /\ Received(h) * PRECISION <= accrued[h]
                    /\ accrued[h] <= Received(h) * PRECISION + (PRECISION - 1) * distributions
  BY DEF FairShare
<1> DEFINE P == PRECISION
           c == Claimable(h)
           k == claimedBy[h]
           s == Scaled(h)
           D == distributions
<1>1. P \in Nat \ {0} /\ k \in Nat /\ accrued[h] \in Nat /\ D \in Nat
  BY LedgerAssumption DEF HistoryInv, LedgerInv, LedgerTypeOK
<1>2. /\ c \in Nat /\ s \in Nat /\ c * P <= s /\ s <= c * P + (P - 1)
      /\ snapshot[h] = accPerShare => s = c * P
  BY SettledShare DEF HistoryInv, LedgerInv
<1>3. s + k * P <= accrued[h] /\ accrued[h] <= s + k * P + (P - 1) * Roundings(h)
  BY DEF HistoryInv, ShareKept
<1>4. Roundings(h) = IF snapshot[h] = accPerShare THEN D ELSE D - 1
  BY DEF Roundings
<1>5. Received(h) = k + c
  BY DEF Received
<1> HIDE DEF P, c, k, s, D
<1>6. /\ (k + c) * P = k * P + c * P /\ (P - 1) * (D - 1) = (P - 1) * D - (P - 1)
      /\ k * P \in Nat /\ c * P \in Nat /\ (P - 1) * D \in Int
  BY <1>1, <1>2
<1>7. (k + c) * P <= accrued[h]
  BY <1>1, <1>2, <1>3, <1>6
<1>8. accrued[h] <= (k + c) * P + (P - 1) * D
  <2>1. CASE snapshot[h] = accPerShare
    <3>1. accrued[h] <= s + k * P + (P - 1) * D
      BY <1>3, <1>4, <2>1
    <3> QED BY <1>1, <1>2, <1>6, <2>1, <3>1
  <2>2. CASE snapshot[h] # accPerShare
    <3>1. accrued[h] <= s + k * P + (P - 1) * (D - 1)
      BY <1>3, <1>4, <2>2
    <3> QED BY <1>1, <1>2, <1>6, <3>1
  <2> QED BY <2>1, <2>2
<1> QED BY <1>5, <1>7, <1>8 DEF P, D
----------------------------------------------------------------------------
LEMMA HistoryInvInit == HistoryInit => HistoryInv
<1> SUFFICES ASSUME HistoryInit PROVE HistoryInv
  OBVIOUS
<1>1. LedgerInv
  BY LedgerInvInit DEF HistoryInit
<1>2. accrued \in [Holders -> Nat] /\ claimedBy \in [Holders -> Nat]
  BY DEF HistoryInit
<1>3. ASSUME NEW h \in Holders PROVE ShareKept(h)
  <2>1. /\ withdrawable[h] = 0 /\ accPerShare - snapshot[h] = 0 /\ snapshot[h] = accPerShare
        /\ balances[h] \in Nat /\ PRECISION \in Nat
        /\ accrued[h] = 0 /\ claimedBy[h] = 0 /\ distributions = 0
    BY <1>1, LedgerAssumption DEF HistoryInit, LedgerInit, LedgerInv, LedgerTypeOK
  <2>2. 0 * PRECISION = 0 /\ 0 * balances[h] = 0 /\ (PRECISION - 1) * 0 = 0
    BY <2>1
  <2>3. Scaled(h) = 0
    BY <2>1, <2>2 DEF Scaled, Pending
  <2> QED BY <2>1, <2>2, <2>3 DEF ShareKept, Roundings
<1> QED BY <1>1, <1>2, <1>3 DEF HistoryInv

\* A distribution adds the same to what a holder should have and to what the
\* ledger keeps for them.
LEMMA DistributeShares ==
  ASSUME HistoryInv, NEW amount \in Distributions, DistributeH(amount)
  PROVE  HistoryInv'
<1> DEFINE inc == Increment(amount + dust)
<1>0. /\ LedgerInv /\ LedgerTypeOK /\ amount \in Nat /\ PRECISION \in Nat \ {0}
      /\ accPerShare \in Nat /\ distributions \in Nat /\ dust \in Nat
  BY LedgerAssumption DEF HistoryInv, LedgerInv, LedgerTypeOK
<1>1. LedgerInv'
  BY <1>0, DistributeKeeps DEF DistributeH
<1>2. /\ accPerShare' = accPerShare + inc /\ distributions' = distributions + 1
      /\ balances' = balances /\ snapshot' = snapshot /\ withdrawable' = withdrawable
      /\ accrued' = [h \in Holders |->
                       accrued[h] + (accPerShare' - accPerShare) * balances[h]]
      /\ claimedBy' = claimedBy
  BY DEF DistributeH, Distribute
<1>3. inc \in Nat
  BY <1>0, PotSplits
<1> HIDE DEF inc
<1>4. accPerShare' - accPerShare = inc
  BY <1>0, <1>2, <1>3
<1>5. ASSUME NEW h \in Holders
      PROVE  ShareKept(h)' /\ accrued'[h] \in Nat
  <2> DEFINE P == PRECISION
             D == distributions
             k == claimedBy[h]
             s == Scaled(h)
             a == accPerShare - snapshot[h]
             b == balances[h]
             e == inc * b
             w == withdrawable[h] * P
  <2>1. /\ b \in Nat /\ a \in Nat /\ withdrawable[h] \in Nat /\ k \in Nat
        /\ accrued[h] \in Nat /\ s \in Nat /\ snapshot[h] \in Nat /\ snapshot[h] <= accPerShare
    BY <1>0, ShareTypes DEF HistoryInv, LedgerTypeOK
  <2>2. e \in Nat /\ w \in Nat /\ a * b \in Nat /\ (a + inc) * b = a * b + e
    BY <1>0, <1>3, <2>1
  <2>3. Scaled(h)' = s + e
    <3>1. accPerShare' - snapshot'[h] = a + inc
      BY <1>0, <1>2, <1>3, <2>1
    <3>2. Scaled(h)' = w + (a + inc) * b
      BY <1>2, <3>1 DEF Scaled, Pending
    <3>3. s = w + a * b
      BY DEF Scaled, Pending
    <3> HIDE DEF a, b, e, w, s
    <3> QED BY <2>2, <3>2, <3>3
  <2>4. accrued'[h] = accrued[h] + e
    BY <1>2, <1>4
  <2>5. /\ Roundings(h) \in Int /\ Roundings(h)' \in Int /\ Roundings(h) <= Roundings(h)'
    <3>1. snapshot'[h] = snapshot[h] /\ snapshot[h] \in Nat
      BY <1>2, <2>1
    <3> QED BY <1>0, <1>2, <3>1 DEF Roundings
  <2>6. (P - 1) * Roundings(h) <= (P - 1) * Roundings(h)'
    <3> DEFINE m == Roundings(h)' - Roundings(h)
               r == Roundings(h)
    <3>1. m \in Nat /\ Roundings(h)' = r + m /\ r \in Int /\ P - 1 \in Nat
      BY <1>0, <2>5
    <3> HIDE DEF m, r, P
    <3>2. (P - 1) * (r + m) = (P - 1) * r + (P - 1) * m /\ (P - 1) * m \in Nat
          /\ (P - 1) * r \in Int
      BY <3>1
    <3> QED BY <3>1, <3>2 DEF r
  <2>7. /\ s + k * P <= accrued[h]
        /\ accrued[h] <= s + k * P + (P - 1) * Roundings(h)
        /\ k * P \in Nat /\ (P - 1) * Roundings(h) \in Int /\ (P - 1) * Roundings(h)' \in Int
    BY <1>0, <2>1, <2>5 DEF HistoryInv, ShareKept
  <2>8. claimedBy'[h] * P = k * P
    BY <1>2
  <2> HIDE DEF e, s
  <2>9. /\ Scaled(h)' + claimedBy'[h] * P <= accrued'[h]
        /\ accrued'[h] <= Scaled(h)' + claimedBy'[h] * P + (P - 1) * Roundings(h)'
    BY <2>1, <2>2, <2>3, <2>4, <2>6, <2>7, <2>8
  <2>10. accrued'[h] \in Nat
    BY <2>1, <2>2, <2>4
  <2> QED BY <2>9, <2>10 DEF ShareKept
<1>6. accrued' \in [Holders -> Nat] /\ claimedBy' \in [Holders -> Nat]
  BY <1>2, <1>5 DEF HistoryInv
<1> QED BY <1>1, <1>5, <1>6 DEF HistoryInv

\* What becomes of a holder who is settled, and of one who is not.
LEMMA SettledKept ==
  ASSUME HistoryInv, NEW h \in Holders, snapshot'[h] = accPerShare',
         UNCHANGED <<accPerShare, distributions, accrued>>,
         Scaled(h)' + claimedBy'[h] * PRECISION = Received(h) * PRECISION
  PROVE  ShareKept(h)'
<1>1. /\ Received(h) * PRECISION <= accrued[h]
      /\ accrued[h] <= Received(h) * PRECISION + (PRECISION - 1) * distributions
  BY FairByInv DEF FairShare
<1>2. Roundings(h)' = distributions
  BY DEF Roundings
<1> QED BY <1>1, <1>2 DEF ShareKept

LEMMA UntouchedKept ==
  ASSUME HistoryInv, NEW h \in Holders,
         UNCHANGED <<accPerShare, distributions, accrued>>,
         balances'[h] = balances[h], snapshot'[h] = snapshot[h],
         withdrawable'[h] = withdrawable[h], claimedBy'[h] = claimedBy[h]
  PROVE  ShareKept(h)'
BY DEF HistoryInv, ShareKept, Scaled, Pending, Roundings

\* A holder just settled has nothing pending.
LEMMA SettledScaled ==
  ASSUME NEW h \in Holders, NEW amount \in Nat, accPerShare' \in Nat,
         balances'[h] \in Nat, snapshot'[h] = accPerShare', withdrawable'[h] = amount
  PROVE  Scaled(h)' = amount * PRECISION
<1>1. accPerShare' - snapshot'[h] = 0
  <2> DEFINE a == accPerShare'
  <2>1. a \in Nat /\ snapshot'[h] = a
    OBVIOUS
  <2> HIDE DEF a
  <2>2. a - a = 0
    BY <2>1
  <2>3. a - snapshot'[h] = 0
    BY <2>1, <2>2, Zenon
  <2> QED BY <2>3 DEF a
<1>2. 0 * balances'[h] = 0
  OBVIOUS
<1>3. (accPerShare' - snapshot'[h]) * balances'[h] = 0
  BY ONLY <1>1, <1>2, Zenon
<1>4. Scaled(h)' = withdrawable'[h] * PRECISION + (accPerShare' - snapshot'[h]) * balances'[h]
  BY Zenon DEF Scaled, Pending
<1>5. Scaled(h)' = amount * PRECISION + 0
  BY <1>3, <1>4, Zenon
<1> DEFINE p == amount * PRECISION
<1>6. p \in Nat
  BY LedgerAssumption
<1> HIDE DEF p
<1>7. p + 0 = p
  BY <1>6
<1> QED BY <1>5, <1>7 DEF p

LEMMA TransferShares ==
  ASSUME HistoryInv, NEW from \in Holders, NEW to \in Holders, NEW amount \in TokenAmounts,
         TransferH(from, to, amount)
  PROVE  HistoryInv'
<1>0. LedgerInv /\ LedgerTypeOK /\ amount \in Nat /\ PRECISION \in Nat \ {0}
  BY LedgerAssumption DEF HistoryInv, LedgerInv
<1>1. LedgerInv'
  BY <1>0, TransferKeeps DEF TransferH
<1>2. /\ balances' = Moved(from, to, amount)
      /\ withdrawable' = [h \in Holders |-> IF h \in {from, to} THEN Claimable(h) ELSE withdrawable[h]]
      /\ snapshot' = [h \in Holders |-> IF h \in {from, to} THEN accPerShare ELSE snapshot[h]]
      /\ UNCHANGED <<accPerShare, distributions, accrued>> /\ claimedBy' = claimedBy
  BY DEF TransferH, Transfer, Settle
<1>3. ASSUME NEW h \in Holders, h \in {from, to} PROVE ShareKept(h)'
  <2>1. withdrawable'[h] = Claimable(h) /\ snapshot'[h] = accPerShare'
    BY <1>2, <1>3
  <2>2. /\ balances'[h] \in Nat /\ accPerShare' \in Nat
        /\ Claimable(h) \in Nat /\ claimedBy[h] \in Nat
    BY <1>0, <1>1, ShareTypes DEF LedgerInv, LedgerTypeOK, HistoryInv
  <2> DEFINE c == Claimable(h)
  <2> HIDE DEF c
  <2>3. c \in Nat /\ withdrawable'[h] = c /\ snapshot'[h] = accPerShare'
    BY <2>1, <2>2 DEF c
  <2>4. Scaled(h)' = c * PRECISION
    BY <2>2, <2>3, SettledScaled
  <2>5. c * PRECISION + claimedBy[h] * PRECISION = (claimedBy[h] + c) * PRECISION
    BY <1>0, <2>2 DEF c
  <2>6. Scaled(h)' + claimedBy'[h] * PRECISION = Received(h) * PRECISION
    BY <1>2, <2>4, <2>5 DEF Received, c
  <2> QED BY <1>2, <2>1, <2>6, SettledKept
<1>4. ASSUME NEW h \in Holders, h \notin {from, to} PROVE ShareKept(h)'
  <2>1. balances'[h] = balances[h]
    BY <1>0, <1>2, <1>4 DEF Moved, LedgerTypeOK
  <2> QED BY <1>2, <1>4, <2>1, UntouchedKept
<1> QED BY <1>1, <1>2, <1>3, <1>4 DEF HistoryInv

LEMMA ClaimShares ==
  ASSUME HistoryInv, NEW c \in Holders, ClaimH(c)
  PROVE  HistoryInv'
<1>0. LedgerInv /\ LedgerTypeOK /\ PRECISION \in Nat \ {0} /\ funds \in Nat
      /\ claimedBy \in [Holders -> Nat] /\ Claimable(c) \in Nat
  BY LedgerAssumption, ShareTypes DEF HistoryInv, LedgerInv, LedgerTypeOK
<1>1. LedgerInv'
  BY <1>0, ClaimKeeps DEF ClaimH
<1>2. /\ snapshot' = [snapshot EXCEPT ![c] = accPerShare]
      /\ withdrawable' = [withdrawable EXCEPT ![c] = 0]
      /\ funds' = funds - Claimable(c)
      /\ UNCHANGED <<accPerShare, distributions, accrued>> /\ balances' = balances
      /\ claimedBy' = [claimedBy EXCEPT ![c] = @ + (funds - funds')]
  BY DEF ClaimH, Claim
<1>3. claimedBy' = [claimedBy EXCEPT ![c] = @ + Claimable(c)]
  <2> DEFINE paid == Claimable(c)
  <2>0. paid \in Nat /\ funds' = funds - paid
    BY <1>0, <1>2
  <2> HIDE DEF paid
  <2>1. funds - funds' = paid
    BY <1>0, <2>0
  <2> QED BY <1>2, <2>1 DEF paid
<1>4. ShareKept(c)'
  <2>1. snapshot'[c] = accPerShare' /\ withdrawable'[c] = 0 /\ accPerShare' \in Nat
        /\ balances'[c] \in Nat
    BY <1>0, <1>1, <1>2 DEF LedgerInv, LedgerTypeOK
  <2>2. 0 * PRECISION = 0
    BY <1>0
  <2>3. Scaled(c)' = 0
    BY <2>1, <2>2, SettledScaled
  <2>4. claimedBy'[c] = Received(c) /\ Received(c) \in Nat
    BY <1>0, <1>3 DEF Received
  <2>5. Scaled(c)' + claimedBy'[c] * PRECISION = Received(c) * PRECISION
    BY <1>0, <2>3, <2>4
  <2> QED BY <1>2, <2>1, <2>5, SettledKept
<1>5. ASSUME NEW h \in Holders, h # c PROVE ShareKept(h)'
  <2>1. /\ balances'[h] = balances[h] /\ snapshot'[h] = snapshot[h]
        /\ withdrawable'[h] = withdrawable[h] /\ claimedBy'[h] = claimedBy[h]
    BY <1>0, <1>2, <1>3, <1>5 DEF LedgerTypeOK
  <2> QED BY <1>2, <2>1, UntouchedKept
<1>6. claimedBy' \in [Holders -> Nat] /\ accrued' \in [Holders -> Nat]
  BY <1>0, <1>2, <1>3 DEF HistoryInv
<1> QED BY <1>1, <1>4, <1>5, <1>6 DEF HistoryInv

THEOREM HistoryInvariant == HistorySpec => []HistoryInv
<1>1. ASSUME HistoryInv, [HistoryNext]_historyVars PROVE HistoryInv'
  <2>1. ASSUME NEW amount \in Distributions, DistributeH(amount) PROVE HistoryInv'
    BY <1>1, <2>1, DistributeShares
  <2>2. ASSUME NEW from \in Holders, NEW to \in Holders, NEW amount \in TokenAmounts,
               TransferH(from, to, amount)
        PROVE  HistoryInv'
    BY <1>1, <2>2, TransferShares
  <2>3. ASSUME NEW c \in Holders, ClaimH(c) PROVE HistoryInv'
    BY <1>1, <2>3, ClaimShares
  <2>4. CASE UNCHANGED historyVars
    <3>1. UNCHANGED ledgerVars /\ UNCHANGED <<accrued, claimedBy>>
      BY <2>4 DEF historyVars
    <3>2. LedgerInv'
      BY <1>1, <3>1, LedgerStep DEF HistoryInv
    <3> QED BY <1>1, <3>1, <3>2
            DEF HistoryInv, ShareKept, Scaled, Pending, Roundings, ledgerVars
  <2> QED BY <1>1, <2>1, <2>2, <2>3, <2>4 DEF HistoryNext
<1> QED BY HistoryInvInit, <1>1, PTL DEF HistorySpec

(***************************************************************************)
(* The accumulator of RWANote pays every holder for exactly the tokens     *)
(* they held at each distribution, to within one unit per distribution.    *)
(***************************************************************************)
THEOREM SharesAreFair == HistorySpec => []FairShare
BY HistoryInvariant, FairByInv, PTL

----------------------------------------------------------------------------
(***************************************************************************)
(* The Offering.                                                           *)
(***************************************************************************)

LEMMA EscrowIsHolder ==
  /\ Escrow \in Holders /\ Originator \in Holders /\ Escrow # Originator
  /\ \A b \in Buyers : b \in Holders /\ b # Escrow
BY LedgerAssumption, OfferingAssumption DEF Holders, Escrow, Originator, Buyers

\* Every action is one of the ledger's, or leaves it alone.
LEMMA OfferingStep ==
  ASSUME [OfferingNext]_offeringVars,
         \A b \in Buyers : orders[b].amount > 0 => orders[b].amount \in TokenAmounts
  PROVE  [LedgerNext]_ledgerVars
<1>1. CASE \E amount \in TokenAmounts, priceBps \in Prices : List(amount, priceBps)
  BY <1>1, EscrowIsHolder DEF List, LedgerNext
<1>2. CASE \E priceBps \in Prices : Relist(priceBps)
  BY <1>2 DEF Relist
<1>3. CASE \E amount \in TokenAmounts : Delist(amount)
  BY <1>3, EscrowIsHolder DEF Delist, LedgerNext
<1>4. CASE \E b \in Buyers, amount \in TokenAmounts : Order(b, amount)
  BY <1>4 DEF Order
<1>5. CASE \E b \in Buyers : Buy(b)
  BY <1>5, EscrowIsHolder DEF Buy, MayBuy, LedgerNext
<1>6. CASE \E b \in Buyers : BuyFails(b)
  BY <1>6 DEF BuyFails
<1>7. CASE SweepEscrow
  BY <1>7, EscrowIsHolder DEF SweepEscrow, LedgerNext
<1>8. CASE \E from, to \in Holders, amount \in TokenAmounts : TradeElsewhere(from, to, amount)
  BY <1>8 DEF TradeElsewhere, LedgerNext
<1>9. CASE \E h \in Holders : ClaimElsewhere(h)
  BY <1>9 DEF ClaimElsewhere, LedgerNext
<1>10. CASE \E amount \in Distributions : SettleNote(amount)
  BY <1>10 DEF SettleNote, LedgerNext
<1>11. CASE DefaultNote
  BY <1>11 DEF DefaultNote
<1>12. CASE UNCHANGED offeringVars
  BY <1>12 DEF offeringVars
<1> QED
  BY <1>1, <1>2, <1>3, <1>4, <1>5, <1>6, <1>7, <1>8, <1>9, <1>10, <1>11, <1>12
     DEF OfferingNext

----------------------------------------------------------------------------
OfferingInv ==
  /\ LedgerInv
  /\ OfferingTypeOK
  /\ ListingEscrowed
  /\ HoldsNoCurrency
  /\ SoldAtTheAskedPrice

LEMMA OfferingInvInit == OfferingInit => OfferingInv
<1> SUFFICES ASSUME OfferingInit PROVE OfferingInv
  OBVIOUS
<1>1. LedgerInv
  BY LedgerInvInit DEF OfferingInit
<1>2. balances[Escrow] = 0
  BY EscrowIsHolder DEF OfferingInit, LedgerInit
<1>3. OfferingTypeOK
  BY DEF OfferingInit, OfferingTypeOK, OrderType, NoOrder
<1> QED
  BY <1>1, <1>2, <1>3
     DEF OfferingInit, OfferingInv, ListingEscrowed, HoldsNoCurrency, SoldAtTheAskedPrice, BPS

\* What the escrow holds after a transfer.
LEMMA EscrowMoves ==
  ASSUME LedgerTypeOK, NEW from \in Holders, NEW to \in Holders, NEW amount \in Nat,
         Transfer(from, to, amount)
  PROVE  /\ to = Escrow /\ from # Escrow => balances'[Escrow] = balances[Escrow] + amount
         /\ from = Escrow /\ to # Escrow => balances'[Escrow] = balances[Escrow] - amount
         /\ from # Escrow /\ to # Escrow => balances'[Escrow] = balances[Escrow]
<1>1. balances[Escrow] \in Nat /\ Escrow \in Holders
  BY EscrowIsHolder DEF LedgerTypeOK
<1>2. balances'[Escrow] = balances[Escrow] - (IF Escrow = from THEN amount ELSE 0)
                                           + (IF Escrow = to THEN amount ELSE 0)
  BY <1>1 DEF Transfer, Moved
<1> QED BY <1>1, <1>2

\* The cost of a purchase is what is asked for it, rounded down.
LEMMA CostRounds ==
  ASSUME NEW amount \in Nat, NEW priceBps \in Nat
  PROVE  /\ Cost(amount, priceBps) \in Nat
         /\ amount * priceBps \in Nat
         /\ Cost(amount, priceBps) * BPS <= amount * priceBps
         /\ amount * priceBps <= Cost(amount, priceBps) * BPS + (BPS - 1)
<1> DEFINE x == amount * priceBps
<1>1. x \in Nat
  OBVIOUS
<1> HIDE DEF x
<1>2. x \div BPS \in Nat /\ BPS * (x \div BPS) <= x /\ x < BPS * (x \div BPS) + BPS
  BY <1>1, DivBounds DEF BPS
<1>3. Cost(amount, priceBps) = x \div BPS
  BY DEF Cost, x
<1> DEFINE c == x \div BPS
<1> HIDE DEF c
<1>4. c * BPS <= x /\ x <= c * BPS + (BPS - 1) /\ c \in Nat
  BY <1>1, <1>2 DEF BPS, c
<1> QED BY <1>1, <1>3, <1>4 DEF c, x

\* One purchase adds what it pays to the proceeds, and less than a unit more
\* than that to what was asked.
LEMMA PurchaseRounds ==
  ASSUME NEW p \in Nat, NEW a \in Nat, NEW s \in Nat, NEW c \in Nat, NEW x \in Nat,
         p * BPS <= a, a <= p * BPS + (BPS - 1) * s,
         c * BPS <= x, x <= c * BPS + (BPS - 1)
  PROVE  /\ (p + c) * BPS <= a + x
         /\ a + x <= (p + c) * BPS + (BPS - 1) * (s + 1)
BY DEF BPS

----------------------------------------------------------------------------
\* Every step keeps the invariant.

\* What a step needs to keep, beyond the ledger's invariant.
SaleInv == OfferingTypeOK /\ ListingEscrowed /\ HoldsNoCurrency /\ SoldAtTheAskedPrice

LEMMA OrdersTyped ==
  ASSUME OfferingInv
  PROVE  /\ LedgerTypeOK /\ OfferingTypeOK /\ TokenAmounts \subseteq Nat
         /\ \A b \in Buyers : /\ orders[b].amount \in Nat
                              /\ orders[b].amount > 0 => orders[b].amount \in TokenAmounts
<1>1. LedgerTypeOK /\ OfferingTypeOK /\ TokenAmounts \subseteq Nat
  BY LedgerAssumption DEF OfferingInv, LedgerInv
<1>2. ASSUME NEW b \in Buyers
      PROVE  orders[b].amount \in TokenAmounts \/ orders[b].amount = 0
  <2>1. orders[b] \in OrderType
    BY <1>1 DEF OfferingTypeOK
  <2>2. orders[b].amount \in TokenAmounts \cup {0}
    BY <2>1 DEF OrderType
  <2> QED BY <2>2
<1>3. ASSUME NEW b \in Buyers
      PROVE  /\ orders[b].amount \in Nat
             /\ orders[b].amount > 0 => orders[b].amount \in TokenAmounts
  <2> DEFINE a == orders[b].amount
  <2>1. a \in TokenAmounts \/ a = 0
    BY <1>2, <1>3
  <2> HIDE DEF a
  <2>2. CASE a = 0
    <3>1. a \in Nat /\ ~(a > 0)
      BY <2>2
    <3> QED BY <3>1 DEF a
  <2>3. CASE a \in TokenAmounts
    <3>1. a \in Nat
      BY <1>1, <2>3, Zenon
    <3> QED BY <2>3, <3>1, Zenon DEF a
  <2> QED BY <2>1, <2>2, <2>3, Zenon
<1> QED BY <1>1, <1>3

\* The fields of the listing.
LEMMA ListingTyped ==
  ASSUME OfferingTypeOK
  PROVE  /\ listing.amount \in Nat /\ listing.priceBps \in Nat
         /\ listing.priceBps \in Prices \cup {0} /\ listing.open \in BOOLEAN
         /\ listing = [amount |-> listing.amount, priceBps |-> listing.priceBps,
                       open |-> listing.open]
<1>1. listing \in [amount : Nat, priceBps : Prices \cup {0}, open : BOOLEAN]
  BY DEF OfferingTypeOK
<1>2. /\ listing.amount \in Nat /\ listing.open \in BOOLEAN
      /\ listing.priceBps \in Prices \cup {0}
      /\ listing = [amount |-> listing.amount, priceBps |-> listing.priceBps,
                    open |-> listing.open]
  BY <1>1
<1>3. Prices \subseteq Nat
  BY OfferingAssumption
<1> QED BY <1>2, <1>3

LEMMA ListKeeps ==
  ASSUME OfferingInv, NEW amount \in TokenAmounts, NEW priceBps \in Prices,
         List(amount, priceBps)
  PROVE  SaleInv'
<1>1. /\ amount \in Nat /\ balances'[Escrow] = balances[Escrow] + amount
      /\ listing' = [amount |-> listing.amount + amount, priceBps |-> priceBps, open |-> TRUE]
      /\ amount > 0 /\ OfferingTypeOK
      /\ UNCHANGED <<defaulted, orders, currency, proceeds, sales, asked, donated>>
  BY OrdersTyped, EscrowMoves, EscrowIsHolder DEF List, saleVars
<1>2. OfferingTypeOK'
  BY <1>1 DEF OfferingTypeOK
<1>3. ListingEscrowed'
  BY <1>1 DEF OfferingInv, ListingEscrowed, OfferingTypeOK
<1> QED BY <1>1, <1>2, <1>3 DEF SaleInv, OfferingInv, HoldsNoCurrency, SoldAtTheAskedPrice

LEMMA RelistKeeps ==
  ASSUME OfferingInv, NEW priceBps \in Prices, Relist(priceBps)
  PROVE  SaleInv'
<1>1. /\ listing' = [listing EXCEPT !.priceBps = priceBps] /\ OfferingTypeOK
      /\ UNCHANGED <<balances, defaulted, orders, currency, proceeds, sales, asked, donated>>
  BY OrdersTyped DEF Relist, ledgerVars, saleVars
<1>2. OfferingTypeOK'
  BY <1>1 DEF OfferingTypeOK
<1>3. ListingEscrowed'
  BY <1>1 DEF OfferingInv, ListingEscrowed, OfferingTypeOK
<1> QED BY <1>1, <1>2, <1>3 DEF SaleInv, OfferingInv, HoldsNoCurrency, SoldAtTheAskedPrice

\* What Less leaves is a listing, open while something of it is left.
LEMMA LessListed ==
  ASSUME OfferingTypeOK, ListingEscrowed, NEW amount \in Nat, amount > 0,
         amount <= listing.amount
  PROVE  /\ Less(amount) \in [amount : Nat, priceBps : Prices \cup {0}, open : BOOLEAN]
         /\ Less(amount).amount = listing.amount - amount
         /\ Less(amount).priceBps = listing.priceBps
         /\ Less(amount).open <=> Less(amount).amount > 0
<1> DEFINE o == listing.open /\ listing.amount # amount
<1>0. Less(amount) = [listing EXCEPT !.amount = listing.amount - amount, !.open = o]
  BY Zenon DEF Less
<1>2. o \in BOOLEAN /\ listing.amount - amount \in Nat
  BY ListingTyped
<1>3. o <=> listing.amount - amount > 0
  BY ListingTyped DEF ListingEscrowed
<1> HIDE DEF o
<1>1. Less(amount) = [amount |-> listing.amount - amount, priceBps |-> listing.priceBps,
                      open |-> o]
  BY <1>0, <1>2, ListingTyped
<1>4. /\ Less(amount).amount = listing.amount - amount
      /\ Less(amount).priceBps = listing.priceBps
      /\ Less(amount).open = o
  BY <1>1
<1>5. Less(amount) \in [amount : Nat, priceBps : Prices \cup {0}, open : BOOLEAN]
  BY <1>1, <1>2, ListingTyped
<1> QED BY <1>3, <1>4, <1>5

LEMMA DelistKeeps ==
  ASSUME OfferingInv, NEW amount \in TokenAmounts, Delist(amount)
  PROVE  SaleInv'
<1>1. /\ amount \in Nat /\ balances'[Escrow] = balances[Escrow] - amount
      /\ listing' = Less(amount) /\ OfferingTypeOK /\ ListingEscrowed
      /\ amount > 0 /\ amount <= listing.amount
      /\ UNCHANGED <<defaulted, orders, currency, proceeds, sales, asked, donated>>
  BY OrdersTyped, EscrowMoves, EscrowIsHolder DEF Delist, saleVars, OfferingInv
<1>2. /\ listing' \in [amount : Nat, priceBps : Prices \cup {0}, open : BOOLEAN]
      /\ listing'.amount = listing.amount - amount
      /\ listing'.open <=> listing'.amount > 0
  BY <1>1, LessListed
<1>3. OfferingTypeOK'
  BY <1>1, <1>2 DEF OfferingTypeOK
<1>4. ListingEscrowed'
  BY <1>1, <1>2, OrdersTyped, EscrowIsHolder
     DEF ListingEscrowed, OfferingTypeOK, LedgerTypeOK
<1> QED BY <1>1, <1>3, <1>4 DEF SaleInv, OfferingInv, HoldsNoCurrency, SoldAtTheAskedPrice

LEMMA BuyKeeps ==
  ASSUME OfferingInv, NEW b \in Buyers, Buy(b)
  PROVE  SaleInv'
<1> DEFINE a == orders[b].amount
           c == Cost(a, listing.priceBps)
<1>1. /\ a \in Nat /\ a > 0 /\ a <= listing.amount /\ orders[b].value = c
      /\ balances'[Escrow] = balances[Escrow] - a
      /\ listing' = Less(a) /\ OfferingTypeOK /\ ListingEscrowed
  BY OrdersTyped, EscrowMoves, EscrowIsHolder DEF Buy, MayBuy, OfferingInv
<1>2. /\ currency' = currency + orders[b].value - c
      /\ proceeds' = proceeds + c /\ sales' = sales + 1
      /\ asked' = asked + a * listing.priceBps
      /\ orders' = [orders EXCEPT ![b] = NoOrder]
      /\ UNCHANGED <<defaulted, donated>>
  BY DEF Buy
<1>3. /\ listing' \in [amount : Nat, priceBps : Prices \cup {0}, open : BOOLEAN]
      /\ listing'.amount = listing.amount - a
      /\ listing'.open <=> listing'.amount > 0
  BY <1>1, LessListed
<1>4. listing.priceBps \in Nat
  BY <1>1, ListingTyped
<1> DEFINE x == a * listing.priceBps
<1>5. c \in Nat /\ x \in Nat /\ c * BPS <= x /\ x <= c * BPS + (BPS - 1)
  BY <1>1, <1>4, CostRounds
<1>6. orders' \in [Buyers -> OrderType]
  BY <1>1, <1>2 DEF OfferingTypeOK, OrderType, NoOrder
<1> HIDE DEF x, c
<1>7. currency = 0 /\ currency' = 0
  <2>1. orders[b].value = c /\ currency' = currency + orders[b].value - c
    BY <1>1, <1>2 DEF c
  <2> QED BY <1>5, <2>1 DEF OfferingInv, HoldsNoCurrency
<1>8. proceeds' = proceeds + c /\ asked' = asked + x
  BY <1>2 DEF c, x
<1>9. OfferingTypeOK'
  BY <1>1, <1>2, <1>3, <1>5, <1>6, <1>7, <1>8 DEF OfferingTypeOK
<1>10. ListingEscrowed'
  BY <1>1, <1>2, <1>3, OrdersTyped, EscrowIsHolder
     DEF ListingEscrowed, OfferingTypeOK, LedgerTypeOK
<1>11. SoldAtTheAskedPrice'
  <2>1. /\ proceeds \in Nat /\ asked \in Nat /\ sales \in Nat
        /\ proceeds * BPS <= asked /\ asked <= proceeds * BPS + (BPS - 1) * sales
    BY <1>1 DEF OfferingTypeOK, OfferingInv, SoldAtTheAskedPrice
  <2>2. /\ (proceeds + c) * BPS <= asked + x
        /\ asked + x <= (proceeds + c) * BPS + (BPS - 1) * (sales + 1)
    BY <1>5, <2>1, PurchaseRounds
  <2> QED BY <1>2, <1>8, <2>2 DEF SoldAtTheAskedPrice
<1> QED BY <1>7, <1>9, <1>10, <1>11 DEF SaleInv, HoldsNoCurrency

LEMMA OrderKeeps ==
  ASSUME OfferingInv, NEW b \in Buyers, NEW amount \in TokenAmounts, Order(b, amount)
  PROVE  SaleInv'
<1> DEFINE order == [amount |-> amount, value |-> Cost(amount, listing.priceBps)]
<1>1. /\ orders' = [orders EXCEPT ![b] = order] /\ OfferingTypeOK
      /\ UNCHANGED <<balances, listing, defaulted, currency, proceeds, sales, asked, donated>>
  BY OrdersTyped DEF Order, ledgerVars, saleVars
<1>2. order \in OrderType
  <2>1. amount \in Nat /\ listing.priceBps \in Nat
    BY <1>1, OrdersTyped, ListingTyped
  <2>2. Cost(amount, listing.priceBps) \in Nat
    BY <2>1, CostRounds
  <2> QED BY <2>2 DEF OrderType
<1> HIDE DEF order
<1>3. orders' \in [Buyers -> OrderType]
  BY <1>1, <1>2 DEF OfferingTypeOK
<1> QED BY <1>1, <1>3 DEF SaleInv, OfferingInv, OfferingTypeOK, ListingEscrowed,
                           HoldsNoCurrency, SoldAtTheAskedPrice

LEMMA BuyFailsKeeps ==
  ASSUME OfferingInv, NEW b \in Buyers, BuyFails(b)
  PROVE  SaleInv'
<1>1. /\ orders' = [orders EXCEPT ![b] = NoOrder] /\ OfferingTypeOK
      /\ UNCHANGED <<balances, listing, defaulted, currency, proceeds, sales, asked, donated>>
  BY OrdersTyped DEF BuyFails, ledgerVars, saleVars
<1>2. NoOrder \in OrderType
  BY DEF NoOrder, OrderType
<1>3. orders' \in [Buyers -> OrderType]
  BY <1>1, <1>2 DEF OfferingTypeOK
<1> QED BY <1>1, <1>3 DEF SaleInv, OfferingInv, OfferingTypeOK, ListingEscrowed,
                           HoldsNoCurrency, SoldAtTheAskedPrice

LEMMA TradeKeeps ==
  ASSUME OfferingInv, NEW from \in Holders, NEW to \in Holders, NEW amount \in TokenAmounts,
         TradeElsewhere(from, to, amount)
  PROVE  SaleInv'
<1>1. /\ amount \in Nat /\ OfferingTypeOK /\ LedgerTypeOK
      /\ balances'[Escrow] = balances[Escrow] + (IF to = Escrow THEN amount ELSE 0)
      /\ donated' = donated + (IF to = Escrow THEN amount ELSE 0)
      /\ UNCHANGED <<listing, defaulted, orders, currency, proceeds, sales, asked>>
  <2>1. /\ amount \in Nat /\ OfferingTypeOK /\ LedgerTypeOK /\ balances[Escrow] \in Nat
        /\ from # Escrow /\ Transfer(from, to, amount)
    BY OrdersTyped, EscrowIsHolder DEF TradeElsewhere, LedgerTypeOK
  <2>2. balances'[Escrow] = balances[Escrow] + (IF to = Escrow THEN amount ELSE 0)
    BY <2>1, EscrowMoves
  <2> QED BY <2>1, <2>2 DEF TradeElsewhere, saleVars
<1>2. OfferingTypeOK'
  BY <1>1 DEF OfferingTypeOK
<1>3. ListingEscrowed'
  <2>1. /\ balances[Escrow] = listing.amount + donated /\ listing.amount \in Nat
        /\ donated \in Nat
    BY <1>1, ListingTyped DEF OfferingInv, ListingEscrowed, OfferingTypeOK
  <2>2. balances'[Escrow] = listing'.amount + donated'
    BY <1>1, <2>1
  <2> QED BY <1>1, <2>2 DEF OfferingInv, ListingEscrowed
<1> QED BY <1>1, <1>2, <1>3 DEF SaleInv, OfferingInv, HoldsNoCurrency, SoldAtTheAskedPrice

\* The steps that move no token and change nothing of the sale.
LEMMA OthersKeep ==
  ASSUME OfferingInv,
         \/ SweepEscrow
         \/ \E h \in Holders : ClaimElsewhere(h)
         \/ \E amount \in Distributions : SettleNote(amount)
         \/ DefaultNote
         \/ UNCHANGED offeringVars
  PROVE  SaleInv'
<1>1. /\ UNCHANGED <<balances, listing, orders, currency, proceeds, sales, asked, donated>>
      /\ defaulted' \in BOOLEAN
  BY DEF SweepEscrow, ClaimElsewhere, SettleNote, DefaultNote, Claim, Distribute, ledgerVars,
         saleVars, offeringVars, OfferingInv, OfferingTypeOK
<1> QED BY <1>1 DEF SaleInv, OfferingInv, OfferingTypeOK, ListingEscrowed,
                     HoldsNoCurrency, SoldAtTheAskedPrice

LEMMA OfferingInvStep ==
  ASSUME OfferingInv, [OfferingNext]_offeringVars
  PROVE  OfferingInv' /\ [LedgerNext]_ledgerVars
<1>1. [LedgerNext]_ledgerVars
  BY OfferingStep, OrdersTyped
<1>2. LedgerInv'
  BY <1>1, LedgerStep DEF OfferingInv
<1>3. SaleInv'
  <2>1. ASSUME NEW amount \in TokenAmounts, NEW priceBps \in Prices, List(amount, priceBps)
        PROVE  SaleInv'
    BY <2>1, ListKeeps
  <2>2. ASSUME NEW priceBps \in Prices, Relist(priceBps) PROVE SaleInv'
    BY <2>2, RelistKeeps
  <2>3. ASSUME NEW amount \in TokenAmounts, Delist(amount) PROVE SaleInv'
    BY <2>3, DelistKeeps
  <2>4. ASSUME NEW b \in Buyers, NEW amount \in TokenAmounts, Order(b, amount) PROVE SaleInv'
    BY <2>4, OrderKeeps
  <2>5. ASSUME NEW b \in Buyers, Buy(b) PROVE SaleInv'
    BY <2>5, BuyKeeps
  <2>6. ASSUME NEW b \in Buyers, BuyFails(b) PROVE SaleInv'
    BY <2>6, BuyFailsKeeps
  <2>7. ASSUME NEW from \in Holders, NEW to \in Holders, NEW amount \in TokenAmounts,
               TradeElsewhere(from, to, amount)
        PROVE  SaleInv'
    BY <2>7, TradeKeeps
  <2> QED BY <2>1, <2>2, <2>3, <2>4, <2>5, <2>6, <2>7, OthersKeep DEF OfferingNext
<1> QED BY <1>1, <1>2, <1>3 DEF OfferingInv, SaleInv

THEOREM OfferingInvariant == OfferingSpec => []OfferingInv
<1>1. OfferingInv /\ [OfferingNext]_offeringVars => OfferingInv'
  BY OfferingInvStep
<1> QED BY OfferingInvInit, <1>1, PTL DEF OfferingSpec

(***************************************************************************)
(* Offering.sol is a holder of the note like any other: list, delist, buy  *)
(* and sweepEscrow are transfers and claims of the coupon ledger, so every *)
(* theorem about LedgerSpec is one about OfferingSpec.                     *)
(***************************************************************************)
THEOREM OfferingImplementsLedger == OfferingSpec => OfferingKeepsLedger
<1>1. OfferingInit => LedgerInit
  BY DEF OfferingInit
<1>2. OfferingInv /\ [OfferingNext]_offeringVars => [LedgerNext]_ledgerVars
  BY OfferingInvStep
<1> QED BY <1>1, <1>2, OfferingInvariant, PTL DEF OfferingSpec, OfferingKeepsLedger, LedgerSpec

(***************************************************************************)
(* list, delist, buy and direct transfers: the escrow holds the listing    *)
(* and what was sent to it directly, to the last token.                    *)
(***************************************************************************)
THEOREM ListingIsEscrowed == OfferingSpec => []ListingEscrowed
<1>1. OfferingInv => ListingEscrowed
  BY DEF OfferingInv
<1> QED BY <1>1, OfferingInvariant, PTL

(***************************************************************************)
(* buy: over any number of purchases the originator is paid the price      *)
(* listed at each, within one smallest unit per purchase.                  *)
(***************************************************************************)
THEOREM SalesRoundDown == OfferingSpec => []SoldAtTheAskedPrice
<1>1. OfferingInv => SoldAtTheAskedPrice
  BY DEF OfferingInv
<1> QED BY <1>1, OfferingInvariant, PTL

----------------------------------------------------------------------------
\* The rows of the index: what each handler writes, and what it leaves alone.

NoteRow     == [listedAmount : Int, soldAmount : Int, originatorRetained : Int]
ListingRow  == [amount : Int, priceBps : Int, open : BOOLEAN,
                listedTotal : Int, delistedTotal : Int]
PositionRow == [balance : Int, bought : Int, paid : Int, claimed : Int]
RowsType    == [note : NoteRow, listing : ListingRow, positions : [Holders -> PositionRow],
                sales : Int, principalSold : Int]

LEMMA RowFields ==
  ASSUME NEW r \in RowsType
  PROVE  /\ r.note \in NoteRow /\ r.listing \in ListingRow
         /\ r.positions \in [Holders -> PositionRow]
         /\ r.sales \in Int /\ r.principalSold \in Int
         /\ r.note.listedAmount \in Int /\ r.note.soldAmount \in Int
         /\ r.note.originatorRetained \in Int
         /\ r.listing.amount \in Int /\ r.listing.priceBps \in Int
         /\ r.listing.open \in BOOLEAN
         /\ r.listing.listedTotal \in Int /\ r.listing.delistedTotal \in Int
         /\ \A h \in Holders : /\ r.positions[h] \in PositionRow
                               /\ r.positions[h].balance \in Int
                               /\ r.positions[h].bought \in Int
                               /\ r.positions[h].paid \in Int
                               /\ r.positions[h].claimed \in Int
BY DEF RowsType, NoteRow, ListingRow, PositionRow

\* The rows q are what the Transfer handler makes of r.
TransferOf(q, r, from, to, amount) ==
  /\ q \in RowsType
  /\ \A h \in Holders :
       /\ q.positions[h].balance = r.positions[h].balance
                                     - (IF h = from THEN amount ELSE 0)
                                     + (IF h = to   THEN amount ELSE 0)
       /\ q.positions[h].bought  = r.positions[h].bought
       /\ q.positions[h].paid    = r.positions[h].paid
       /\ q.positions[h].claimed = r.positions[h].claimed
  /\ q.note.originatorRetained = (IF Originator \in {from, to}
                                  THEN q.positions[Originator].balance
                                  ELSE r.note.originatorRetained)
  /\ q.note.listedAmount = r.note.listedAmount /\ q.note.soldAmount = r.note.soldAmount
  /\ q.listing = r.listing /\ q.sales = r.sales /\ q.principalSold = r.principalSold

LEMMA TransferRows ==
  ASSUME NEW r \in RowsType, NEW from \in Holders, NEW to \in Holders, NEW amount \in Nat,
         NEW q, q = handleTransfer(r, from, to, amount)
  PROVE  TransferOf(q, r, from, to, amount)
<1> DEFINE less  == [r.positions EXCEPT ![from].balance = @ - amount]
           moved == [less EXCEPT ![to].balance = @ + amount]
           kept  == IF Originator \in {from, to} THEN moved[Originator].balance
                    ELSE r.note.originatorRetained
<1>1. q = [r EXCEPT !.positions = moved, !.note.originatorRetained = kept]
  BY DEF handleTransfer
<1>2. less \in [Holders -> PositionRow]
  BY RowFields DEF PositionRow
<1>3. \A h \in Holders :
        /\ less[h].balance = r.positions[h].balance - (IF h = from THEN amount ELSE 0)
        /\ less[h].bought  = r.positions[h].bought
        /\ less[h].paid    = r.positions[h].paid
        /\ less[h].claimed = r.positions[h].claimed
  BY RowFields DEF PositionRow
<1> HIDE DEF less
<1>4. moved \in [Holders -> PositionRow]
  BY <1>2 DEF PositionRow
<1>5. \A h \in Holders :
        /\ moved[h].balance = less[h].balance + (IF h = to THEN amount ELSE 0)
        /\ moved[h].bought  = less[h].bought
        /\ moved[h].paid    = less[h].paid
        /\ moved[h].claimed = less[h].claimed
  BY <1>2 DEF PositionRow
<1> HIDE DEF moved
<1>6. kept \in Int
  BY <1>4, RowFields, EscrowIsHolder DEF PositionRow
<1> HIDE DEF kept
<1>7. /\ q \in RowsType
      /\ q.positions = moved /\ q.note.originatorRetained = kept
      /\ q.note.listedAmount = r.note.listedAmount /\ q.note.soldAmount = r.note.soldAmount
      /\ q.listing = r.listing /\ q.sales = r.sales /\ q.principalSold = r.principalSold
  BY <1>1, <1>4, <1>6 DEF RowsType, NoteRow
<1>8. \A h \in Holders :
        /\ q.positions[h].balance = r.positions[h].balance
                                      - (IF h = from THEN amount ELSE 0)
                                      + (IF h = to   THEN amount ELSE 0)
        /\ q.positions[h].bought  = r.positions[h].bought
        /\ q.positions[h].paid    = r.positions[h].paid
        /\ q.positions[h].claimed = r.positions[h].claimed
  BY <1>3, <1>5, <1>7
<1> QED BY <1>7, <1>8 DEF kept, TransferOf

\* The rows q are what the Listed handler makes of r.
ListingOf(q, r, amount, priceBps) ==
  /\ q \in RowsType
  /\ q.listing.amount = r.listing.amount + amount /\ q.listing.priceBps = priceBps
  /\ q.listing.open = TRUE /\ q.listing.listedTotal = r.listing.listedTotal + amount
  /\ q.listing.delistedTotal = r.listing.delistedTotal
  /\ q.note.listedAmount = r.listing.amount + amount
  /\ q.note.soldAmount = r.note.soldAmount
  /\ q.note.originatorRetained = r.note.originatorRetained
  /\ q.positions = r.positions /\ q.sales = r.sales /\ q.principalSold = r.principalSold

LEMMA ListedRows ==
  ASSUME NEW r \in RowsType, NEW amount \in Nat, NEW priceBps \in Int,
         NEW q, q = handleListed(r, amount, priceBps)
  PROVE  ListingOf(q, r, amount, priceBps)
<1> DEFINE was == r.listing
           had == r.note
           a   == was.amount + amount
           t   == was.listedTotal + amount
           yes == TRUE
           l   == [was EXCEPT !.amount = a, !.priceBps = priceBps, !.open = yes,
                              !.listedTotal = t]
           n   == [had EXCEPT !.listedAmount = a]
<1>1. was \in ListingRow /\ had \in NoteRow
  BY RowFields
<1> HIDE DEF was, had
<1>2. a \in Int /\ t \in Int /\ yes \in BOOLEAN
  BY <1>1 DEF ListingRow
<1> HIDE DEF a, t, yes
<1>3. /\ l \in ListingRow
      /\ l.amount = a /\ l.priceBps = priceBps /\ l.open = yes
      /\ l.listedTotal = t /\ l.delistedTotal = was.delistedTotal
  BY <1>1, <1>2 DEF ListingRow
<1>4. q = [r EXCEPT !.listing = l, !.note = n]
  <2>1. q = [r EXCEPT !.listing = l, !.note.listedAmount = l.amount]
    BY Zenon DEF handleListed, l, was, a, t, yes
  <2> HIDE DEF l
  <2> QED BY <1>3, <2>1 DEF RowsType, had
<1> HIDE DEF l
<1>5. /\ n \in NoteRow
      /\ n.listedAmount = a /\ n.soldAmount = had.soldAmount
      /\ n.originatorRetained = had.originatorRetained
  BY <1>1, <1>2 DEF NoteRow
<1> HIDE DEF n
<1>6. /\ q \in RowsType /\ q.listing = l /\ q.note = n
      /\ q.positions = r.positions /\ q.sales = r.sales /\ q.principalSold = r.principalSold
  BY <1>3, <1>4, <1>5 DEF RowsType
<1> QED BY <1>3, <1>5, <1>6 DEF was, had, a, t, yes, ListingOf

LEMMA RepricedRows ==
  ASSUME NEW r \in RowsType, NEW priceBps \in Int, NEW q, q = handleRepriced(r, priceBps)
  PROVE  /\ q \in RowsType
         /\ q.listing.amount = r.listing.amount /\ q.listing.priceBps = priceBps
         /\ q.listing.open = r.listing.open /\ q.listing.listedTotal = r.listing.listedTotal
         /\ q.listing.delistedTotal = r.listing.delistedTotal
         /\ q.note = r.note
         /\ q.positions = r.positions /\ q.sales = r.sales /\ q.principalSold = r.principalSold
BY RowFields DEF handleRepriced, RowsType, ListingRow

\* The rows q are what the Delisted handler makes of r.
DelistingOf(q, r, amount, remaining) ==
  /\ q \in RowsType
  /\ q.listing.amount = remaining /\ q.listing.priceBps = r.listing.priceBps
  /\ q.listing.open = (remaining > 0)
  /\ q.listing.listedTotal = r.listing.listedTotal
  /\ q.listing.delistedTotal = r.listing.delistedTotal + amount
  /\ q.note.listedAmount = remaining /\ q.note.soldAmount = r.note.soldAmount
  /\ q.note.originatorRetained = r.note.originatorRetained
  /\ q.positions = r.positions /\ q.sales = r.sales /\ q.principalSold = r.principalSold

LEMMA DelistedRows ==
  ASSUME NEW r \in RowsType, NEW amount \in Nat, NEW remaining \in Nat,
         NEW q, q = handleDelisted(r, amount, remaining)
  PROVE  DelistingOf(q, r, amount, remaining)
<1> DEFINE was == r.listing
           had == r.note
           o   == remaining > 0
           t   == was.delistedTotal + amount
           l   == [was EXCEPT !.amount = remaining, !.open = o, !.delistedTotal = t]
           n   == [had EXCEPT !.listedAmount = remaining]
<1>1. was \in ListingRow /\ had \in NoteRow
  BY RowFields
<1>2. q = [r EXCEPT !.listing = l, !.note = n]
  BY DEF handleDelisted, RowsType
<1> HIDE DEF was, had
<1>0. o \in BOOLEAN /\ t \in Int /\ remaining \in Int
  BY <1>1 DEF ListingRow
<1> HIDE DEF o, t
<1>3. /\ l \in ListingRow
      /\ l.amount = remaining /\ l.priceBps = was.priceBps /\ l.open = o
      /\ l.listedTotal = was.listedTotal /\ l.delistedTotal = t
  BY <1>0, <1>1 DEF ListingRow
<1>4. /\ n \in NoteRow
      /\ n.listedAmount = remaining /\ n.soldAmount = had.soldAmount
      /\ n.originatorRetained = had.originatorRetained
  BY <1>1 DEF NoteRow
<1> HIDE DEF l, n
<1>5. /\ q \in RowsType /\ q.listing = l /\ q.note = n
      /\ q.positions = r.positions /\ q.sales = r.sales /\ q.principalSold = r.principalSold
  BY <1>2, <1>3, <1>4 DEF RowsType
<1> QED BY <1>3, <1>4, <1>5 DEF was, had, o, t, DelistingOf

\* The rows q are what the Bought handler makes of r.
PurchaseOf(q, r, b, amount, paid) ==
  /\ q \in RowsType
  /\ q.listing.amount = r.listing.amount - amount
  /\ q.listing.priceBps = r.listing.priceBps
  /\ q.listing.open = (r.listing.amount - amount > 0)
  /\ q.listing.listedTotal = r.listing.listedTotal
  /\ q.listing.delistedTotal = r.listing.delistedTotal
  /\ q.note.listedAmount = r.listing.amount - amount
  /\ q.note.soldAmount = r.note.soldAmount + amount
  /\ q.note.originatorRetained = r.note.originatorRetained
  /\ q.sales = r.sales + 1 /\ q.principalSold = r.principalSold + paid
  /\ q.positions[b].bought = r.positions[b].bought + amount
  /\ q.positions[b].paid = r.positions[b].paid + paid
  /\ \A h \in Holders :
       /\ q.positions[h].balance = r.positions[h].balance
       /\ q.positions[h].claimed = r.positions[h].claimed
       /\ h # b => q.positions[h] = r.positions[h]

LEMMA BoughtRows ==
  ASSUME NEW r \in RowsType, NEW b \in Holders, NEW amount \in Nat, NEW paid \in Int,
         amount <= r.listing.amount, NEW q, q = handleBought(r, b, amount, paid)
  PROVE  PurchaseOf(q, r, b, amount, paid)
<1> DEFINE was  == r.listing
           had  == r.note
           own  == r.positions[b]
           left == was.amount - amount
           some == left > 0
           sold == had.soldAmount + amount
           bt   == own.bought + amount
           pd   == own.paid + paid
           l    == [was EXCEPT !.amount = left, !.open = some]
           n    == [had EXCEPT !.listedAmount = left, !.soldAmount = sold]
           row  == [own EXCEPT !.bought = bt, !.paid = pd]
           held == [r.positions EXCEPT ![b] = row]
<1>1. was \in ListingRow /\ had \in NoteRow /\ own \in PositionRow /\ left \in Int
  <2>1. was \in ListingRow /\ had \in NoteRow /\ own \in PositionRow
    BY RowFields
  <2> QED BY <2>1 DEF ListingRow
<1>2. Left(r, amount) = l /\ Buyer(r, b, amount, paid) = row
  <2>1. left = IF was.amount > amount THEN was.amount - amount ELSE 0
    <3>1. was.amount \in Int /\ amount <= was.amount
      BY <1>1 DEF ListingRow
    <3> HIDE DEF was
    <3> QED BY <3>1
  <2> QED BY <2>1, Zenon DEF Left, Buyer
<1> HIDE DEF was, had, own, left
<1>3. some \in BOOLEAN /\ sold \in Int /\ bt \in Int /\ pd \in Int
  BY <1>1 DEF NoteRow, PositionRow
<1>4. /\ l \in ListingRow
      /\ l.amount = left /\ l.priceBps = was.priceBps /\ l.open = some
      /\ l.listedTotal = was.listedTotal /\ l.delistedTotal = was.delistedTotal
  <2> HIDE DEF some
  <2> QED BY <1>1, <1>3 DEF ListingRow
<1>5. q = [r EXCEPT !.listing = l, !.note = n, !.sales = r.sales + 1,
                    !.positions = held, !.principalSold = r.principalSold + paid]
  <2>1. n = [had EXCEPT !.listedAmount = l.amount, !.soldAmount = had.soldAmount + amount]
    BY <1>4 DEF sold
  <2> HIDE DEF l, row, n
  <2> QED BY <1>2, <2>1 DEF handleBought, RowsType, had
<1> HIDE DEF l, some, sold, bt, pd
<1>6. /\ n \in NoteRow
      /\ n.listedAmount = left /\ n.soldAmount = sold
      /\ n.originatorRetained = had.originatorRetained
  BY <1>1, <1>3 DEF NoteRow
<1>7. /\ row \in PositionRow
      /\ row.balance = own.balance /\ row.claimed = own.claimed
      /\ row.bought = bt /\ row.paid = pd
  BY <1>1, <1>3 DEF PositionRow
<1> HIDE DEF n, row
<1>8. /\ held \in [Holders -> PositionRow]
      /\ held[b] = row /\ \A h \in Holders : h # b => held[h] = r.positions[h]
  BY <1>7, RowFields
<1> HIDE DEF held
<1>9. /\ q \in RowsType /\ q.positions = held /\ q.listing = l /\ q.note = n
      /\ q.sales = r.sales + 1 /\ q.principalSold = r.principalSold + paid
  <2>1. r.sales + 1 \in Int /\ r.principalSold + paid \in Int
    BY RowFields
  <2> QED BY <1>4, <1>5, <1>6, <1>8, <2>1 DEF RowsType
<1> QED BY <1>4, <1>6, <1>7, <1>8, <1>9 DEF left, was, had, own, some, sold, bt, pd, PurchaseOf

\* The rows q are what the Claimed handler makes of r.
ClaimOf(q, r, c, amount) ==
  /\ q \in RowsType
  /\ q.listing = r.listing /\ q.note = r.note
  /\ q.sales = r.sales /\ q.principalSold = r.principalSold
  /\ q.positions[c].claimed = r.positions[c].claimed + amount
  /\ \A h \in Holders :
       /\ q.positions[h].balance = r.positions[h].balance
       /\ q.positions[h].bought = r.positions[h].bought
       /\ q.positions[h].paid = r.positions[h].paid
       /\ h # c => q.positions[h] = r.positions[h]

LEMMA ClaimedRows ==
  ASSUME NEW r \in RowsType, NEW c \in Holders, NEW amount \in Int,
         NEW q, q = handleClaimed(r, c, amount)
  PROVE  ClaimOf(q, r, c, amount)
BY RowFields DEF handleClaimed, RowsType, PositionRow, ClaimOf

----------------------------------------------------------------------------
\* The market is an Offering that the rows and the pages look at.

MirrorInv == OfferingInv /\ rows \in RowsType /\ MarketMirrored

\* What a step of the market has to leave mirrored; the offer shown follows.
RowsFollow ==
  /\ rows \in RowsType
  /\ BalancesMirrored
  /\ ListingMirrored
  /\ SalesMirrored
  /\ ClaimsMirrored

LEMMA OfferFollows ==
  ASSUME ListingMirrored, ListingEscrowed, OfferingTypeOK
  PROVE  OfferStands
<1>1. /\ rows.listing.amount = listing.amount /\ rows.listing.priceBps = listing.priceBps
      /\ rows.listing.open = listing.open /\ listing.open \in BOOLEAN
      /\ listing.open <=> listing.amount > 0
  BY ListingTyped DEF ListingMirrored, ListingEscrowed
<1>2. Open = listing.open
  BY <1>1 DEF Open, ForSale
<1> QED BY <1>1, <1>2 DEF OfferStands, Offer, ForSale

LEMMA MirrorInvInit == MarketInit => MirrorInv
<1> SUFFICES ASSUME MarketInit PROVE MirrorInv
  OBVIOUS
<1>1. OfferingInv
  BY OfferingInvInit DEF MarketInit
<1>2. rows = Seeded /\ OfferingInit /\ LedgerInit
  BY DEF MarketInit, OfferingInit
<1>3. rows \in RowsType
  BY <1>2, LedgerAssumption
     DEF Seeded, NewPosition, RowsType, NoteRow, ListingRow, PositionRow
<1>4. BalancesMirrored
  BY <1>2, EscrowIsHolder DEF Seeded, NewPosition, LedgerInit, BalancesMirrored
<1>5. ListingMirrored
  <2>1. /\ rows.listing.amount = 0 /\ rows.listing.priceBps = 0 /\ rows.listing.open = FALSE
        /\ rows.listing.listedTotal = 0 /\ rows.listing.delistedTotal = 0
        /\ rows.note.listedAmount = 0 /\ rows.note.soldAmount = 0
    BY <1>2 DEF Seeded
  <2>2. listing.amount = 0 /\ listing.priceBps = 0 /\ listing.open = FALSE
    BY <1>2 DEF OfferingInit
  <2>3. rows.listing.open = listing.open
    BY <2>1, <2>2, Zenon
  <2>4. rows.listing.listedTotal = listing.amount + rows.listing.delistedTotal
                                                  + rows.note.soldAmount
    BY <2>1, <2>2
  <2> QED BY <2>1, <2>2, <2>3, <2>4, Zenon DEF ListingMirrored
<1> DEFINE bought  == [h \in Holders |-> rows.positions[h].bought]
           paid    == [h \in Holders |-> rows.positions[h].paid]
           claimed == [h \in Holders |-> rows.positions[h].claimed]
<1>6. \A h \in Holders : bought[h] = 0 /\ paid[h] = 0 /\ claimed[h] = 0
  BY <1>2 DEF Seeded, NewPosition
<1>7. /\ bought \in [Holders -> Int] /\ paid \in [Holders -> Int] /\ claimed \in [Holders -> Int]
  BY <1>6
<1> HIDE DEF bought, paid, claimed
<1>8. /\ SumTo(bought, HolderCount) = 0 /\ SumTo(paid, HolderCount) = 0
      /\ SumTo(claimed, HolderCount) = 0
  BY <1>6, <1>7, HolderNumbers, SumZero
<1>9. SalesMirrored
  BY <1>2, <1>8 DEF SalesMirrored, Seeded, OfferingInit, bought, paid
<1>10. ClaimsMirrored
  BY <1>2, <1>8 DEF ClaimsMirrored, LedgerInit, claimed
<1>11. OfferStands
  BY <1>1, <1>5, OfferFollows DEF OfferingInv
<1> QED BY <1>1, <1>3, <1>4, <1>5, <1>9, <1>10, <1>11 DEF MirrorInv, MarketMirrored

\* What the pages send is an action of the Offering: an order quoted from the
\* rows is one quoted from the listing.
LEMMA MarketStep ==
  ASSUME MirrorInv, [MarketNext]_marketVars
  PROVE  [OfferingNext]_offeringVars
<1>0. rows.listing.amount = listing.amount /\ rows.listing.priceBps = listing.priceBps
  BY DEF MirrorInv, MarketMirrored, ListingMirrored
<1>1. ASSUME NEW b \in Buyers, NEW amount \in TokenAmounts, OrderFromPage(b, amount)
      PROVE  Order(b, amount)
  BY <1>0, <1>1 DEF OrderFromPage, Order, ForSale
<1>2. CASE \E amount \in TokenAmounts :
             \/ ApproveFromPage(amount)
             \/ DelistEither(amount)
             \/ \E priceBps \in Prices : ListFromPage(amount, priceBps)
             \/ \E b \in Buyers : OrderFromPage(b, amount)
             \/ \E from, to \in Holders : Trade(from, to, amount)
  BY <1>1, <1>2 DEF ApproveFromPage, DelistEither, ListFromPage, Trade, OfferingNext
<1>3. CASE \E priceBps \in Prices : RelistFromPage(priceBps)
  BY <1>3 DEF RelistFromPage, OfferingNext
<1>4. CASE \E b \in Buyers : Bought(b) \/ NotBought(b)
  BY <1>4 DEF Bought, NotBought, OfferingNext
<1>5. CASE SweepFromPage
  BY <1>5 DEF SweepFromPage, OfferingNext
<1>6. CASE \E h \in Holders : ClaimBy(h)
  BY <1>6 DEF ClaimBy, OfferingNext
<1>7. CASE NoteMoves
  BY <1>7 DEF NoteMoves, OfferingNext
<1>8. CASE UNCHANGED marketVars
  BY <1>8 DEF marketVars
<1> QED BY <1>2, <1>3, <1>4, <1>5, <1>6, <1>7, <1>8 DEF MarketNext

\* Whoever the tokens go to, the Transfer handler moves what the token moved.
LEMMA BalancesFollow ==
  ASSUME MirrorInv, NEW from \in Holders, NEW to \in Holders, NEW amount \in Nat,
         Transfer(from, to, amount), NEW q, q = handleTransfer(rows, from, to, amount)
  PROVE  /\ \A h \in Holders : q.positions[h].balance = balances'[h]
         /\ q.note.originatorRetained = balances'[Originator]
         /\ TransferOf(q, rows, from, to, amount)
<1>1. /\ rows \in RowsType /\ \A h \in Holders : rows.positions[h].balance = balances[h]
      /\ rows.note.originatorRetained = balances[Originator]
      /\ Originator \in Holders /\ LedgerTypeOK
  BY EscrowIsHolder, OrdersTyped DEF MirrorInv, MarketMirrored, BalancesMirrored
<1>2. \A h \in Holders : balances'[h] = balances[h] - (IF h = from THEN amount ELSE 0)
                                                    + (IF h = to   THEN amount ELSE 0)
  BY DEF Transfer, Moved
<1>3. TransferOf(q, rows, from, to, amount)
  BY <1>1, TransferRows, Zenon
<1>4. \A h \in Holders : q.positions[h].balance = balances'[h]
  BY <1>1, <1>2, <1>3 DEF TransferOf
<1>5. Originator \notin {from, to} => balances'[Originator] = balances[Originator]
  BY <1>1, <1>2 DEF LedgerTypeOK
<1> QED BY <1>1, <1>3, <1>4, <1>5 DEF TransferOf

\* Rows whose sales and claims are those of before.
LEMMA ColumnsKept ==
  ASSUME MirrorInv,
         \A h \in Holders : /\ rows'.positions[h].bought  = rows.positions[h].bought
                            /\ rows'.positions[h].paid    = rows.positions[h].paid,
         rows'.note.soldAmount = rows.note.soldAmount,
         rows'.sales = rows.sales, rows'.principalSold = rows.principalSold,
         UNCHANGED <<proceeds, sales>>
  PROVE  SalesMirrored'
BY DEF MirrorInv, MarketMirrored, SalesMirrored

LEMMA ClaimsKept ==
  ASSUME MirrorInv, UNCHANGED totalClaimed,
         \A h \in Holders : rows'.positions[h].claimed = rows.positions[h].claimed
  PROVE  ClaimsMirrored'
BY DEF MirrorInv, MarketMirrored, ClaimsMirrored

LEMMA ListFollows ==
  ASSUME MirrorInv, NEW amount \in TokenAmounts, NEW priceBps \in Prices,
         ListFromPage(amount, priceBps)
  PROVE  RowsFollow'
<1> DEFINE mid == handleTransfer(rows, Originator, Escrow, amount)
<1>1. /\ rows \in RowsType /\ amount \in Nat /\ priceBps \in Int /\ ListingMirrored
      /\ OfferingInv /\ Originator \in Holders /\ Escrow \in Holders
  BY OrdersTyped, EscrowIsHolder, OfferingAssumption DEF MirrorInv, MarketMirrored
<1>2. /\ Transfer(Originator, Escrow, amount)
      /\ listing' = [amount |-> listing.amount + amount, priceBps |-> priceBps, open |-> TRUE]
      /\ UNCHANGED <<totalClaimed, proceeds, sales>>
      /\ rows' = handleListed(mid, amount, priceBps)
  BY DEF ListFromPage, List, Transfer, saleVars
<1>3. /\ \A h \in Holders : mid.positions[h].balance = balances'[h]
      /\ mid.note.originatorRetained = balances'[Originator]
      /\ TransferOf(mid, rows, Originator, Escrow, amount)
  BY <1>1, <1>2, BalancesFollow, Zenon
<1> HIDE DEF mid
<1>4. mid \in RowsType
  BY <1>3 DEF TransferOf
<1>5. ListingOf(rows', mid, amount, priceBps)
  BY <1>1, <1>2, <1>4, ListedRows, Zenon
<1>6. BalancesMirrored'
  BY <1>3, <1>5 DEF BalancesMirrored, ListingOf
<1>7. ListingMirrored'
  <2>1. mid.listing = rows.listing /\ mid.note.soldAmount = rows.note.soldAmount
    BY <1>3 DEF TransferOf
  <2>2. /\ rows.listing.amount = listing.amount
        /\ rows.listing.listedTotal = listing.amount + rows.listing.delistedTotal
                                                     + rows.note.soldAmount
        /\ listing.amount \in Int /\ rows.listing.delistedTotal \in Int
        /\ rows.note.soldAmount \in Int
    BY <1>1, OrdersTyped, ListingTyped, RowFields DEF ListingMirrored
  <2>3. /\ rows'.listing.amount = listing'.amount /\ rows'.note.listedAmount = listing'.amount
        /\ rows'.listing.priceBps = listing'.priceBps /\ rows'.listing.open = listing'.open
    BY <1>2, <1>5, <2>1, <2>2 DEF ListingOf
  <2>4. rows'.listing.listedTotal = listing'.amount + rows'.listing.delistedTotal
                                                    + rows'.note.soldAmount
    BY <1>1, <1>2, <1>5, <2>1, <2>2 DEF ListingOf
  <2> QED BY <2>3, <2>4 DEF ListingMirrored
<1>8. SalesMirrored' /\ ClaimsMirrored'
  BY <1>2, <1>3, <1>5, ColumnsKept, ClaimsKept DEF TransferOf, ListingOf
<1> QED BY <1>5, <1>6, <1>7, <1>8 DEF RowsFollow, ListingOf

LEMMA RelistFollows ==
  ASSUME MirrorInv, NEW priceBps \in Prices, RelistFromPage(priceBps)
  PROVE  RowsFollow'
<1>1. /\ rows \in RowsType /\ priceBps \in Int /\ ListingMirrored /\ BalancesMirrored
      /\ OfferingTypeOK
  BY OrdersTyped, OfferingAssumption DEF MirrorInv, MarketMirrored
<1>2. /\ listing' = [listing EXCEPT !.priceBps = priceBps]
      /\ UNCHANGED <<balances, totalClaimed, proceeds, sales>>
      /\ rows' = handleRepriced(rows, priceBps)
  BY DEF RelistFromPage, Relist, ledgerVars, saleVars
<1>3. /\ rows' \in RowsType
      /\ rows'.listing.amount = rows.listing.amount /\ rows'.listing.priceBps = priceBps
      /\ rows'.listing.open = rows.listing.open
      /\ rows'.listing.listedTotal = rows.listing.listedTotal
      /\ rows'.listing.delistedTotal = rows.listing.delistedTotal
      /\ rows'.note = rows.note
      /\ rows'.positions = rows.positions /\ rows'.sales = rows.sales
      /\ rows'.principalSold = rows.principalSold
  BY <1>1, <1>2, RepricedRows
<1>4. listing'.amount = listing.amount /\ listing'.priceBps = priceBps
      /\ listing'.open = listing.open
  BY <1>1, <1>2 DEF OfferingTypeOK
<1>5. ListingMirrored'
  BY <1>1, <1>3, <1>4 DEF ListingMirrored
<1>6. BalancesMirrored'
  BY <1>1, <1>2, <1>3 DEF BalancesMirrored
<1>7. SalesMirrored' /\ ClaimsMirrored'
  BY <1>2, <1>3, ColumnsKept, ClaimsKept
<1> QED BY <1>3, <1>5, <1>6, <1>7 DEF RowsFollow

LEMMA DelistFollows ==
  ASSUME MirrorInv, NEW amount \in TokenAmounts, DelistEither(amount)
  PROVE  RowsFollow'
<1> DEFINE mid == handleTransfer(rows, Escrow, Originator, amount)
<1>1. /\ rows \in RowsType /\ amount \in Nat /\ ListingMirrored /\ OfferingTypeOK
      /\ ListingEscrowed /\ Originator \in Holders /\ Escrow \in Holders
  BY OrdersTyped, EscrowIsHolder DEF MirrorInv, OfferingInv, MarketMirrored
<1>2. /\ Transfer(Escrow, Originator, amount)
      /\ amount > 0 /\ amount <= listing.amount /\ listing' = Less(amount)
      /\ UNCHANGED <<totalClaimed, proceeds, sales>>
      /\ rows' = handleDelisted(mid, amount, listing'.amount)
  BY DEF DelistEither, Delist, Transfer, saleVars
<1>3. /\ \A h \in Holders : mid.positions[h].balance = balances'[h]
      /\ mid.note.originatorRetained = balances'[Originator]
      /\ TransferOf(mid, rows, Escrow, Originator, amount)
  BY <1>1, <1>2, BalancesFollow, Zenon
<1> HIDE DEF mid
<1>4. /\ listing'.amount = listing.amount - amount /\ listing'.priceBps = listing.priceBps
      /\ listing'.open \in BOOLEAN /\ (listing'.open <=> listing'.amount > 0)
      /\ listing'.amount \in Nat
  BY <1>1, <1>2, LessListed
<1>5. mid \in RowsType
  BY <1>3 DEF TransferOf
<1>6. DelistingOf(rows', mid, amount, listing'.amount)
  BY <1>1, <1>2, <1>4, <1>5, DelistedRows, Zenon
<1>7. BalancesMirrored'
  BY <1>3, <1>6 DEF BalancesMirrored, DelistingOf
<1>8. ListingMirrored'
  <2>1. mid.listing = rows.listing /\ mid.note.soldAmount = rows.note.soldAmount
    BY <1>3 DEF TransferOf
  <2>2. /\ rows.listing.priceBps = listing.priceBps
        /\ rows.listing.listedTotal = listing.amount + rows.listing.delistedTotal
                                                     + rows.note.soldAmount
        /\ listing.amount \in Int /\ rows.listing.delistedTotal \in Int
        /\ rows.note.soldAmount \in Int
    BY <1>1, ListingTyped, RowFields DEF ListingMirrored
  <2>3. rows'.listing.listedTotal = listing'.amount + rows'.listing.delistedTotal
                                                    + rows'.note.soldAmount
    BY <1>1, <1>4, <1>6, <2>1, <2>2 DEF DelistingOf
  <2>4. rows'.listing.open = listing'.open
    BY <1>4, <1>6 DEF DelistingOf
  <2> QED BY <1>4, <1>6, <2>1, <2>2, <2>3, <2>4 DEF ListingMirrored, DelistingOf
<1>9. SalesMirrored' /\ ClaimsMirrored'
  BY <1>2, <1>3, <1>6, ColumnsKept, ClaimsKept DEF TransferOf, DelistingOf
<1> QED BY <1>6, <1>7, <1>8, <1>9 DEF RowsFollow, DelistingOf

LEMMA TradeFollows ==
  ASSUME MirrorInv, NEW from \in Holders, NEW to \in Holders, NEW amount \in TokenAmounts,
         Trade(from, to, amount)
  PROVE  RowsFollow'
<1>1. amount \in Nat /\ ListingMirrored
  BY OrdersTyped DEF MirrorInv, MarketMirrored
<1>2. /\ Transfer(from, to, amount)
      /\ UNCHANGED <<listing, totalClaimed, proceeds, sales>>
      /\ rows' = handleTransfer(rows, from, to, amount)
  BY DEF Trade, TradeElsewhere, Transfer, saleVars
<1>3. /\ \A h \in Holders : rows'.positions[h].balance = balances'[h]
      /\ rows'.note.originatorRetained = balances'[Originator]
      /\ TransferOf(rows', rows, from, to, amount)
  <2> DEFINE q == handleTransfer(rows, from, to, amount)
  <2>2. /\ \A h \in Holders : q.positions[h].balance = balances'[h]
        /\ q.note.originatorRetained = balances'[Originator]
        /\ TransferOf(q, rows, from, to, amount)
    BY <1>1, <1>2, BalancesFollow
  <2>3. q = rows'
    BY <1>2
  <2> HIDE DEF q
  <2> QED BY <2>2, <2>3, Zenon
<1>4. BalancesMirrored' /\ ListingMirrored'
  BY <1>1, <1>2, <1>3 DEF BalancesMirrored, ListingMirrored, TransferOf
<1>5. SalesMirrored' /\ ClaimsMirrored'
  BY <1>2, <1>3, ColumnsKept, ClaimsKept DEF TransferOf
<1> QED BY <1>3, <1>4, <1>5 DEF RowsFollow, TransferOf

\* One position's column raised by x raises the column's sum by x.
LEMMA ColumnRaised ==
  ASSUME NEW f \in [Holders -> Int], NEW g \in [Holders -> Int], NEW h \in Holders,
         NEW x \in Int, g[h] = f[h] + x, \A k \in Holders : k # h => g[k] = f[k]
  PROVE  SumTo(g, HolderCount) = SumTo(f, HolderCount) + x
BY HolderNumbers, SumBump

LEMMA BoughtFollows ==
  ASSUME MirrorInv, NEW b \in Buyers, Bought(b)
  PROVE  RowsFollow'
<1> DEFINE a   == orders[b].amount
           c   == Cost(a, listing.priceBps)
           mid == handleTransfer(rows, Escrow, b, a)
<1>1. /\ rows \in RowsType /\ a \in Nat /\ ListingMirrored /\ SalesMirrored /\ OfferingTypeOK
      /\ ListingEscrowed /\ b \in Holders /\ Escrow \in Holders
  BY OrdersTyped, EscrowIsHolder DEF MirrorInv, OfferingInv, MarketMirrored
<1>2. /\ Transfer(Escrow, b, a)
      /\ a > 0 /\ a <= listing.amount /\ listing' = Less(a)
      /\ proceeds' = proceeds + c /\ sales' = sales + 1
      /\ UNCHANGED totalClaimed
      /\ rows' = handleBought(mid, b, a, proceeds' - proceeds)
  BY DEF Bought, Buy, MayBuy, Transfer
<1>3. c \in Nat /\ proceeds \in Nat /\ sales \in Nat
  BY <1>1, ListingTyped, CostRounds DEF OfferingTypeOK
<1>4. proceeds' - proceeds = c
  <2> HIDE DEF c
  <2> QED BY <1>2, <1>3
<1>5. /\ \A h \in Holders : mid.positions[h].balance = balances'[h]
      /\ mid.note.originatorRetained = balances'[Originator]
      /\ TransferOf(mid, rows, Escrow, b, a)
  <2> HIDE DEF a
  <2> QED BY <1>1, <1>2, BalancesFollow
<1>6. /\ listing'.amount = listing.amount - a /\ listing'.priceBps = listing.priceBps
      /\ listing'.open \in BOOLEAN /\ (listing'.open <=> listing'.amount > 0)
      /\ listing'.amount \in Nat
  <2> HIDE DEF a
  <2> QED BY <1>1, <1>2, LessListed
<1> HIDE DEF mid, a, c
<1>7. /\ mid \in RowsType /\ mid.listing = rows.listing
      /\ mid.note.soldAmount = rows.note.soldAmount /\ a <= mid.listing.amount
      /\ rows' = handleBought(mid, b, a, c)
  BY <1>1, <1>2, <1>4, <1>5 DEF TransferOf, ListingMirrored
<1>8. PurchaseOf(rows', mid, b, a, c)
  <2>1. c \in Int
    BY <1>3
  <2> QED BY <1>1, <1>7, <2>1, BoughtRows, Zenon
<1>9. BalancesMirrored'
  BY <1>5, <1>8 DEF BalancesMirrored, PurchaseOf
<1>10. ListingMirrored'
  <2>1. /\ rows.listing.priceBps = listing.priceBps /\ rows.listing.amount = listing.amount
        /\ rows.listing.listedTotal = listing.amount + rows.listing.delistedTotal
                                                     + rows.note.soldAmount
        /\ listing.amount \in Int /\ rows.listing.delistedTotal \in Int
        /\ rows.note.soldAmount \in Int
    BY <1>1, ListingTyped, RowFields DEF ListingMirrored
  <2>2. rows'.listing.listedTotal = listing'.amount + rows'.listing.delistedTotal
                                                    + rows'.note.soldAmount
    BY <1>1, <1>6, <1>7, <1>8, <2>1 DEF PurchaseOf
  <2>3. rows'.listing.open = listing'.open
    BY <1>6, <1>7, <1>8, <2>1 DEF PurchaseOf
  <2> QED BY <1>6, <1>7, <1>8, <2>1, <2>2, <2>3 DEF ListingMirrored, PurchaseOf
<1>11. SalesMirrored'
  <2> DEFINE f == [h \in Holders |-> rows.positions[h].bought]
             g == [h \in Holders |-> rows'.positions[h].bought]
             u == [h \in Holders |-> rows.positions[h].paid]
             v == [h \in Holders |-> rows'.positions[h].paid]
  <2>1. /\ SumTo(f, HolderCount) = rows.note.soldAmount /\ SumTo(u, HolderCount) = proceeds
        /\ rows.principalSold = proceeds /\ rows.sales = sales
    BY <1>1 DEF SalesMirrored
  <2>2. /\ f \in [Holders -> Int] /\ g \in [Holders -> Int]
        /\ u \in [Holders -> Int] /\ v \in [Holders -> Int]
    <3>1. rows' \in RowsType
      BY <1>8 DEF PurchaseOf
    <3>2. ASSUME NEW h \in Holders
          PROVE  /\ rows.positions[h].bought \in Int /\ rows'.positions[h].bought \in Int
                 /\ rows.positions[h].paid \in Int /\ rows'.positions[h].paid \in Int
      BY <1>1, <3>1, <3>2, RowFields
    <3> QED BY <3>2
  <2>3. /\ g[b] = f[b] + a /\ v[b] = u[b] + c
        /\ \A k \in Holders : k # b => g[k] = f[k] /\ v[k] = u[k]
    BY <1>1, <1>5, <1>8 DEF PurchaseOf, TransferOf
  <2> HIDE DEF f, g, u, v
  <2>4. /\ SumTo(g, HolderCount) = SumTo(f, HolderCount) + a
        /\ SumTo(v, HolderCount) = SumTo(u, HolderCount) + c
    BY <1>1, <1>3, <2>2, <2>3, ColumnRaised
  <2>5. /\ rows'.note.soldAmount = rows.note.soldAmount + a
        /\ rows'.principalSold = rows.principalSold + c /\ rows'.sales = rows.sales + 1
    BY <1>5, <1>7, <1>8 DEF PurchaseOf, TransferOf
  <2>6. /\ SumTo(g, HolderCount) = rows'.note.soldAmount
        /\ SumTo(v, HolderCount) = proceeds'
        /\ rows'.principalSold = proceeds' /\ rows'.sales = sales'
    BY <1>2, <2>1, <2>4, <2>5 DEF c
  <2> QED BY <2>6 DEF SalesMirrored, g, v
<1>12. ClaimsMirrored'
  BY <1>2, <1>5, <1>8, ClaimsKept DEF PurchaseOf, TransferOf
<1> QED BY <1>8, <1>9, <1>10, <1>11, <1>12 DEF RowsFollow, PurchaseOf

LEMMA ClaimFollows ==
  ASSUME MirrorInv, NEW h \in Holders, Claim(h),
         UNCHANGED <<listing, proceeds, sales>>,
         rows' = handleClaimed(rows, h, funds - funds')
  PROVE  RowsFollow'
<1> DEFINE a == Claimable(h)
<1>1. /\ rows \in RowsType /\ BalancesMirrored /\ ListingMirrored /\ ClaimsMirrored
      /\ LedgerTypeOK
  BY OrdersTyped DEF MirrorInv, MarketMirrored
<1>2. a \in Nat /\ funds \in Nat /\ totalClaimed \in Nat
  BY <1>1, ShareTypes DEF LedgerTypeOK
<1>3. /\ totalClaimed' = totalClaimed + a /\ funds' = funds - a
      /\ UNCHANGED balances
  BY DEF Claim
<1> HIDE DEF a
<1>4. rows' = handleClaimed(rows, h, a)
  <2>1. funds - funds' = a
    BY <1>2, <1>3
  <2> QED BY <2>1
<1>5. ClaimOf(rows', rows, h, a)
  <2>1. a \in Int
    BY <1>2
  <2> QED BY <1>1, <1>4, <2>1, ClaimedRows, Zenon
<1>6. BalancesMirrored' /\ ListingMirrored'
  BY <1>1, <1>3, <1>5 DEF ClaimOf, BalancesMirrored, ListingMirrored
<1>7. SalesMirrored'
  BY <1>5, ColumnsKept DEF ClaimOf
<1>8. ClaimsMirrored'
  <2> DEFINE f == [k \in Holders |-> rows.positions[k].claimed]
             g == [k \in Holders |-> rows'.positions[k].claimed]
  <2>1. SumTo(f, HolderCount) = totalClaimed
    BY <1>1 DEF ClaimsMirrored
  <2>2. f \in [Holders -> Int] /\ g \in [Holders -> Int]
    <3>1. rows' \in RowsType
      BY <1>5 DEF ClaimOf
    <3>2. ASSUME NEW k \in Holders
          PROVE  rows.positions[k].claimed \in Int /\ rows'.positions[k].claimed \in Int
      BY <1>1, <3>1, <3>2, RowFields
    <3> QED BY <3>2
  <2>3. g[h] = f[h] + a /\ \A k \in Holders : k # h => g[k] = f[k]
    BY <1>5 DEF ClaimOf
  <2> HIDE DEF f, g
  <2>4. SumTo(g, HolderCount) = SumTo(f, HolderCount) + a
    BY <1>2, <2>2, <2>3, ColumnRaised
  <2>5. SumTo(g, HolderCount) = totalClaimed'
    BY <1>3, <2>1, <2>4
  <2> QED BY <2>5 DEF ClaimsMirrored, g
<1> QED BY <1>5, <1>6, <1>7, <1>8 DEF RowsFollow, ClaimOf

\* The steps no handler hears of.
LEMMA QuietFollows ==
  ASSUME MirrorInv, UNCHANGED <<rows, balances, listing, proceeds, sales, totalClaimed>>
  PROVE  RowsFollow'
BY DEF RowsFollow, MirrorInv, MarketMirrored, BalancesMirrored, ListingMirrored,
       SalesMirrored, ClaimsMirrored

LEMMA MirrorInvStep ==
  ASSUME MirrorInv, [MarketNext]_marketVars
  PROVE  MirrorInv'
<1>1. OfferingInv'
  BY MarketStep, OfferingInvStep DEF MirrorInv
<1>2. RowsFollow'
  <2>1. ASSUME NEW amount \in TokenAmounts, ApproveFromPage(amount) PROVE RowsFollow'
    BY <2>1, QuietFollows DEF ApproveFromPage, offeringVars, ledgerVars, saleVars
  <2>2. ASSUME NEW amount \in TokenAmounts, DelistEither(amount) PROVE RowsFollow'
    BY <2>2, DelistFollows
  <2>3. ASSUME NEW amount \in TokenAmounts, NEW priceBps \in Prices,
               ListFromPage(amount, priceBps)
        PROVE  RowsFollow'
    BY <2>3, ListFollows
  <2>4. ASSUME NEW b \in Buyers, NEW amount \in TokenAmounts, OrderFromPage(b, amount)
        PROVE  RowsFollow'
    BY <2>4, QuietFollows DEF OrderFromPage, ledgerVars, saleVars
  <2>5. ASSUME NEW from \in Holders, NEW to \in Holders, NEW amount \in TokenAmounts,
               Trade(from, to, amount)
        PROVE  RowsFollow'
    BY <2>5, TradeFollows
  <2>6. ASSUME NEW priceBps \in Prices, RelistFromPage(priceBps) PROVE RowsFollow'
    BY <2>6, RelistFollows
  <2>7. ASSUME NEW b \in Buyers, Bought(b) PROVE RowsFollow'
    BY <2>7, BoughtFollows
  <2>8. ASSUME NEW b \in Buyers, NotBought(b) PROVE RowsFollow'
    BY <2>8, QuietFollows DEF NotBought, BuyFails, ledgerVars, saleVars
  <2>9. ASSUME SweepFromPage PROVE RowsFollow'
    BY <2>9, EscrowIsHolder, ClaimFollows DEF SweepFromPage, SweepEscrow, saleVars
  <2>10. ASSUME NEW h \in Holders, ClaimBy(h) PROVE RowsFollow'
    BY <2>10, ClaimFollows DEF ClaimBy, ClaimElsewhere, saleVars
  <2>11. ASSUME NoteMoves PROVE RowsFollow'
    BY <2>11, QuietFollows
       DEF NoteMoves, SettleNote, DefaultNote, Distribute, ledgerVars, saleVars
  <2>12. ASSUME UNCHANGED marketVars PROVE RowsFollow'
    BY <2>12, QuietFollows DEF marketVars, offeringVars, ledgerVars, saleVars
  <2> QED BY <2>1, <2>2, <2>3, <2>4, <2>5, <2>6, <2>7, <2>8, <2>9, <2>10, <2>11, <2>12
             DEF MarketNext
<1>3. OfferStands'
  <2>1. (ListingMirrored /\ ListingEscrowed /\ OfferingTypeOK => OfferStands)'
    BY OfferFollows, PTL
  <2> QED BY <1>1, <1>2, <2>1 DEF RowsFollow, OfferingInv
<1> QED BY <1>1, <1>2, <1>3 DEF MirrorInv, RowsFollow, MarketMirrored

THEOREM MirrorInvariant == MarketSpec => []MirrorInv
<1>1. MirrorInv /\ [MarketNext]_marketVars => MirrorInv'
  BY MirrorInvStep
<1> QED BY MirrorInvInit, <1>1, PTL DEF MarketSpec

(***************************************************************************)
(* offering.ts, rwa-note.ts and the page: the sale, as the rows and the    *)
(* list of notes tell it, is the sale the two contracts hold, for any      *)
(* number of holders, listings, purchases, sweeps and trades.              *)
(***************************************************************************)
THEOREM MarketIsMirrored == MarketSpec => []MarketMirrored
<1>1. MirrorInv => MarketMirrored
  BY DEF MirrorInv
<1> QED BY <1>1, MirrorInvariant, PTL

(***************************************************************************)
(* The pages send the Offering nothing it does not offer: what they do is  *)
(* an Offering's behaviour, so every theorem about OfferingSpec is one     *)
(* about MarketSpec.                                                       *)
(***************************************************************************)
THEOREM MarketImplementsOffering == MarketSpec => OfferingSpec
<1>1. MarketInit => OfferingInit
  BY DEF MarketInit
<1>2. MirrorInv /\ [MarketNext]_marketVars => [OfferingNext]_offeringVars
  BY MarketStep
<1> QED BY <1>1, <1>2, MirrorInvariant, PTL DEF MarketSpec, OfferingSpec
=============================================================================
