---------------------------- MODULE CouponLedger ----------------------------
(***************************************************************************)
(* The coupon half of contracts/src/RWANote.sol: one ERC-20 token per unit *)
(* of principal, and an accumulator that credits every token equally       *)
(* without iterating over holders.  A holder's entitlement is crystallised *)
(* before any change of their balance.                                     *)
(*                                                                         *)
(* All division is the integer division of the EVM.  Holders are numbered; *)
(* 0 is the originator, to whom the constructor mints the whole supply.    *)
(***************************************************************************)
EXTENDS Sums

CONSTANTS
  HolderCount,
  Supply,           \* the principal, in the smallest unit of the currency
  PRECISION,        \* the scale of the accumulator
  Distributions,    \* the amounts one distribute() may carry
  TokenAmounts,     \* the amounts of tokens one transfer may move
  MaxDistributions  \* Terms.periodCount: each period is distributed once

Holders == 0..(HolderCount - 1)
Originator == 0

ASSUME LedgerAssumption ==
  /\ HolderCount \in Nat \ {0}
  /\ Supply \in Nat \ {0}
  /\ PRECISION \in Nat \ {0}
  /\ Distributions \subseteq Nat
  /\ TokenAmounts \subseteq Nat
  /\ MaxDistributions \in Nat

VARIABLES
  balances,         \* balanceOf of the token
  accPerShare,      \* value credited per token so far, times PRECISION
  dust,             \* what the last distribution could not express
  snapshot,         \* _snapshot: accPerShare when the holder was last settled
  withdrawable,     \* _withdrawable: crystallised, not claimed
  totalDistributed,
  totalClaimed,
  funds,            \* the currency the contract holds
  distributions     \* how many periods have been distributed

ledgerVars == <<balances, accPerShare, dust, snapshot, withdrawable,
                totalDistributed, totalClaimed, funds, distributions>>

LedgerInit ==
  /\ balances         = [h \in Holders |-> IF h = Originator THEN Supply ELSE 0]
  /\ accPerShare      = 0
  /\ dust             = 0
  /\ snapshot         = [h \in Holders |-> 0]
  /\ withdrawable     = [h \in Holders |-> 0]
  /\ totalDistributed = 0
  /\ totalClaimed     = 0
  /\ funds            = 0
  /\ distributions    = 0

----------------------------------------------------------------------------
\* Slip: the pending entitlement is rounded up.
ClaimableUp(h) ==
  withdrawable[h]
    + ((accPerShare - snapshot[h]) * balances[h] + PRECISION - 1) \div PRECISION

\* claimable(): crystallised plus pending.
Claimable(h) ==
  withdrawable[h] + ((accPerShare - snapshot[h]) * balances[h]) \div PRECISION

\* _settle, for each holder of S.
Settle(S) ==
  /\ withdrawable' = [h \in Holders |-> IF h \in S THEN Claimable(h) ELSE withdrawable[h]]
  /\ snapshot'     = [h \in Holders |-> IF h \in S THEN accPerShare ELSE snapshot[h]]

\* What a transfer leaves of the balances.
Moved(from, to, amount) ==
  [h \in Holders |-> balances[h] - (IF h = from THEN amount ELSE 0)
                                 + (IF h = to   THEN amount ELSE 0)]

\* Slip: the tokens are moved before the two are settled.
TransferMovingFirst(from, to, amount) ==
  LET moved == Moved(from, to, amount)
  IN  /\ balances[from] >= amount
      /\ withdrawable' = [h \in Holders |->
           IF h \in {from, to}
           THEN withdrawable[h] + ((accPerShare - snapshot[h]) * moved[h]) \div PRECISION
           ELSE withdrawable[h]]
      /\ snapshot' = [h \in Holders |-> IF h \in {from, to} THEN accPerShare ELSE snapshot[h]]
      /\ balances' = moved
      /\ UNCHANGED <<accPerShare, dust, totalDistributed, totalClaimed, funds,
                     distributions>>

\* An ERC-20 transfer or transferFrom, through _update.  An amount of zero and
\* a transfer to oneself are transfers like any other.
Transfer(from, to, amount) ==
  /\ balances[from] >= amount
  /\ Settle({from, to})
  /\ balances' = Moved(from, to, amount)
  /\ UNCHANGED <<accPerShare, dust, totalDistributed, totalClaimed, funds,
                 distributions>>

Increment(pot) == (pot * PRECISION) \div Supply

\* What of the pot the increment does not express.
Dust(pot) == pot - (Increment(pot) * Supply) \div PRECISION

\* distribute(), by the relay in the settlement of a period.
Distribute(amount) ==
  LET pot == amount + dust
  IN  /\ distributions < MaxDistributions
      /\ accPerShare'      = accPerShare + Increment(pot)
      /\ dust'             = Dust(pot)
      /\ totalDistributed' = totalDistributed + amount
      /\ funds'            = funds + amount
      /\ distributions'    = distributions + 1
      /\ UNCHANGED <<balances, snapshot, withdrawable, totalClaimed>>

\* claim(), by a holder that accepts value.  The call that sends the value
\* fails, and the claim with it, if the contract has less.
Claim(h) ==
  LET amount == Claimable(h)
  IN  /\ amount > 0
      /\ funds >= amount
      /\ snapshot'     = [snapshot EXCEPT ![h] = accPerShare]
      /\ withdrawable' = [withdrawable EXCEPT ![h] = 0]
      /\ totalClaimed' = totalClaimed + amount
      /\ funds'        = funds - amount
      /\ UNCHANGED <<balances, accPerShare, dust, totalDistributed,
                     distributions>>

LedgerNext ==
  \/ \E amount \in Distributions : Distribute(amount)
  \/ \E from, to \in Holders, amount \in TokenAmounts : Transfer(from, to, amount)
  \/ \E h \in Holders : Claim(h)

LedgerSpec == LedgerInit /\ [][LedgerNext]_ledgerVars

----------------------------------------------------------------------------
LedgerTypeOK ==
  /\ balances         \in [Holders -> Nat]
  /\ accPerShare      \in Nat
  /\ dust             \in Nat
  /\ snapshot         \in [Holders -> 0..accPerShare]
  /\ withdrawable     \in [Holders -> Nat]
  /\ totalDistributed \in Nat
  /\ totalClaimed     \in Nat
  /\ funds            \in Nat
  /\ distributions    \in 0..MaxDistributions

Outstanding == SumTo([h \in Holders |-> Claimable(h)], HolderCount)

(***************************************************************************)
(* What the accumulator really guarantees, for every supply: holders are   *)
(* never owed more than the contract holds, less the dust, by as much as   *)
(* one smallest unit per distribution so far.                              *)
(***************************************************************************)
OverCreditBounded == Outstanding + dust <= funds + distributions

(***************************************************************************)
(* The remainder carried forward stays below what one unit of increment is *)
(* worth, however many distributions it has gone through.                  *)
(***************************************************************************)
DustBounded == dust * PRECISION < Supply + PRECISION

(***************************************************************************)
(* The scales at which an increment always credits a whole number of       *)
(* units: then dust and claims together never exceed the funds.            *)
(***************************************************************************)
ExactScale == Supply % PRECISION = 0 \/ PRECISION % Supply = 0
CoveredAtExactScale == ExactScale => Outstanding + dust <= funds

(***************************************************************************)
(* Settle before moving: a transfer changes no holder's entitlement, so    *)
(* that a buyer gets no coupon accrued before they held the token, and a   *)
(* seller keeps every one they earned.                                     *)
(***************************************************************************)
TransferStep ==
  distributions' = distributions /\ totalClaimed' = totalClaimed =>
    \A h \in Holders : Claimable(h)' = Claimable(h)
TransfersMoveNoCoupons == [][TransferStep]_ledgerVars

(***************************************************************************)
(* Nobody's entitlement shrinks but by being paid out in full: a claim, a  *)
(* transfer or a distribution of others takes nothing away.                *)
(***************************************************************************)
EntitlementStep ==
  \A h \in Holders :
     Claimable(h)' < Claimable(h) =>
       /\ Claimable(h)' = 0
       /\ totalClaimed' = totalClaimed + Claimable(h)
EntitlementsKept == [][EntitlementStep]_ledgerVars
=============================================================================
