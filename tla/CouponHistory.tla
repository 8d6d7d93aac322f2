---------------------------- MODULE CouponHistory ----------------------------
(***************************************************************************)
(* CouponLedger with two history variables the contract does not keep, so  *)
(* that what holders receive can be compared with what they should.  A     *)
(* coupon belongs to whoever holds the tokens when it is distributed:      *)
(* accrued[h] adds up, in units of 1 / PRECISION, the share of holder h in *)
(* every distribution by the balance h had at that moment.                 *)
(***************************************************************************)
EXTENDS CouponLedger

VARIABLES
  accrued,    \* what the distributions were worth to each holder, times PRECISION
  claimedBy   \* what each holder has been paid

historyVars == <<ledgerVars, accrued, claimedBy>>

HistoryInit ==
  /\ LedgerInit
  /\ accrued   = [h \in Holders |-> 0]
  /\ claimedBy = [h \in Holders |-> 0]

DistributeH(amount) ==
  /\ Distribute(amount)
  /\ accrued' = [h \in Holders |->
                   accrued[h] + (accPerShare' - accPerShare) * balances[h]]
  /\ UNCHANGED claimedBy

TransferH(from, to, amount) ==
  /\ Transfer(from, to, amount)
  /\ UNCHANGED <<accrued, claimedBy>>

ClaimH(c) ==
  /\ Claim(c)
  /\ claimedBy' = [claimedBy EXCEPT ![c] = @ + (funds - funds')]
  /\ UNCHANGED accrued

HistoryNext ==
  \/ \E amount \in Distributions : DistributeH(amount)
  \/ \E from, to \in Holders, amount \in TokenAmounts : TransferH(from, to, amount)
  \/ \E c \in Holders : ClaimH(c)

HistorySpec == HistoryInit /\ [][HistoryNext]_historyVars

Received(h) == claimedBy[h] + Claimable(h)

(***************************************************************************)
(* The accumulator of RWANote is fair: through any trading and claiming,   *)
(* what a holder has been paid and can still claim is never more than the  *)
(* tokens they held at each distribution entitle them to, and falls short  *)
(* of it by less than one smallest unit per distribution.                  *)
(***************************************************************************)
FairShare ==
  \A h \in Holders :
     /\ Received(h) * PRECISION <= accrued[h]
     /\ accrued[h] <= Received(h) * PRECISION + (PRECISION - 1) * distributions
=============================================================================
