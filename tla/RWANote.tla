------------------------------ MODULE RWANote ------------------------------
(***************************************************************************)
(* The servicing half of contracts/src/RWANote.sol: the repayment          *)
(* schedule, what each period has been paid, and the status of every       *)
(* period and of the note itself.  The coupon half of the same contract    *)
(* (balances, the per-share accumulator, claims) is module CouponLedger;   *)
(* the two halves share only the amount handed to distribute().            *)
(*                                                                         *)
(* A definition introduced by "Slip" is a plausible mistake in the one     *)
(* that follows it; it is used nowhere, and stands for the code the        *)
(* properties must tell from the real one.                                 *)
(*                                                                         *)
(* Every note carries the same Terms.  A transaction is atomic on the      *)
(* chain, so the note's functions are given here as the step each makes on *)
(* the note's own variables; RepaymentVault and ServicingRelay, the only   *)
(* callers the modifiers onlyVault and onlyRelay admit, conjoin them with  *)
(* the steps they make on theirs.  settledAt is written and never read by  *)
(* any contract, and is left out.                                          *)
(***************************************************************************)
EXTENDS Integers, FiniteSets

CONSTANTS
  NoteIds,        \* the notes minted, all in the block MintedAt
  MintedAt,       \* block.timestamp of that block
  PeriodCount, PeriodLength, GracePeriod, CureWindow,   \* Terms
  Principal, CouponBps                                  \* Terms

\* Limits of Types.sol
BPS == 10000
MAX_COUPON_BPS == 5000
MAX_SERVICING_FEE_BPS == 500

\* What IssuanceQueue._validateTerms lets through, and the types of Terms:
\* neither the grace period nor the cure window has a bound of its own.
ASSUME TermsAssumption ==
  /\ MintedAt \in Nat \ {0}
  /\ PeriodCount \in Nat \ {0}
  /\ PeriodLength \in Nat \ {0}
  /\ GracePeriod \in Nat
  /\ CureWindow \in Nat
  /\ Principal \in Nat \ {0}
  /\ CouponBps \in Nat /\ CouponBps <= MAX_COUPON_BPS

VARIABLES
  now,            \* block.timestamp
  status,         \* _status
  periodStatus,   \* _periods[i].status
  periodPaid,     \* _periods[i].paid
  periodsSettled,
  periodsMissed,
  firstMissedAt   \* 0 while no miss is outstanding

noteVars == <<status, periodStatus, periodPaid, periodsSettled,
              periodsMissed, firstMissedAt>>

NoteStatus   == {"Active", "Delinquent", "Matured", "Defaulted"}
PeriodStatus == {"Pending", "Settled", "Missed", "Cured"}
Done         == {"Settled", "Cured"}       \* the statuses of a period paid out

Periods == 0..(PeriodCount - 1)

----------------------------------------------------------------------------
\* The schedule.

\* Half-open [start, end): the second a period ends is the end itself.
PeriodEnd(i) == MintedAt + (i + 1) * PeriodLength

Coupon == (Principal * CouponBps) \div BPS

\* The final period also returns the principal.
PeriodDue(i) == IF i = PeriodCount - 1 THEN Coupon + Principal ELSE Coupon

----------------------------------------------------------------------------
NoteInit ==
  /\ status         = [n \in NoteIds |-> "Active"]
  /\ periodStatus   = [n \in NoteIds |-> [i \in Periods |-> "Pending"]]
  /\ periodPaid     = [n \in NoteIds |-> [i \in Periods |-> 0]]
  /\ periodsSettled = [n \in NoteIds |-> 0]
  /\ periodsMissed  = [n \in NoteIds |-> 0]
  /\ firstMissedAt  = [n \in NoteIds |-> 0]

Live(n) == status[n] \notin {"Matured", "Defaulted"}

\* Slip: a second payment of a period replaces the first.
RecordLastPayments(n, credit) ==
  /\ (\E i \in Periods : credit[i] > 0) => Live(n)
  /\ periodPaid' = [periodPaid EXCEPT
                      ![n] = [i \in Periods |-> IF credit[i] > 0 THEN credit[i]
                                                ELSE periodPaid[n][i]]]
  /\ UNCHANGED <<status, periodStatus, periodsSettled, periodsMissed,
                 firstMissedAt>>

\* One call of recordPayment for every period the vault credits; each of them
\* reverts, and the whole repayment with it, on a note that is not live.
RecordPayments(n, credit) ==
  /\ (\E i \in Periods : credit[i] > 0) => Live(n)
  /\ periodPaid' = [periodPaid EXCEPT
                      ![n] = [i \in Periods |-> periodPaid[n][i] + credit[i]]]
  /\ UNCHANGED <<status, periodStatus, periodsSettled, periodsMissed,
                 firstMissedAt>>

\* A missed period is cured, any other settled.
StatusOnPayout(n, i) == IF periodStatus[n][i] = "Missed" THEN "Cured" ELSE "Settled"

\* Slip: a cured note stays delinquent.
StatusNeverRestored(n, settled, missed) ==
  IF settled = PeriodCount THEN "Matured" ELSE status[n]

\* The note's status once `settled` periods are done and `missed` are not.
StatusOnSettle(n, settled, missed) ==
  IF settled = PeriodCount THEN "Matured"
  ELSE IF missed = 0 /\ status[n] = "Delinquent" THEN "Active"
  ELSE status[n]

\* Slips: the window is never closed; each cure opens a new one.
FirstMissedKept(n, missed) == firstMissedAt[n]
FirstMissedRestarted(n, missed) == IF missed = 0 THEN 0 ELSE now

FirstMissedOnCure(n, missed) ==
  IF missed = 0 THEN 0 ELSE firstMissedAt[n]

\* markSettled.  The relay has already refused a cured period; this function
\* on its own would not.
MarkSettled(n, i) ==
  LET wasMissed == periodStatus[n][i] = "Missed"
      missed    == periodsMissed[n] - (IF wasMissed THEN 1 ELSE 0)
      settled   == periodsSettled[n] + 1
  IN  /\ Live(n)
      /\ periodStatus[n][i] # "Settled"
      /\ periodStatus' = [periodStatus EXCEPT ![n][i] = StatusOnPayout(n, i)]
      /\ periodsSettled' = [periodsSettled EXCEPT ![n] = settled]
      /\ periodsMissed'  = [periodsMissed EXCEPT ![n] = missed]
      /\ firstMissedAt'  = [firstMissedAt EXCEPT
                              ![n] = IF wasMissed THEN FirstMissedOnCure(n, missed)
                                                  ELSE @]
      /\ status' = [status EXCEPT ![n] = StatusOnSettle(n, settled, missed)]
      /\ UNCHANGED periodPaid

MarkMissed(n, i) ==
  /\ Live(n)
  /\ periodStatus[n][i] = "Pending"
  /\ periodStatus'  = [periodStatus EXCEPT ![n][i] = "Missed"]
  /\ periodsMissed' = [periodsMissed EXCEPT ![n] = @ + 1]
  /\ firstMissedAt' = [firstMissedAt EXCEPT ![n] = IF @ = 0 THEN now ELSE @]
  /\ status'        = [status EXCEPT ![n] = "Delinquent"]
  /\ UNCHANGED <<periodPaid, periodsSettled>>

MarkDefaulted(n) ==
  /\ Live(n)
  /\ status' = [status EXCEPT ![n] = "Defaulted"]
  /\ UNCHANGED <<periodStatus, periodPaid, periodsSettled, periodsMissed,
                 firstMissedAt>>
============================================================================
