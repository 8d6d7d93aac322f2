--------------------------- MODULE ServicingRelay ---------------------------
(***************************************************************************)
(* contracts/src/ServicingRelay.sol composed with the vault and the note:  *)
(* the specification of on-chain servicing.  Every action is one           *)
(* transaction, with every call it makes on the other two contracts; a     *)
(* transaction that reverts changes nothing and is not a step.             *)
(***************************************************************************)
EXTENDS RepaymentVault

CONSTANTS
  Agents,          \* addresses an originator may delegate to
  NoAgent,         \* address(0): nobody is delegated
  RecipientCount,  \* addresses named as feeRecipient by some note
  FeeRecipient,    \* [NoteIds -> Recipients], Terms.feeRecipient
  ServicingFeeBps, \* Terms.servicingFeeBps
  MaxTime          \* bound: the last block.timestamp explored

\* Recipients are numbered, so that what they are owed can be added up.
Recipients == 0..(RecipientCount - 1)

ASSUME RelayAssumption ==
  /\ RecipientCount \in Nat
  /\ NoAgent \notin Agents
  /\ FeeRecipient \in [NoteIds -> Recipients]
  /\ ServicingFeeBps \in Nat /\ ServicingFeeBps <= MAX_SERVICING_FEE_BPS
  /\ MaxTime \in Nat

VARIABLES
  agentOf,
  owedFees,         \* fees a recipient refused, to be pulled later
  relayFunds,       \* the value the relay contract holds
  totalDistributed  \* what distribute() has credited to the note's holders

relayVars == <<agentOf, owedFees, relayFunds, totalDistributed>>
vars == <<now, noteVars, vaultVars, relayVars>>

Fee(i) == (PeriodDue(i) * ServicingFeeBps) \div BPS
Net(i) == PeriodDue(i) - Fee(i)

Init ==
  /\ now = MintedAt
  /\ NoteInit
  /\ VaultInit
  /\ agentOf          = [n \in NoteIds |-> NoAgent]
  /\ owedFees         = [r \in Recipients |-> 0]
  /\ relayFunds       = 0
  /\ totalDistributed = [n \in NoteIds |-> 0]

----------------------------------------------------------------------------
\* Delegation: the originator's two transactions.  Neither looks at the
\* note's status.
Delegate(n, agent) ==
  /\ agentOf' = [agentOf EXCEPT ![n] = agent]
  /\ UNCHANGED <<now, noteVars, vaultVars, owedFees, relayFunds,
                 totalDistributed>>

RevokeDelegation(n) ==
  /\ agentOf' = [agentOf EXCEPT ![n] = NoAgent]
  /\ UNCHANGED <<now, noteVars, vaultVars, owedFees, relayFunds,
                 totalDistributed>>

\* repay() of the vault, by anyone.
RepayNote(n, first, value) ==
  /\ Repay(n, first, value)
  /\ UNCHANGED <<now, relayVars>>

\* A payment by hand, within the bound.
PayByHand(n, first, value) ==
  /\ SumOf(paidOf[n]) + surplusOf[n] + value <= MaxPaidIn
  /\ RepayNote(n, first, value)

\* Slip: a rejected fee is kept and not booked.
PayFeeUnbooked(recipient, fee, accepted) ==
  /\ relayFunds' = IF accepted THEN relayFunds ELSE relayFunds + fee
  /\ UNCHANGED owedFees

\* _payFee: the fee is pushed, and booked for a later pull if the recipient
\* rejects it.  What the relay keeps is what it booked.
PayFee(recipient, fee, accepted) ==
  IF accepted
  THEN UNCHANGED <<owedFees, relayFunds>>
  ELSE /\ owedFees'   = [owedFees EXCEPT ![recipient] = @ + fee]
       /\ relayFunds' = relayFunds + fee

\* Slips: a cured period can be settled again; full payment is not enough.
MaySettleCured(n, i) ==
  /\ Live(n)
  /\ periodStatus[n][i] # "Settled"
  /\ now >= PeriodEnd(i)
  /\ paidOf[n][i] >= PeriodDue(i)
MaySettleOverpaid(n, i) ==
  /\ Live(n)
  /\ periodStatus[n][i] \notin Done
  /\ now >= PeriodEnd(i)
  /\ paidOf[n][i] > PeriodDue(i)

\* The conditions of settlePeriod, in its order.
MaySettle(n, i) ==
  /\ Live(n)
  /\ periodStatus[n][i] \notin Done
  /\ now >= PeriodEnd(i)
  /\ paidOf[n][i] >= PeriodDue(i)

\* settlePeriod: release, mark, distribute, fee.  `accepted` is the answer of
\* the fee recipient to the push.
SettlePeriod(n, i, caller, accepted) ==
  /\ caller = agentOf[n]
  /\ MaySettle(n, i)
  /\ Release(n, PeriodDue(i))
  /\ MarkSettled(n, i)
  /\ totalDistributed' = [totalDistributed EXCEPT ![n] = @ + Net(i)]
  /\ PayFee(FeeRecipient[n], Fee(i), accepted)
  /\ UNCHANGED <<now, agentOf>>

MayMiss(n, i) ==
  /\ Live(n)
  /\ periodStatus[n][i] = "Pending"
  /\ now > PeriodEnd(i) + GracePeriod

\* markDelinquent: what the period has been paid is reported, never a guard.
MarkDelinquent(n, i, caller) ==
  /\ caller = agentOf[n]
  /\ MayMiss(n, i)
  /\ MarkMissed(n, i)
  /\ UNCHANGED <<now, vaultVars, relayVars>>

\* Slip: no outstanding miss is asked for, and the clock then runs from 0.
MayDefaultUnmissed(n) == Live(n) /\ now > firstMissedAt[n] + CureWindow

MayDefault(n) ==
  /\ Live(n)
  /\ firstMissedAt[n] # 0
  /\ now > firstMissedAt[n] + CureWindow

DefaultNote(n, caller) ==
  /\ caller = agentOf[n]
  /\ MayDefault(n)
  /\ MarkDefaulted(n)
  /\ UNCHANGED <<now, vaultVars, relayVars>>

\* withdrawFees, by a recipient that accepts value now.  The call that sends
\* the value fails, and the transaction with it, if the relay has less.
WithdrawFees(r) ==
  /\ owedFees[r] > 0
  /\ relayFunds >= owedFees[r]
  /\ owedFees'   = [owedFees EXCEPT ![r] = 0]
  /\ relayFunds' = relayFunds - owedFees[r]
  /\ UNCHANGED <<now, noteVars, vaultVars, agentOf, totalDistributed>>

\* Blocks are produced whether or not anyone transacts.
Tick ==
  /\ now < MaxTime
  /\ now' = now + 1
  /\ UNCHANGED <<noteVars, vaultVars, relayVars>>

Next ==
  \/ Tick
  \/ \E n \in NoteIds :
       \/ \E agent \in Agents : Delegate(n, agent)
       \/ RevokeDelegation(n)
       \/ \E first \in Periods, value \in Payments : PayByHand(n, first, value)
       \/ \E i \in Periods, caller \in Agents, accepted \in BOOLEAN :
            SettlePeriod(n, i, caller, accepted)
       \/ \E i \in Periods, caller \in Agents : MarkDelinquent(n, i, caller)
       \/ \E caller \in Agents : DefaultNote(n, caller)
  \/ \E r \in Recipients : WithdrawFees(r)

Spec == Init /\ [][Next]_vars

\* What the agent's loop (backend/src/agent) sends for a period it finds ended
\* and funded: settlePeriod, unless the cure window of the note has closed.
\* decide() then has nothing for it but a default, which the dry run of the
\* configuration's own default does not send.
AgentSettles(n, i) ==
  /\ ~MayDefault(n)
  /\ \E caller \in Agents, accepted \in BOOLEAN : SettlePeriod(n, i, caller, accepted)

\* The loop never stops; blocks keep coming.  Nothing obliges anybody to pay, to
\* default, or to settle a note that could be defaulted.
Fairness ==
  /\ WF_vars(Tick)
  /\ \A n \in NoteIds, i \in Periods : WF_vars(AgentSettles(n, i))

----------------------------------------------------------------------------
TypeOK ==
  /\ now \in Nat /\ now >= MintedAt
  /\ status         \in [NoteIds -> NoteStatus]
  /\ periodStatus   \in [NoteIds -> [Periods -> PeriodStatus]]
  /\ periodPaid     \in [NoteIds -> [Periods -> Nat]]
  /\ periodsSettled \in [NoteIds -> Nat]
  /\ periodsMissed  \in [NoteIds -> Nat]
  /\ firstMissedAt  \in [NoteIds -> Nat]
  /\ balanceOf      \in [NoteIds -> Nat]
  /\ paidOf         \in [NoteIds -> [Periods -> Nat]]
  /\ surplusOf      \in [NoteIds -> Nat]
  /\ agentOf        \in [NoteIds -> Agents \cup {NoAgent}]
  /\ owedFees       \in [Recipients -> Nat]
  /\ relayFunds     \in Nat
  /\ totalDistributed \in [NoteIds -> Nat]

InStatus(n, S) == {i \in Periods : periodStatus[n][i] \in S}

\* What the vault still holds for the periods of a note, and what has been
\* distributed for them.
Unreleased(n) == [i \in Periods |-> IF periodStatus[n][i] \in Done THEN 0
                                    ELSE paidOf[n][i]]
Earned(n) == [i \in Periods |-> IF periodStatus[n][i] \in Done THEN Net(i) ELSE 0]

(***************************************************************************)
(* The vault holds, note by note, exactly what was paid for the periods    *)
(* not settled yet plus the surplus: a release never draws on the money of *)
(* another period, of another note, or on the surplus.                     *)
(***************************************************************************)
VaultBacked ==
  \A n \in NoteIds : balanceOf[n] = SumOf(Unreleased(n)) + surplusOf[n]

(***************************************************************************)
(* The vault's ledger and the note's are written by different contracts    *)
(* and never differ; no period is credited beyond what it is due, so that  *)
(* a settled one was credited exactly that.                                *)
(***************************************************************************)
LedgersAgree ==
  \A n \in NoteIds, i \in Periods :
     /\ periodPaid[n][i] = paidOf[n][i]
     /\ paidOf[n][i] <= PeriodDue(i)
     /\ periodStatus[n][i] \in Done => paidOf[n][i] = PeriodDue(i)

(***************************************************************************)
(* Holders have been credited the net of every settled or cured period,    *)
(* once, and of no other: settling in any order, curing, and re-sending a  *)
(* settlement change nothing about that.                                   *)
(***************************************************************************)
HoldersCreditedOnce ==
  \A n \in NoteIds : totalDistributed[n] = SumOf(Earned(n))

(***************************************************************************)
(* The counters the note keeps incrementally agree with its periods, and   *)
(* its status is what they say: matured exactly when every period is done, *)
(* delinquent only with a miss outstanding, active only without one.       *)
(***************************************************************************)
StandingMatchesPeriods ==
  \A n \in NoteIds :
     /\ periodsSettled[n] = Cardinality(InStatus(n, Done))
     /\ periodsMissed[n]  = Cardinality(InStatus(n, {"Missed"}))
     /\ status[n] = "Matured" <=> InStatus(n, Done) = Periods
     /\ status[n] \in {"Delinquent", "Defaulted"} => InStatus(n, {"Missed"}) # {}
     /\ status[n] = "Active" => InStatus(n, {"Missed"}) = {}

(***************************************************************************)
(* The cure window runs while a miss is outstanding and only then, and     *)
(* never from before the earliest moment a period can be missed.  A note   *)
(* is in default only if that window has run out.                          *)
(***************************************************************************)
CureWindowTimed ==
  \A n \in NoteIds :
     /\ firstMissedAt[n] = 0 <=> InStatus(n, {"Missed"}) = {}
     /\ firstMissedAt[n] # 0 =>
          firstMissedAt[n] \in (PeriodEnd(0) + GracePeriod + 1)..now
     /\ status[n] = "Defaulted" => now > firstMissedAt[n] + CureWindow

(***************************************************************************)
(* Between transactions the relay holds the fees it owes and nothing else: *)
(* what it was released for a settlement has left it when that ends.       *)
(***************************************************************************)
RelayHoldsOwedFees == relayFunds = SumTo(owedFees, RecipientCount)

(***************************************************************************)
(* Terminal is terminal: a matured or defaulted note keeps its status, its *)
(* periods and its ledgers, pays out nothing more, and what is still paid  *)
(* into it is surplus to the last unit.                                    *)
(***************************************************************************)
ClosedNoteKept(n) ==
  /\ status'[n] = status[n]
  /\ periodStatus'[n] = periodStatus[n]
  /\ paidOf'[n] = paidOf[n]
  /\ totalDistributed'[n] = totalDistributed[n]
  /\ balanceOf'[n] - balanceOf[n] = surplusOf'[n] - surplusOf[n]
TerminalStep ==
  \A n \in NoteIds : status[n] \in {"Matured", "Defaulted"} => ClosedNoteKept(n)
TerminalIsFinal == [][TerminalStep]_vars

(***************************************************************************)
(* A miss is never un-recorded: a missed period can only become a cured    *)
(* one, and a settled or cured period stays what it is.                    *)
(***************************************************************************)
RecordStep ==
  \A n \in NoteIds, i \in Periods :
     /\ periodStatus[n][i] = "Missed" => periodStatus'[n][i] \in {"Missed", "Cured"}
     /\ periodStatus[n][i] \in Done => periodStatus'[n][i] = periodStatus[n][i]
MissesStayOnRecord == [][RecordStep]_vars

(***************************************************************************)
(* A note whose every period has been paid for, and whose originator       *)
(* sooner or later stops withdrawing the delegation, does not stay open in *)
(* good standing: it closes, or the money came too late and it is past its *)
(* cure window for good, to be defaulted if anybody decides so.            *)
(***************************************************************************)
FundedNotesClose ==
  \A n \in NoteIds :
     /\ <>(\A i \in Periods : paidOf[n][i] = PeriodDue(i))
     /\ <>[](agentOf[n] # NoAgent)
     => <>(status[n] \in {"Matured", "Defaulted"}) \/ <>[]MayDefault(n)

----------------------------------------------------------------------------
\* Servicing implements the loan book.
Book == INSTANCE LoanBook WITH
          Notes       <- NoteIds,
          Slots       <- Periods,
          DueOf       <- [i \in Periods |-> PeriodDue(i)],
          NetOf       <- [i \in Periods |-> Net(i)],
          outcome     <- periodStatus,
          standing    <- status,
          held        <- balanceOf,
          distributed <- totalDistributed

(***************************************************************************)
(* The composition of the three contracts implements the loan book: every  *)
(* transaction is a step of it or leaves it alone.                         *)
(***************************************************************************)
ImplementsLoanBook == Book!BookSpec
============================================================================
