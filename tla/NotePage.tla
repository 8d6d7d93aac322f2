------------------------------ MODULE NotePage ------------------------------
(***************************************************************************)
(* The pages that read the mirrored rows of a note and act on the chain:   *)
(* web/src/components/note-view.tsx with the repayment and delegation      *)
(* panels of note-servicing.tsx, and what agent-console.tsx lists.  A page *)
(* shows the rows as the index has them; what it sends meets the contracts *)
(* as they are.                                                            *)
(***************************************************************************)
EXTENDS Subgraph, FiniteSetsExt

CONSTANT Unit      \* base units in the least amount the page writes down

ASSUME PageAssumption == Unit \in Nat \ {0}

----------------------------------------------------------------------------
\* What the pages make of the rows.

Short(n, i) == mirror.period[n][i].due - mirror.period[n][i].paid

\* Slip: a period is owed until it is settled.
OutstandingUnsettled(n) == {i \in Periods : mirror.period[n][i].status \notin Done}

Outstanding(n) == {i \in Periods : Short(n, i) > 0}
OpenToPayment(n) ==
  /\ mirror.note[n].status \notin {"Matured", "Defaulted"}
  /\ Outstanding(n) # {}

\* The amount written into the field: formatUsdc truncates.
Prefill(n, i) == (Short(n, i) \div Unit) * Unit

\* What it says a payment will do: what stays open of the period, and what goes
\* over into later ones.
Consequence(n, i, value) ==
  [left |-> Max({Short(n, i) - value, 0}), over |-> Max({value - Short(n, i), 0})]

\* The console: the notes delegated to an agent, of which the query returns the
\* first 100; and a note's page the first 200 periods.  Here there are fewer.
Serviced(a) == {n \in NoteIds : mirror.note[n].agent = a}

\* lib/schedule.ts: what the parties were shown, before there was a note, that
\* it would repay and that its servicing would cost.
couponPerPeriod == (Principal * CouponBps) \div BPS
servicingFee(amount) == (amount * ServicingFeeBps) \div BPS
PreviewDue(i) == couponPerPeriod + (IF i = PeriodCount - 1 THEN Principal ELSE 0)
totalRepayment == couponPerPeriod * PeriodCount + Principal
servicingFeeTotal == SumOf([i \in Periods |-> servicingFee(PreviewDue(i))])

----------------------------------------------------------------------------
\* What they send.

\* The repayment panel, for anybody: any period, and the amount it filled in
\* or another.
RepayFromPage(n, i, payer) ==
  /\ OpenToPayment(n)
  /\ \E value \in Payments \cup ({Prefill(n, i)} \ {0}) : Pay(n, i, value, payer)

\* The delegation panel, for the originator; revoking is offered once an agent
\* is shown.
DelegateFromPage(n, agent) == Delegated(n, agent)
RevokeFromPage(n) == mirror.note[n].agent # NoAgent /\ Revoked(n)

\* The agent and the mandate act on the chain as it is.
PageNext ==
  \/ Pass
  \/ Index
  \/ \E n \in NoteIds :
       \/ \E i \in Periods, payer \in Payers \ {MandateContract} :
            RepayFromPage(n, i, payer)
       \/ \E agent \in Agents : DelegateFromPage(n, agent)
       \/ RevokeFromPage(n)
       \/ \E i \in Periods, value \in Payments : Pay(n, i, value, MandateContract)
       \/ \E i \in Periods, caller \in Agents :
            Settle(n, i, caller) \/ Miss(n, i, caller)
       \/ \E caller \in Agents : Close(n, caller)

PageSpec == IndexInit /\ [][PageNext]_indexVars

----------------------------------------------------------------------------
DoesAsSaid(n, i, value) ==
  LET credit   == Credits(Room(n), i, value)
      later(f) == SumOf([j \in Periods |-> IF j > i THEN f[j] ELSE 0])
      said     == Consequence(n, i, value)
  IN  /\ Room(n)[i] - credit[i] = said.left
      /\ later(credit) = Min({said.over, later(Room(n))})

CostAsPreviewed(n) ==
  /\ mirror.note[n].servicingFeesPaid = servicingFeeTotal
  /\ mirror.note[n].totalDistributed = totalRepayment - servicingFeeTotal

(***************************************************************************)
(* Once the index has caught up, the pages offer what the contracts would  *)
(* take: under an agent exactly the notes it may settle, and a payment     *)
(* exactly for the periods with room on a live note.  The amount filled in *)
(* is taken by the chosen period alone and leaves less than a unit of it   *)
(* open; of any amount, what the page says stays open does, and what it    *)
(* says goes over goes to later periods while they have room.  A note that *)
(* has run its course shows the repayment and the fees that the preview of *)
(* its proposal added up, whoever serviced it and however late.            *)
(***************************************************************************)
OffersWhatIsTaken ==
  unindexed = <<>> =>
    /\ \A a \in Agents : Serviced(a) = {n \in NoteIds : agentOf[n] = a}
    /\ \A n \in NoteIds :
         /\ OpenToPayment(n) <=> Live(n) /\ \E i \in Periods : Room(n)[i] > 0
         /\ OpenToPayment(n) =>
              \A i \in Periods :
                /\ \A value \in Payments \cup {Prefill(n, i)} : DoesAsSaid(n, i, value)
                /\ Consequence(n, i, Prefill(n, i)).over = 0
                /\ Consequence(n, i, Prefill(n, i)).left < Unit
         /\ mirror.note[n].status = "Matured" => CostAsPreviewed(n)
=============================================================================
