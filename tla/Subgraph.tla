------------------------------ MODULE Subgraph ------------------------------
(***************************************************************************)
(* subgraph/src, the servicing half: what the handlers of the relay's, the *)
(* vault's, the mandate's and the note's events make of the rows the pages *)
(* read.  Every transaction of ServicingRelay leaves the events it emits,  *)
(* in the order it emits them; the indexer applies a transaction at a time *)
(* and may be behind.                                                      *)
(*                                                                         *)
(* The notes share one originator and one borrower, so that the counters   *)
(* of a party add up over notes.  Their rows exist: party-registry.ts made *)
(* them before a note could be proposed, note-factory.ts the note's and    *)
(* the periods' at the mint.  The guards of the handlers for a missing row *)
(* never bite, then, but for an agent nobody delegated to.                 *)
(***************************************************************************)
EXTENDS ServicingRelay, Sequences

CONSTANTS
  Payers,         \* addresses that pay a vault: a borrower, an originator, others
  Borrower, Originator, MandateContract,
  Day,            \* seconds in a day
  MaxLag,         \* bound: transactions the indexer may be behind
  MaxDelegations, \* bound: delegations on record for one agent
  NoRow

ASSUME SubgraphAssumption ==
  /\ {Borrower, Originator, MandateContract} \subseteq Payers
  /\ Day \in Nat \ {0} /\ MaxLag \in Nat \ {0} /\ MaxDelegations \in Nat
  /\ IsFiniteSet(NoteIds)
  /\ NoRow \notin [notesServiced : Nat, actionsTaken : Nat, feesEarned : Nat]

VARIABLES
  unindexed,      \* the transactions the indexer has not reached, with their events
  mirror          \* the rows

indexVars == <<vars, unindexed, mirror>>

NoteRow   == [status |-> "Active", agent |-> NoAgent, periodsSettled |-> 0,
              periodsMissed |-> 0, totalRepaid |-> 0, totalDistributed |-> 0,
              servicingFeesPaid |-> 0]
\* handleNoteIssued writes the whole schedule down, from the event and terms().
PeriodRow(i) ==
  LET start  == MintedAt + PeriodLength * i
      coupon == (Principal * CouponBps) \div BPS
  IN  [start |-> start, end |-> start + PeriodLength,
       due |-> coupon + (IF i = PeriodCount - 1 THEN Principal ELSE 0),
       paid |-> 0, status |-> "Pending", latenessSeconds |-> 0]
AgentRow  == [notesServiced |-> 0, actionsTaken |-> 0, feesEarned |-> 0]

IndexInit ==
  /\ Init
  /\ unindexed = <<>>
  /\ mirror = [note       |-> [n \in NoteIds |-> NoteRow],
               period     |-> [n \in NoteIds |-> [i \in Periods |-> PeriodRow(i)]],
               agent      |-> [a \in Agents |-> NoRow],
               originator |-> [periodsSettled |-> 0, periodsMissed |-> 0,
                               periodsCuredBySelf |-> 0, notesMatured |-> 0,
                               notesDefaulted |-> 0],
               borrower   |-> [periodsSettled |-> 0, periodsMissed |-> 0,
                               periodsCured |-> 0, totalDaysLate |-> 0,
                               principalRepaid |-> 0, notesMatured |-> 0,
                               notesDefaulted |-> 0],
               repayments |-> <<>>,
               actions    |-> {}]

Count(b) == IF b THEN 1 ELSE 0

----------------------------------------------------------------------------
\* The handlers, as what each makes of the rows m.

RowOf(m, agent) == IF m.agent[agent] = NoRow THEN AgentRow ELSE m.agent[agent]

handleDelegationSet(m, e) ==
  [m EXCEPT !.note[e.note].agent = e.agent,
            !.agent[e.agent] = [RowOf(m, e.agent) EXCEPT !.notesServiced = @ + 1]]

handleDelegationRevoked(m, e) == [m EXCEPT !.note[e.note].agent = NoAgent]

\* What the agent that sent the transaction gets, if it has a row.
Acted(m, agent, fee) ==
  IF m.agent[agent] = NoRow THEN m.agent
  ELSE [m.agent EXCEPT ![agent].actionsTaken = @ + 1, ![agent].feesEarned = @ + fee]

\* How long after the end of its period, as its row has it, a settlement came.
Lateness(m, e) ==
  LET end == m.period[e.note][e.period].end
  IN  IF e.timestamp > end THEN e.timestamp - end ELSE 0

SettledAs(m, e, wasCured) ==
  LET late == Lateness(m, e)
  IN  [m EXCEPT
         !.period[e.note][e.period] =
            [m.period[e.note][e.period] EXCEPT
               !.status = IF wasCured THEN "Cured" ELSE "Settled",
               !.latenessSeconds = late],
         !.note[e.note] =
            [m.note[e.note] EXCEPT
               !.periodsSettled    = @ + 1,
               !.totalDistributed  = @ + e.distributed,
               !.servicingFeesPaid = @ + e.servicingFee],
         !.originator.periodsSettled = @ + 1,
         !.borrower =
            [m.borrower EXCEPT
               !.periodsSettled = @ + 1,
               !.periodsCured   = @ + Count(wasCured),
               !.totalDaysLate  = @ + late \div Day],
         !.agent = Acted(m, e.sender, e.servicingFee),
         !.actions = @ \cup {<<"Settled", e.note, e.period, e.sender>>}]

\* Slip: the cured period is written before it is asked whether it was missed.
handlePeriodSettledBlind(m, e) == SettledAs(m, e, FALSE)

handlePeriodSettled(m, e) ==
  SettledAs(m, e, m.period[e.note][e.period].status = "Missed")

handleMarkedDelinquent(m, e) ==
  [m EXCEPT !.period[e.note][e.period].status = "Missed",
            !.note[e.note].periodsMissed = @ + 1,
            !.originator.periodsMissed   = @ + 1,
            !.borrower.periodsMissed     = @ + 1,
            !.agent = Acted(m, e.sender, 0),
            !.actions = @ \cup {<<"MarkedDelinquent", e.note, e.period, e.sender>>}]

\* The action is recorded; what it is worth to the agent's row is not.
handleDefaulted(m, e) ==
  [m EXCEPT !.actions = @ \cup {<<"Defaulted", e.note, NoRow, e.sender>>}]

Ended(party, to) ==
  [party EXCEPT !.notesMatured   = @ + Count(to = "Matured"),
                !.notesDefaulted = @ + Count(to = "Defaulted")]

handleStatusChanged(m, e) ==
  [m EXCEPT !.note[e.note].status = e.to,
            !.originator = Ended(@, e.to),
            !.borrower   = Ended(@, e.to)]

\* Slip: the amount of this payment, not what the period now has.
handlePaymentRecordedLast(m, e) == [m EXCEPT !.period[e.note][e.period].paid = e.amount]

handlePaymentRecorded(m, e) == [m EXCEPT !.period[e.note][e.period].paid = e.periodPaid]

handleRepaid(m, e) ==
  LET cures == e.payer = Originator /\ m.period[e.note][e.period].status = "Missed"
      row   == [note |-> e.note, period |-> e.period, payer |-> e.payer,
                collected |-> FALSE, tx |-> e.tx]
  IN  [m EXCEPT !.repayments = Append(@, row),
                !.note[e.note].totalRepaid      = @ + e.amount,
                !.borrower.principalRepaid      = @ + e.amount,
                !.originator.periodsCuredBySelf = @ + Count(cures)]

\* The row is found by what RepaymentIndex is keyed by: transaction, note and
\* period.
handleCollected(m, e) ==
  [m EXCEPT !.repayments =
     [k \in DOMAIN @ |-> IF /\ @[k].tx = e.tx
                            /\ @[k].note = e.note
                            /\ @[k].period = e.period
                         THEN [@[k] EXCEPT !.collected = TRUE] ELSE @[k]]]

Handle(m, e) ==
  CASE e.event = "DelegationSet"     -> handleDelegationSet(m, e)
    [] e.event = "DelegationRevoked" -> handleDelegationRevoked(m, e)
    [] e.event = "PeriodSettled"     -> handlePeriodSettled(m, e)
    [] e.event = "MarkedDelinquent"  -> handleMarkedDelinquent(m, e)
    [] e.event = "Defaulted"         -> handleDefaulted(m, e)
    [] e.event = "StatusChanged"     -> handleStatusChanged(m, e)
    [] e.event = "PaymentRecorded"   -> handlePaymentRecorded(m, e)
    [] e.event = "Repaid"            -> handleRepaid(m, e)
    [] e.event = "Collected"         -> handleCollected(m, e)

\* graph-node: a transaction's events in their order, nothing seen in between.
Applied(m, events) ==
  LET after[k \in 0..Len(events)] ==
        IF k = 0 THEN m ELSE Handle(after[k - 1], events[k])
  IN  after[Len(events)]

Index ==
  /\ unindexed # <<>>
  /\ mirror'    = Applied(mirror, Head(unindexed))
  /\ unindexed' = Tail(unindexed)
  /\ UNCHANGED vars

----------------------------------------------------------------------------
\* The transactions, with the events they emit.

Emit(events) ==
  /\ Len(unindexed) < MaxLag
  /\ unindexed' = Append(unindexed, events)
  /\ UNCHANGED mirror

\* _setStatus says nothing when the status stays what it is.
StatusEvents(n) ==
  IF status'[n] = status[n] THEN <<>>
  ELSE <<[event |-> "StatusChanged", note |-> n, to |-> status'[n]]>>

\* The loop of repay(): one PaymentRecorded for each period it credits.
CreditEvents(n, credit) ==
  LET said[i \in 0..PeriodCount] ==
        IF i = 0 THEN <<>>
        ELSE IF credit[i - 1] = 0 THEN said[i - 1]
        ELSE Append(said[i - 1],
                    [event |-> "PaymentRecorded", note |-> n, period |-> i - 1,
                     amount |-> credit[i - 1],
                     periodPaid |-> paidOf[n][i - 1] + credit[i - 1]])
  IN  said[PeriodCount]

\* What the note has been paid before tells a repayment's transaction from the
\* note's others.
TxOf(n) == SumOf(paidOf[n]) + surplusOf[n]

\* Then Repaid, with the period the payment started at; and Collected.
RepaymentEvents(n, first, value, payer) ==
  LET credited == CreditEvents(n, Credits(Room(n), first, value))
      repaid   == [event |-> "Repaid", note |-> n, period |-> first, payer |-> payer,
                   amount |-> value, tx |-> TxOf(n)]
  IN  IF payer # MandateContract THEN Append(credited, repaid)
      ELSE Append(Append(credited, repaid),
                  [event |-> "Collected", note |-> n, period |-> first, tx |-> TxOf(n)])

\* repay(), by hand or by the mandate's collect, which announces itself after.
Pay(n, first, value, payer) ==
  /\ PayByHand(n, first, value)
  /\ Emit(RepaymentEvents(n, first, value, payer))

\* A fee the recipient refuses stays with the relay, and no event of those the
\* rows are made from says so: here it accepts.
Settle(n, i, caller) ==
  /\ SettlePeriod(n, i, caller, TRUE)
  /\ Emit(StatusEvents(n) \o
          <<[event |-> "PeriodSettled", note |-> n, period |-> i, sender |-> caller,
             distributed |-> Net(i), servicingFee |-> Fee(i), timestamp |-> now]>>)

Miss(n, i, caller) ==
  /\ MarkDelinquent(n, i, caller)
  /\ Emit(StatusEvents(n) \o
          <<[event |-> "MarkedDelinquent", note |-> n, period |-> i, sender |-> caller]>>)

Close(n, caller) ==
  /\ DefaultNote(n, caller)
  /\ Emit(StatusEvents(n) \o <<[event |-> "Defaulted", note |-> n, sender |-> caller]>>)

Delegated(n, agent) ==
  /\ RowOf(mirror, agent).notesServiced < MaxDelegations
  /\ \A k \in DOMAIN unindexed : unindexed[k][1].event # "DelegationSet"
  /\ Delegate(n, agent)
  /\ Emit(<<[event |-> "DelegationSet", note |-> n, agent |-> agent]>>)

Revoked(n) ==
  /\ RevokeDelegation(n)
  /\ Emit(<<[event |-> "DelegationRevoked", note |-> n]>>)

Pass == Tick /\ UNCHANGED <<unindexed, mirror>>

----------------------------------------------------------------------------
Rows(m, S) == {p \in NoteIds \X Periods : m.period[p[1]][p[2]].status \in S}
RowsOf(m, n, S) == {i \in Periods : m.period[n][i].status \in S}
NotesIn(m, s) == {n \in NoteIds : m.note[n].status = s}
Actions(m, kind) == {x \in m.actions : x[1] = kind}

PartiesRecounted(m) ==
  LET done   == Cardinality(Rows(m, Done))
      missed == Cardinality(Rows(m, {"Missed", "Cured"}))
  IN  /\ m.originator.periodsSettled = done /\ m.borrower.periodsSettled = done
      /\ m.originator.periodsMissed = missed /\ m.borrower.periodsMissed = missed
      /\ m.borrower.periodsCured = Cardinality(Rows(m, {"Cured"}))
EndsRecounted(m) ==
  \A p \in {m.originator, m.borrower} :
    /\ p.notesMatured = Cardinality(NotesIn(m, "Matured"))
    /\ p.notesDefaulted = Cardinality(NotesIn(m, "Defaulted"))
NotesRecounted(m) ==
  \A n \in NoteIds :
    /\ m.note[n].periodsSettled = Cardinality(RowsOf(m, n, Done))
    /\ m.note[n].periodsMissed = Cardinality(RowsOf(m, n, {"Missed", "Cured"}))
    /\ m.note[n].servicingFeesPaid =
         SumOf([i \in Periods |-> Fee(i) * Count(m.period[n][i].status \in Done)])
AgentsRecounted(m) ==
  \A a \in Agents :
    LET acted   == {x \in m.actions : x[1] # "Defaulted" /\ x[4] = a}
        paid(i) == {n \in NoteIds : <<"Settled", n, i, a>> \in m.actions}
    IN  IF m.agent[a] = NoRow THEN acted = {}
        ELSE /\ m.agent[a].actionsTaken = Cardinality(acted)
             /\ m.agent[a].feesEarned =
                  SumOf([i \in Periods |-> Fee(i) * Cardinality(paid(i))])
ActionsRecounted(m) ==
  /\ Cardinality(Actions(m, "Settled")) = Cardinality(Rows(m, Done))
  /\ Cardinality(Actions(m, "MarkedDelinquent")) = Cardinality(Rows(m, {"Missed", "Cured"}))
  /\ Cardinality(Actions(m, "Defaulted")) = Cardinality(NotesIn(m, "Defaulted"))

(***************************************************************************)
(* The counters are incremented by six handlers, in rows of four kinds,    *)
(* from events of four contracts.  Whatever the indexer has reached, they  *)
(* count what the period rows say: a settled period is one settled or      *)
(* cured, a missed one stays counted as missed when it is cured; every     *)
(* action is on record once; and an agent has been credited its own        *)
(* actions and the fees of what it settled, though notes change hands.     *)
(***************************************************************************)
CountersRecount ==
  /\ PartiesRecounted(mirror)
  /\ EndsRecounted(mirror)
  /\ NotesRecounted(mirror)
  /\ AgentsRecounted(mirror)
  /\ ActionsRecounted(mirror)

\* The rows m say what the contracts hold.
Current(m) ==
  \A n \in NoteIds :
    /\ m.note[n].status = status[n]
    /\ m.note[n].agent = agentOf[n]
    /\ m.note[n].totalRepaid = SumOf(paidOf[n]) + surplusOf[n]
    /\ m.note[n].totalDistributed = totalDistributed[n]
    /\ \A i \in Periods :
         /\ m.period[n][i].end = PeriodEnd(i)
         /\ m.period[n][i].due = PeriodDue(i)
         /\ m.period[n][i].status = periodStatus[n][i]
         /\ m.period[n][i].paid = periodPaid[n][i]

(***************************************************************************)
(* Once the indexer has caught up, the rows say what the contracts hold:   *)
(* status, agent, every period's end, due, status and what it has been     *)
(* paid, what was paid in (the surplus with it) and what was distributed.  *)
(* Of the repayments, those marked as collected are at any time those the  *)
(* mandate made.                                                           *)
(***************************************************************************)
CollectedByMandate(m) ==
  \A k \in DOMAIN m.repayments :
    m.repayments[k].collected <=> m.repayments[k].payer = MandateContract
MirrorCurrent ==
  /\ unindexed = <<>> => Current(mirror)
  /\ CollectedByMandate(mirror)
=============================================================================
