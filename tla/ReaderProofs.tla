---------------------------- MODULE ReaderProofs ----------------------------
(***************************************************************************)
(* Theorems about Subgraph, NotePage and Scorecards, for any notes,        *)
(* agents, payers, lag and windows.  The rows the indexer has yet to reach *)
(* are determined by those it has and by the events in between: IndexInv   *)
(* follows them to the last, which say what the contracts hold, with every *)
(* counter right on the way.  A scorecard is read while the chain goes on: *)
(* ScoreInv follows each count from what it was to what it is.             *)
(***************************************************************************)
EXTENDS NotePage, Scorecards, ServicingProofs, SequenceTheorems

----------------------------------------------------------------------------
\* Events are applied one after the other.

EventStep(f, m, events) ==
  f = [k \in 0..Len(events) |-> IF k = 0 THEN m ELSE Handle(f[k - 1], events[k])]

LEMMA EventsFollow ==
  ASSUME NEW S, NEW events \in Seq(S), NEW m
  PROVE  LET f == CHOOSE g : EventStep(g, m, events)
         IN  EventStep(f, m, events) /\ Applied(m, events) = f[Len(events)]
<1> DEFINE upTo(g, n) ==
             g = [k \in 0..n |-> IF k = 0 THEN m ELSE Handle(g[k - 1], events[k])]
           T == {n \in Nat : n <= Len(events) => \E g : upTo(g, n)}
<1>1. 0 \in T
  <2>1. upTo([k \in 0..0 |-> m], 0)
    OBVIOUS
  <2> QED BY <2>1
<1>2. ASSUME NEW n \in Nat, n \in T PROVE n + 1 \in T
  <2> SUFFICES ASSUME n + 1 <= Len(events) PROVE \E g : upTo(g, n + 1)
    OBVIOUS
  <2>1. Len(events) \in Nat
    OBVIOUS
  <2>2. PICK g : upTo(g, n)
    BY <1>2, <2>1
  <2> DEFINE h == [k \in 0..(n + 1) |-> IF k = n + 1 THEN Handle(g[n], events[n + 1]) ELSE g[k]]
  <2>3. \A k \in 0..n : h[k] = g[k]
    OBVIOUS
  <2>4. ASSUME NEW k \in 0..(n + 1)
        PROVE  h[k] = IF k = 0 THEN m ELSE Handle(h[k - 1], events[k])
    <3>1. CASE k = n + 1
      <4>1. h[k] = Handle(g[n], events[n + 1]) /\ k # 0 /\ k - 1 = n /\ n \in 0..n
        BY <3>1
      <4> QED BY <3>1, <4>1, <2>3
    <3>2. CASE k # n + 1 /\ k # 0
      <4>1. k \in 0..n /\ k - 1 \in 0..n
        BY <3>2
      <4>2. g[k] = Handle(g[k - 1], events[k])
        BY <2>2, <3>2, <4>1
      <4> QED BY <3>2, <4>1, <4>2, <2>3
    <3>3. CASE k = 0
      <4>1. g[0] = m /\ 0 \in 0..n
        BY <2>2
      <4> QED BY <3>3, <4>1, <2>3
    <3> QED BY <3>1, <3>2, <3>3
  <2>5. upTo(h, n + 1)
    <3>1. h = [k \in 0..(n + 1) |-> h[k]]
      OBVIOUS
    <3> HIDE DEF h
    <3> QED BY <2>4, <3>1
  <2> QED BY <2>5
<1>3. \E g : EventStep(g, m, events)
  <2>1. Len(events) \in Nat /\ Nat \subseteq T
    <3> HIDE DEF T
    <3>1. Nat \subseteq T
      BY <1>1, <1>2, SetInduction
    <3> QED BY <3>1
  <2>2. \E g : upTo(g, Len(events))
    BY <2>1
  <2> QED BY <2>2 DEF EventStep
<1>4. Applied(m, events) = (CHOOSE g : EventStep(g, m, events))[Len(events)]
  BY Zenon DEF Applied, EventStep
<1> QED BY <1>3, <1>4, Zenon

\* No event changes nothing, and the last one is applied last.
LEMMA AppliedNone == \A m : Applied(m, <<>>) = m
<1> SUFFICES ASSUME NEW m PROVE Applied(m, <<>>) = m
  OBVIOUS
<1>1. <<>> \in Seq({}) /\ Len(<<>>) = 0
  OBVIOUS
<1>2. PICK f : EventStep(f, m, <<>>) /\ Applied(m, <<>>) = f[Len(<<>>)]
  BY <1>1, EventsFollow, Zenon
<1> QED BY <1>1, <1>2 DEF EventStep

LEMMA AppliedLast ==
  ASSUME NEW S, NEW events \in Seq(S), NEW e \in S, NEW m
  PROVE  Applied(m, Append(events, e)) = Handle(Applied(m, events), e)
<1> DEFINE all == Append(events, e)
           N == Len(events)
<1>1. /\ all \in Seq(S) /\ Len(all) = N + 1 /\ N \in Nat /\ all[N + 1] = e
      /\ \A k \in 1..N : all[k] = events[k]
  OBVIOUS
<1> HIDE DEF all
<1>2. PICK f : EventStep(f, m, events) /\ Applied(m, events) = f[N]
  BY EventsFollow, Zenon
<1>3. PICK g : EventStep(g, m, all) /\ Applied(m, all) = g[N + 1]
  BY <1>1, EventsFollow, Zenon
<1> HIDE DEF N
<1>4. /\ f[0] = m /\ \A k \in 1..N : f[k] = Handle(f[k - 1], events[k])
  <2>1. f = [k \in 0..N |-> IF k = 0 THEN m ELSE Handle(f[k - 1], events[k])]
    BY <1>2 DEF EventStep, N
  <2>2. 0 \in 0..N /\ \A k \in 1..N : k \in 0..N /\ k # 0
    BY <1>1
  <2>3. \A k \in 0..N : f[k] = IF k = 0 THEN m ELSE Handle(f[k - 1], events[k])
    BY <2>1, Zenon
  <2> QED BY <2>2, <2>3, Zenon
<1>5. /\ g[0] = m /\ \A k \in 1..(N + 1) : g[k] = Handle(g[k - 1], all[k])
  <2>1. g = [k \in 0..(N + 1) |-> IF k = 0 THEN m ELSE Handle(g[k - 1], all[k])]
    BY <1>1, <1>3 DEF EventStep
  <2>2. 0 \in 0..(N + 1) /\ \A k \in 1..(N + 1) : k \in 0..(N + 1) /\ k # 0
    BY <1>1
  <2>3. \A k \in 0..(N + 1) : g[k] = IF k = 0 THEN m ELSE Handle(g[k - 1], all[k])
    BY <2>1, Zenon
  <2> QED BY <2>2, <2>3, Zenon
<1> DEFINE T == {k \in Nat : k <= N => g[k] = f[k]}
<1>6. 0 \in T
  BY <1>4, <1>5
<1>7. ASSUME NEW k \in Nat, k \in T PROVE k + 1 \in T
  <2> SUFFICES ASSUME k + 1 <= N PROVE g[k + 1] = f[k + 1]
    OBVIOUS
  <2>1. /\ k + 1 \in 1..N /\ k + 1 \in 1..(N + 1) /\ (k + 1) - 1 = k
        /\ g[k] = f[k] /\ all[k + 1] = events[k + 1]
    BY <1>1, <1>7
  <2>2. g[k + 1] = Handle(g[k], all[k + 1]) /\ f[k + 1] = Handle(f[k], events[k + 1])
    BY <2>1, <1>4, <1>5
  <2> QED BY <2>1, <2>2
<1>8. g[N] = f[N]
  <2> HIDE DEF T
  <2>1. Nat \subseteq T
    BY <1>6, <1>7, SetInduction
  <2> QED BY <1>1, <2>1 DEF T
<1>9. g[N + 1] = Handle(g[N], e)
  <2>1. N + 1 \in 1..(N + 1) /\ (N + 1) - 1 = N
    BY <1>1
  <2> QED BY <2>1, <1>1, <1>5
<1> QED BY <1>2, <1>3, <1>8, <1>9 DEF all

----------------------------------------------------------------------------
\* The rows.

NoteData == [status : NoteStatus, agent : Agents \cup {NoAgent}, periodsSettled : Nat,
             periodsMissed : Nat, totalRepaid : Nat, totalDistributed : Nat,
             servicingFeesPaid : Nat]
PeriodData == [start : Nat, end : Nat, due : Nat, paid : Nat, status : PeriodStatus,
               latenessSeconds : Nat]
AgentData == [notesServiced : Nat, actionsTaken : Nat, feesEarned : Nat]
OriginatorData == [periodsSettled : Nat, periodsMissed : Nat, periodsCuredBySelf : Nat,
                   notesMatured : Nat, notesDefaulted : Nat]
BorrowerData == [periodsSettled : Nat, periodsMissed : Nat, periodsCured : Nat,
                 totalDaysLate : Nat, principalRepaid : Nat, notesMatured : Nat,
                 notesDefaulted : Nat]
RepaymentData == [note : NoteIds, period : Periods, payer : Payers, collected : BOOLEAN,
                  tx : Nat]
Kinds == {"Settled", "MarkedDelinquent", "Defaulted"}
ActionData == Kinds \X NoteIds \X (Periods \cup {NoRow}) \X Agents
RowsData == [note : [NoteIds -> NoteData], period : [NoteIds -> [Periods -> PeriodData]],
             agent : [Agents -> AgentData \cup {NoRow}], originator : OriginatorData,
             borrower : BorrowerData, repayments : Seq(RepaymentData),
             actions : SUBSET ActionData]

LEMMA CountIsNat == \A b : Count(b) \in Nat
BY DEF Count

LEMMA RowParts ==
  ASSUME NEW m \in RowsData
  PROVE  /\ m.note \in [NoteIds -> NoteData]
         /\ m.period \in [NoteIds -> [Periods -> PeriodData]]
         /\ m.agent \in [Agents -> AgentData \cup {NoRow}]
         /\ m.originator \in OriginatorData
         /\ m.borrower \in BorrowerData
         /\ m.repayments \in Seq(RepaymentData)
         /\ m.actions \in SUBSET ActionData
         /\ m = [note |-> m.note, period |-> m.period, agent |-> m.agent,
                 originator |-> m.originator, borrower |-> m.borrower,
                 repayments |-> m.repayments, actions |-> m.actions]
BY DEF RowsData

LEMMA RowData ==
  ASSUME NEW m \in RowsData, NEW n \in NoteIds
  PROVE  /\ m.note[n] \in NoteData
         /\ m.note[n].status \in NoteStatus /\ m.note[n].agent \in Agents \cup {NoAgent}
         /\ m.note[n].periodsSettled \in Nat /\ m.note[n].periodsMissed \in Nat
         /\ m.note[n].totalRepaid \in Nat /\ m.note[n].totalDistributed \in Nat
         /\ m.note[n].servicingFeesPaid \in Nat
         /\ \A i \in Periods :
              /\ m.period[n][i] \in PeriodData
              /\ m.period[n][i].end \in Nat /\ m.period[n][i].due \in Nat
              /\ m.period[n][i].paid \in Nat /\ m.period[n][i].status \in PeriodStatus
BY RowParts DEF NoteData, PeriodData

LEMMA PartyData ==
  ASSUME NEW m \in RowsData
  PROVE  /\ m.originator.periodsSettled \in Nat /\ m.originator.periodsMissed \in Nat
         /\ m.originator.notesMatured \in Nat /\ m.originator.notesDefaulted \in Nat
         /\ m.borrower.periodsSettled \in Nat /\ m.borrower.periodsMissed \in Nat
         /\ m.borrower.periodsCured \in Nat
         /\ m.borrower.notesMatured \in Nat /\ m.borrower.notesDefaulted \in Nat
BY RowParts DEF OriginatorData, BorrowerData

----------------------------------------------------------------------------
\* What each handler writes, and what it leaves alone.

LEMMA EndedParty ==
  ASSUME NEW to
  PROVE  /\ \A p \in OriginatorData :
              /\ Ended(p, to) \in OriginatorData
              /\ Ended(p, to).notesMatured = p.notesMatured + Count(to = "Matured")
              /\ Ended(p, to).notesDefaulted = p.notesDefaulted + Count(to = "Defaulted")
              /\ Ended(p, to).periodsSettled = p.periodsSettled
              /\ Ended(p, to).periodsMissed = p.periodsMissed
         /\ \A p \in BorrowerData :
              /\ Ended(p, to) \in BorrowerData
              /\ Ended(p, to).notesMatured = p.notesMatured + Count(to = "Matured")
              /\ Ended(p, to).notesDefaulted = p.notesDefaulted + Count(to = "Defaulted")
              /\ Ended(p, to).periodsSettled = p.periodsSettled
              /\ Ended(p, to).periodsMissed = p.periodsMissed
              /\ Ended(p, to).periodsCured = p.periodsCured
<1>1. Count(to = "Matured") \in Nat /\ Count(to = "Defaulted") \in Nat
  BY CountIsNat
<1> DEFINE a == Count(to = "Matured")
           b == Count(to = "Defaulted")
<1>2. \A p : Ended(p, to) = [p EXCEPT !.notesMatured = @ + a, !.notesDefaulted = @ + b]
  BY DEF Ended
<1>3. a \in Nat /\ b \in Nat
  BY <1>1
<1> HIDE DEF a, b
<1>4. ASSUME NEW p \in OriginatorData
      PROVE  /\ Ended(p, to) \in OriginatorData
             /\ Ended(p, to).notesMatured = p.notesMatured + a
             /\ Ended(p, to).notesDefaulted = p.notesDefaulted + b
             /\ Ended(p, to).periodsSettled = p.periodsSettled
             /\ Ended(p, to).periodsMissed = p.periodsMissed
  <2> DEFINE x == p.notesMatured + a
             y == p.notesDefaulted + b
             q == [p EXCEPT !.notesMatured = x, !.notesDefaulted = y]
  <2>1. Ended(p, to) = q
    BY <1>2 DEF OriginatorData
  <2>2. x \in Nat /\ y \in Nat
    BY <1>3 DEF OriginatorData
  <2> HIDE DEF x, y
  <2>3. /\ q \in OriginatorData
        /\ q.notesMatured = x /\ q.notesDefaulted = y
        /\ q.periodsSettled = p.periodsSettled /\ q.periodsMissed = p.periodsMissed
    BY <2>2 DEF OriginatorData
  <2> QED BY <2>1, <2>3, Zenon DEF x, y
<1>5. ASSUME NEW p \in BorrowerData
      PROVE  /\ Ended(p, to) \in BorrowerData
             /\ Ended(p, to).notesMatured = p.notesMatured + a
             /\ Ended(p, to).notesDefaulted = p.notesDefaulted + b
             /\ Ended(p, to).periodsSettled = p.periodsSettled
             /\ Ended(p, to).periodsMissed = p.periodsMissed
             /\ Ended(p, to).periodsCured = p.periodsCured
  <2> DEFINE x == p.notesMatured + a
             y == p.notesDefaulted + b
             q == [p EXCEPT !.notesMatured = x, !.notesDefaulted = y]
  <2>1. Ended(p, to) = q
    BY <1>2 DEF BorrowerData
  <2>2. x \in Nat /\ y \in Nat
    BY <1>3 DEF BorrowerData
  <2> HIDE DEF x, y
  <2>3. /\ q \in BorrowerData
        /\ q.notesMatured = x /\ q.notesDefaulted = y
        /\ q.periodsSettled = p.periodsSettled /\ q.periodsMissed = p.periodsMissed
        /\ q.periodsCured = p.periodsCured
    BY <2>2 DEF BorrowerData
  <2> QED BY <2>1, <2>3, Zenon DEF x, y
<1> QED BY <1>4, <1>5 DEF a, b

\* StatusChanged.
StatusMoved(mm, m, n, to) ==
  /\ mm \in RowsData
  /\ mm.period = m.period /\ mm.agent = m.agent
  /\ mm.repayments = m.repayments /\ mm.actions = m.actions
  /\ mm.note[n].status = to
  /\ \A k \in NoteIds : /\ k # n => mm.note[k] = m.note[k]
                        /\ mm.note[k] = [m.note[k] EXCEPT !.status = mm.note[k].status]
  /\ mm.originator = Ended(m.originator, to)
  /\ mm.borrower = Ended(m.borrower, to)

LEMMA StatusRows ==
  ASSUME NEW m \in RowsData, NEW n \in NoteIds, NEW to \in NoteStatus, NEW mm,
         mm = handleStatusChanged(m, [event |-> "StatusChanged", note |-> n, to |-> to])
  PROVE  StatusMoved(mm, m, n, to)
<1> DEFINE org == Ended(m.originator, to)
           bor == Ended(m.borrower, to)
           row == [m.note[n] EXCEPT !.status = to]
           notes == [m.note EXCEPT ![n] = row]
<1>1. mm = [m EXCEPT !.note = notes, !.originator = org, !.borrower = bor]
  BY DEF handleStatusChanged, RowsData
<1>2. org \in OriginatorData /\ bor \in BorrowerData
  BY RowParts, EndedParty
<1>3. row \in NoteData /\ row.status = to
  BY RowData DEF NoteData
<1>4. m.note \in [NoteIds -> NoteData]
  BY RowParts
<1> HIDE DEF org, bor, row
<1>5. /\ notes \in [NoteIds -> NoteData] /\ notes[n] = row
      /\ \A k \in NoteIds : k # n => notes[k] = m.note[k]
  BY <1>3, <1>4
<1>6. \A k \in NoteIds : k # n => m.note[k] = [m.note[k] EXCEPT !.status = m.note[k].status]
  BY RowData DEF NoteData
<1> HIDE DEF notes
<1>7. mm \in RowsData
  BY <1>1, <1>2, <1>5 DEF RowsData
<1>8. /\ mm.note = notes /\ mm.originator = org /\ mm.borrower = bor
      /\ mm.period = m.period /\ mm.agent = m.agent
      /\ mm.repayments = m.repayments /\ mm.actions = m.actions
  BY <1>1 DEF RowsData
<1>9. notes[n] = [m.note[n] EXCEPT !.status = notes[n].status]
  BY <1>3, <1>5 DEF row
<1> QED BY <1>3, <1>5, <1>6, <1>7, <1>8, <1>9 DEF org, bor, StatusMoved

\* What an action is worth to the agent that took it, if it has a row.
LEMMA ActedRows ==
  ASSUME NEW m \in RowsData, NEW a \in Agents, NEW fee \in Nat
  PROVE  /\ Acted(m, a, fee) \in [Agents -> AgentData \cup {NoRow}]
         /\ \A b \in Agents : b # a => Acted(m, a, fee)[b] = m.agent[b]
         /\ m.agent[a] = NoRow => Acted(m, a, fee)[a] = NoRow
         /\ m.agent[a] # NoRow =>
              /\ Acted(m, a, fee)[a] # NoRow
              /\ Acted(m, a, fee)[a].actionsTaken = m.agent[a].actionsTaken + 1
              /\ Acted(m, a, fee)[a].feesEarned = m.agent[a].feesEarned + fee
<1>1. m.agent \in [Agents -> AgentData \cup {NoRow}] /\ NoRow \notin AgentData
  BY RowParts, SubgraphAssumption DEF AgentData
<1>2. CASE m.agent[a] = NoRow
  BY <1>1, <1>2 DEF Acted
<1>3. CASE m.agent[a] # NoRow
  <2> DEFINE was == m.agent
             own == was[a]
             x == own.actionsTaken + 1
             y == own.feesEarned + fee
             row == [own EXCEPT !.actionsTaken = x, !.feesEarned = y]
             all == [was EXCEPT ![a] = row]
  <2>1. own \in AgentData
    BY <1>1, <1>3
  <2>2. Acted(m, a, fee) = all
    BY <1>1, <1>3, <2>1 DEF Acted, AgentData
  <2>3. x \in Nat /\ y \in Nat
    BY <2>1 DEF AgentData
  <2> HIDE DEF x, y
  <2>4. row \in AgentData /\ row.actionsTaken = x /\ row.feesEarned = y
    BY <2>1, <2>3 DEF AgentData
  <2> HIDE DEF row
  <2>5. /\ all \in [Agents -> AgentData \cup {NoRow}] /\ all[a] = row
        /\ \A b \in Agents : b # a => all[b] = was[b]
    BY <1>1, <2>4
  <2>6. row # NoRow
    BY <1>1, <2>4
  <2> HIDE DEF all
  <2> QED BY <1>3, <2>2, <2>4, <2>5, <2>6, Zenon DEF x, y
<1> QED BY <1>2, <1>3

\* An action on a period: kind, by agent a, which leaves the period in status
\* to; it costs fee and hands out the amount out.
ActedOn(mm, m, kind, n, i, a, to, fee, out) ==
  /\ mm \in RowsData
  /\ mm.period[n][i].status = to
  /\ \A k \in NoteIds, j \in Periods :
       /\ k # n \/ j # i => mm.period[k][j].status = m.period[k][j].status
       /\ mm.period[k][j].end = m.period[k][j].end
       /\ mm.period[k][j].due = m.period[k][j].due
       /\ mm.period[k][j].paid = m.period[k][j].paid
  /\ \A k \in NoteIds :
       /\ k # n => mm.note[k] = m.note[k]
       /\ mm.note[k].status = m.note[k].status
       /\ mm.note[k].agent = m.note[k].agent
       /\ mm.note[k].totalRepaid = m.note[k].totalRepaid
  /\ mm.note[n].periodsSettled = m.note[n].periodsSettled + Count(kind = "Settled")
  /\ mm.note[n].periodsMissed = m.note[n].periodsMissed + Count(kind # "Settled")
  /\ mm.note[n].servicingFeesPaid = m.note[n].servicingFeesPaid + fee
  /\ mm.note[n].totalDistributed = m.note[n].totalDistributed + out
  /\ mm.originator.periodsSettled = m.originator.periodsSettled + Count(kind = "Settled")
  /\ mm.originator.periodsMissed = m.originator.periodsMissed + Count(kind # "Settled")
  /\ mm.originator.notesMatured = m.originator.notesMatured
  /\ mm.originator.notesDefaulted = m.originator.notesDefaulted
  /\ mm.borrower.periodsSettled = m.borrower.periodsSettled + Count(kind = "Settled")
  /\ mm.borrower.periodsMissed = m.borrower.periodsMissed + Count(kind # "Settled")
  /\ mm.borrower.periodsCured = m.borrower.periodsCured + Count(to = "Cured")
  /\ mm.borrower.notesMatured = m.borrower.notesMatured
  /\ mm.borrower.notesDefaulted = m.borrower.notesDefaulted
  /\ mm.agent = Acted(m, a, fee)
  /\ mm.actions = m.actions \cup {<<kind, n, i, a>>}
  /\ mm.repayments = m.repayments

\* Writing one period's row, and one note's.
LEMMA NoteWritten ==
  ASSUME NEW m \in RowsData, NEW n \in NoteIds, NEW row \in NoteData
  PROVE  /\ [m.note EXCEPT ![n] = row] \in [NoteIds -> NoteData]
         /\ [m.note EXCEPT ![n] = row][n] = row
         /\ \A k \in NoteIds : k # n => [m.note EXCEPT ![n] = row][k] = m.note[k]
BY RowParts

\* PeriodSettled.
LEMMA SettledRows ==
  ASSUME NEW m \in RowsData, NEW n \in NoteIds, NEW i \in Periods, NEW a \in Agents,
         NEW fee \in Nat, NEW out \in Nat, NEW at \in Nat, NEW mm,
         mm = handlePeriodSettled(m,
                [event |-> "PeriodSettled", note |-> n, period |-> i, sender |-> a,
                 distributed |-> out, servicingFee |-> fee, timestamp |-> at])
  PROVE  ActedOn(mm, m, "Settled", n, i, a,
                 IF m.period[n][i].status = "Missed" THEN "Cured" ELSE "Settled", fee, out)
<1> DEFINE e == [event |-> "PeriodSettled", note |-> n, period |-> i, sender |-> a,
                 distributed |-> out, servicingFee |-> fee, timestamp |-> at]
           to   == IF m.period[n][i].status = "Missed" THEN "Cured" ELSE "Settled"
           cure == Count(m.period[n][i].status = "Missed")
           late == Lateness(m, e)
           days == late \div Day
           pw == m.period[n][i]
           pr == [pw EXCEPT !.status = to, !.latenessSeconds = late]
           ps == [m.period EXCEPT ![n][i] = pr]
           nw == m.note[n]
           ns == nw.periodsSettled + 1
           nd == nw.totalDistributed + out
           nf == nw.servicingFeesPaid + fee
           nr == [nw EXCEPT !.periodsSettled = ns, !.totalDistributed = nd,
                            !.servicingFeesPaid = nf]
           nt == [m.note EXCEPT ![n] = nr]
           ow == m.originator
           os == ow.periodsSettled + 1
           org == [ow EXCEPT !.periodsSettled = os]
           bw == m.borrower
           bs == bw.periodsSettled + 1
           bc == bw.periodsCured + cure
           bl == bw.totalDaysLate + days
           bor == [bw EXCEPT !.periodsSettled = bs, !.periodsCured = bc, !.totalDaysLate = bl]
           ag == Acted(m, a, fee)
           acts == m.actions \cup {<<"Settled", n, i, a>>}
<1>1. mm = [m EXCEPT !.period = ps, !.note = nt, !.originator = org, !.borrower = bor,
                     !.agent = ag, !.actions = acts]
  <2>1. /\ pw \in PeriodData /\ nw \in NoteData /\ ow \in OriginatorData /\ bw \in BorrowerData
        /\ m.period \in [NoteIds -> [Periods -> PeriodData]] /\ m.note \in [NoteIds -> NoteData]
    BY RowParts, RowData
  <2> DEFINE nr1 == [nw EXCEPT !.periodsSettled = @ + 1, !.totalDistributed = @ + out,
                               !.servicingFeesPaid = @ + fee]
             bor1 == [bw EXCEPT !.periodsSettled = @ + 1, !.periodsCured = @ + cure,
                                !.totalDaysLate = @ + days]
  <2>2. nr = nr1 /\ bor = bor1
    <3> HIDE DEF late, cure, days, bw, ow, nw
    <3> QED BY <2>1 DEF NoteData, BorrowerData
  <2>3. mm = SettledAs(m, e, m.period[n][i].status = "Missed")
    BY DEF handlePeriodSettled
  <2> HIDE DEF late, cure, days
  <2>4. mm = [m EXCEPT !.period[n][i] = pr, !.note[n] = nr1,
                       !.originator.periodsSettled = @ + 1, !.borrower = bor1,
                       !.agent = ag, !.actions = @ \cup {<<"Settled", n, i, a>>}]
    BY <2>3, Zenon DEF SettledAs, late, cure, days
  <2> HIDE DEF pr, nr1, nr, bor, bor1, ag
  <2> QED BY <2>2, <2>4 DEF RowsData
<1>2. to \in PeriodStatus /\ late \in Nat /\ days \in Nat /\ cure \in Nat
  <2>1. m.period[n][i].end \in Nat /\ Day \in Nat \ {0}
    BY RowData, SubgraphAssumption
  <2>2. late \in Nat
    BY <2>1 DEF Lateness
  <2> HIDE DEF late
  <2> QED BY <2>1, <2>2, CountIsNat DEF PeriodStatus
<1>3. Count(to = "Cured") = cure
  BY DEF Count
<1> HIDE DEF to, late, cure, days
<1>4. /\ pr \in PeriodData /\ pr.status = to /\ pr.end = pw.end /\ pr.due = pw.due
      /\ pr.paid = pw.paid
  <2>1. pw \in PeriodData
    BY RowData
  <2> HIDE DEF pw
  <2> QED BY <1>2, <2>1 DEF PeriodData
<1>5. /\ nr \in NoteData /\ nr.status = nw.status /\ nr.agent = nw.agent
      /\ nr.totalRepaid = nw.totalRepaid /\ nr.periodsMissed = nw.periodsMissed
      /\ nr.periodsSettled = ns /\ nr.totalDistributed = nd /\ nr.servicingFeesPaid = nf
      /\ nw.periodsMissed \in Nat
  <2>1. nw \in NoteData
    BY RowData
  <2> HIDE DEF nw
  <2>2. ns \in Nat /\ nd \in Nat /\ nf \in Nat
    BY <2>1 DEF NoteData
  <2> HIDE DEF ns, nd, nf
  <2> QED BY <2>1, <2>2 DEF NoteData
<1>6. /\ org \in OriginatorData /\ org.periodsSettled = os
      /\ org.periodsMissed = ow.periodsMissed /\ org.notesMatured = ow.notesMatured
      /\ org.notesDefaulted = ow.notesDefaulted /\ ow.periodsMissed \in Nat
  <2>1. ow \in OriginatorData
    BY RowParts
  <2> HIDE DEF ow
  <2>2. os \in Nat
    BY <2>1 DEF OriginatorData
  <2> HIDE DEF os
  <2> QED BY <2>1, <2>2 DEF OriginatorData
<1>7. /\ bor \in BorrowerData /\ bor.periodsSettled = bs /\ bor.periodsCured = bc
      /\ bor.periodsMissed = bw.periodsMissed /\ bor.notesMatured = bw.notesMatured
      /\ bor.notesDefaulted = bw.notesDefaulted /\ bw.periodsMissed \in Nat
  <2>1. bw \in BorrowerData
    BY RowParts
  <2> HIDE DEF bw
  <2>2. bs \in Nat /\ bc \in Nat /\ bl \in Nat
    BY <1>2, <2>1 DEF BorrowerData
  <2> HIDE DEF bs, bc, bl
  <2> QED BY <2>1, <2>2 DEF BorrowerData
<1>8. ag \in [Agents -> AgentData \cup {NoRow}] /\ acts \in SUBSET ActionData
  BY RowParts, ActedRows DEF ActionData, Kinds
<1> HIDE DEF pr, nr, org, bor, ag, acts
<1>9. /\ ps \in [NoteIds -> [Periods -> PeriodData]] /\ ps[n][i] = pr
      /\ \A k \in NoteIds, j \in Periods : k # n \/ j # i => ps[k][j] = m.period[k][j]
  <2> DEFINE all == m.period
  <2>1. all \in [NoteIds -> [Periods -> PeriodData]] /\ pr \in PeriodData
    BY <1>4, RowParts
  <2> HIDE DEF all
  <2>2. ps = [all EXCEPT ![n][i] = pr]
    BY DEF all
  <2> HIDE DEF ps
  <2>3. /\ ps \in [NoteIds -> [Periods -> PeriodData]] /\ ps[n][i] = pr
        /\ \A k \in NoteIds, j \in Periods : k # n \/ j # i => ps[k][j] = all[k][j]
    BY <2>1, <2>2
  <2> QED BY <2>3 DEF all
<1>10. /\ nt \in [NoteIds -> NoteData] /\ nt[n] = nr
       /\ \A k \in NoteIds : k # n => nt[k] = m.note[k]
  BY <1>5, NoteWritten, Zenon
<1> HIDE DEF ps, nt
<1>11. mm \in RowsData
  BY <1>1, <1>6, <1>7, <1>8, <1>9, <1>10 DEF RowsData
<1>12. /\ mm.period = ps /\ mm.note = nt /\ mm.originator = org /\ mm.borrower = bor
       /\ mm.agent = ag /\ mm.actions = acts /\ mm.repayments = m.repayments
  BY <1>1 DEF RowsData
<1>13. Count("Settled" = "Settled") = 1 /\ Count("Settled" # "Settled") = 0
  BY DEF Count
<1>14. ActedOn(mm, m, "Settled", n, i, a, to, fee, out)
  BY <1>3, <1>4, <1>5, <1>6, <1>7, <1>9, <1>10, <1>11, <1>12, <1>13
     DEF ActedOn, ag, acts, pw, nw, ow, bw, ns, nd, nf, os, bs, bc
<1> QED BY <1>14 DEF to

\* MarkedDelinquent.
LEMMA MissedRows ==
  ASSUME NEW m \in RowsData, NEW n \in NoteIds, NEW i \in Periods, NEW a \in Agents, NEW mm,
         mm = handleMarkedDelinquent(m,
                [event |-> "MarkedDelinquent", note |-> n, period |-> i, sender |-> a])
  PROVE  ActedOn(mm, m, "MarkedDelinquent", n, i, a, "Missed", 0, 0)
<1> DEFINE pw == m.period[n][i]
           pr == [pw EXCEPT !.status = "Missed"]
           ps == [m.period EXCEPT ![n][i] = pr]
           nw == m.note[n]
           nm == nw.periodsMissed + 1
           nr == [nw EXCEPT !.periodsMissed = nm]
           nt == [m.note EXCEPT ![n] = nr]
           ow == m.originator
           om == ow.periodsMissed + 1
           org == [ow EXCEPT !.periodsMissed = om]
           bw == m.borrower
           bm == bw.periodsMissed + 1
           bor == [bw EXCEPT !.periodsMissed = bm]
           ag == Acted(m, a, 0)
           acts == m.actions \cup {<<"MarkedDelinquent", n, i, a>>}
<1>1. mm = [m EXCEPT !.period = ps, !.note = nt, !.originator = org, !.borrower = bor,
                     !.agent = ag, !.actions = acts]
  <2>1. /\ m.period \in [NoteIds -> [Periods -> PeriodData]] /\ m.note \in [NoteIds -> NoteData]
    BY RowParts
  <2> HIDE DEF ag
  <2>2. mm = [m EXCEPT !.period[n][i].status = "Missed", !.note[n].periodsMissed = @ + 1,
                       !.originator.periodsMissed = @ + 1, !.borrower.periodsMissed = @ + 1,
                       !.agent = ag, !.actions = @ \cup {<<"MarkedDelinquent", n, i, a>>}]
    BY Zenon DEF handleMarkedDelinquent, ag
  <2> QED BY <2>2 DEF RowsData
<1>4. /\ pr \in PeriodData /\ pr.status = "Missed" /\ pr.end = pw.end /\ pr.due = pw.due
      /\ pr.paid = pw.paid
  <2>1. pw \in PeriodData
    BY RowData
  <2> HIDE DEF pw
  <2> QED BY <2>1 DEF PeriodData, PeriodStatus
<1>5. /\ nr \in NoteData /\ nr.status = nw.status /\ nr.agent = nw.agent
      /\ nr.totalRepaid = nw.totalRepaid /\ nr.periodsMissed = nm
      /\ nr.periodsSettled = nw.periodsSettled /\ nw.periodsSettled \in Nat
      /\ nr.totalDistributed = nw.totalDistributed /\ nw.totalDistributed \in Nat
      /\ nr.servicingFeesPaid = nw.servicingFeesPaid /\ nw.servicingFeesPaid \in Nat
  <2>1. nw \in NoteData
    BY RowData
  <2> HIDE DEF nw
  <2>2. nm \in Nat
    BY <2>1 DEF NoteData
  <2> HIDE DEF nm
  <2> QED BY <2>1, <2>2 DEF NoteData
<1>6. /\ org \in OriginatorData /\ org.periodsMissed = om
      /\ org.periodsSettled = ow.periodsSettled /\ org.notesMatured = ow.notesMatured
      /\ org.notesDefaulted = ow.notesDefaulted /\ ow.periodsSettled \in Nat
  <2>1. ow \in OriginatorData
    BY RowParts
  <2> HIDE DEF ow
  <2>2. om \in Nat
    BY <2>1 DEF OriginatorData
  <2> HIDE DEF om
  <2> QED BY <2>1, <2>2 DEF OriginatorData
<1>7. /\ bor \in BorrowerData /\ bor.periodsMissed = bm
      /\ bor.periodsSettled = bw.periodsSettled /\ bor.periodsCured = bw.periodsCured
      /\ bor.notesMatured = bw.notesMatured /\ bor.notesDefaulted = bw.notesDefaulted
      /\ bw.periodsSettled \in Nat /\ bw.periodsCured \in Nat
  <2>1. bw \in BorrowerData
    BY RowParts
  <2> HIDE DEF bw
  <2>2. bm \in Nat
    BY <2>1 DEF BorrowerData
  <2> HIDE DEF bm
  <2> QED BY <2>1, <2>2 DEF BorrowerData
<1>8. ag \in [Agents -> AgentData \cup {NoRow}] /\ acts \in SUBSET ActionData
  <2>1. 0 \in Nat
    OBVIOUS
  <2>2. ag \in [Agents -> AgentData \cup {NoRow}]
    BY <2>1, ActedRows, Zenon
  <2>3. acts \in SUBSET ActionData
    BY RowParts DEF ActionData, Kinds
  <2> QED BY <2>2, <2>3, Zenon
<1> HIDE DEF pr, nr, org, bor, ag, acts
<1>9. /\ ps \in [NoteIds -> [Periods -> PeriodData]] /\ ps[n][i] = pr
      /\ \A k \in NoteIds, j \in Periods : k # n \/ j # i => ps[k][j] = m.period[k][j]
  <2> DEFINE all == m.period
  <2>1. all \in [NoteIds -> [Periods -> PeriodData]] /\ pr \in PeriodData
    BY <1>4, RowParts
  <2> HIDE DEF all
  <2>2. ps = [all EXCEPT ![n][i] = pr]
    BY DEF all
  <2> HIDE DEF ps
  <2>3. /\ ps \in [NoteIds -> [Periods -> PeriodData]] /\ ps[n][i] = pr
        /\ \A k \in NoteIds, j \in Periods : k # n \/ j # i => ps[k][j] = all[k][j]
    BY <2>1, <2>2
  <2> QED BY <2>3 DEF all
<1>10. /\ nt \in [NoteIds -> NoteData] /\ nt[n] = nr
       /\ \A k \in NoteIds : k # n => nt[k] = m.note[k]
  BY <1>5, NoteWritten, Zenon
<1> HIDE DEF ps, nt
<1>11. mm \in RowsData
  BY <1>1, <1>6, <1>7, <1>8, <1>9, <1>10 DEF RowsData
<1>12. /\ mm.period = ps /\ mm.note = nt /\ mm.originator = org /\ mm.borrower = bor
       /\ mm.agent = ag /\ mm.actions = acts /\ mm.repayments = m.repayments
  BY <1>1 DEF RowsData
<1>13. /\ Count("MarkedDelinquent" = "Settled") = 0 /\ Count("MarkedDelinquent" # "Settled") = 1
       /\ Count("Missed" = "Cured") = 0
  BY DEF Count
<1> QED BY <1>4, <1>5, <1>6, <1>7, <1>9, <1>10, <1>11, <1>12, <1>13
        DEF ActedOn, ag, acts, pw, nw, ow, bw, nm, om, bm

\* The handler leaves the counters alone.
SameCounts(mm, m) ==
  /\ mm \in RowsData
  /\ \A k \in NoteIds, j \in Periods :
       /\ mm.period[k][j].status = m.period[k][j].status
       /\ mm.period[k][j].end = m.period[k][j].end
       /\ mm.period[k][j].due = m.period[k][j].due
  /\ \A k \in NoteIds :
       /\ mm.note[k].periodsSettled = m.note[k].periodsSettled
       /\ mm.note[k].periodsMissed = m.note[k].periodsMissed
       /\ mm.note[k].servicingFeesPaid = m.note[k].servicingFeesPaid
       /\ mm.note[k].totalDistributed = m.note[k].totalDistributed
  /\ mm.originator.periodsSettled = m.originator.periodsSettled
  /\ mm.originator.periodsMissed = m.originator.periodsMissed
  /\ mm.borrower.periodsSettled = m.borrower.periodsSettled
  /\ mm.borrower.periodsMissed = m.borrower.periodsMissed
  /\ mm.borrower.periodsCured = m.borrower.periodsCured

\* It leaves what ended alone as well.
SameEnds(mm, m) ==
  /\ \A k \in NoteIds : mm.note[k].status = m.note[k].status
  /\ mm.originator.notesMatured = m.originator.notesMatured
  /\ mm.originator.notesDefaulted = m.originator.notesDefaulted
  /\ mm.borrower.notesMatured = m.borrower.notesMatured
  /\ mm.borrower.notesDefaulted = m.borrower.notesDefaulted

\* Defaulted.
DefaultOnRecord(mm, m, n, a) ==
  /\ mm \in RowsData
  /\ mm.period = m.period /\ mm.note = m.note /\ mm.originator = m.originator
  /\ mm.borrower = m.borrower /\ mm.agent = m.agent /\ mm.repayments = m.repayments
  /\ mm.actions = m.actions \cup {<<"Defaulted", n, NoRow, a>>}

LEMMA DefaultedRows ==
  ASSUME NEW m \in RowsData, NEW n \in NoteIds, NEW a \in Agents, NEW mm,
         mm = handleDefaulted(m, [event |-> "Defaulted", note |-> n, sender |-> a])
  PROVE  DefaultOnRecord(mm, m, n, a)
<1> DEFINE acts == m.actions \cup {<<"Defaulted", n, NoRow, a>>}
<1>1. mm = [m EXCEPT !.actions = acts]
  BY DEF handleDefaulted, RowsData
<1>2. acts \in SUBSET ActionData
  BY RowParts DEF ActionData, Kinds
<1> HIDE DEF acts
<1>3. mm \in RowsData
  BY <1>1, <1>2 DEF RowsData
<1>4. /\ mm.actions = acts
      /\ mm.period = m.period /\ mm.note = m.note /\ mm.originator = m.originator
      /\ mm.borrower = m.borrower /\ mm.agent = m.agent /\ mm.repayments = m.repayments
  BY <1>1 DEF RowsData
<1> QED BY <1>3, <1>4 DEF acts, DefaultOnRecord

\* DelegationSet and DelegationRevoked.
DelegatedTo(mm, m, n, a) ==
  /\ SameCounts(mm, m) /\ SameEnds(mm, m)
  /\ mm.period = m.period /\ mm.actions = m.actions /\ mm.repayments = m.repayments
  /\ mm.note[n].agent = a
  /\ \A k \in NoteIds : k # n => mm.note[k].agent = m.note[k].agent
  /\ \A k \in NoteIds : mm.note[k].totalRepaid = m.note[k].totalRepaid

LEMMA AgentWritten ==
  ASSUME NEW m \in RowsData, NEW n \in NoteIds, NEW a \in Agents \cup {NoAgent},
         NEW mm \in RowsData, NEW nr,
         nr = [m.note[n] EXCEPT !.agent = a],
         mm.note[n] = nr, \A k \in NoteIds : k # n => mm.note[k] = m.note[k],
         mm.period = m.period, mm.originator = m.originator, mm.borrower = m.borrower,
         mm.actions = m.actions, mm.repayments = m.repayments
  PROVE  DelegatedTo(mm, m, n, a)
<1> DEFINE nw == m.note[n]
<1>1. nw \in NoteData /\ nr = [nw EXCEPT !.agent = a]
  BY RowData
<1>2. /\ nr.agent = a /\ nr.status = nw.status
      /\ nr.periodsSettled = nw.periodsSettled /\ nr.periodsMissed = nw.periodsMissed
      /\ nr.totalRepaid = nw.totalRepaid /\ nr.totalDistributed = nw.totalDistributed
      /\ nr.servicingFeesPaid = nw.servicingFeesPaid
  <2> HIDE DEF nw
  <2> QED BY <1>1 DEF NoteData
<1>3. /\ \A k \in NoteIds :
           /\ mm.note[k].status = m.note[k].status
           /\ mm.note[k].periodsSettled = m.note[k].periodsSettled
           /\ mm.note[k].periodsMissed = m.note[k].periodsMissed
           /\ mm.note[k].servicingFeesPaid = m.note[k].servicingFeesPaid
           /\ mm.note[k].totalDistributed = m.note[k].totalDistributed
           /\ mm.note[k].totalRepaid = m.note[k].totalRepaid
      /\ mm.note[n].agent = a
  BY <1>2 DEF nw
<1> QED BY <1>3 DEF SameCounts, SameEnds, DelegatedTo

WithAgent(m, n, a, ag) ==
  [m EXCEPT !.note = [m.note EXCEPT ![n] = [m.note[n] EXCEPT !.agent = a]], !.agent = ag]

LEMMA AgentRows ==
  ASSUME NEW m \in RowsData, NEW n \in NoteIds, NEW a \in Agents \cup {NoAgent},
         NEW ag \in [Agents -> AgentData \cup {NoRow}]
  PROVE  DelegatedTo(WithAgent(m, n, a, ag), m, n, a) /\ WithAgent(m, n, a, ag).agent = ag
<1> DEFINE mm == WithAgent(m, n, a, ag)
           nr == [m.note[n] EXCEPT !.agent = a]
           nt == [m.note EXCEPT ![n] = nr]
<1>1. nr \in NoteData
  BY RowData DEF NoteData
<1>2. mm = [m EXCEPT !.note = nt, !.agent = ag]
  BY DEF WithAgent
<1> HIDE DEF mm
<1>3. nr = [m.note[n] EXCEPT !.agent = a]
  OBVIOUS
<1> HIDE DEF nr
<1>4. /\ nt \in [NoteIds -> NoteData] /\ nt[n] = nr
      /\ \A k \in NoteIds : k # n => nt[k] = m.note[k]
  BY <1>1, NoteWritten, Zenon
<1> HIDE DEF nt
<1>5. mm \in RowsData
  BY <1>2, <1>4 DEF RowsData
<1>6. /\ mm.note = nt /\ mm.agent = ag
      /\ mm.period = m.period /\ mm.originator = m.originator /\ mm.borrower = m.borrower
      /\ mm.actions = m.actions /\ mm.repayments = m.repayments
  BY <1>2 DEF RowsData
<1>7. mm.note[n] = nr /\ \A k \in NoteIds : k # n => mm.note[k] = m.note[k]
  BY <1>4, <1>6
<1>8. DelegatedTo(mm, m, n, a) /\ mm.agent = ag
  BY <1>3, <1>5, <1>6, <1>7, AgentWritten, Zenon
<1> QED BY <1>8 DEF mm

LEMMA DelegationRows ==
  ASSUME NEW m \in RowsData, NEW n \in NoteIds, NEW a \in Agents, NEW mm,
         mm = handleDelegationSet(m, [event |-> "DelegationSet", note |-> n, agent |-> a])
  PROVE  /\ DelegatedTo(mm, m, n, a)
         /\ \A b \in Agents : b # a => mm.agent[b] = m.agent[b]
         /\ mm.agent[a] # NoRow
         /\ mm.agent[a].actionsTaken = RowOf(m, a).actionsTaken
         /\ mm.agent[a].feesEarned = RowOf(m, a).feesEarned
<1> DEFINE was == m.agent
           own == RowOf(m, a)
           x == own.notesServiced + 1
           row == [own EXCEPT !.notesServiced = x]
           ag == [was EXCEPT ![a] = row]
<1>1. was \in [Agents -> AgentData \cup {NoRow}] /\ NoRow \notin AgentData
  BY RowParts, SubgraphAssumption DEF AgentData
<1>2. own \in AgentData
  BY <1>1 DEF RowOf, AgentRow, AgentData
<1>3. x \in Nat
  BY <1>2 DEF AgentData
<1>4. mm = WithAgent(m, n, a, ag)
  <2>1. row = [own EXCEPT !.notesServiced = @ + 1]
    BY <1>2 DEF AgentData
  <2> HIDE DEF row
  <2>2. mm = [m EXCEPT !.note[n].agent = a, !.agent[a] = row]
    BY <2>1, Zenon DEF handleDelegationSet, own
  <2> QED BY <2>2 DEF WithAgent, RowsData
<1> HIDE DEF own, x
<1>5. /\ row \in AgentData /\ row # NoRow
      /\ row.actionsTaken = own.actionsTaken /\ row.feesEarned = own.feesEarned
  BY <1>1, <1>2, <1>3 DEF AgentData
<1> HIDE DEF row
<1>6. /\ ag \in [Agents -> AgentData \cup {NoRow}] /\ ag[a] = row
      /\ \A b \in Agents : b # a => ag[b] = was[b]
  BY <1>1, <1>5
<1> HIDE DEF ag
<1>7. a \in Agents \cup {NoAgent}
  OBVIOUS
<1>8. DelegatedTo(mm, m, n, a) /\ mm.agent = ag
  BY <1>4, <1>6, <1>7, AgentRows
<1> QED BY <1>5, <1>6, <1>8, Zenon DEF own

LEMMA RevokedRows ==
  ASSUME NEW m \in RowsData, NEW n \in NoteIds, NEW mm,
         mm = handleDelegationRevoked(m, [event |-> "DelegationRevoked", note |-> n])
  PROVE  /\ DelegatedTo(mm, m, n, NoAgent)
         /\ mm.agent = m.agent
<1>1. mm = WithAgent(m, n, NoAgent, m.agent)
  <2>1. mm = [m EXCEPT !.note[n].agent = NoAgent]
    BY Zenon DEF handleDelegationRevoked
  <2> QED BY <2>1 DEF WithAgent, RowsData
<1>2. m.agent \in [Agents -> AgentData \cup {NoRow}] /\ NoAgent \in Agents \cup {NoAgent}
  BY RowParts
<1> QED BY <1>1, <1>2, AgentRows

\* PaymentRecorded.
PaidTo(mm, m, n, i, x) ==
  /\ SameCounts(mm, m) /\ SameEnds(mm, m)
  /\ mm.note = m.note /\ mm.agent = m.agent
  /\ mm.actions = m.actions /\ mm.repayments = m.repayments
  /\ mm.period[n][i].paid = x
  /\ \A k \in NoteIds, j \in Periods :
       k # n \/ j # i => mm.period[k][j].paid = m.period[k][j].paid

LEMMA PaidRows ==
  ASSUME NEW m \in RowsData, NEW n \in NoteIds, NEW i \in Periods, NEW amount,
         NEW x \in Nat, NEW mm,
         mm = handlePaymentRecorded(m, [event |-> "PaymentRecorded", note |-> n, period |-> i,
                                        amount |-> amount, periodPaid |-> x])
  PROVE  PaidTo(mm, m, n, i, x)
<1> DEFINE all == m.period
           pw == all[n][i]
           pr == [pw EXCEPT !.paid = x]
           ps == [all EXCEPT ![n][i] = pr]
<1>1. mm = [m EXCEPT !.period = ps]
  <2>1. all \in [NoteIds -> [Periods -> PeriodData]]
    BY RowParts
  <2>2. mm = [m EXCEPT !.period[n][i].paid = x]
    BY Zenon DEF handlePaymentRecorded
  <2> QED BY <2>1, <2>2 DEF RowsData
<1>2. all \in [NoteIds -> [Periods -> PeriodData]] /\ pw \in PeriodData
  BY RowParts, RowData
<1>3. /\ pr \in PeriodData /\ pr.paid = x
      /\ pr.status = pw.status /\ pr.end = pw.end /\ pr.due = pw.due
  <2> HIDE DEF pw
  <2> QED BY <1>2 DEF PeriodData
<1> HIDE DEF pr, all
<1>4. /\ ps \in [NoteIds -> [Periods -> PeriodData]] /\ ps[n][i] = pr
      /\ \A k \in NoteIds, j \in Periods : k # n \/ j # i => ps[k][j] = all[k][j]
  BY <1>2, <1>3
<1> HIDE DEF ps
<1>5. mm \in RowsData
  BY <1>1, <1>4 DEF RowsData
<1>6. /\ mm.period = ps
      /\ mm.note = m.note /\ mm.originator = m.originator /\ mm.borrower = m.borrower
      /\ mm.agent = m.agent /\ mm.actions = m.actions /\ mm.repayments = m.repayments
  BY <1>1 DEF RowsData
<1>7. \A k \in NoteIds, j \in Periods :
        /\ ps[k][j].status = all[k][j].status
        /\ ps[k][j].end = all[k][j].end
        /\ ps[k][j].due = all[k][j].due
        /\ k # n \/ j # i => ps[k][j].paid = all[k][j].paid
  BY <1>3, <1>4 DEF pw
<1>8. mm.period[n][i].paid = x
  BY <1>3, <1>4, <1>6
<1> QED BY <1>5, <1>6, <1>7, <1>8, Zenon DEF PaidTo, SameCounts, SameEnds, all

\* Repaid and Collected.
RepaidBy(mm, m, n, amount, row) ==
  /\ SameCounts(mm, m) /\ SameEnds(mm, m)
  /\ mm.period = m.period /\ mm.agent = m.agent /\ mm.actions = m.actions
  /\ \A k \in NoteIds : mm.note[k].agent = m.note[k].agent
  /\ mm.note[n].totalRepaid = m.note[n].totalRepaid + amount
  /\ \A k \in NoteIds : k # n => mm.note[k].totalRepaid = m.note[k].totalRepaid
  /\ mm.repayments = Append(m.repayments, row)

LEMMA RepaidRows ==
  ASSUME NEW m \in RowsData, NEW n \in NoteIds, NEW i \in Periods, NEW payer \in Payers,
         NEW amount \in Nat, NEW tx \in Nat, NEW mm,
         mm = handleRepaid(m, [event |-> "Repaid", note |-> n, period |-> i, payer |-> payer,
                               amount |-> amount, tx |-> tx])
  PROVE  RepaidBy(mm, m, n, amount,
                  [note |-> n, period |-> i, payer |-> payer, collected |-> FALSE, tx |-> tx])
<1> DEFINE row == [note |-> n, period |-> i, payer |-> payer, collected |-> FALSE, tx |-> tx]
           more == Append(m.repayments, row)
           self == Count(payer = Originator /\ m.period[n][i].status = "Missed")
           nw == m.note[n]
           nt == nw.totalRepaid + amount
           nr == [nw EXCEPT !.totalRepaid = nt]
           ns == [m.note EXCEPT ![n] = nr]
           bw == m.borrower
           bt == bw.principalRepaid + amount
           bor == [bw EXCEPT !.principalRepaid = bt]
           ow == m.originator
           ot == ow.periodsCuredBySelf + self
           org == [ow EXCEPT !.periodsCuredBySelf = ot]
<1>1. mm = [m EXCEPT !.repayments = more, !.note = ns, !.borrower = bor, !.originator = org]
  <2>1. m.note \in [NoteIds -> NoteData]
    BY RowParts
  <2>2. mm = [m EXCEPT !.repayments = Append(@, row), !.note[n].totalRepaid = @ + amount,
                       !.borrower.principalRepaid = @ + amount,
                       !.originator.periodsCuredBySelf = @ + self]
    BY Zenon DEF handleRepaid, row, self
  <2> HIDE DEF row, self
  <2> QED BY <2>2 DEF RowsData
<1>2. self \in Nat
  BY CountIsNat
<1> HIDE DEF self
<1>3. more \in Seq(RepaymentData)
  <2>1. row \in RepaymentData /\ m.repayments \in Seq(RepaymentData)
    BY RowParts DEF RepaymentData
  <2> HIDE DEF row
  <2> QED BY <2>1
<1>4. /\ nr \in NoteData /\ nr.status = nw.status /\ nr.agent = nw.agent
      /\ nr.totalRepaid = nt /\ nr.periodsMissed = nw.periodsMissed
      /\ nr.periodsSettled = nw.periodsSettled /\ nr.totalDistributed = nw.totalDistributed
      /\ nr.servicingFeesPaid = nw.servicingFeesPaid
  <2>1. nw \in NoteData
    BY RowData
  <2> HIDE DEF nw
  <2>2. nt \in Nat
    BY <2>1 DEF NoteData
  <2> HIDE DEF nt
  <2> QED BY <2>1, <2>2 DEF NoteData
<1>5. /\ org \in OriginatorData /\ org.periodsMissed = ow.periodsMissed
      /\ org.periodsSettled = ow.periodsSettled /\ org.notesMatured = ow.notesMatured
      /\ org.notesDefaulted = ow.notesDefaulted
  <2>1. ow \in OriginatorData
    BY RowParts
  <2> HIDE DEF ow
  <2>2. ot \in Nat
    BY <1>2, <2>1 DEF OriginatorData
  <2> HIDE DEF ot
  <2> QED BY <2>1, <2>2 DEF OriginatorData
<1>6. /\ bor \in BorrowerData /\ bor.periodsMissed = bw.periodsMissed
      /\ bor.periodsSettled = bw.periodsSettled /\ bor.periodsCured = bw.periodsCured
      /\ bor.notesMatured = bw.notesMatured /\ bor.notesDefaulted = bw.notesDefaulted
  <2>1. bw \in BorrowerData
    BY RowParts
  <2> HIDE DEF bw
  <2>2. bt \in Nat
    BY <2>1 DEF BorrowerData
  <2> HIDE DEF bt
  <2> QED BY <2>1, <2>2 DEF BorrowerData
<1> HIDE DEF nr, org, bor, more
<1>7. /\ ns \in [NoteIds -> NoteData] /\ ns[n] = nr
      /\ \A k \in NoteIds : k # n => ns[k] = m.note[k]
  BY <1>4, NoteWritten, Zenon
<1> HIDE DEF ns
<1>8. mm \in RowsData
  BY <1>1, <1>3, <1>5, <1>6, <1>7 DEF RowsData
<1>9. /\ mm.repayments = more /\ mm.note = ns /\ mm.originator = org /\ mm.borrower = bor
      /\ mm.period = m.period /\ mm.agent = m.agent /\ mm.actions = m.actions
  BY <1>1 DEF RowsData
<1>10. /\ \A k \in NoteIds :
            /\ mm.note[k].status = m.note[k].status
            /\ mm.note[k].agent = m.note[k].agent
            /\ mm.note[k].periodsSettled = m.note[k].periodsSettled
            /\ mm.note[k].periodsMissed = m.note[k].periodsMissed
            /\ mm.note[k].servicingFeesPaid = m.note[k].servicingFeesPaid
            /\ mm.note[k].totalDistributed = m.note[k].totalDistributed
            /\ k # n => mm.note[k].totalRepaid = m.note[k].totalRepaid
       /\ mm.note[n].totalRepaid = nt
  BY <1>4, <1>7, <1>9 DEF nw
<1>11. SameCounts(mm, m) /\ SameEnds(mm, m)
  BY <1>5, <1>6, <1>8, <1>9, <1>10 DEF SameCounts, SameEnds, ow, bw
<1> QED BY <1>9, <1>10, <1>11, Zenon DEF RepaidBy, more, row, nt, nw

CollectedAs(mm, m, n, i, tx) ==
  /\ mm \in RowsData
  /\ mm.period = m.period /\ mm.note = m.note /\ mm.originator = m.originator
  /\ mm.borrower = m.borrower /\ mm.agent = m.agent /\ mm.actions = m.actions
  /\ Len(mm.repayments) = Len(m.repayments)
  /\ \A k \in DOMAIN m.repayments :
       LET was == m.repayments[k]
       IN  mm.repayments[k] = IF was.tx = tx /\ was.note = n /\ was.period = i
                              THEN [was EXCEPT !.collected = TRUE] ELSE was

LEMMA CollectedRows ==
  ASSUME NEW m \in RowsData, NEW n \in NoteIds, NEW i \in Periods, NEW tx \in Nat, NEW mm,
         mm = handleCollected(m, [event |-> "Collected", note |-> n, period |-> i, tx |-> tx])
  PROVE  CollectedAs(mm, m, n, i, tx)
<1> DEFINE old == m.repayments
           one(k) == IF old[k].tx = tx /\ old[k].note = n /\ old[k].period = i
                     THEN [old[k] EXCEPT !.collected = TRUE] ELSE old[k]
           new == [k \in DOMAIN old |-> one(k)]
<1>1. mm = [m EXCEPT !.repayments = new]
  BY DEF handleCollected, RowsData
<1>2. /\ old \in Seq(RepaymentData) /\ Len(old) \in Nat /\ DOMAIN old = 1..Len(old)
      /\ \A k \in DOMAIN old : old[k] \in RepaymentData
  BY RowParts
<1> HIDE DEF old
<1>3. \A k \in DOMAIN old : one(k) \in RepaymentData
  BY <1>2 DEF RepaymentData
<1> HIDE DEF one
<1>4. new \in Seq(RepaymentData) /\ Len(new) = Len(old) /\ \A k \in DOMAIN old : new[k] = one(k)
  BY <1>2, <1>3
<1> HIDE DEF new
<1>5. mm \in RowsData
  BY <1>1, <1>4 DEF RowsData
<1>6. /\ mm.repayments = new
      /\ mm.period = m.period /\ mm.note = m.note /\ mm.originator = m.originator
      /\ mm.borrower = m.borrower /\ mm.agent = m.agent /\ mm.actions = m.actions
  BY <1>1 DEF RowsData
<1> QED BY <1>4, <1>5, <1>6, Zenon DEF CollectedAs, one, old

----------------------------------------------------------------------------
\* Counting rows and actions.

\* One element comes or goes.
LEMMA OneMoves ==
  ASSUME NEW T, NEW U, NEW x, IsFiniteSet(T), \A y : y # x => (y \in U <=> y \in T)
  PROVE  /\ IsFiniteSet(U) /\ Cardinality(U) \in Nat /\ Cardinality(T) \in Nat
         /\ Cardinality(U) = Cardinality(T) + Count(x \in U) - Count(x \in T)
<1>1. Cardinality(T) \in Nat
  BY FS_CardinalityType
<1>2. CASE x \in U
  <2>1. U = T \cup {x}
    BY <1>2
  <2>2. /\ IsFiniteSet(U)
        /\ Cardinality(U) = IF x \in T THEN Cardinality(T) ELSE Cardinality(T) + 1
    BY <2>1, FS_AddElement, Zenon
  <2>3. Count(x \in U) = 1 /\ Count(x \in T) = IF x \in T THEN 1 ELSE 0
    BY <1>2 DEF Count
  <2> QED BY <1>1, <2>2, <2>3
<1>3. CASE x \notin U
  <2>1. U = T \ {x}
    BY <1>3
  <2>2. /\ IsFiniteSet(U)
        /\ Cardinality(U) = IF x \in T THEN Cardinality(T) - 1 ELSE Cardinality(T)
    BY <2>1, FS_RemoveElement, Zenon
  <2>3. Count(x \in U) = 0 /\ Count(x \in T) = IF x \in T THEN 1 ELSE 0
    BY <1>3 DEF Count
  <2>4. Cardinality(U) \in Nat
    BY <2>2, FS_CardinalityType
  <2> QED BY <1>1, <2>2, <2>3, <2>4
<1> QED BY <1>2, <1>3

LEMMA RowSets ==
  ASSUME NEW m, NEW S
  PROVE  /\ IsFiniteSet(Rows(m, S)) /\ Cardinality(Rows(m, S)) \in Nat
         /\ \A n \in NoteIds :
              IsFiniteSet(RowsOf(m, n, S)) /\ Cardinality(RowsOf(m, n, S)) \in Nat
         /\ \A s : IsFiniteSet(NotesIn(m, s)) /\ Cardinality(NotesIn(m, s)) \in Nat
<1>1. IsFiniteSet(NoteIds) /\ IsFiniteSet(Periods)
  BY SubgraphAssumption, PeriodSets
<1>2. IsFiniteSet(NoteIds \X Periods)
  BY <1>1, FS_Product, Zenon
<1>3. Rows(m, S) \in SUBSET (NoteIds \X Periods)
  BY DEF Rows
<1>4. IsFiniteSet(Rows(m, S))
  BY <1>2, <1>3, FS_Subset, Zenon
<1>5. ASSUME NEW n \in NoteIds PROVE IsFiniteSet(RowsOf(m, n, S))
  <2>1. RowsOf(m, n, S) \in SUBSET Periods
    BY DEF RowsOf
  <2> QED BY <1>1, <2>1, FS_Subset, Zenon
<1>6. ASSUME NEW s PROVE IsFiniteSet(NotesIn(m, s))
  <2>1. NotesIn(m, s) \in SUBSET NoteIds
    BY DEF NotesIn
  <2> QED BY <1>1, <2>1, FS_Subset, Zenon
<1> QED BY <1>4, <1>5, <1>6, FS_CardinalityType, Zenon

\* The status of one period's row changes: the rows in S, all of them and of
\* its note.
OneRowMoves(mm, m, n, i) ==
  \A k \in NoteIds, j \in Periods :
    k # n \/ j # i => mm.period[k][j].status = m.period[k][j].status

Gain(mm, m, n, i, S) ==
  Count(mm.period[n][i].status \in S) - Count(m.period[n][i].status \in S)

LEMMA RowsMove ==
  ASSUME NEW m, NEW mm, NEW n \in NoteIds, NEW i \in Periods, NEW S,
         OneRowMoves(mm, m, n, i)
  PROVE  /\ Cardinality(Rows(mm, S)) = Cardinality(Rows(m, S)) + Gain(mm, m, n, i, S)
         /\ Cardinality(RowsOf(mm, n, S)) = Cardinality(RowsOf(m, n, S)) + Gain(mm, m, n, i, S)
         /\ \A k \in NoteIds : k # n => RowsOf(mm, k, S) = RowsOf(m, k, S)
<1>1. \A y : y # <<n, i>> => (y \in Rows(mm, S) <=> y \in Rows(m, S))
  <2> SUFFICES ASSUME NEW y \in NoteIds \X Periods, y # <<n, i>>
               PROVE  y \in Rows(mm, S) <=> y \in Rows(m, S)
    BY DEF Rows
  <2>1. y[1] # n \/ y[2] # i
    OBVIOUS
  <2> QED BY <2>1 DEF Rows, OneRowMoves
<1>2. /\ <<n, i>> \in Rows(mm, S) <=> mm.period[n][i].status \in S
      /\ <<n, i>> \in Rows(m, S) <=> m.period[n][i].status \in S
  BY DEF Rows
<1>3. Cardinality(Rows(mm, S)) = Cardinality(Rows(m, S))
        + Count(<<n, i>> \in Rows(mm, S)) - Count(<<n, i>> \in Rows(m, S))
  BY <1>1, RowSets, OneMoves
<1>4. \A y : y # i => (y \in RowsOf(mm, n, S) <=> y \in RowsOf(m, n, S))
  BY DEF RowsOf, OneRowMoves
<1>5. /\ i \in RowsOf(mm, n, S) <=> mm.period[n][i].status \in S
      /\ i \in RowsOf(m, n, S) <=> m.period[n][i].status \in S
  BY DEF RowsOf
<1>6. Cardinality(RowsOf(mm, n, S)) = Cardinality(RowsOf(m, n, S))
        + Count(i \in RowsOf(mm, n, S)) - Count(i \in RowsOf(m, n, S))
  BY <1>4, RowSets, OneMoves
<1>7. \A k \in NoteIds : k # n => RowsOf(mm, k, S) = RowsOf(m, k, S)
  BY DEF RowsOf, OneRowMoves
<1>8. \A b : Count(b) \in Nat
  BY CountIsNat
<1> QED BY <1>2, <1>3, <1>5, <1>6, <1>7, <1>8, RowSets DEF Gain

\* An agent on a note has a row; an action on record is borne out by the rows.
Registered(m) ==
  \A n \in NoteIds : m.note[n].agent # NoAgent => m.agent[m.note[n].agent] # NoRow
PeriodActionsTrue(m) ==
  \A n \in NoteIds, i \in Periods, a \in Agents :
    /\ <<"Settled", n, i, a>> \in m.actions => m.period[n][i].status \in Done
    /\ <<"MarkedDelinquent", n, i, a>> \in m.actions =>
         m.period[n][i].status \in {"Missed", "Cured"}
DefaultsTrue(m) ==
  \A n \in NoteIds, x \in Periods \cup {NoRow}, a \in Agents :
    <<"Defaulted", n, x, a>> \in m.actions => m.note[n].status = "Defaulted"
PeriodActionsRecounted(m) ==
  /\ Cardinality(Actions(m, "Settled")) = Cardinality(Rows(m, Done))
  /\ Cardinality(Actions(m, "MarkedDelinquent")) = Cardinality(Rows(m, {"Missed", "Cured"}))
DefaultsRecounted(m) ==
  Cardinality(Actions(m, "Defaulted")) = Cardinality(NotesIn(m, "Defaulted"))

Counted(m) ==
  /\ m \in RowsData
  /\ IsFiniteSet(m.actions)
  /\ PeriodActionsTrue(m)
  /\ PartiesRecounted(m)
  /\ NotesRecounted(m)
  /\ AgentsRecounted(m)
  /\ PeriodActionsRecounted(m)
EndsCounted(m) ==
  /\ EndsRecounted(m)
  /\ DefaultsTrue(m)
  /\ DefaultsRecounted(m)

\* What leaves the counters alone leaves them right.
LEMMA CountedWith ==
  ASSUME NEW m, Counted(m), NEW mm, SameCounts(mm, m),
         AgentsRecounted(mm), mm.actions = m.actions
  PROVE  Counted(mm)
<1>1. /\ \A S : Rows(mm, S) = Rows(m, S)
      /\ \A n \in NoteIds : \A S : RowsOf(mm, n, S) = RowsOf(m, n, S)
      /\ \A kind : Actions(mm, kind) = Actions(m, kind)
  BY DEF SameCounts, Rows, RowsOf, Actions
<1>2. PeriodActionsTrue(mm)
  BY DEF Counted, SameCounts, PeriodActionsTrue
<1>3. PartiesRecounted(mm)
  BY <1>1 DEF Counted, SameCounts, PartiesRecounted
<1>4. NotesRecounted(mm)
  <2>1. \A n \in NoteIds :
          [i \in Periods |-> Fee(i) * Count(mm.period[n][i].status \in Done)]
            = [i \in Periods |-> Fee(i) * Count(m.period[n][i].status \in Done)]
    BY DEF SameCounts
  <2> QED BY <1>1, <2>1 DEF Counted, SameCounts, NotesRecounted
<1>6. PeriodActionsRecounted(mm)
  BY <1>1 DEF Counted, PeriodActionsRecounted
<1> QED BY <1>2, <1>3, <1>4, <1>6 DEF Counted, SameCounts

LEMMA CountedKept ==
  ASSUME NEW m, Counted(m), NEW mm, SameCounts(mm, m),
         mm.agent = m.agent, mm.actions = m.actions
  PROVE  Counted(mm)
<1>1. AgentsRecounted(mm)
  BY DEF Counted, AgentsRecounted
<1> QED BY <1>1, CountedWith

LEMMA EndsKept ==
  ASSUME NEW m, EndsCounted(m), NEW mm, SameEnds(mm, m),
         Actions(mm, "Defaulted") = Actions(m, "Defaulted")
  PROVE  EndsCounted(mm)
<1>1. \A s : NotesIn(mm, s) = NotesIn(m, s)
  BY DEF SameEnds, NotesIn
<1>2. EndsRecounted(mm)
  BY <1>1 DEF SameEnds, EndsCounted, EndsRecounted
<1>3. DefaultsTrue(mm)
  <2> SUFFICES ASSUME NEW n \in NoteIds, NEW x \in Periods \cup {NoRow}, NEW a \in Agents,
                      <<"Defaulted", n, x, a>> \in mm.actions
               PROVE  mm.note[n].status = "Defaulted"
    BY DEF DefaultsTrue
  <2>1. <<"Defaulted", n, x, a>> \in Actions(m, "Defaulted")
    BY DEF Actions
  <2> QED BY <2>1 DEF Actions, EndsCounted, DefaultsTrue, SameEnds
<1> QED BY <1>1, <1>2, <1>3 DEF EndsCounted, DefaultsRecounted

\* An action on a period that has its status for the first time: nobody has
\* acted on it that way, and the counters follow.
TakenOnce(m, kind, n, i, to, fee) ==
  LET was == m.period[n][i].status
  IN  \/ /\ kind = "Settled" /\ was \notin Done
         /\ to = (IF was = "Missed" THEN "Cured" ELSE "Settled")
         /\ fee = Fee(i)
      \/ /\ kind = "MarkedDelinquent" /\ was = "Pending"
         /\ to = "Missed" /\ fee = 0

LEMMA ActionIsNew ==
  ASSUME NEW m, Counted(m), NEW n \in NoteIds, NEW i \in Periods, NEW a \in Agents,
         NEW kind, NEW to, NEW fee, TakenOnce(m, kind, n, i, to, fee),
         NEW out, NEW mm, ActedOn(mm, m, kind, n, i, a, to, fee, out)
  PROVE  /\ \A b \in Agents : <<kind, n, i, b>> \notin m.actions
         /\ PeriodActionsTrue(mm)
<1>1. PeriodActionsTrue(m)
  BY DEF Counted
<1>2. \A b \in Agents : <<kind, n, i, b>> \notin m.actions
  BY <1>1 DEF PeriodActionsTrue, TakenOnce
<1>3. ASSUME NEW k \in NoteIds, NEW j \in Periods, NEW b \in Agents
      PROVE  /\ <<"Settled", k, j, b>> \in mm.actions => mm.period[k][j].status \in Done
             /\ <<"MarkedDelinquent", k, j, b>> \in mm.actions =>
                  mm.period[k][j].status \in {"Missed", "Cured"}
  <2>1. mm.actions = m.actions \cup {<<kind, n, i, a>>}
    BY DEF ActedOn
  <2>2. CASE k # n \/ j # i
    <3>1. mm.period[k][j].status = m.period[k][j].status
      BY <2>2 DEF ActedOn
    <3>2. \A x : <<x, k, j, b>> \in mm.actions => <<x, k, j, b>> \in m.actions
      BY <2>1, <2>2
    <3> QED BY <1>1, <3>1, <3>2 DEF PeriodActionsTrue
  <2>3. CASE k = n /\ j = i
    <3>1. mm.period[k][j].status = to
      BY <2>3 DEF ActedOn
    <3>2. \A x : <<x, k, j, b>> \in mm.actions => <<x, n, i, b>> \in m.actions \/ x = kind
      BY <2>1, <2>3
    <3>3. CASE kind = "Settled"
      <4>1. to \in Done /\ (m.period[n][i].status = "Missed" => to = "Cured")
        BY <3>3 DEF TakenOnce, Done
      <4>2. m.period[n][i].status \notin Done
        BY <3>3 DEF TakenOnce
      <4> QED BY <1>1, <3>1, <3>2, <3>3, <4>1, <4>2 DEF PeriodActionsTrue, Done
    <3>4. CASE kind = "MarkedDelinquent"
      <4>1. to = "Missed" /\ m.period[n][i].status = "Pending"
        BY <3>4 DEF TakenOnce
      <4> QED BY <1>1, <3>1, <3>2, <3>4, <4>1 DEF PeriodActionsTrue, Done
    <3> QED BY <3>3, <3>4 DEF TakenOnce
  <2> QED BY <2>2, <2>3
<1> QED BY <1>2, <1>3 DEF PeriodActionsTrue

\* How the numbers of rows by status move.
LEMMA TakenCounts ==
  ASSUME NEW m, NEW n \in NoteIds, NEW i \in Periods,
         NEW kind, NEW to, NEW fee, TakenOnce(m, kind, n, i, to, fee)
  PROVE  LET was == m.period[n][i].status
         IN  /\ Count(to \in Done) - Count(was \in Done) = Count(kind = "Settled")
             /\ Count(to \in {"Missed", "Cured"}) - Count(was \in {"Missed", "Cured"})
                  = Count(kind # "Settled")
             /\ Count(to \in {"Cured"}) - Count(was \in {"Cured"}) = Count(to = "Cured")
<1> DEFINE was == m.period[n][i].status
<1>1. \/ kind = "Settled" /\ was = "Missed" /\ to = "Cured"
      \/ kind = "Settled" /\ was \notin {"Missed", "Cured", "Settled"} /\ to = "Settled"
      \/ kind = "MarkedDelinquent" /\ was = "Pending" /\ to = "Missed"
  BY DEF TakenOnce, Done
<1> HIDE DEF was
<1>2. /\ Count(to \in Done) - Count(was \in Done) = Count(kind = "Settled")
      /\ Count(to \in {"Missed", "Cured"}) - Count(was \in {"Missed", "Cured"})
           = Count(kind # "Settled")
      /\ Count(to \in {"Cured"}) - Count(was \in {"Cured"}) = Count(to = "Cured")
  BY <1>1 DEF Done, Count
<1> QED BY <1>2 DEF was

LEMMA ActionRecounts ==
  ASSUME NEW m, Counted(m), NEW n \in NoteIds, NEW i \in Periods, NEW a \in Agents,
         NEW kind, NEW to, NEW fee, TakenOnce(m, kind, n, i, to, fee),
         NEW out, NEW mm, ActedOn(mm, m, kind, n, i, a, to, fee, out)
  PROVE  PartiesRecounted(mm) /\ NotesRecounted(mm) /\ PeriodActionsRecounted(mm)
<1> DEFINE was == m.period[n][i].status
           late == {"Missed", "Cured"}
           sn == Count(kind = "Settled")
           mn == Count(kind # "Settled")
           cn == Count(to = "Cured")
<1>1. /\ mm.period[n][i].status = to
      /\ \A k \in NoteIds, j \in Periods :
           k # n \/ j # i => mm.period[k][j].status = m.period[k][j].status
  BY DEF ActedOn
<1>11. OneRowMoves(mm, m, n, i)
  BY <1>1 DEF OneRowMoves
<1>2. /\ Count(to \in Done) - Count(was \in Done) = sn
      /\ Count(to \in late) - Count(was \in late) = mn
      /\ Count(to \in {"Cured"}) - Count(was \in {"Cured"}) = cn
  BY TakenCounts
<1>3. /\ sn \in Nat /\ mn \in Nat /\ cn \in Nat
      /\ \A b : Count(b) \in Nat
  BY CountIsNat
<1> HIDE DEF sn, mn, cn
<1>4. ASSUME NEW S, NEW x \in Nat, Count(to \in S) - Count(was \in S) = x
      PROVE  /\ Cardinality(Rows(mm, S)) = Cardinality(Rows(m, S)) + x
             /\ Cardinality(RowsOf(mm, n, S)) = Cardinality(RowsOf(m, n, S)) + x
             /\ \A k \in NoteIds : k # n => RowsOf(mm, k, S) = RowsOf(m, k, S)
  <2>1. /\ Cardinality(Rows(mm, S)) = Cardinality(Rows(m, S)) + Gain(mm, m, n, i, S)
        /\ Cardinality(RowsOf(mm, n, S)) = Cardinality(RowsOf(m, n, S)) + Gain(mm, m, n, i, S)
        /\ \A k \in NoteIds : k # n => RowsOf(mm, k, S) = RowsOf(m, k, S)
    BY <1>11, RowsMove
  <2>2. /\ Gain(mm, m, n, i, S) = x
        /\ Cardinality(Rows(m, S)) \in Nat /\ Cardinality(RowsOf(m, n, S)) \in Nat
    BY <1>1, <1>4, RowSets DEF Gain
  <2> QED BY <1>4, <2>1, <2>2
<1>5. /\ Cardinality(Rows(mm, Done)) = Cardinality(Rows(m, Done)) + sn
      /\ Cardinality(RowsOf(mm, n, Done)) = Cardinality(RowsOf(m, n, Done)) + sn
      /\ \A k \in NoteIds : k # n => RowsOf(mm, k, Done) = RowsOf(m, k, Done)
  BY <1>2, <1>3, <1>4
<1>6. /\ Cardinality(Rows(mm, late)) = Cardinality(Rows(m, late)) + mn
      /\ Cardinality(RowsOf(mm, n, late)) = Cardinality(RowsOf(m, n, late)) + mn
      /\ \A k \in NoteIds : k # n => RowsOf(mm, k, late) = RowsOf(m, k, late)
  BY <1>2, <1>3, <1>4
<1>7. Cardinality(Rows(mm, {"Cured"})) = Cardinality(Rows(m, {"Cured"})) + cn
  BY <1>2, <1>3, <1>4
<1>8. PartiesRecounted(mm)
  BY <1>5, <1>6, <1>7 DEF ActedOn, Counted, PartiesRecounted, sn, mn, cn
<1>9. NotesRecounted(mm)
  <2> DEFINE fees(x, k) == [j \in Periods |-> Fee(j) * Count(x.period[k][j].status \in Done)]
  <2>1. /\ mm.note[n].periodsSettled = m.note[n].periodsSettled + sn
        /\ mm.note[n].periodsMissed = m.note[n].periodsMissed + mn
        /\ mm.note[n].servicingFeesPaid = m.note[n].servicingFeesPaid + fee
        /\ \A k \in NoteIds : k # n => mm.note[k] = m.note[k]
    BY DEF ActedOn, sn, mn
  <2>2. \A k \in NoteIds :
          /\ m.note[k].periodsSettled = Cardinality(RowsOf(m, k, Done))
          /\ m.note[k].periodsMissed = Cardinality(RowsOf(m, k, late))
          /\ m.note[k].servicingFeesPaid = SumOf(fees(m, k))
    BY DEF Counted, NotesRecounted
  <2>3. SumOf(fees(mm, n)) = SumOf(fees(m, n)) + fee
    <3>1. \A j \in Periods : \A b : Fee(j) * Count(b) \in Int
      <4>1. \A j \in Periods : Fee(j) \in Nat
        BY FeeAndNet
      <4> QED BY <1>3, <4>1
    <3>2. fees(m, n) \in [Periods -> Int] /\ fees(mm, n) \in [Periods -> Int]
      BY <3>1
    <3>3. \A j \in Periods : j # i => fees(mm, n)[j] = fees(m, n)[j]
      BY <1>1
    <3>4. fee \in Int /\ fees(mm, n)[i] = fees(m, n)[i] + fee
      <4>1. Fee(i) \in Nat
        BY FeeAndNet
      <4>2. fees(mm, n)[i] = Fee(i) * Count(to \in Done) /\ fees(m, n)[i] = Fee(i) * Count(was \in Done)
        BY <1>1
      <4> HIDE DEF fees
      <4>3. CASE kind = "Settled"
        <5>1. Count(to \in Done) = 1 /\ Count(was \in Done) = 0 /\ fee = Fee(i)
          BY <4>3 DEF TakenOnce, Done, Count
        <5> HIDE DEF was
        <5>2. Fee(i) * Count(to \in Done) = Fee(i) /\ Fee(i) * Count(was \in Done) = 0
          BY <4>1, <5>1
        <5> QED BY <4>1, <4>2, <5>1, <5>2
      <4>4. CASE kind = "MarkedDelinquent"
        <5>1. Count(to \in Done) = 0 /\ Count(was \in Done) = 0 /\ fee = 0
          BY <4>4 DEF TakenOnce, Done, Count
        <5> HIDE DEF was
        <5>2. Fee(i) * Count(to \in Done) = 0 /\ Fee(i) * Count(was \in Done) = 0
          BY <4>1, <5>1
        <5> QED BY <4>2, <5>1, <5>2
      <4> QED BY <4>3, <4>4 DEF TakenOnce
    <3> HIDE DEF fees
    <3> QED BY <3>2, <3>3, <3>4, PeriodSumBump
  <2>4. \A k \in NoteIds : k # n => fees(mm, k) = fees(m, k)
    BY <1>1
  <2>5. ASSUME NEW k \in NoteIds
        PROVE  /\ mm.note[k].periodsSettled = Cardinality(RowsOf(mm, k, Done))
               /\ mm.note[k].periodsMissed = Cardinality(RowsOf(mm, k, late))
               /\ mm.note[k].servicingFeesPaid = SumOf(fees(mm, k))
    <3> HIDE DEF fees, late
    <3>1. CASE k = n
      BY <1>5, <1>6, <2>1, <2>2, <2>3, <3>1
    <3>2. CASE k # n
      BY <1>5, <1>6, <2>1, <2>2, <2>4, <3>2
    <3> QED BY <3>1, <3>2
  <2> QED BY <2>5 DEF NotesRecounted
<1>10. PeriodActionsRecounted(mm)
  <2> DEFINE x == <<kind, n, i, a>>
  <2>1. x \notin m.actions /\ mm.actions = m.actions \cup {x}
    <3>1. x \notin m.actions
      BY ActionIsNew, Zenon
    <3> QED BY <3>1 DEF ActedOn
  <2>2. x[1] = kind
    OBVIOUS
  <2> HIDE DEF x
  <2>3. ASSUME NEW name
        PROVE  /\ Cardinality(Actions(mm, name)) = Cardinality(Actions(m, name)) + Count(kind = name)
               /\ Cardinality(Actions(m, name)) \in Nat
    <3>1. Actions(m, name) \in SUBSET m.actions /\ IsFiniteSet(m.actions)
      BY DEF Actions, Counted
    <3>2. IsFiniteSet(Actions(m, name))
      BY <3>1, FS_Subset, Zenon
    <3>3. \A y : y # x => (y \in Actions(mm, name) <=> y \in Actions(m, name))
      BY <2>1 DEF Actions
    <3>4. (x \in Actions(mm, name) <=> kind = name) /\ x \notin Actions(m, name)
      BY <2>1, <2>2 DEF Actions
    <3>5. /\ Cardinality(Actions(mm, name)) = Cardinality(Actions(m, name))
               + Count(x \in Actions(mm, name)) - Count(x \in Actions(m, name))
          /\ Cardinality(Actions(m, name)) \in Nat
      BY <3>2, <3>3, OneMoves
    <3>6. Count(x \in Actions(mm, name)) = Count(kind = name) /\ Count(x \in Actions(m, name)) = 0
      BY <3>4 DEF Count
    <3> QED BY <1>3, <3>5, <3>6
  <2>4. Count(kind = "Settled") = sn /\ Count(kind = "MarkedDelinquent") = mn
    BY DEF TakenOnce, Count, sn, mn
  <2>5. /\ Cardinality(Actions(mm, "Settled")) = Cardinality(Actions(m, "Settled")) + sn
        /\ Cardinality(Actions(mm, "MarkedDelinquent"))
             = Cardinality(Actions(m, "MarkedDelinquent")) + mn
    BY <2>3, <2>4
  <2> QED BY <1>5, <1>6, <2>5 DEF Counted, PeriodActionsRecounted
<1> QED BY <1>8, <1>9, <1>10

\* What an agent has on record: its actions, and the notes it settled a period
\* of.
ActedBy(m, a) == {x \in m.actions : x[1] # "Defaulted" /\ x[4] = a}
SettledBy(m, i, a) == {n \in NoteIds : <<"Settled", n, i, a>> \in m.actions}
EarnedBy(m, a) == [i \in Periods |-> Fee(i) * Cardinality(SettledBy(m, i, a))]

LEMMA AgentsRecountedAs ==
  ASSUME NEW m
  PROVE  AgentsRecounted(m) <=>
           \A a \in Agents :
             IF m.agent[a] = NoRow THEN ActedBy(m, a) = {}
             ELSE /\ m.agent[a].actionsTaken = Cardinality(ActedBy(m, a))
                  /\ m.agent[a].feesEarned = SumOf(EarnedBy(m, a))
BY Zenon DEF AgentsRecounted, ActedBy, SettledBy, EarnedBy

LEMMA EarnedIsNat ==
  ASSUME NEW m, NEW a
  PROVE  /\ EarnedBy(m, a) \in [Periods -> Nat]
         /\ \A i \in Periods : /\ IsFiniteSet(SettledBy(m, i, a))
                               /\ Cardinality(SettledBy(m, i, a)) \in Nat
<1>1. \A i \in Periods : SettledBy(m, i, a) \in SUBSET NoteIds
  BY DEF SettledBy
<1>2. \A i \in Periods : IsFiniteSet(SettledBy(m, i, a))
  BY <1>1, SubgraphAssumption, FS_Subset, Zenon
<1>3. \A i \in Periods : Cardinality(SettledBy(m, i, a)) \in Nat
  BY <1>2, FS_CardinalityType, Zenon
<1>4. \A i \in Periods : Fee(i) \in Nat
  BY FeeAndNet
<1>5. \A i \in Periods : Fee(i) * Cardinality(SettledBy(m, i, a)) \in Nat
  BY <1>3, <1>4
<1> QED BY <1>2, <1>3, <1>5 DEF EarnedBy

LEMMA AgentEarns ==
  ASSUME NEW m, Counted(m), NEW n \in NoteIds, NEW i \in Periods, NEW a \in Agents,
         NEW kind, NEW to, NEW fee, TakenOnce(m, kind, n, i, to, fee),
         NEW out, NEW mm, ActedOn(mm, m, kind, n, i, a, to, fee, out)
  PROVE  SumOf(EarnedBy(mm, a)) = SumOf(EarnedBy(m, a)) + fee
<1>1. mm.actions = m.actions \cup {<<kind, n, i, a>>}
  BY DEF ActedOn
<1>2. <<kind, n, i, a>> \notin m.actions
  BY ActionIsNew, Zenon
<1>3. Fee(i) \in Nat /\ fee \in Int
  BY FeeAndNet DEF TakenOnce
<1>4. /\ EarnedBy(mm, a) \in [Periods -> Int] /\ EarnedBy(m, a) \in [Periods -> Int]
      /\ \A j \in Periods :
           /\ EarnedBy(mm, a)[j] = Fee(j) * Cardinality(SettledBy(mm, j, a))
           /\ EarnedBy(m, a)[j] = Fee(j) * Cardinality(SettledBy(m, j, a))
           /\ IsFiniteSet(SettledBy(m, j, a))
           /\ Cardinality(SettledBy(m, j, a)) \in Nat
  <2>1. EarnedBy(mm, a) \in [Periods -> Nat] /\ EarnedBy(m, a) \in [Periods -> Nat]
    BY EarnedIsNat, Zenon
  <2>2. \A j \in Periods : IsFiniteSet(SettledBy(m, j, a)) /\ Cardinality(SettledBy(m, j, a)) \in Nat
    BY EarnedIsNat, Zenon
  <2>3. \A j \in Periods :
           /\ EarnedBy(mm, a)[j] = Fee(j) * Cardinality(SettledBy(mm, j, a))
           /\ EarnedBy(m, a)[j] = Fee(j) * Cardinality(SettledBy(m, j, a))
    BY DEF EarnedBy
  <2> QED BY <2>1, <2>2, <2>3
<1>5. \A j \in Periods : j # i => SettledBy(mm, j, a) = SettledBy(m, j, a)
  BY <1>1 DEF SettledBy
<1>6. EarnedBy(mm, a)[i] = EarnedBy(m, a)[i] + fee
  <2>1. CASE kind = "Settled"
    <3>1. SettledBy(mm, i, a) = SettledBy(m, i, a) \cup {n} /\ n \notin SettledBy(m, i, a)
      BY <1>1, <1>2, <2>1 DEF SettledBy
    <3>2. Cardinality(SettledBy(mm, i, a)) = Cardinality(SettledBy(m, i, a)) + 1
      BY <1>4, <3>1, FS_AddElement
    <3> DEFINE c == Cardinality(SettledBy(m, i, a))
    <3>3. c \in Nat /\ fee = Fee(i)
      BY <1>4, <2>1 DEF TakenOnce
    <3>4. EarnedBy(mm, a)[i] = Fee(i) * (c + 1) /\ EarnedBy(m, a)[i] = Fee(i) * c
      BY <1>4, <3>2
    <3> HIDE DEF c
    <3>5. Fee(i) * (c + 1) = Fee(i) * c + Fee(i)
      BY <1>3, <3>3
    <3> QED BY <3>3, <3>4, <3>5
  <2>2. CASE kind = "MarkedDelinquent"
    <3>1. SettledBy(mm, i, a) = SettledBy(m, i, a) /\ fee = 0
      BY <1>1, <2>2 DEF SettledBy, TakenOnce
    <3> QED BY <1>4, <3>1
  <2> QED BY <2>1, <2>2 DEF TakenOnce
<1>7. \A j \in Periods : j # i => EarnedBy(mm, a)[j] = EarnedBy(m, a)[j]
  BY <1>4, <1>5
<1> QED BY <1>3, <1>4, <1>6, <1>7, PeriodSumBump

LEMMA ActionCounted ==
  ASSUME NEW m, Counted(m), NEW n \in NoteIds, NEW i \in Periods, NEW a \in Agents,
         m.agent[a] # NoRow,
         NEW kind, NEW to, NEW fee, TakenOnce(m, kind, n, i, to, fee),
         NEW out, NEW mm, ActedOn(mm, m, kind, n, i, a, to, fee, out)
  PROVE  Counted(mm)
<1> DEFINE x == <<kind, n, i, a>>
<1>1. /\ mm.actions = m.actions \cup {x} /\ mm \in RowsData /\ m \in RowsData
      /\ mm.agent = Acted(m, a, fee) /\ IsFiniteSet(m.actions)
  BY DEF ActedOn, Counted
<1>2. x \notin m.actions /\ PeriodActionsTrue(mm)
  BY ActionIsNew, Zenon
<1>3. x[1] # "Defaulted" /\ x[4] = a
  BY DEF TakenOnce
<1>4. fee \in Nat
  BY FeeAndNet DEF TakenOnce
<1>5. \A b \in Agents : b # a => ActedBy(mm, b) = ActedBy(m, b) /\ EarnedBy(mm, b) = EarnedBy(m, b)
  <2> SUFFICES ASSUME NEW b \in Agents, b # a
               PROVE  ActedBy(mm, b) = ActedBy(m, b) /\ EarnedBy(mm, b) = EarnedBy(m, b)
    OBVIOUS
  <2>1. ActedBy(mm, b) = ActedBy(m, b)
    BY <1>1 DEF ActedBy
  <2>2. \A j \in Periods : SettledBy(mm, j, b) = SettledBy(m, j, b)
    BY <1>1 DEF SettledBy
  <2> QED BY <2>1, <2>2 DEF EarnedBy
<1> HIDE DEF x
<1>6. Cardinality(ActedBy(mm, a)) = Cardinality(ActedBy(m, a)) + 1
  <2>1. ActedBy(mm, a) = ActedBy(m, a) \cup {x} /\ x \notin ActedBy(m, a)
    BY <1>1, <1>2, <1>3 DEF ActedBy
  <2>2. ActedBy(m, a) \in SUBSET m.actions
    BY DEF ActedBy
  <2>3. IsFiniteSet(ActedBy(m, a))
    BY <1>1, <2>2, FS_Subset, Zenon
  <2> QED BY <2>1, <2>3, FS_AddElement
<1>7. SumOf(EarnedBy(mm, a)) = SumOf(EarnedBy(m, a)) + fee
  BY AgentEarns
<1>8. /\ \A b \in Agents : b # a => mm.agent[b] = m.agent[b]
      /\ mm.agent[a] # NoRow
      /\ mm.agent[a].actionsTaken = m.agent[a].actionsTaken + 1
      /\ mm.agent[a].feesEarned = m.agent[a].feesEarned + fee
  BY <1>1, <1>4, ActedRows
<1>9. AgentsRecounted(mm)
  <2>1. \A b \in Agents :
          IF m.agent[b] = NoRow THEN ActedBy(m, b) = {}
          ELSE /\ m.agent[b].actionsTaken = Cardinality(ActedBy(m, b))
               /\ m.agent[b].feesEarned = SumOf(EarnedBy(m, b))
    BY AgentsRecountedAs, Zenon DEF Counted
  <2>2. \A b \in Agents :
          IF mm.agent[b] = NoRow THEN ActedBy(mm, b) = {}
          ELSE /\ mm.agent[b].actionsTaken = Cardinality(ActedBy(mm, b))
               /\ mm.agent[b].feesEarned = SumOf(EarnedBy(mm, b))
    <3> SUFFICES ASSUME NEW b \in Agents
                 PROVE  IF mm.agent[b] = NoRow THEN ActedBy(mm, b) = {}
                        ELSE /\ mm.agent[b].actionsTaken = Cardinality(ActedBy(mm, b))
                             /\ mm.agent[b].feesEarned = SumOf(EarnedBy(mm, b))
      BY Zenon
    <3>1. CASE b = a
      BY <1>6, <1>7, <1>8, <2>1, <3>1
    <3>2. CASE b # a
      BY <1>5, <1>8, <2>1, <3>2
    <3> QED BY <3>1, <3>2
  <2> QED BY <2>2, AgentsRecountedAs, Zenon
<1>10. IsFiniteSet(mm.actions)
  BY <1>1, FS_AddElement
<1>11. PartiesRecounted(mm) /\ NotesRecounted(mm) /\ PeriodActionsRecounted(mm)
  BY ActionRecounts, Zenon
<1> QED BY <1>1, <1>2, <1>9, <1>10, <1>11 DEF Counted

\* It ends no note, and leaves every agent its row.
LEMMA ActionEnds ==
  ASSUME NEW m, m \in RowsData, EndsCounted(m), Registered(m),
         NEW n \in NoteIds, NEW i \in Periods, NEW a \in Agents,
         NEW kind, kind # "Defaulted", NEW to, NEW fee \in Nat,
         NEW out, NEW mm, ActedOn(mm, m, kind, n, i, a, to, fee, out)
  PROVE  EndsCounted(mm) /\ Registered(mm)
<1>1. SameEnds(mm, m)
  BY DEF ActedOn, SameEnds
<1>2. Actions(mm, "Defaulted") = Actions(m, "Defaulted")
  BY DEF ActedOn, Actions
<1>3. EndsCounted(mm)
  BY <1>1, <1>2, EndsKept
<1>4. \A b \in Agents : m.agent[b] # NoRow => mm.agent[b] # NoRow
  BY ActedRows DEF ActedOn
<1>5. \A k \in NoteIds : mm.note[k].agent = m.note[k].agent /\ m.note[k].agent \in Agents \cup {NoAgent}
  BY RowData DEF ActedOn
<1> QED BY <1>3, <1>4, <1>5 DEF Registered

\* A change of status leaves the counters of the periods alone.
LEMMA StatusCounted ==
  ASSUME NEW m, Counted(m), Registered(m), NEW n \in NoteIds, NEW to, NEW mm,
         StatusMoved(mm, m, n, to)
  PROVE  Counted(mm) /\ Registered(mm)
<1>1. m \in RowsData /\ mm \in RowsData /\ mm.period = m.period /\ mm.agent = m.agent
      /\ mm.actions = m.actions
  BY DEF Counted, StatusMoved
<1>2. \A k \in NoteIds :
        /\ mm.note[k].periodsSettled = m.note[k].periodsSettled
        /\ mm.note[k].periodsMissed = m.note[k].periodsMissed
        /\ mm.note[k].servicingFeesPaid = m.note[k].servicingFeesPaid
        /\ mm.note[k].totalDistributed = m.note[k].totalDistributed
        /\ mm.note[k].agent = m.note[k].agent
  <2> SUFFICES ASSUME NEW k \in NoteIds
               PROVE  /\ mm.note[k].periodsSettled = m.note[k].periodsSettled
                      /\ mm.note[k].periodsMissed = m.note[k].periodsMissed
                      /\ mm.note[k].servicingFeesPaid = m.note[k].servicingFeesPaid
                      /\ mm.note[k].totalDistributed = m.note[k].totalDistributed
                      /\ mm.note[k].agent = m.note[k].agent
    OBVIOUS
  <2> DEFINE r == m.note[k]
             s == mm.note[k].status
  <2>1. mm.note[k] = [r EXCEPT !.status = s] /\ r \in NoteData
    BY <1>1, RowData DEF StatusMoved
  <2> HIDE DEF s
  <2> QED BY <2>1 DEF NoteData
<1>3. /\ mm.originator.periodsSettled = m.originator.periodsSettled
      /\ mm.originator.periodsMissed = m.originator.periodsMissed
      /\ mm.borrower.periodsSettled = m.borrower.periodsSettled
      /\ mm.borrower.periodsMissed = m.borrower.periodsMissed
      /\ mm.borrower.periodsCured = m.borrower.periodsCured
  BY <1>1, EndedParty, RowParts DEF StatusMoved
<1>4. SameCounts(mm, m)
  BY <1>1, <1>2, <1>3 DEF SameCounts
<1>5. Counted(mm)
  BY <1>1, <1>4, CountedKept
<1>6. Registered(mm)
  BY <1>1, <1>2 DEF Registered
<1> QED BY <1>5, <1>6

\* A live note that changes its status is counted among those that ended, if it
\* did.
LEMMA StatusEnds ==
  ASSUME NEW m \in RowsData, EndsRecounted(m), NEW n \in NoteIds, NEW to, NEW mm,
         m.note[n].status \notin {"Matured", "Defaulted"}, StatusMoved(mm, m, n, to)
  PROVE  /\ EndsRecounted(mm)
         /\ Cardinality(NotesIn(mm, "Defaulted"))
              = Cardinality(NotesIn(m, "Defaulted")) + Count(to = "Defaulted")
<1>1. /\ mm.note[n].status = to
      /\ \A k \in NoteIds : k # n => mm.note[k].status = m.note[k].status
      /\ mm.originator = Ended(m.originator, to)
      /\ mm.borrower = Ended(m.borrower, to)
  BY DEF StatusMoved
<1>2. ASSUME NEW s \in {"Matured", "Defaulted"}
      PROVE  Cardinality(NotesIn(mm, s)) = Cardinality(NotesIn(m, s)) + Count(to = s)
  <2>1. \A y : y # n => (y \in NotesIn(mm, s) <=> y \in NotesIn(m, s))
    BY <1>1 DEF NotesIn
  <2>2. (n \in NotesIn(mm, s) <=> to = s) /\ n \notin NotesIn(m, s)
    BY <1>1 DEF NotesIn
  <2>3. IsFiniteSet(NotesIn(m, s)) /\ Cardinality(NotesIn(m, s)) \in Nat
    BY RowSets
  <2>4. Cardinality(NotesIn(mm, s))
          = Cardinality(NotesIn(m, s)) + Count(n \in NotesIn(mm, s)) - Count(n \in NotesIn(m, s))
    BY <2>1, <2>3, OneMoves
  <2>5. Count(n \in NotesIn(mm, s)) = Count(to = s) /\ Count(n \in NotesIn(m, s)) = 0
    BY <2>2 DEF Count
  <2>6. Count(to = s) \in Nat
    BY CountIsNat
  <2> QED BY <2>3, <2>4, <2>5, <2>6
<1>3. /\ Cardinality(NotesIn(mm, "Matured"))
           = Cardinality(NotesIn(m, "Matured")) + Count(to = "Matured")
      /\ Cardinality(NotesIn(mm, "Defaulted"))
           = Cardinality(NotesIn(m, "Defaulted")) + Count(to = "Defaulted")
  BY <1>2
<1>4. \A p \in {m.originator, m.borrower} :
        /\ Ended(p, to).notesMatured = p.notesMatured + Count(to = "Matured")
        /\ Ended(p, to).notesDefaulted = p.notesDefaulted + Count(to = "Defaulted")
  BY EndedParty, RowParts
<1>5. EndsRecounted(mm)
  BY <1>1, <1>3, <1>4 DEF EndsRecounted
<1> QED BY <1>3, <1>5

\* Short of a default, nothing else is owed to a change of status.
LEMMA StatusEndsCounted ==
  ASSUME NEW m \in RowsData, EndsCounted(m), NEW n \in NoteIds, NEW to, to # "Defaulted",
         NEW mm, m.note[n].status \notin {"Matured", "Defaulted"}, StatusMoved(mm, m, n, to)
  PROVE  EndsCounted(mm)
<1>1. /\ EndsRecounted(mm)
      /\ Cardinality(NotesIn(mm, "Defaulted"))
           = Cardinality(NotesIn(m, "Defaulted")) + Count(to = "Defaulted")
  BY StatusEnds DEF EndsCounted
<1>2. Count(to = "Defaulted") = 0 /\ Cardinality(NotesIn(m, "Defaulted")) \in Nat
  BY RowSets DEF Count
<1>3. mm.actions = m.actions
  BY DEF StatusMoved
<1>4. Actions(mm, "Defaulted") = Actions(m, "Defaulted")
  BY <1>3 DEF Actions
<1>5. DefaultsRecounted(mm)
  BY <1>1, <1>2, <1>4 DEF EndsCounted, DefaultsRecounted
<1>6. DefaultsTrue(mm)
  BY <1>3 DEF EndsCounted, DefaultsTrue, StatusMoved
<1> QED BY <1>1, <1>5, <1>6 DEF EndsCounted

\* A default is one more note in default and one more action.
LEMMA DefaultCounted ==
  ASSUME NEW m, Counted(m), EndsCounted(m), Registered(m), NEW n \in NoteIds, NEW a \in Agents,
         m.note[n].status \notin {"Matured", "Defaulted"},
         NEW moved, StatusMoved(moved, m, n, "Defaulted"),
         NEW mm, mm \in RowsData,
         mm.period = moved.period, mm.note = moved.note, mm.originator = moved.originator,
         mm.borrower = moved.borrower, mm.agent = moved.agent,
         mm.actions = moved.actions \cup {<<"Defaulted", n, NoRow, a>>}
  PROVE  Counted(mm) /\ EndsCounted(mm) /\ Registered(mm)
<1> DEFINE x == <<"Defaulted", n, NoRow, a>>
<1>1. Counted(moved) /\ Registered(moved) /\ moved.actions = m.actions /\ m \in RowsData
  <2>1. Counted(moved) /\ Registered(moved)
    BY StatusCounted
  <2> QED BY <2>1 DEF StatusMoved, Counted
<1>2. /\ EndsRecounted(moved)
      /\ Cardinality(NotesIn(moved, "Defaulted")) = Cardinality(NotesIn(m, "Defaulted")) + 1
  <2>1. Count("Defaulted" = "Defaulted") = 1
    BY DEF Count
  <2> QED BY <1>1, <2>1, StatusEnds DEF EndsCounted
<1>3. x \notin m.actions
  BY DEF EndsCounted, DefaultsTrue
<1>4. /\ \A S : Rows(mm, S) = Rows(moved, S)
      /\ \A k \in NoteIds : \A S : RowsOf(mm, k, S) = RowsOf(moved, k, S)
      /\ \A s : NotesIn(mm, s) = NotesIn(moved, s)
  BY DEF Rows, RowsOf, NotesIn
<1>5. /\ Actions(mm, "Settled") = Actions(moved, "Settled")
      /\ Actions(mm, "MarkedDelinquent") = Actions(moved, "MarkedDelinquent")
      /\ Actions(mm, "Defaulted") = Actions(m, "Defaulted") \cup {x}
      /\ x \notin Actions(m, "Defaulted")
  BY <1>1, <1>3 DEF Actions
<1>6. \A b \in Agents : ActedBy(mm, b) = ActedBy(moved, b) /\ EarnedBy(mm, b) = EarnedBy(moved, b)
  <2>1. \A b \in Agents : ActedBy(mm, b) = ActedBy(moved, b)
    BY DEF ActedBy
  <2>2. \A b \in Agents, j \in Periods : SettledBy(mm, j, b) = SettledBy(moved, j, b)
    BY DEF SettledBy
  <2> QED BY <2>1, <2>2 DEF EarnedBy
<1>7. AgentsRecounted(mm)
  <2>1. AgentsRecounted(moved)
    BY <1>1 DEF Counted
  <2>2. \A b \in Agents :
          IF moved.agent[b] = NoRow THEN ActedBy(moved, b) = {}
          ELSE /\ moved.agent[b].actionsTaken = Cardinality(ActedBy(moved, b))
               /\ moved.agent[b].feesEarned = SumOf(EarnedBy(moved, b))
    BY <2>1, AgentsRecountedAs, Zenon
  <2>3. \A b \in Agents :
          IF mm.agent[b] = NoRow THEN ActedBy(mm, b) = {}
          ELSE /\ mm.agent[b].actionsTaken = Cardinality(ActedBy(mm, b))
               /\ mm.agent[b].feesEarned = SumOf(EarnedBy(mm, b))
    BY <1>6, <2>2
  <2> QED BY <2>3, AgentsRecountedAs, Zenon
<1>8. PeriodActionsTrue(mm)
  BY <1>1 DEF Counted, PeriodActionsTrue
<1>9. PartiesRecounted(mm) /\ NotesRecounted(mm) /\ PeriodActionsRecounted(mm) /\ EndsRecounted(mm)
  <2>1. PartiesRecounted(mm)
    BY <1>1, <1>4 DEF Counted, PartiesRecounted
  <2>2. NotesRecounted(mm)
    BY <1>1, <1>4 DEF Counted, NotesRecounted
  <2>3. PeriodActionsRecounted(mm)
    BY <1>1, <1>4, <1>5 DEF Counted, PeriodActionsRecounted
  <2>4. EndsRecounted(mm)
    BY <1>2, <1>4 DEF EndsRecounted
  <2> QED BY <2>1, <2>2, <2>3, <2>4
<1>10. IsFiniteSet(mm.actions)
  BY <1>1, FS_AddElement DEF Counted
<1>11. DefaultsRecounted(mm)
  <2>1. Actions(m, "Defaulted") \in SUBSET m.actions /\ IsFiniteSet(m.actions)
    BY DEF Actions, Counted
  <2>2. IsFiniteSet(Actions(m, "Defaulted"))
    BY <2>1, FS_Subset, Zenon
  <2>3. Cardinality(Actions(mm, "Defaulted")) = Cardinality(Actions(m, "Defaulted")) + 1
    BY <1>5, <2>2, FS_AddElement
  <2> QED BY <1>2, <1>4, <2>3 DEF EndsCounted, DefaultsRecounted
<1>12. DefaultsTrue(mm)
  <2> SUFFICES ASSUME NEW k \in NoteIds, NEW y \in Periods \cup {NoRow}, NEW b \in Agents,
                      <<"Defaulted", k, y, b>> \in mm.actions
               PROVE  mm.note[k].status = "Defaulted"
    BY DEF DefaultsTrue
  <2>1. moved.note[n].status = "Defaulted"
    BY DEF StatusMoved
  <2>2. k # n => <<"Defaulted", k, y, b>> \in m.actions
    BY <1>1
  <2>3. k # n => moved.note[k].status = m.note[k].status /\ m.note[k].status = "Defaulted"
    BY <2>2 DEF StatusMoved, EndsCounted, DefaultsTrue
  <2> QED BY <2>1, <2>3
<1>13. Registered(mm)
  BY <1>1 DEF Registered
<1>14. Counted(mm)
  BY <1>7, <1>8, <1>9, <1>10 DEF Counted
<1>15. EndsCounted(mm)
  BY <1>9, <1>11, <1>12 DEF EndsCounted
<1> QED BY <1>13, <1>14, <1>15

\* A delegation: the agent may be given its row.
LEMMA DelegationCounted ==
  ASSUME NEW m, Counted(m), EndsCounted(m), Registered(m), NEW n \in NoteIds,
         NEW a \in Agents \cup {NoAgent}, NEW mm, DelegatedTo(mm, m, n, a),
         \A b \in Agents : b # a => mm.agent[b] = m.agent[b],
         a \in Agents => /\ mm.agent[a] # NoRow
                         /\ mm.agent[a].actionsTaken = RowOf(m, a).actionsTaken
                         /\ mm.agent[a].feesEarned = RowOf(m, a).feesEarned
  PROVE  Counted(mm) /\ EndsCounted(mm) /\ Registered(mm)
<1>1. SameCounts(mm, m) /\ SameEnds(mm, m) /\ mm.actions = m.actions /\ m \in RowsData
  BY DEF DelegatedTo, Counted
<1>2. \A b \in Agents : ActedBy(mm, b) = ActedBy(m, b) /\ EarnedBy(mm, b) = EarnedBy(m, b)
  BY <1>1 DEF ActedBy, EarnedBy, SettledBy
<1>3. \A b \in Agents :
        IF m.agent[b] = NoRow THEN ActedBy(m, b) = {}
        ELSE /\ m.agent[b].actionsTaken = Cardinality(ActedBy(m, b))
             /\ m.agent[b].feesEarned = SumOf(EarnedBy(m, b))
  BY AgentsRecountedAs, Zenon DEF Counted
<1>4. ASSUME NEW b \in Agents, ActedBy(m, b) = {}
      PROVE  Cardinality(ActedBy(m, b)) = 0 /\ SumOf(EarnedBy(m, b)) = 0
  <2>1. \A j \in Periods : SettledBy(m, j, b) = {}
    <3> SUFFICES ASSUME NEW j \in Periods, NEW k \in NoteIds, <<"Settled", k, j, b>> \in m.actions
                 PROVE  FALSE
      BY DEF SettledBy
    <3>1. <<"Settled", k, j, b>> \in ActedBy(m, b)
      BY DEF ActedBy
    <3> QED BY <1>4, <3>1
  <2>2. Cardinality({}) = 0
    BY FS_EmptySet, Zenon
  <2>3. EarnedBy(m, b) \in [Periods -> Nat]
    BY EarnedIsNat, Zenon
  <2>4. \A j \in Periods : EarnedBy(m, b)[j] = 0
    <3>1. \A j \in Periods : Fee(j) \in Nat
      BY FeeAndNet
    <3> QED BY <2>1, <2>2, <3>1 DEF EarnedBy
  <2>5. EarnedBy(m, b) \in [Periods -> Int]
    BY <2>3
  <2> QED BY <1>4, <2>2, <2>4, <2>5, PeriodSumZero
<1>5. AgentsRecounted(mm)
  <2>1. \A b \in Agents :
          IF mm.agent[b] = NoRow THEN ActedBy(mm, b) = {}
          ELSE /\ mm.agent[b].actionsTaken = Cardinality(ActedBy(mm, b))
               /\ mm.agent[b].feesEarned = SumOf(EarnedBy(mm, b))
    <3> SUFFICES ASSUME NEW b \in Agents
                 PROVE  IF mm.agent[b] = NoRow THEN ActedBy(mm, b) = {}
                        ELSE /\ mm.agent[b].actionsTaken = Cardinality(ActedBy(mm, b))
                             /\ mm.agent[b].feesEarned = SumOf(EarnedBy(mm, b))
      BY Zenon
    <3>1. CASE b # a
      BY <1>2, <1>3, <3>1
    <3>2. CASE b = a /\ m.agent[b] # NoRow
      BY <1>2, <1>3, <3>2 DEF RowOf
    <3>3. CASE b = a /\ m.agent[b] = NoRow
      <4>1. RowOf(m, b).actionsTaken = 0 /\ RowOf(m, b).feesEarned = 0
        BY <3>3 DEF RowOf, AgentRow
      <4> QED BY <1>2, <1>3, <1>4, <3>3, <4>1
    <3> QED BY <3>1, <3>2, <3>3
  <2> QED BY <2>1, AgentsRecountedAs, Zenon
<1>6. Counted(mm)
  BY <1>1, <1>5, CountedWith
<1>7. EndsCounted(mm)
  <2>1. Actions(mm, "Defaulted") = Actions(m, "Defaulted")
    BY <1>1 DEF Actions
  <2> QED BY <1>1, <2>1, EndsKept
<1>8. Registered(mm)
  <2> SUFFICES ASSUME NEW k \in NoteIds, mm.note[k].agent # NoAgent
               PROVE  mm.agent[mm.note[k].agent] # NoRow
    BY DEF Registered
  <2>1. CASE mm.note[k].agent = a
    BY <2>1
  <2>2. CASE mm.note[k].agent # a
    <3>1. k # n /\ mm.note[k].agent = m.note[k].agent
      BY <2>2 DEF DelegatedTo
    <3>2. m.note[k].agent \in Agents
      BY <1>1, <3>1, RowData
    <3> QED BY <2>2, <3>1, <3>2 DEF Registered
  <2> QED BY <2>1, <2>2
<1> QED BY <1>6, <1>7, <1>8

----------------------------------------------------------------------------
\* The events of a transaction, one by one.

LEMMA HandleIs ==
  ASSUME NEW m, NEW e
  PROVE  /\ e.event = "DelegationSet" => Handle(m, e) = handleDelegationSet(m, e)
         /\ e.event = "DelegationRevoked" => Handle(m, e) = handleDelegationRevoked(m, e)
         /\ e.event = "PeriodSettled" => Handle(m, e) = handlePeriodSettled(m, e)
         /\ e.event = "MarkedDelinquent" => Handle(m, e) = handleMarkedDelinquent(m, e)
         /\ e.event = "Defaulted" => Handle(m, e) = handleDefaulted(m, e)
         /\ e.event = "StatusChanged" => Handle(m, e) = handleStatusChanged(m, e)
         /\ e.event = "PaymentRecorded" => Handle(m, e) = handlePaymentRecorded(m, e)
         /\ e.event = "Repaid" => Handle(m, e) = handleRepaid(m, e)
         /\ e.event = "Collected" => Handle(m, e) = handleCollected(m, e)
BY DEF Handle

LEMMA AppliedOne == \A m, e : Applied(m, <<e>>) = Handle(m, e)
<1> SUFFICES ASSUME NEW m, NEW e PROVE Applied(m, <<e>>) = Handle(m, e)
  OBVIOUS
<1> DEFINE S == {e}
<1>1. e \in S /\ <<>> \in Seq(S) /\ <<e>> = Append(<<>>, e)
  OBVIOUS
<1> HIDE DEF S
<1>2. Applied(m, Append(<<>>, e)) = Handle(Applied(m, <<>>), e)
  BY <1>1, AppliedLast, Zenon
<1> QED BY <1>1, <1>2, AppliedNone, Zenon

LEMMA AppliedTwo ==
  \A m, e, f : Applied(m, <<e>> \o <<f>>) = Handle(Handle(m, e), f)
<1> SUFFICES ASSUME NEW m, NEW e, NEW f
             PROVE  Applied(m, <<e>> \o <<f>>) = Handle(Handle(m, e), f)
  OBVIOUS
<1> DEFINE S == {e, f}
<1>1. f \in S /\ <<e>> \in Seq(S) /\ <<e>> \o <<f>> = Append(<<e>>, f)
  OBVIOUS
<1> HIDE DEF S
<1>2. Applied(m, Append(<<e>>, f)) = Handle(Applied(m, <<e>>), f)
  BY <1>1, AppliedLast, Zenon
<1> QED BY <1>1, <1>2, AppliedOne, Zenon

\* What the rows have while the loop of repay() is at period i.
PaidUpTo(mm, m, n, credit, i) ==
  /\ SameCounts(mm, m) /\ SameEnds(mm, m)
  /\ mm.note = m.note /\ mm.agent = m.agent
  /\ mm.actions = m.actions /\ mm.repayments = m.repayments
  /\ \A k \in NoteIds, j \in Periods :
       mm.period[k][j].paid = IF k = n /\ j < i /\ credit[j] # 0
                              THEN paidOf[n][j] + credit[j] ELSE m.period[k][j].paid

CreditSaid(n, credit, i) ==
  [event |-> "PaymentRecorded", note |-> n, period |-> i, amount |-> credit[i],
   periodPaid |-> paidOf[n][i] + credit[i]]

SaidUpTo(said, n, credit) ==
  /\ said[0] = <<>>
  /\ \A i \in Periods :
       said[i + 1] = IF credit[i] = 0 THEN said[i]
                     ELSE Append(said[i], CreditSaid(n, credit, i))
  /\ CreditEvents(n, credit) = said[PeriodCount]

LEMMA CreditEventsFollow ==
  ASSUME NEW n \in NoteIds, NEW credit \in [Periods -> Nat], NEW S,
         \A i \in Periods : CreditSaid(n, credit, i) \in S
  PROVE  \E said \in [0..PeriodCount -> Seq(S)] : SaidUpTo(said, n, credit)
<1> DEFINE D(h) == [i \in 0..PeriodCount |->
                      IF i = 0 THEN <<>>
                      ELSE IF credit[i - 1] = 0 THEN h[i - 1]
                      ELSE Append(h[i - 1], CreditSaid(n, credit, i - 1))]
           say == [i \in 0..(PeriodCount - 1) |-> [x \in Seq(S) |->
                      IF credit[i] = 0 THEN x ELSE Append(x, CreditSaid(n, credit, i))]]
<1>0. PeriodCount \in Nat \ {0} /\ Periods = 0..(PeriodCount - 1)
  BY TermsAssumption DEF Periods
<1>1. PICK g \in [0..PeriodCount -> Seq(S)] : Follows(g, PeriodCount, <<>>, say)
  <2>1. say \in [0..(PeriodCount - 1) -> [Seq(S) -> Seq(S)]]
    <3>1. \A i \in 0..(PeriodCount - 1), x \in Seq(S) :
            (IF credit[i] = 0 THEN x ELSE Append(x, CreditSaid(n, credit, i))) \in Seq(S)
      BY <1>0
    <3> QED BY <3>1
  <2>2. <<>> \in Seq(S) /\ PeriodCount \in Nat
    BY <1>0
  <2> HIDE DEF say
  <2>3. \A Q : \A base \in Q : \A step \in [0..(PeriodCount - 1) -> [Q -> Q]] :
          \E g \in [0..PeriodCount -> Q] : Follows(g, PeriodCount, base, step)
    BY <2>2, RecursionExists, Zenon
  <2> QED BY <2>1, <2>2, <2>3, Zenon
<1>2. /\ g[0] = <<>>
      /\ \A i \in Periods :
           g[i + 1] = IF credit[i] = 0 THEN g[i] ELSE Append(g[i], CreditSaid(n, credit, i))
  <2>1. g[0] = <<>> /\ \A i \in 1..PeriodCount : g[i] = say[i - 1][g[i - 1]]
    BY <1>1 DEF Follows
  <2>2. ASSUME NEW i \in Periods
        PROVE  g[i + 1] = IF credit[i] = 0 THEN g[i] ELSE Append(g[i], CreditSaid(n, credit, i))
    <3>1. i + 1 \in 1..PeriodCount /\ (i + 1) - 1 = i /\ i \in 0..(PeriodCount - 1) /\ i \in 0..PeriodCount
      BY <1>0
    <3>2. g[i] \in Seq(S)
      BY <3>1, <1>1
    <3>3. g[i + 1] = say[i][g[i]]
      <4> HIDE DEF say
      <4> QED BY <2>1, <3>1
    <3>4. say[i][g[i]] = IF credit[i] = 0 THEN g[i] ELSE Append(g[i], CreditSaid(n, credit, i))
      BY <3>1, <3>2, Zenon
    <3> QED BY <3>3, <3>4, Zenon
  <2> QED BY <2>1, <2>2
<1>3. g = D(g)
  <2>1. ASSUME NEW i \in 0..PeriodCount
        PROVE  g[i] = IF i = 0 THEN <<>>
                      ELSE IF credit[i - 1] = 0 THEN g[i - 1]
                      ELSE Append(g[i - 1], CreditSaid(n, credit, i - 1))
    <3>1. CASE i = 0
      BY <1>2, <3>1
    <3>2. CASE i # 0
      <4>1. i - 1 \in Periods /\ (i - 1) + 1 = i
        BY <1>0, <3>2
      <4>2. g[(i - 1) + 1] = IF credit[i - 1] = 0 THEN g[i - 1]
                             ELSE Append(g[i - 1], CreditSaid(n, credit, i - 1))
        BY <1>2, <4>1, Zenon
      <4> QED BY <3>2, <4>1, <4>2, Zenon
    <3> QED BY <3>1, <3>2
  <2> QED BY <2>1, <1>1
<1>4. CreditEvents(n, credit) = (CHOOSE h : h = D(h))[PeriodCount]
  BY Zenon DEF CreditEvents, CreditSaid
<1> DEFINE s == CHOOSE h : h = D(h)
<1>5. s = D(s)
  BY <1>3, Zenon
<1> HIDE DEF s
<1>6. /\ s = [i \in 0..PeriodCount |-> s[i]]
      /\ \A i \in 0..PeriodCount :
            s[i] = IF i = 0 THEN <<>>
                   ELSE IF credit[i - 1] = 0 THEN s[i - 1]
                   ELSE Append(s[i - 1], CreditSaid(n, credit, i - 1))
  <2>1. \A i \in 0..PeriodCount :
            s[i] = IF i = 0 THEN <<>>
                   ELSE IF credit[i - 1] = 0 THEN s[i - 1]
                   ELSE Append(s[i - 1], CreditSaid(n, credit, i - 1))
    BY <1>5
  <2>2. s = [i \in 0..PeriodCount |-> s[i]]
    BY <1>5
  <2> QED BY <2>1, <2>2
<1>7. /\ s[0] = <<>>
      /\ \A i \in Periods :
           s[i + 1] = IF credit[i] = 0 THEN s[i] ELSE Append(s[i], CreditSaid(n, credit, i))
  <2>1. 0 \in 0..PeriodCount
    BY <1>0
  <2>2. s[0] = <<>>
    BY <2>1, <1>6, Zenon
  <2>3. ASSUME NEW i \in Periods
        PROVE  s[i + 1] = IF credit[i] = 0 THEN s[i] ELSE Append(s[i], CreditSaid(n, credit, i))
    <3>1. i + 1 \in 0..PeriodCount /\ i + 1 # 0 /\ (i + 1) - 1 = i
      BY <1>0
    <3> DEFINE j == i + 1
    <3>2. s[j] = IF j = 0 THEN <<>>
                 ELSE IF credit[j - 1] = 0 THEN s[j - 1]
                 ELSE Append(s[j - 1], CreditSaid(n, credit, j - 1))
      BY <1>6, <3>1, Zenon
    <3> QED BY <3>1, <3>2, Zenon
  <2> QED BY <2>2, <2>3
<1> DEFINE T == {k \in Nat : k <= PeriodCount => s[k] \in Seq(S)}
<1>8. Nat \subseteq T
  <2>1. 0 \in T
    <3>1. s[0] \in Seq(S)
      <4>1. <<>> \in Seq(S)
        OBVIOUS
      <4> QED BY <1>7, <4>1, Zenon
    <3> QED BY <3>1
  <2>2. ASSUME NEW k \in Nat, k \in T PROVE k + 1 \in T
    <3> SUFFICES ASSUME k + 1 <= PeriodCount PROVE s[k + 1] \in Seq(S)
      OBVIOUS
    <3>1. k \in Periods /\ s[k] \in Seq(S)
      BY <1>0, <2>2
    <3>2. s[k + 1] = IF credit[k] = 0 THEN s[k] ELSE Append(s[k], CreditSaid(n, credit, k))
      BY <1>7, <3>1, Zenon
    <3> QED BY <3>1, <3>2
  <2> HIDE DEF T
  <2> QED BY <2>1, <2>2, SetInduction
<1>9. s \in [0..PeriodCount -> Seq(S)]
  <2>1. \A k \in 0..PeriodCount : s[k] \in Seq(S)
    BY <1>8, <1>0
  <2> QED BY <2>1, <1>6
<1>10. SaidUpTo(s, n, credit)
  BY <1>4, <1>7, Zenon DEF SaidUpTo, s
<1> QED BY <1>9, <1>10, Zenon

\* The rows after all of them.
LEMMA CreditsApplied ==
  ASSUME NEW m, m \in RowsData, NEW n \in NoteIds, NEW credit \in [Periods -> Nat],
         paidOf[n] \in [Periods -> Nat], NEW S, \A i \in Periods : CreditSaid(n, credit, i) \in S
  PROVE  /\ CreditEvents(n, credit) \in Seq(S)
         /\ PaidUpTo(Applied(m, CreditEvents(n, credit)), m, n, credit, PeriodCount)
<1>0. PeriodCount \in Nat \ {0} /\ Periods = 0..(PeriodCount - 1)
  BY TermsAssumption DEF Periods
<1>1. PICK said \in [0..PeriodCount -> Seq(S)] : SaidUpTo(said, n, credit)
  BY CreditEventsFollow, Zenon
<1>2. /\ said[0] = <<>> /\ CreditEvents(n, credit) = said[PeriodCount]
      /\ \A i \in Periods :
           said[i + 1] = IF credit[i] = 0 THEN said[i]
                         ELSE Append(said[i], CreditSaid(n, credit, i))
  BY <1>1, Zenon DEF SaidUpTo
<1>7. \A i \in Nat, j \in Periods : j # i => (j < i + 1 <=> j < i)
  BY <1>0
<1> DEFINE T == {k \in Nat : k <= PeriodCount => PaidUpTo(Applied(m, said[k]), m, n, credit, k)}
<1>3. 0 \in T
  <2>1. Applied(m, said[0]) = m
    BY <1>2, AppliedNone, Zenon
  <2>2. \A j \in Periods : ~(j < 0)
    BY <1>0
  <2>3. PaidUpTo(m, m, n, credit, 0)
    BY <2>2 DEF PaidUpTo, SameCounts, SameEnds
  <2> QED BY <2>1, <2>3
<1>4. ASSUME NEW i \in Nat, i \in T PROVE i + 1 \in T
  <2> SUFFICES ASSUME i + 1 <= PeriodCount
               PROVE  PaidUpTo(Applied(m, said[i + 1]), m, n, credit, i + 1)
    OBVIOUS
  <2> DEFINE was == Applied(m, said[i])
             mm == Applied(m, said[i + 1])
  <2>1. i \in Periods /\ i \in 0..PeriodCount /\ PaidUpTo(was, m, n, credit, i)
    BY <1>0, <1>4
  <2>2. said[i] \in Seq(S)
    BY <2>1, <1>1
  <2>3. CASE credit[i] = 0
    <3>1. mm = was
      BY <1>2, <2>1, <2>3
    <3> HIDE DEF mm, was
    <3>2. \A j \in Periods : j # i => (j < i + 1 <=> j < i)
      BY <1>7, Zenon
    <3>3. PaidUpTo(was, m, n, credit, i + 1)
      BY <2>1, <2>3, <3>2 DEF PaidUpTo
    <3> QED BY <3>1, <3>3 DEF mm
  <2>4. CASE credit[i] # 0
    <3> DEFINE e == CreditSaid(n, credit, i)
               x == paidOf[n][i] + credit[i]
    <3>1. mm = Handle(was, e)
      <4>1. said[i + 1] = Append(said[i], e) /\ e \in S
        BY <1>2, <2>1, <2>4
      <4> HIDE DEF e
      <4> QED BY <2>2, <4>1, AppliedLast, Zenon
    <3>2. mm = handlePaymentRecorded(was,
                 [event |-> "PaymentRecorded", note |-> n, period |-> i,
                  amount |-> credit[i], periodPaid |-> x])
      BY <3>1, HandleIs, Zenon DEF CreditSaid
    <3>3. was \in RowsData /\ x \in Nat
      BY <2>1 DEF PaidUpTo, SameCounts
    <3> HIDE DEF was, mm, e, x
    <3>4. PaidTo(mm, was, n, i, x)
      BY <2>1, <3>2, <3>3, PaidRows
    <3>5. /\ SameCounts(was, m) /\ SameEnds(was, m)
          /\ was.note = m.note /\ was.agent = m.agent
          /\ was.actions = m.actions /\ was.repayments = m.repayments
          /\ \A k \in NoteIds, j \in Periods :
               was.period[k][j].paid = IF k = n /\ j < i /\ credit[j] # 0
                                       THEN paidOf[n][j] + credit[j] ELSE m.period[k][j].paid
      BY <2>1 DEF PaidUpTo
    <3>6. /\ SameCounts(mm, was) /\ SameEnds(mm, was)
          /\ mm.note = was.note /\ mm.agent = was.agent
          /\ mm.actions = was.actions /\ mm.repayments = was.repayments
          /\ mm.period[n][i].paid = x
          /\ \A k \in NoteIds, j \in Periods :
               k # n \/ j # i => mm.period[k][j].paid = was.period[k][j].paid
      BY <3>4 DEF PaidTo
    <3>7. SameCounts(mm, m) /\ SameEnds(mm, m)
      BY <3>5, <3>6 DEF SameCounts, SameEnds
    <3>8. \A k \in NoteIds, j \in Periods :
            mm.period[k][j].paid = IF k = n /\ j < i + 1 /\ credit[j] # 0
                                   THEN paidOf[n][j] + credit[j] ELSE m.period[k][j].paid
      <4>1. \A j \in Periods : j # i => (j < i + 1 <=> j < i)
        BY <1>7, Zenon
      <4>2. i < i + 1
        OBVIOUS
      <4> QED BY <2>1, <2>4, <3>5, <3>6, <4>1, <4>2 DEF x
    <3>9. PaidUpTo(mm, m, n, credit, i + 1)
      BY <3>5, <3>6, <3>7, <3>8 DEF PaidUpTo
    <3> QED BY <3>9 DEF mm
  <2> QED BY <2>3, <2>4
<1>5. PaidUpTo(Applied(m, said[PeriodCount]), m, n, credit, PeriodCount)
  <2> HIDE DEF T
  <2>1. Nat \subseteq T
    BY <1>3, <1>4, SetInduction
  <2>2. PeriodCount \in T
    BY <2>1, <1>0
  <2> QED BY <1>0, <2>2 DEF T
<1>6. PeriodCount \in 0..PeriodCount
  BY <1>0
<1> QED BY <1>1, <1>2, <1>5, <1>6

\* A payment by payer, to the note's row and on record, whatever the periods took.
PaymentRow(row, n) ==
  /\ row \in RepaymentData /\ row.note = n /\ row.tx = TxOf(n)
  /\ row.collected <=> row.payer = MandateContract
PaidIn(mm, m, n, value, credit) ==
  /\ SameCounts(mm, m) /\ SameEnds(mm, m)
  /\ mm.agent = m.agent /\ mm.actions = m.actions
  /\ \A k \in NoteIds : mm.note[k].agent = m.note[k].agent
  /\ mm.note[n].totalRepaid = m.note[n].totalRepaid + value
  /\ \A k \in NoteIds : k # n => mm.note[k].totalRepaid = m.note[k].totalRepaid
  /\ \A k \in NoteIds, j \in Periods :
       mm.period[k][j].paid = IF k = n /\ credit[j] # 0
                              THEN paidOf[n][j] + credit[j] ELSE m.period[k][j].paid
  /\ \E row : PaymentRow(row, n) /\ mm.repayments = Append(m.repayments, row)

LEMMA PaymentApplied ==
  ASSUME NEW m, m \in RowsData, NEW n \in NoteIds, NEW first \in Periods, NEW value \in Nat,
         NEW payer \in Payers, Credits(Room(n), first, value) \in [Periods -> Nat],
         paidOf[n] \in [Periods -> Nat], TxOf(n) \in Nat,
         \A k \in DOMAIN m.repayments :
           m.repayments[k].note = n => m.repayments[k].tx < TxOf(n)
  PROVE  PaidIn(Applied(m, RepaymentEvents(n, first, value, payer)), m,
                n, value, Credits(Room(n), first, value))
<1> DEFINE credit == Credits(Room(n), first, value)
           tx == TxOf(n)
           credited == CreditEvents(n, credit)
           repaid == [event |-> "Repaid", note |-> n, period |-> first, payer |-> payer,
                      amount |-> value, tx |-> tx]
           taken == [event |-> "Collected", note |-> n, period |-> first, tx |-> tx]
           row == [note |-> n, period |-> first, payer |-> payer, collected |-> FALSE, tx |-> tx]
           done == [row EXCEPT !.collected = TRUE]
           S == {CreditSaid(n, credit, i) : i \in Periods} \cup {repaid, taken}
           paid == Applied(m, credited)
           said == Handle(paid, repaid)
           mm == Applied(m, RepaymentEvents(n, first, value, payer))
<1>1. /\ RepaymentEvents(n, first, value, payer)
           = IF payer # MandateContract THEN Append(credited, repaid)
             ELSE Append(Append(credited, repaid), taken)
      /\ repaid \in S /\ taken \in S /\ \A i \in Periods : CreditSaid(n, credit, i) \in S
  BY Zenon DEF RepaymentEvents
<1>2. repaid.event = "Repaid" /\ taken.event = "Collected"
  OBVIOUS
<1>3. credit \in [Periods -> Nat] /\ tx \in Nat
  OBVIOUS
<1> HIDE DEF S, credit
<1>4. credited \in Seq(S) /\ PaidUpTo(paid, m, n, credit, PeriodCount)
  BY <1>1, <1>3, CreditsApplied
<1>5. said = handleRepaid(paid, repaid)
  BY <1>2, HandleIs, Zenon
<1> HIDE DEF credited, tx
<1>6. Applied(m, Append(credited, repaid)) = said
  BY <1>1, <1>4, AppliedLast, Zenon
<1>7. paid \in RowsData
  BY <1>4 DEF PaidUpTo, SameCounts
<1> HIDE DEF paid
<1>8. RepaidBy(said, paid, n, value, row)
  BY <1>3, <1>5, <1>7, RepaidRows
<1>12. /\ row \in RepaymentData /\ row.note = n /\ row.period = first /\ row.payer = payer
       /\ row.tx = tx /\ ~row.collected
  BY <1>3 DEF RepaymentData
<1> HIDE DEF said, row
<1>13. /\ done \in RepaymentData /\ done.note = n /\ done.payer = payer /\ done.tx = tx
       /\ done.collected
  BY <1>12 DEF RepaymentData
<1> HIDE DEF done
<1>9. /\ SameCounts(said, m) /\ SameEnds(said, m)
      /\ said.agent = m.agent /\ said.actions = m.actions
      /\ \A k \in NoteIds : said.note[k].agent = m.note[k].agent
      /\ said.note[n].totalRepaid = m.note[n].totalRepaid + value
      /\ \A k \in NoteIds : k # n => said.note[k].totalRepaid = m.note[k].totalRepaid
      /\ \A k \in NoteIds, j \in Periods :
           said.period[k][j].paid = IF k = n /\ credit[j] # 0
                                    THEN paidOf[n][j] + credit[j] ELSE m.period[k][j].paid
      /\ said.repayments = Append(m.repayments, row)
  <2>1. \A j \in Periods : j < PeriodCount
    BY TermsAssumption DEF Periods
  <2>2. SameCounts(said, m) /\ SameEnds(said, m)
    BY <1>4, <1>8 DEF PaidUpTo, RepaidBy, SameCounts, SameEnds
  <2>3. \A k \in NoteIds, j \in Periods :
           said.period[k][j].paid = IF k = n /\ credit[j] # 0
                                    THEN paidOf[n][j] + credit[j] ELSE m.period[k][j].paid
    BY <1>4, <1>8, <2>1 DEF PaidUpTo, RepaidBy
  <2> QED BY <1>4, <1>8, <2>2, <2>3 DEF PaidUpTo, RepaidBy
<1>10. CASE payer # MandateContract
  <2>1. mm = said
    BY <1>1, <1>6, <1>10
  <2>2. PaymentRow(row, n)
    BY <1>10, <1>12 DEF PaymentRow, tx
  <2> HIDE DEF mm
  <2> QED BY <1>9, <2>1, <2>2 DEF PaidIn, mm, credit
<1>11. CASE payer = MandateContract
  <2>1. mm = Handle(said, taken)
    <3>1. Append(credited, repaid) \in Seq(S)
      <4> HIDE DEF repaid
      <4> QED BY <1>1, <1>4
    <3>2. mm = Applied(m, Append(Append(credited, repaid), taken))
      BY <1>1, <1>11
    <3> QED BY <1>1, <1>6, <3>1, <3>2, AppliedLast, Zenon
  <2>2. mm = handleCollected(said, taken)
    BY <1>2, <2>1, HandleIs, Zenon
  <2>3. said \in RowsData
    BY <1>9 DEF SameCounts
  <2> HIDE DEF mm
  <2>4. /\ mm \in RowsData
        /\ mm.period = said.period /\ mm.note = said.note /\ mm.originator = said.originator
        /\ mm.borrower = said.borrower /\ mm.agent = said.agent /\ mm.actions = said.actions
        /\ Len(mm.repayments) = Len(said.repayments)
        /\ \A k \in DOMAIN said.repayments :
             LET was == said.repayments[k]
             IN  mm.repayments[k] = IF was.tx = tx /\ was.note = n /\ was.period = first
                                    THEN [was EXCEPT !.collected = TRUE] ELSE was
    <3>1. CollectedAs(mm, said, n, first, tx)
      BY <1>3, <2>2, <2>3, CollectedRows
    <3> QED BY <3>1, Zenon DEF CollectedAs
  <2>5. mm.repayments = Append(m.repayments, done)
    <3> DEFINE old == m.repayments
    <3>1. /\ old \in Seq(RepaymentData) /\ mm.repayments \in Seq(RepaymentData)
          /\ said.repayments = Append(old, row)
          /\ \A k \in DOMAIN old : old[k].note = n => old[k].tx < tx
          /\ \A k \in DOMAIN old : old[k].tx \in Nat
      <4>1. old \in Seq(RepaymentData) /\ mm.repayments \in Seq(RepaymentData)
        BY <2>4, RowParts
      <4>2. \A k \in DOMAIN old : old[k].tx \in Nat
        <5>1. \A k \in DOMAIN old : old[k] \in RepaymentData
          <6> HIDE DEF old
          <6> QED BY <4>1
        <5> HIDE DEF old
        <5> QED BY <5>1 DEF RepaymentData
      <4> QED BY <1>9, <4>1, <4>2 DEF tx
    <3> HIDE DEF old
    <3>2. /\ Len(old) \in Nat /\ DOMAIN old = 1..Len(old)
          /\ Len(said.repayments) = Len(old) + 1
          /\ DOMAIN said.repayments = 1..(Len(old) + 1)
          /\ said.repayments[Len(old) + 1] = row
          /\ \A k \in 1..Len(old) : said.repayments[k] = old[k]
      <4> HIDE DEF row
      <4> QED BY <3>1
    <3>3. /\ Len(mm.repayments) = Len(old) + 1
          /\ \A k \in 1..Len(old) : mm.repayments[k] = old[k]
      <4>1. ASSUME NEW k \in 1..Len(old) PROVE mm.repayments[k] = old[k]
        <5>1. said.repayments[k] = old[k] /\ k \in DOMAIN said.repayments
          BY <3>2
        <5>2. ~(old[k].tx = tx /\ old[k].note = n)
          BY <1>3, <3>1, <3>2
        <5> QED BY <2>4, <5>1, <5>2
      <4> QED BY <2>4, <3>2, <4>1
    <3>4. mm.repayments[Len(old) + 1] = done
      <4>2. Len(old) + 1 \in DOMAIN said.repayments
        BY <3>2
      <4> QED BY <1>12, <2>4, <3>2, <4>2 DEF done
    <3>6. /\ Append(old, done) \in Seq(RepaymentData)
          /\ Len(Append(old, done)) = Len(old) + 1
          /\ Append(old, done)[Len(old) + 1] = done
          /\ \A k \in 1..Len(old) : Append(old, done)[k] = old[k]
      BY <3>1, <1>13
    <3>7. \A k \in 1..(Len(old) + 1) : mm.repayments[k] = Append(old, done)[k]
      BY <3>2, <3>3, <3>4, <3>6
    <3>8. mm.repayments = Append(old, done)
      BY <3>1, <3>3, <3>6, <3>7, SeqEqual
    <3> QED BY <3>8 DEF old
  <2>6. SameCounts(mm, m) /\ SameEnds(mm, m)
    BY <1>9, <2>4 DEF SameCounts, SameEnds
  <2>7. /\ mm.agent = m.agent /\ mm.actions = m.actions
        /\ \A k \in NoteIds : mm.note[k].agent = m.note[k].agent
        /\ mm.note[n].totalRepaid = m.note[n].totalRepaid + value
        /\ \A k \in NoteIds : k # n => mm.note[k].totalRepaid = m.note[k].totalRepaid
        /\ \A k \in NoteIds, j \in Periods :
             mm.period[k][j].paid = IF k = n /\ credit[j] # 0
                                    THEN paidOf[n][j] + credit[j] ELSE m.period[k][j].paid
    BY <1>9, <2>4
  <2>8. PaymentRow(done, n)
    BY <1>11, <1>13 DEF PaymentRow, tx
  <2> QED BY <2>5, <2>6, <2>7, <2>8, Zenon DEF PaidIn, mm, credit
<1> QED BY <1>10, <1>11

----------------------------------------------------------------------------
\* The rows after each transaction the indexer has heard of, and after all.

Good(m) == Counted(m) /\ EndsCounted(m) /\ Registered(m) /\ CollectedByMandate(m)
TxBelow(m) ==
  \A k \in DOMAIN m.repayments : m.repayments[k].tx < TxOf(m.repayments[k].note)
Latest(m) == Current(m) /\ TxBelow(m)

\* Current after a step, spelled out.
LEMMA CurrentThen ==
  ASSUME NEW m,
         \A n \in NoteIds :
           /\ m.note[n].status = status'[n]
           /\ m.note[n].agent = agentOf'[n]
           /\ m.note[n].totalRepaid = SumOf(paidOf'[n]) + surplusOf'[n]
           /\ m.note[n].totalDistributed = totalDistributed'[n]
           /\ \A i \in Periods :
                /\ m.period[n][i].end = PeriodEnd(i)
                /\ m.period[n][i].due = PeriodDue(i)
                /\ m.period[n][i].status = periodStatus'[n][i]
                /\ m.period[n][i].paid = periodPaid'[n][i]
  PROVE  Current(m)'
<1>1. \A i \in Periods : PeriodEnd(i)' = PeriodEnd(i) /\ PeriodDue(i)' = PeriodDue(i)
  BY DEF PeriodEnd, PeriodDue, Coupon
<1>2. \A n \in NoteIds :
        (SumOf(paidOf[n]) + surplusOf[n])' = SumOf(paidOf'[n]) + surplusOf'[n]
  BY DEF SumOf, SumTo, PartialSums
<1> QED BY <1>1, <1>2 DEF Current

LEMMA TxThen == \A n : TxOf(n)' = SumOf(paidOf'[n]) + surplusOf'[n]
BY DEF TxOf, SumOf, SumTo, PartialSums

LEMMA TxIsNat ==
  ASSUME TypeOK, NEW n \in NoteIds
  PROVE  TxOf(n) \in Nat /\ SumOf(paidOf[n]) \in Nat
<1>1. paidOf[n] \in [Periods -> Nat] /\ surplusOf[n] \in Nat
  BY DEF TypeOK
<1>2. SumOf(paidOf[n]) \in Nat
  BY <1>1, PeriodSumType
<1> QED BY <1>1, <1>2 DEF TxOf

\* The step that left what was paid in alone leaves every row below its note.
LEMMA TxKept ==
  ASSUME NEW m, TxBelow(m), UNCHANGED <<paidOf, surplusOf>>,
         NEW mm, mm.repayments = m.repayments
  PROVE  TxBelow(mm)'
<1>1. \A n : TxOf(n)' = TxOf(n)
  BY TxThen DEF TxOf
<1> QED BY <1>1 DEF TxBelow

LEMMA PayFollows ==
  ASSUME IndInv, NEW m, Good(m), Latest(m),
         NEW n \in NoteIds, NEW first \in Periods, NEW value \in Nat \ {0}, NEW payer \in Payers,
         RepayNote(n, first, value),
         NEW mm, mm = Applied(m, RepaymentEvents(n, first, value, payer))
  PROVE  Good(mm) /\ Latest(mm)'
<1> DEFINE credit == Credits(Room(n), first, value)
           left == Remaining(Room(n), first, value)[PeriodCount]
<1>0. TypeOK /\ LedgersAt(n) /\ Repay(n, first, value) /\ m \in RowsData
  BY DEF IndInv, NoteAt, RepayNote, Good, Counted
<1>1. /\ paidOf' = [paidOf EXCEPT ![n] = [i \in Periods |-> paidOf[n][i] + credit[i]]]
      /\ surplusOf' = [surplusOf EXCEPT ![n] = @ + left]
      /\ periodPaid' = [periodPaid EXCEPT ![n] = [i \in Periods |-> periodPaid[n][i] + credit[i]]]
      /\ UNCHANGED <<status, periodStatus, agentOf, totalDistributed>>
  BY <1>0, Zenon DEF Repay, RecordPayments, RepayNote, relayVars
<1>2. paidOf[n] \in [Periods -> Nat] /\ surplusOf[n] \in Nat
  BY <1>0 DEF TypeOK
<1>3. Room(n) \in [Periods -> Nat]
  BY <1>0, RoomIsRoom
<1>4. /\ credit \in [Periods -> Nat] /\ left \in Nat
      /\ SumOf([i \in Periods |-> paidOf[n][i] + credit[i]]) = SumOf(paidOf[n]) + (value - left)
  BY <1>2, <1>3, CreditsSpread
<1>5. TxOf(n) \in Nat /\ SumOf(paidOf[n]) \in Nat
  BY <1>0, TxIsNat
<1>6. \A k \in DOMAIN m.repayments :
        m.repayments[k].note = n => m.repayments[k].tx < TxOf(n)
  BY DEF Latest, TxBelow
<1>7. PaidIn(mm, m, n, value, credit)
  BY <1>0, <1>2, <1>4, <1>5, <1>6, PaymentApplied
<1> HIDE DEF credit, left
<1>8. PICK row : PaymentRow(row, n) /\ mm.repayments = Append(m.repayments, row)
  BY <1>7, Zenon DEF PaidIn
<1>9. Counted(mm) /\ EndsCounted(mm) /\ Registered(mm)
  <2>1. SameCounts(mm, m) /\ SameEnds(mm, m) /\ mm.agent = m.agent /\ mm.actions = m.actions
        /\ \A k \in NoteIds : mm.note[k].agent = m.note[k].agent
    BY <1>7 DEF PaidIn
  <2>2. Counted(m) /\ EndsCounted(m) /\ Registered(m)
    BY DEF Good
  <2>3. Counted(mm)
    BY <2>1, <2>2, CountedKept
  <2>4. Actions(mm, "Defaulted") = Actions(m, "Defaulted")
    BY <2>1 DEF Actions
  <2>5. EndsCounted(mm)
    BY <2>1, <2>2, <2>4, EndsKept
  <2> QED BY <2>1, <2>2, <2>3, <2>5 DEF Registered
<1> DEFINE old == m.repayments
           new == mm.repayments
<1>10. /\ old \in Seq(RepaymentData) /\ Len(old) \in Nat /\ DOMAIN old = 1..Len(old)
       /\ DOMAIN new = 1..(Len(old) + 1)
       /\ new[Len(old) + 1] = row
       /\ \A k \in 1..Len(old) : new[k] = old[k]
  <2>1. old \in Seq(RepaymentData)
    BY <1>0, RowParts
  <2> HIDE DEF old
  <2>2. new = Append(old, row)
    BY <1>8 DEF old
  <2> HIDE DEF new
  <2> QED BY <2>1, <2>2
<1>11. CollectedByMandate(mm)
  <2>1. \A k \in DOMAIN old : old[k].collected <=> old[k].payer = MandateContract
    BY DEF Good, CollectedByMandate
  <2> HIDE DEF old
  <2>2. \A k \in DOMAIN new : new[k].collected <=> new[k].payer = MandateContract
    <3> HIDE DEF new
    <3>1. row.collected <=> row.payer = MandateContract
      BY <1>8 DEF PaymentRow
    <3>2. ASSUME NEW k \in DOMAIN new PROVE new[k].collected <=> new[k].payer = MandateContract
      <4>1. CASE k = Len(old) + 1
        BY <1>10, <3>1, <4>1
      <4>2. CASE k # Len(old) + 1
        <5>1. k \in 1..Len(old)
          BY <1>10, <4>2
        <5> QED BY <1>10, <2>1, <5>1
      <4> QED BY <4>1, <4>2
    <3> QED BY <3>2
  <2> QED BY <2>2 DEF CollectedByMandate
<1>12. /\ paidOf'[n] = [i \in Periods |-> paidOf[n][i] + credit[i]]
       /\ surplusOf'[n] = surplusOf[n] + left
       /\ \A i \in Periods : periodPaid'[n][i] = periodPaid[n][i] + credit[i]
       /\ \A k \in NoteIds : k # n => /\ paidOf'[k] = paidOf[k] /\ surplusOf'[k] = surplusOf[k]
                                      /\ periodPaid'[k] = periodPaid[k]
  BY <1>0, <1>1 DEF TypeOK
<1>13. SumOf(paidOf'[n]) + surplusOf'[n] = TxOf(n) + value
  <2>1. SumOf(paidOf'[n]) = SumOf(paidOf[n]) + (value - left)
    BY <1>4, <1>12
  <2> QED BY <1>2, <1>4, <1>5, <1>12, <2>1 DEF TxOf
<1>14. Current(m)
  BY DEF Latest
<1>15. Current(mm)'
  <2>1. \A k \in NoteIds :
          /\ mm.note[k].status = m.note[k].status
          /\ mm.note[k].agent = m.note[k].agent
          /\ mm.note[k].totalDistributed = m.note[k].totalDistributed
          /\ \A j \in Periods :
               /\ mm.period[k][j].end = m.period[k][j].end
               /\ mm.period[k][j].due = m.period[k][j].due
               /\ mm.period[k][j].status = m.period[k][j].status
               /\ mm.period[k][j].paid = IF k = n /\ credit[j] # 0
                                         THEN paidOf[n][j] + credit[j] ELSE m.period[k][j].paid
          /\ k # n => mm.note[k].totalRepaid = m.note[k].totalRepaid
    BY <1>7 DEF PaidIn, SameCounts, SameEnds
  <2>2. mm.note[n].totalRepaid = m.note[n].totalRepaid + value
    BY <1>7 DEF PaidIn
  <2>3. \A j \in Periods : /\ periodPaid[n][j] = paidOf[n][j] /\ paidOf[n][j] \in Nat
                           /\ credit[j] \in Nat
    BY <1>0, <1>2, <1>4 DEF LedgersAt
  <2>4. ASSUME NEW k \in NoteIds
        PROVE  /\ mm.note[k].status = status'[k]
               /\ mm.note[k].agent = agentOf'[k]
               /\ mm.note[k].totalDistributed = totalDistributed'[k]
               /\ \A i \in Periods :
                    /\ mm.period[k][i].end = PeriodEnd(i)
                    /\ mm.period[k][i].due = PeriodDue(i)
                    /\ mm.period[k][i].status = periodStatus'[k][i]
    BY <1>1, <1>14, <2>1 DEF Current
  <2>5. ASSUME NEW k \in NoteIds
        PROVE  mm.note[k].totalRepaid = SumOf(paidOf'[k]) + surplusOf'[k]
    <3>1. m.note[k].totalRepaid = TxOf(k)
      BY <1>14 DEF Current, TxOf
    <3>2. CASE k = n
      BY <1>13, <2>2, <3>1, <3>2
    <3>3. CASE k # n
      BY <1>12, <2>1, <3>1, <3>3 DEF TxOf
    <3> QED BY <3>2, <3>3
  <2>6. ASSUME NEW k \in NoteIds, NEW i \in Periods
        PROVE  mm.period[k][i].paid = periodPaid'[k][i]
    <3>1. m.period[k][i].paid = periodPaid[k][i]
      BY <1>14 DEF Current
    <3>2. CASE k = n
      <4>1. periodPaid'[n][i] = paidOf[n][i] + credit[i]
        BY <1>12, <2>3
      <4>2. credit[i] = 0 => paidOf[n][i] + credit[i] = paidOf[n][i]
        BY <2>3
      <4> QED BY <2>1, <2>3, <3>1, <3>2, <4>1, <4>2
    <3>3. CASE k # n
      BY <1>12, <2>1, <3>1, <3>3
    <3> QED BY <3>2, <3>3
  <2> QED BY <2>4, <2>5, <2>6, CurrentThen
<1>16. TxBelow(mm)'
  <2>1. TxOf(n)' = TxOf(n) + value /\ TxOf(n) < TxOf(n)'
    BY <1>5, <1>13, TxThen
  <2>2. \A k \in NoteIds : k # n => TxOf(k)' = TxOf(k)
    BY <1>12, TxThen DEF TxOf
  <2>3. row.tx = TxOf(n) /\ row.note = n
    BY <1>8 DEF PaymentRow
  <2>4. \A k \in DOMAIN old : old[k].tx < TxOf(old[k].note)
    BY DEF Latest, TxBelow
  <2>5. \A k \in DOMAIN old : old[k].note \in NoteIds /\ old[k].tx \in Nat
    <3>1. \A k \in DOMAIN old : old[k] \in RepaymentData
      <4> HIDE DEF old
      <4> QED BY <1>10
    <3> HIDE DEF old
    <3> QED BY <3>1 DEF RepaymentData
  <2> HIDE DEF old
  <2>6. ASSUME NEW k \in DOMAIN new PROVE new[k].tx < TxOf(new[k].note)'
    <3> HIDE DEF new
    <3>1. CASE k = Len(old) + 1
      BY <1>10, <2>1, <2>3, <3>1
    <3>2. CASE k # Len(old) + 1
      <4>1. k \in DOMAIN old /\ new[k] = old[k]
        BY <1>10, <3>2
      <4>2. CASE old[k].note = n
        BY <1>5, <2>1, <2>4, <2>5, <4>1, <4>2
      <4>3. CASE old[k].note # n
        BY <2>2, <2>4, <2>5, <4>1, <4>3
      <4> QED BY <4>2, <4>3
    <3> QED BY <3>1, <3>2
  <2> QED BY <2>6 DEF TxBelow
<1> QED BY <1>9, <1>11, <1>15, <1>16 DEF Good, Latest

\* A delegation, given or withdrawn.
LEMMA DelegationFollows ==
  ASSUME IndInv, NEW m, Good(m), Latest(m), NEW n \in NoteIds, NEW a \in Agents \cup {NoAgent},
         agentOf' = [agentOf EXCEPT ![n] = a],
         UNCHANGED <<noteVars, vaultVars, totalDistributed>>,
         NEW mm, DelegatedTo(mm, m, n, a),
         \A b \in Agents : b # a => mm.agent[b] = m.agent[b],
         a \in Agents => /\ mm.agent[a] # NoRow
                         /\ mm.agent[a].actionsTaken = RowOf(m, a).actionsTaken
                         /\ mm.agent[a].feesEarned = RowOf(m, a).feesEarned
  PROVE  Good(mm) /\ Latest(mm)'
<1>1. Counted(m) /\ EndsCounted(m) /\ Registered(m) /\ CollectedByMandate(m)
  BY DEF Good
<1>2. Counted(mm) /\ EndsCounted(mm) /\ Registered(mm)
  BY <1>1, DelegationCounted
<1>3. /\ SameCounts(mm, m) /\ SameEnds(mm, m) /\ mm.period = m.period
      /\ mm.repayments = m.repayments
      /\ mm.note[n].agent = a
      /\ \A k \in NoteIds : k # n => mm.note[k].agent = m.note[k].agent
      /\ \A k \in NoteIds : mm.note[k].totalRepaid = m.note[k].totalRepaid
  BY DEF DelegatedTo
<1>4. CollectedByMandate(mm)
  BY <1>1, <1>3 DEF CollectedByMandate
<1>5. /\ UNCHANGED <<status, periodStatus, periodPaid, paidOf, surplusOf, totalDistributed>>
      /\ agentOf'[n] = a
      /\ \A k \in NoteIds : k # n => agentOf'[k] = agentOf[k]
  BY DEF IndInv, TypeOK, noteVars, vaultVars
<1>6. Current(m)
  BY DEF Latest
<1>7. Current(mm)'
  <2>1. ASSUME NEW k \in NoteIds
        PROVE  /\ mm.note[k].status = status'[k]
               /\ mm.note[k].agent = agentOf'[k]
               /\ mm.note[k].totalRepaid = SumOf(paidOf'[k]) + surplusOf'[k]
               /\ mm.note[k].totalDistributed = totalDistributed'[k]
               /\ \A i \in Periods :
                    /\ mm.period[k][i].end = PeriodEnd(i)
                    /\ mm.period[k][i].due = PeriodDue(i)
                    /\ mm.period[k][i].status = periodStatus'[k][i]
                    /\ mm.period[k][i].paid = periodPaid'[k][i]
    BY <1>3, <1>5, <1>6 DEF Current, SameCounts, SameEnds
  <2> QED BY <2>1, CurrentThen
<1>8. TxBelow(mm)'
  BY <1>3, <1>5, TxKept DEF Latest
<1> QED BY <1>1, <1>2, <1>4, <1>7, <1>8 DEF Good, Latest

LEMMA DelegateFollows ==
  ASSUME IndInv, NEW m, Good(m), Latest(m), NEW n \in NoteIds, NEW a \in Agents,
         Delegate(n, a),
         NEW mm, mm = Applied(m, <<[event |-> "DelegationSet", note |-> n, agent |-> a]>>)
  PROVE  Good(mm) /\ Latest(mm)'
<1> DEFINE e == [event |-> "DelegationSet", note |-> n, agent |-> a]
<1>1. mm = handleDelegationSet(m, e)
  <2>1. e.event = "DelegationSet"
    OBVIOUS
  <2> HIDE DEF e
  <2>2. Applied(m, <<e>>) = Handle(m, e)
    BY AppliedOne
  <2> QED BY <2>1, <2>2, HandleIs, Zenon DEF e
<1>2. m \in RowsData
  BY DEF Good, Counted
<1>3. /\ DelegatedTo(mm, m, n, a)
      /\ \A b \in Agents : b # a => mm.agent[b] = m.agent[b]
      /\ mm.agent[a] # NoRow
      /\ mm.agent[a].actionsTaken = RowOf(m, a).actionsTaken
      /\ mm.agent[a].feesEarned = RowOf(m, a).feesEarned
  BY <1>1, <1>2, DelegationRows, Zenon
<1>4. /\ agentOf' = [agentOf EXCEPT ![n] = a]
      /\ UNCHANGED <<noteVars, vaultVars, totalDistributed>>
  BY DEF Delegate
<1>5. a \in Agents \cup {NoAgent}
  OBVIOUS
<1> QED BY <1>3, <1>4, <1>5, DelegationFollows

LEMMA RevokeFollows ==
  ASSUME IndInv, NEW m, Good(m), Latest(m), NEW n \in NoteIds, RevokeDelegation(n),
         NEW mm, mm = Applied(m, <<[event |-> "DelegationRevoked", note |-> n]>>)
  PROVE  Good(mm) /\ Latest(mm)'
<1> DEFINE e == [event |-> "DelegationRevoked", note |-> n]
<1>1. mm = handleDelegationRevoked(m, e)
  <2>1. e.event = "DelegationRevoked"
    OBVIOUS
  <2> HIDE DEF e
  <2>2. Applied(m, <<e>>) = Handle(m, e)
    BY AppliedOne
  <2> QED BY <2>1, <2>2, HandleIs, Zenon DEF e
<1>2. m \in RowsData
  BY DEF Good, Counted
<1>3. DelegatedTo(mm, m, n, NoAgent) /\ mm.agent = m.agent
  BY <1>1, <1>2, RevokedRows, Zenon
<1>4. /\ agentOf' = [agentOf EXCEPT ![n] = NoAgent]
      /\ UNCHANGED <<noteVars, vaultVars, totalDistributed>>
  BY DEF RevokeDelegation
<1>5. NoAgent \in Agents \cup {NoAgent} /\ NoAgent \notin Agents
  BY RelayAssumption
<1> QED BY <1>3, <1>4, <1>5, DelegationFollows

\* The rows once the note's change of status, if any, is in.
Moved(moved, m, n) ==
  /\ moved \in RowsData
  /\ moved.period = m.period /\ moved.agent = m.agent
  /\ moved.repayments = m.repayments /\ moved.actions = m.actions
  /\ moved.note[n].status = status'[n]
  /\ \A k \in NoteIds :
       /\ k # n => moved.note[k] = m.note[k]
       /\ moved.note[k].agent = m.note[k].agent
       /\ moved.note[k].totalRepaid = m.note[k].totalRepaid
       /\ moved.note[k].totalDistributed = m.note[k].totalDistributed

\* It comes before the event of the action itself.
LEMMA StatusApplied ==
  ASSUME NEW m, Counted(m), EndsCounted(m), Registered(m), NEW n \in NoteIds,
         m.note[n].status = status[n], Live(n), status'[n] \in NoteStatus \ {"Defaulted"},
         NEW e, NEW mm, mm = Applied(m, StatusEvents(n) \o <<e>>)
  PROVE  \E moved : /\ mm = Handle(moved, e)
                    /\ Counted(moved) /\ EndsCounted(moved) /\ Registered(moved)
                    /\ Moved(moved, m, n)
<1>1. m \in RowsData
  BY DEF Counted
<1>2. CASE status'[n] = status[n]
  <2>1. StatusEvents(n) = <<>>
    BY <1>2 DEF StatusEvents
  <2>2. <<>> \o <<e>> = <<e>>
    OBVIOUS
  <2>3. mm = Handle(m, e)
    BY <2>1, <2>2, AppliedOne
  <2>4. Moved(m, m, n)
    BY <1>1, <1>2 DEF Moved
  <2> QED BY <2>3, <2>4
<1>3. CASE status'[n] # status[n]
  <2> DEFINE f == [event |-> "StatusChanged", note |-> n, to |-> status'[n]]
             to == status'[n]
             moved == handleStatusChanged(m, f)
  <2>1. StatusEvents(n) = <<f>>
    BY <1>3 DEF StatusEvents
  <2>2. f.event = "StatusChanged"
    OBVIOUS
  <2>3. StatusMoved(moved, m, n, to)
    <3> HIDE DEF moved
    <3>1. to \in NoteStatus /\ moved = handleStatusChanged(m, [event |-> "StatusChanged", note |-> n, to |-> to])
      BY DEF moved
    <3> HIDE DEF to
    <3> QED BY <1>1, <3>1, StatusRows, Zenon
  <2> HIDE DEF f
  <2>4. Applied(m, <<f>> \o <<e>>) = Handle(Handle(m, f), e)
    BY AppliedTwo
  <2>5. mm = Handle(moved, e)
    BY <2>1, <2>2, <2>4, HandleIs, Zenon
  <2> HIDE DEF moved
  <2>6. Counted(moved) /\ Registered(moved)
    BY <2>3, StatusCounted
  <2>7. m.note[n].status \notin {"Matured", "Defaulted"} /\ to # "Defaulted"
    BY DEF Live
  <2>8. EndsCounted(moved)
    BY <1>1, <2>3, <2>7, StatusEndsCounted
  <2>9. ASSUME NEW k \in NoteIds
        PROVE  /\ moved.note[k].agent = m.note[k].agent
               /\ moved.note[k].totalRepaid = m.note[k].totalRepaid
               /\ moved.note[k].totalDistributed = m.note[k].totalDistributed
    <3> DEFINE r == m.note[k]
               s == moved.note[k].status
    <3>1. moved.note[k] = [r EXCEPT !.status = s] /\ r \in NoteData
      BY <1>1, <2>3, RowData DEF StatusMoved
    <3> HIDE DEF s
    <3> QED BY <3>1 DEF NoteData
  <2>10. Moved(moved, m, n)
    BY <2>3, <2>9 DEF StatusMoved, Moved
  <2> QED BY <2>5, <2>6, <2>8, <2>10
<1> QED BY <1>2, <1>3

\* An action on a period, after the change of status.
LEMMA ActionFollows ==
  ASSUME IndInv, NEW m, Good(m), Latest(m), NEW n \in NoteIds, NEW i \in Periods,
         NEW a \in Agents, a = agentOf[n],
         \A k \in NoteIds : k # n => status'[k] = status[k],
         NEW kind, NEW to, periodStatus' = [periodStatus EXCEPT ![n][i] = to],
         NEW out \in Nat, totalDistributed' = [totalDistributed EXCEPT ![n] = @ + out],
         UNCHANGED <<agentOf, periodPaid, paidOf, surplusOf>>,
         NEW moved, Counted(moved), EndsCounted(moved), Registered(moved), Moved(moved, m, n),
         NEW fee \in Nat, TakenOnce(moved, kind, n, i, to, fee),
         NEW mm, ActedOn(mm, moved, kind, n, i, a, to, fee, out)
  PROVE  Good(mm) /\ Latest(mm)'
<1>1. Current(m) /\ CollectedByMandate(m)
  BY DEF Good, Latest
<1>2. moved.agent[a] # NoRow
  <2>1. m.note[n].agent = a /\ a # NoAgent
    BY <1>1, RelayAssumption DEF Current
  <2>2. moved.note[n].agent = a
    BY <2>1 DEF Moved
  <2> QED BY <2>1, <2>2 DEF Registered
<1>3. Counted(mm)
  BY <1>2, ActionCounted
<1>4. EndsCounted(mm) /\ Registered(mm)
  <2>1. moved \in RowsData /\ kind # "Defaulted"
    BY DEF Moved, TakenOnce
  <2> QED BY <2>1, ActionEnds
<1>5. mm.repayments = m.repayments
  BY DEF ActedOn, Moved
<1>6. CollectedByMandate(mm)
  BY <1>1, <1>5 DEF CollectedByMandate
<1>7. TxBelow(mm)'
  BY <1>5, TxKept DEF Latest
<1>8. /\ \A k \in NoteIds, j \in Periods :
           periodStatus'[k][j] = IF k = n /\ j = i THEN to ELSE periodStatus[k][j]
      /\ totalDistributed'[n] = totalDistributed[n] + out
      /\ \A k \in NoteIds : k # n => totalDistributed'[k] = totalDistributed[k]
  BY DEF IndInv, TypeOK
<1>9. ASSUME NEW k \in NoteIds
      PROVE  /\ mm.note[k].status = status'[k]
             /\ mm.note[k].agent = agentOf'[k]
             /\ mm.note[k].totalRepaid = SumOf(paidOf'[k]) + surplusOf'[k]
             /\ mm.note[k].totalDistributed = totalDistributed'[k]
             /\ \A j \in Periods :
                  /\ mm.period[k][j].end = PeriodEnd(j)
                  /\ mm.period[k][j].due = PeriodDue(j)
                  /\ mm.period[k][j].status = periodStatus'[k][j]
                  /\ mm.period[k][j].paid = periodPaid'[k][j]
  <2>1. /\ mm.note[k].status = moved.note[k].status
        /\ mm.note[k].agent = m.note[k].agent
        /\ mm.note[k].totalRepaid = m.note[k].totalRepaid
        /\ k # n => mm.note[k] = m.note[k] /\ moved.note[k] = m.note[k]
        /\ \A j \in Periods :
             /\ mm.period[k][j].end = m.period[k][j].end
             /\ mm.period[k][j].due = m.period[k][j].due
             /\ mm.period[k][j].paid = m.period[k][j].paid
             /\ mm.period[k][j].status = IF k = n /\ j = i THEN to ELSE m.period[k][j].status
    BY DEF ActedOn, Moved
  <2>2. mm.note[n].totalDistributed = m.note[n].totalDistributed + out
    BY DEF ActedOn, Moved
  <2>3. mm.note[k].status = status'[k]
    <3>1. CASE k = n
      BY <2>1, <3>1 DEF Moved
    <3>2. CASE k # n
      BY <1>1, <2>1, <3>2 DEF Current
    <3> QED BY <3>1, <3>2
  <2>4. mm.note[k].totalDistributed = totalDistributed'[k]
    <3>1. CASE k = n
      BY <1>1, <1>8, <2>2, <3>1 DEF Current
    <3>2. CASE k # n
      BY <1>1, <1>8, <2>1, <3>2 DEF Current
    <3> QED BY <3>1, <3>2
  <2> QED BY <1>1, <1>8, <2>1, <2>3, <2>4 DEF Current
<1>10. Current(mm)'
  BY <1>9, CurrentThen
<1> QED BY <1>3, <1>4, <1>6, <1>7, <1>10 DEF Good, Latest

LEMMA SettleFollows ==
  ASSUME IndInv, NEW m, Good(m), Latest(m), NEW n \in NoteIds, NEW i \in Periods,
         NEW a \in Agents, SettlePeriod(n, i, a, TRUE),
         NEW mm,
         mm = Applied(m, StatusEvents(n) \o
                <<[event |-> "PeriodSettled", note |-> n, period |-> i, sender |-> a,
                   distributed |-> Net(i), servicingFee |-> Fee(i), timestamp |-> now]>>)
  PROVE  Good(mm) /\ Latest(mm)'
<1> DEFINE e == [event |-> "PeriodSettled", note |-> n, period |-> i, sender |-> a,
                 distributed |-> Net(i), servicingFee |-> Fee(i), timestamp |-> now]
           to == StatusOnPayout(n, i)
<1>1. /\ TypeOK /\ now \in Nat
      /\ Counted(m) /\ EndsCounted(m) /\ Registered(m) /\ Current(m)
  BY DEF IndInv, TypeOK, Good, Latest
<1>2. /\ a = agentOf[n] /\ Live(n) /\ periodStatus[n][i] \notin Done
      /\ periodStatus' = [periodStatus EXCEPT ![n][i] = to]
      /\ totalDistributed' = [totalDistributed EXCEPT ![n] = @ + Net(i)]
      /\ UNCHANGED <<agentOf, periodPaid, paidOf, surplusOf>>
  BY DEF SettlePeriod, MaySettle, MarkSettled, Release
<1>3. /\ \A k \in NoteIds : k # n => status'[k] = status[k]
      /\ status'[n] \in NoteStatus \ {"Defaulted"}
  <2>1. PICK s : /\ status' = [status EXCEPT ![n] = s]
                 /\ s \in {"Matured", "Active", status[n]}
    BY DEF SettlePeriod, MarkSettled, StatusOnSettle
  <2>2. status[n] \in NoteStatus \ {"Defaulted"}
    BY <1>1, <1>2 DEF TypeOK, Live
  <2>3. status'[n] = s
    BY <1>1, <2>1 DEF TypeOK
  <2> QED BY <1>1, <2>1, <2>2, <2>3 DEF TypeOK, NoteStatus
<1>4. m.note[n].status = status[n] /\ m.period[n][i].status = periodStatus[n][i]
  BY <1>1 DEF Current
<1>5. e.event = "PeriodSettled"
  OBVIOUS
<1>6. Fee(i) \in Nat /\ Net(i) \in Nat
  BY FeeAndNet
<1>7. to = IF m.period[n][i].status = "Missed" THEN "Cured" ELSE "Settled"
  BY <1>4 DEF StatusOnPayout
<1> HIDE DEF e, to
<1>8. PICK moved : /\ mm = Handle(moved, e)
                   /\ Counted(moved) /\ EndsCounted(moved) /\ Registered(moved)
                   /\ Moved(moved, m, n)
  <2>1. mm = Applied(m, StatusEvents(n) \o <<e>>)
    BY DEF e
  <2> QED BY <1>1, <1>2, <1>3, <1>4, <2>1, StatusApplied
<1>9. mm = handlePeriodSettled(moved, e)
  BY <1>5, <1>8, HandleIs, Zenon
<1>10. moved.period = m.period /\ moved \in RowsData
  BY <1>8 DEF Moved
<1>11. ActedOn(mm, moved, "Settled", n, i, a,
               IF moved.period[n][i].status = "Missed" THEN "Cured" ELSE "Settled", Fee(i), Net(i))
  BY <1>1, <1>6, <1>9, <1>10, SettledRows, Zenon DEF e
<1>12. ActedOn(mm, moved, "Settled", n, i, a, to, Fee(i), Net(i))
  BY <1>7, <1>10, <1>11
<1>13. TakenOnce(moved, "Settled", n, i, to, Fee(i))
  BY <1>2, <1>4, <1>7, <1>10 DEF TakenOnce
<1> QED BY <1>2, <1>3, <1>6, <1>8, <1>12, <1>13, ActionFollows

LEMMA MissFollows ==
  ASSUME IndInv, NEW m, Good(m), Latest(m), NEW n \in NoteIds, NEW i \in Periods,
         NEW a \in Agents, MarkDelinquent(n, i, a),
         NEW mm,
         mm = Applied(m, StatusEvents(n) \o
                <<[event |-> "MarkedDelinquent", note |-> n, period |-> i, sender |-> a]>>)
  PROVE  Good(mm) /\ Latest(mm)'
<1> DEFINE e == [event |-> "MarkedDelinquent", note |-> n, period |-> i, sender |-> a]
<1>1. /\ TypeOK
      /\ Counted(m) /\ EndsCounted(m) /\ Registered(m) /\ Current(m)
  BY DEF IndInv, Good, Latest
<1>2. /\ a = agentOf[n] /\ Live(n) /\ periodStatus[n][i] = "Pending"
      /\ periodStatus' = [periodStatus EXCEPT ![n][i] = "Missed"]
      /\ status' = [status EXCEPT ![n] = "Delinquent"]
      /\ UNCHANGED <<agentOf, periodPaid, paidOf, surplusOf, totalDistributed>>
  BY DEF MarkDelinquent, MarkMissed, vaultVars, relayVars
<1>3. /\ \A k \in NoteIds : k # n => status'[k] = status[k]
      /\ status'[n] \in NoteStatus \ {"Defaulted"}
  BY <1>1, <1>2 DEF TypeOK, NoteStatus
<1>4. m.note[n].status = status[n] /\ m.period[n][i].status = periodStatus[n][i]
  BY <1>1 DEF Current
<1>5. e.event = "MarkedDelinquent"
  OBVIOUS
<1>6. totalDistributed' = [totalDistributed EXCEPT ![n] = @ + 0]
  <2>1. totalDistributed \in [NoteIds -> Nat]
    BY <1>1 DEF TypeOK
  <2> QED BY <1>2, <2>1
<1> HIDE DEF e
<1>8. PICK moved : /\ mm = Handle(moved, e)
                   /\ Counted(moved) /\ EndsCounted(moved) /\ Registered(moved)
                   /\ Moved(moved, m, n)
  <2>1. mm = Applied(m, StatusEvents(n) \o <<e>>)
    BY DEF e
  <2> QED BY <1>1, <1>2, <1>3, <1>4, <2>1, StatusApplied
<1>9. mm = handleMarkedDelinquent(moved, e)
  BY <1>5, <1>8, HandleIs, Zenon
<1>10. moved.period = m.period /\ moved \in RowsData
  BY <1>8 DEF Moved
<1>11. ActedOn(mm, moved, "MarkedDelinquent", n, i, a, "Missed", 0, 0)
  BY <1>9, <1>10, MissedRows, Zenon DEF e
<1>13. TakenOnce(moved, "MarkedDelinquent", n, i, "Missed", 0)
  BY <1>2, <1>4, <1>10 DEF TakenOnce
<1>14. 0 \in Nat
  OBVIOUS
<1> QED BY <1>2, <1>3, <1>6, <1>8, <1>11, <1>13, <1>14, ActionFollows

LEMMA CloseFollows ==
  ASSUME IndInv, NEW m, Good(m), Latest(m), NEW n \in NoteIds, NEW a \in Agents,
         DefaultNote(n, a),
         NEW mm,
         mm = Applied(m, StatusEvents(n) \o <<[event |-> "Defaulted", note |-> n, sender |-> a]>>)
  PROVE  Good(mm) /\ Latest(mm)'
<1> DEFINE e == [event |-> "Defaulted", note |-> n, sender |-> a]
           f == [event |-> "StatusChanged", note |-> n, to |-> "Defaulted"]
           moved == handleStatusChanged(m, f)
<1>1. /\ TypeOK /\ m \in RowsData
      /\ Counted(m) /\ EndsCounted(m) /\ Registered(m) /\ Current(m) /\ CollectedByMandate(m)
  BY DEF IndInv, Good, Latest, Counted
<1>2. /\ Live(n)
      /\ status' = [status EXCEPT ![n] = "Defaulted"]
      /\ UNCHANGED <<agentOf, periodStatus, periodPaid, paidOf, surplusOf, totalDistributed>>
  BY DEF DefaultNote, MarkDefaulted, vaultVars, relayVars
<1>3. /\ status'[n] = "Defaulted" /\ status[n] # "Defaulted"
      /\ \A k \in NoteIds : k # n => status'[k] = status[k]
  BY <1>1, <1>2 DEF TypeOK, Live
<1>4. e.event = "Defaulted" /\ f.event = "StatusChanged" /\ "Defaulted" \in NoteStatus
  BY DEF NoteStatus
<1>5. StatusEvents(n) = <<f>>
  BY <1>3 DEF StatusEvents
<1>6. StatusMoved(moved, m, n, "Defaulted")
  <2> HIDE DEF moved
  <2>1. moved = handleStatusChanged(m, [event |-> "StatusChanged", note |-> n, to |-> "Defaulted"])
    BY DEF moved
  <2> QED BY <1>1, <1>4, <2>1, StatusRows, Zenon
<1>7. mm = handleDefaulted(moved, e)
  <2> HIDE DEF e, f
  <2>1. mm = Applied(m, <<f>> \o <<e>>)
    BY <1>5 DEF e
  <2>2. mm = Handle(Handle(m, f), e)
    BY <2>1, AppliedTwo
  <2> QED BY <1>4, <2>2, HandleIs, Zenon
<1> HIDE DEF moved
<1>8. /\ mm \in RowsData
      /\ mm.period = moved.period /\ mm.note = moved.note /\ mm.originator = moved.originator
      /\ mm.borrower = moved.borrower /\ mm.agent = moved.agent
      /\ mm.repayments = moved.repayments
      /\ mm.actions = moved.actions \cup {<<"Defaulted", n, NoRow, a>>}
  <2>1. moved \in RowsData
    BY <1>6 DEF StatusMoved
  <2> HIDE DEF e
  <2>2. DefaultOnRecord(mm, moved, n, a)
    BY <1>7, <2>1, DefaultedRows, Zenon DEF e
  <2> QED BY <2>2 DEF DefaultOnRecord
<1>9. Counted(mm) /\ EndsCounted(mm) /\ Registered(mm)
  <2>1. m.note[n].status \notin {"Matured", "Defaulted"}
    BY <1>1, <1>2 DEF Current, Live
  <2> QED BY <1>1, <1>6, <1>8, <2>1, DefaultCounted
<1>10. /\ mm.repayments = m.repayments /\ mm.period = m.period
       /\ mm.note[n].status = "Defaulted"
       /\ \A k \in NoteIds : k # n => mm.note[k] = m.note[k]
  BY <1>6, <1>8 DEF StatusMoved
<1>11. CollectedByMandate(mm)
  BY <1>1, <1>10 DEF CollectedByMandate
<1>12. TxBelow(mm)'
  BY <1>2, <1>10, TxKept DEF Latest
<1>13. ASSUME NEW k \in NoteIds
       PROVE  /\ mm.note[k].agent = m.note[k].agent
              /\ mm.note[k].totalRepaid = m.note[k].totalRepaid
              /\ mm.note[k].totalDistributed = m.note[k].totalDistributed
  <2> DEFINE r == m.note[k]
             s == moved.note[k].status
  <2>1. mm.note[k] = [r EXCEPT !.status = s] /\ r \in NoteData
    BY <1>1, <1>6, <1>8, RowData DEF StatusMoved
  <2> HIDE DEF s
  <2> QED BY <2>1 DEF NoteData
<1>14. ASSUME NEW k \in NoteIds
       PROVE  /\ mm.note[k].status = status'[k]
              /\ mm.note[k].agent = agentOf'[k]
              /\ mm.note[k].totalRepaid = SumOf(paidOf'[k]) + surplusOf'[k]
              /\ mm.note[k].totalDistributed = totalDistributed'[k]
              /\ \A j \in Periods :
                   /\ mm.period[k][j].end = PeriodEnd(j)
                   /\ mm.period[k][j].due = PeriodDue(j)
                   /\ mm.period[k][j].status = periodStatus'[k][j]
                   /\ mm.period[k][j].paid = periodPaid'[k][j]
  <2>1. mm.note[k].status = status'[k]
    BY <1>1, <1>3, <1>10 DEF Current
  <2> QED BY <1>1, <1>2, <1>10, <1>13, <2>1 DEF Current
<1>15. Current(mm)'
  BY <1>14, CurrentThen
<1> QED BY <1>9, <1>11, <1>12, <1>15 DEF Good, Latest

----------------------------------------------------------------------------
\* The rows along the transactions the indexer has yet to reach.

\* No period's row has more paid than it has due.
Payable(m) == \A n \in NoteIds, i \in Periods : m.period[n][i].paid <= m.period[n][i].due

\* ms[k] is what the first k - 1 of those transactions make of the rows; the
\* last says what the contracts hold.
Reached(ms, T) ==
  /\ unindexed \in Seq(T)
  /\ ms[1] = mirror
  /\ \A k \in 1..Len(unindexed) : ms[k + 1] = Applied(ms[k], unindexed[k])
  /\ \A k \in 1..(Len(unindexed) + 1) : Good(ms[k]) /\ Payable(ms[k])
  /\ Latest(ms[Len(unindexed) + 1])

IndexInv == IndInv /\ \E ms, T : Reached(ms, T)

LEMMA PayableThen ==
  ASSUME IndInv', NEW m, Current(m)'
  PROVE  Payable(m)
<1>1. \A i \in Periods : PeriodDue(i)' = PeriodDue(i)
  BY DEF PeriodDue, Coupon
<1>2. ASSUME NEW n \in NoteIds, NEW i \in Periods
      PROVE  m.period[n][i].paid <= m.period[n][i].due
  <2>1. periodPaid'[n][i] = paidOf'[n][i] /\ paidOf'[n][i] <= PeriodDue(i)
    BY <1>1 DEF IndInv, NoteAt, LedgersAt
  <2>2. m.period[n][i].paid = periodPaid'[n][i] /\ m.period[n][i].due = PeriodDue(i)
    BY <1>1 DEF Current
  <2> QED BY <2>1, <2>2
<1> QED BY <1>2 DEF Payable

LEMMA LatestKept ==
  ASSUME UNCHANGED <<noteVars, vaultVars, relayVars>>, NEW m, Latest(m)
  PROVE  Latest(m)'
<1>1. UNCHANGED <<status, agentOf, totalDistributed, periodStatus, periodPaid, paidOf, surplusOf>>
  BY DEF noteVars, vaultVars, relayVars
<1>2. Current(m)
  BY DEF Latest
<1>3. ASSUME NEW n \in NoteIds
      PROVE  /\ m.note[n].status = status'[n]
             /\ m.note[n].agent = agentOf'[n]
             /\ m.note[n].totalRepaid = SumOf(paidOf'[n]) + surplusOf'[n]
             /\ m.note[n].totalDistributed = totalDistributed'[n]
             /\ \A i \in Periods :
                  /\ m.period[n][i].end = PeriodEnd(i)
                  /\ m.period[n][i].due = PeriodDue(i)
                  /\ m.period[n][i].status = periodStatus'[n][i]
                  /\ m.period[n][i].paid = periodPaid'[n][i]
  BY <1>1, <1>2 DEF Current
<1>4. Current(m)'
  BY <1>3, CurrentThen
<1>5. TxBelow(m)'
  BY <1>1, TxKept DEF Latest
<1> QED BY <1>4, <1>5 DEF Latest

LEMMA RowsInitially ==
  ASSUME IndexInit
  PROVE  Good(mirror) /\ Payable(mirror) /\ Latest(mirror)
<1>1. /\ mirror.note = [n \in NoteIds |-> NoteRow]
      /\ mirror.period = [n \in NoteIds |-> [i \in Periods |-> PeriodRow(i)]]
      /\ mirror.agent = [a \in Agents |-> NoRow]
      /\ mirror.originator = [periodsSettled |-> 0, periodsMissed |-> 0,
                              periodsCuredBySelf |-> 0, notesMatured |-> 0,
                              notesDefaulted |-> 0]
      /\ mirror.borrower = [periodsSettled |-> 0, periodsMissed |-> 0,
                            periodsCured |-> 0, totalDaysLate |-> 0,
                            principalRepaid |-> 0, notesMatured |-> 0,
                            notesDefaulted |-> 0]
      /\ mirror.repayments = <<>>
      /\ mirror.actions = {}
      /\ mirror = [note |-> mirror.note, period |-> mirror.period, agent |-> mirror.agent,
                   originator |-> mirror.originator, borrower |-> mirror.borrower,
                   repayments |-> mirror.repayments, actions |-> mirror.actions]
  BY DEF IndexInit
<1>2. ASSUME NEW i \in Periods
      PROVE  /\ PeriodRow(i) \in PeriodData
             /\ PeriodRow(i).end = PeriodEnd(i) /\ PeriodRow(i).due = PeriodDue(i)
             /\ PeriodRow(i).status = "Pending" /\ PeriodRow(i).paid = 0
  <2> DEFINE start == MintedAt + PeriodLength * i
             due == Coupon + (IF i = PeriodCount - 1 THEN Principal ELSE 0)
             row == [start |-> start, end |-> start + PeriodLength, due |-> due, paid |-> 0,
                     status |-> "Pending", latenessSeconds |-> 0]
  <2>1. PeriodRow(i) = row
    BY DEF PeriodRow, Coupon
  <2>2. start \in Nat /\ start + PeriodLength \in Nat /\ start + PeriodLength = PeriodEnd(i)
    <3>1. PeriodLength * i \in Nat /\ (i + 1) * PeriodLength = PeriodLength * i + PeriodLength
      BY TermsAssumption DEF Periods
    <3> QED BY <3>1, TermsAssumption DEF PeriodEnd
  <2>3. due \in Nat /\ due = PeriodDue(i)
    <3>1. PeriodDue(i) \in Nat /\ Coupon \in Nat
      <4>1. Principal * CouponBps \in Nat
        BY TermsAssumption
      <4> QED BY <4>1, DueIsNat DEF Coupon, BPS
    <3> QED BY <3>1, TermsAssumption DEF PeriodDue
  <2>4. "Pending" \in PeriodStatus
    BY DEF PeriodStatus
  <2> HIDE DEF start, due
  <2> QED BY <2>1, <2>2, <2>3, <2>4 DEF PeriodData
<1>3. /\ NoteRow \in NoteData
      /\ NoteRow.status = "Active" /\ NoteRow.agent = NoAgent
      /\ NoteRow.periodsSettled = 0 /\ NoteRow.periodsMissed = 0
      /\ NoteRow.totalRepaid = 0 /\ NoteRow.totalDistributed = 0
      /\ NoteRow.servicingFeesPaid = 0
  BY DEF NoteRow, NoteData, NoteStatus
<1> HIDE DEF NoteRow, PeriodRow
<1>4. /\ \A n \in NoteIds : mirror.note[n] = NoteRow
      /\ \A n \in NoteIds, i \in Periods : mirror.period[n][i] = PeriodRow(i)
      /\ \A a \in Agents : mirror.agent[a] = NoRow
  BY <1>1
<1>5. mirror \in RowsData
  <2>1. /\ mirror.note \in [NoteIds -> NoteData]
        /\ mirror.period \in [NoteIds -> [Periods -> PeriodData]]
        /\ mirror.agent \in [Agents -> AgentData \cup {NoRow}]
    BY <1>1, <1>2, <1>3
  <2>2. mirror.originator \in OriginatorData /\ mirror.borrower \in BorrowerData
    BY <1>1 DEF OriginatorData, BorrowerData
  <2>3. mirror.repayments \in Seq(RepaymentData) /\ mirror.actions \in SUBSET ActionData
    BY <1>1
  <2> QED BY <1>1, <2>1, <2>2, <2>3 DEF RowsData
<1>6. /\ Rows(mirror, Done) = {} /\ Rows(mirror, {"Missed", "Cured"}) = {}
      /\ Rows(mirror, {"Cured"}) = {}
      /\ \A n \in NoteIds : /\ RowsOf(mirror, n, Done) = {}
                            /\ RowsOf(mirror, n, {"Missed", "Cured"}) = {}
      /\ NotesIn(mirror, "Matured") = {} /\ NotesIn(mirror, "Defaulted") = {}
      /\ \A kind : Actions(mirror, kind) = {}
  BY <1>1, <1>2, <1>3, <1>4 DEF Rows, RowsOf, NotesIn, Actions, Done
<1>7. Cardinality({}) = 0 /\ IsFiniteSet({})
  BY FS_EmptySet, Zenon
<1>8. PartiesRecounted(mirror) /\ EndsRecounted(mirror)
  <2>1. /\ mirror.originator.periodsSettled = 0 /\ mirror.originator.periodsMissed = 0
        /\ mirror.originator.notesMatured = 0 /\ mirror.originator.notesDefaulted = 0
        /\ mirror.borrower.periodsSettled = 0 /\ mirror.borrower.periodsMissed = 0
        /\ mirror.borrower.periodsCured = 0
        /\ mirror.borrower.notesMatured = 0 /\ mirror.borrower.notesDefaulted = 0
    BY <1>1
  <2>2. PartiesRecounted(mirror)
    BY <1>6, <1>7, <2>1 DEF PartiesRecounted
  <2>3. EndsRecounted(mirror)
    BY <1>6, <1>7, <2>1 DEF EndsRecounted
  <2> QED BY <2>2, <2>3
<1>9. NotesRecounted(mirror)
  <2>1. ASSUME NEW n \in NoteIds
        PROVE  SumOf([i \in Periods |-> Fee(i) * Count(mirror.period[n][i].status \in Done)]) = 0
    <3> DEFINE f == [i \in Periods |-> Fee(i) * Count(mirror.period[n][i].status \in Done)]
    <3>1. ASSUME NEW i \in Periods PROVE f[i] = 0
      <4>1. Fee(i) \in Nat
        BY FeeAndNet
      <4>2. Count(mirror.period[n][i].status \in Done) = 0
        BY <1>2, <1>4 DEF Count, Done
      <4> QED BY <4>1, <4>2
    <3>2. f \in [Periods -> Int]
      <4>1. f = [i \in Periods |-> f[i]]
        OBVIOUS
      <4> HIDE DEF f
      <4> QED BY <3>1, <4>1
    <3> HIDE DEF f
    <3>3. SumOf(f) = 0
      BY <3>1, <3>2, PeriodSumZero
    <3> QED BY <3>3 DEF f
  <2> QED BY <1>3, <1>4, <1>6, <1>7, <2>1 DEF NotesRecounted
<1>10. AgentsRecounted(mirror) /\ PeriodActionsTrue(mirror) /\ DefaultsTrue(mirror)
  BY <1>1, <1>4 DEF AgentsRecounted, PeriodActionsTrue, DefaultsTrue
<1>11. PeriodActionsRecounted(mirror) /\ DefaultsRecounted(mirror)
  BY <1>6, <1>7 DEF PeriodActionsRecounted, DefaultsRecounted
<1>12. Registered(mirror) /\ CollectedByMandate(mirror) /\ TxBelow(mirror)
  BY <1>1, <1>3, <1>4 DEF Registered, CollectedByMandate, TxBelow
<1>13. Good(mirror)
  BY <1>1, <1>5, <1>7, <1>8, <1>9, <1>10, <1>11, <1>12 DEF Good, Counted, EndsCounted
<1>14. Current(mirror)
  <2>1. ASSUME NEW n \in NoteIds
        PROVE  /\ status[n] = "Active" /\ agentOf[n] = NoAgent /\ surplusOf[n] = 0
               /\ totalDistributed[n] = 0 /\ paidOf[n] = [i \in Periods |-> 0]
               /\ \A i \in Periods : periodStatus[n][i] = "Pending" /\ periodPaid[n][i] = 0
    BY DEF IndexInit, Init, NoteInit, VaultInit
  <2>2. ASSUME NEW n \in NoteIds PROVE SumOf(paidOf[n]) = 0
    <3>1. paidOf[n] \in [Periods -> Int] /\ \A i \in Periods : paidOf[n][i] = 0
      BY <2>1
    <3> QED BY <3>1, PeriodSumZero
  <2> QED BY <1>2, <1>3, <1>4, <2>1, <2>2 DEF Current
<1>15. Payable(mirror)
  <2>1. \A i \in Periods : PeriodDue(i) \in Nat
    BY DueIsNat
  <2> QED BY <1>2, <1>4, <2>1 DEF Payable
<1> QED BY <1>12, <1>13, <1>14, <1>15 DEF Latest

LEMMA IndexInitially == IndexInit => IndexInv
<1> SUFFICES ASSUME IndexInit PROVE IndexInv
  OBVIOUS
<1>1. IndInv
  BY IndInvInit DEF IndexInit
<1>2. unindexed = <<>>
  BY DEF IndexInit
<1> DEFINE ms == [k \in {1} |-> mirror]
           T  == {1}
<1>3. unindexed \in Seq(T) /\ Len(unindexed) = 0
  BY <1>2
<1>4. ms[1] = mirror
  OBVIOUS
<1> HIDE DEF ms, T
<1>5. Reached(ms, T)
  BY <1>3, <1>4, RowsInitially DEF Reached
<1> QED BY <1>1, <1>5 DEF IndexInv

\* A transaction adds the rows it makes of the last ones.
LEMMA EmitReaches ==
  ASSUME NEW ms, NEW T, Reached(ms, T), IndInv', NEW events, Emit(events),
         NEW mm, mm = Applied(ms[Len(unindexed) + 1], events), Good(mm), Latest(mm)'
  PROVE  IndexInv'
<1> DEFINE U == T \cup {events}
<1>0. PICK N : N = Len(unindexed)
  OBVIOUS
<1>1. unindexed \in Seq(U) /\ events \in U
  <2>1. unindexed \in Seq(T)
    BY DEF Reached
  <2> QED BY <2>1, SeqMonotonic, Zenon
<1>2. /\ unindexed' = Append(unindexed, events)
      /\ mirror' = mirror
  BY DEF Emit
<1> HIDE DEF U
<1>3. /\ unindexed' \in Seq(U) /\ Len(unindexed') = N + 1 /\ N \in Nat
      /\ unindexed'[N + 1] = events
      /\ \A k \in 1..N : unindexed'[k] = unindexed[k]
  BY <1>0, <1>1, <1>2
<1>4. /\ ms[1] = mirror
      /\ \A k \in 1..N : ms[k + 1] = Applied(ms[k], unindexed[k])
      /\ \A k \in 1..(N + 1) : Good(ms[k]) /\ Payable(ms[k])
  BY <1>0 DEF Reached
<1>5. mm = Applied(ms[N + 1], events)
  BY <1>0
<1>6. PICK rows : rows[N + 2] = mm /\ \A k \in 1..(N + 1) : rows[k] = ms[k]
  <2> DEFINE f == [k \in 1..(N + 2) |-> IF k = N + 2 THEN mm ELSE ms[k]]
  <2>1. f[N + 2] = mm /\ \A k \in 1..(N + 1) : f[k] = ms[k]
    BY <1>3
  <2> QED BY <2>1
<1>7. rows[1] = mirror'
  BY <1>2, <1>3, <1>4, <1>6
<1>8. ASSUME NEW k \in 1..(N + 1) PROVE rows[k + 1] = Applied(rows[k], unindexed'[k])
  <2>1. CASE k = N + 1
    <3>1. rows[k + 1] = mm /\ rows[k] = ms[N + 1] /\ unindexed'[k] = events
      BY <1>3, <1>6, <2>1
    <3> QED BY <1>5, <3>1
  <2>2. CASE k # N + 1
    <3>1. k \in 1..N /\ k + 1 \in 1..(N + 1)
      BY <1>3, <2>2
    <3>2. rows[k + 1] = ms[k + 1] /\ rows[k] = ms[k] /\ unindexed'[k] = unindexed[k]
      BY <1>3, <1>6, <3>1
    <3> QED BY <1>4, <3>1, <3>2
  <2> QED BY <2>1, <2>2
<1>9. Payable(mm)
  BY PayableThen DEF Latest
<1>10. ASSUME NEW k \in 1..(N + 2) PROVE Good(rows[k]) /\ Payable(rows[k])
  <2>1. CASE k = N + 2
    BY <1>6, <1>9, <2>1
  <2>2. CASE k # N + 2
    <3>1. k \in 1..(N + 1)
      BY <1>3, <2>2
    <3> QED BY <1>4, <1>6, <3>1
  <2> QED BY <2>1, <2>2
<1>11. Latest(rows[N + 2])'
  BY <1>6
<1>12. (N + 1) + 1 = N + 2
  BY <1>3
<1>13. Reached(rows, U)'
  BY <1>3, <1>7, <1>8, <1>10, <1>11, <1>12 DEF Reached
<1> QED BY <1>13 DEF IndexInv

\* The indexer reaches the next of them.
LEMMA IndexReaches ==
  ASSUME NEW ms, NEW T, Reached(ms, T), IndInv', Index
  PROVE  IndexInv'
<1>0. PICK N : N = Len(unindexed)
  OBVIOUS
<1>1. /\ unindexed \in Seq(T)
      /\ ms[1] = mirror
      /\ \A k \in 1..N : ms[k + 1] = Applied(ms[k], unindexed[k])
      /\ \A k \in 1..(N + 1) : Good(ms[k]) /\ Payable(ms[k])
      /\ Latest(ms[N + 1])
  BY <1>0 DEF Reached
<1>2. /\ unindexed # <<>> /\ unindexed' = Tail(unindexed)
      /\ mirror' = Applied(mirror, Head(unindexed))
      /\ UNCHANGED <<noteVars, vaultVars, relayVars>>
  BY DEF Index, vars
<1>3. /\ N \in Nat \ {0} /\ Head(unindexed) = unindexed[1]
      /\ unindexed' \in Seq(T) /\ Len(unindexed') = N - 1
      /\ \A k \in 1..(N - 1) : unindexed'[k] = unindexed[k + 1]
  BY <1>0, <1>1, <1>2
<1>4. PICK rows : \A k \in 1..N : rows[k] = ms[k + 1]
  <2> DEFINE f == [k \in 1..N |-> ms[k + 1]]
  <2>1. \A k \in 1..N : f[k] = ms[k + 1]
    OBVIOUS
  <2> QED BY <2>1
<1>5. rows[1] = mirror'
  <2>1. 1 \in 1..N
    BY <1>3
  <2> QED BY <1>1, <1>2, <1>3, <1>4, <2>1
<1>6. ASSUME NEW k \in 1..(N - 1) PROVE rows[k + 1] = Applied(rows[k], unindexed'[k])
  <2>1. k \in 1..N /\ k + 1 \in 1..N
    BY <1>3
  <2>2. ms[(k + 1) + 1] = Applied(ms[k + 1], unindexed[k + 1])
    BY <1>1, <2>1
  <2> QED BY <1>3, <1>4, <2>1, <2>2
<1>7. ASSUME NEW k \in 1..N PROVE Good(rows[k]) /\ Payable(rows[k])
  <2>1. k + 1 \in 1..(N + 1)
    BY <1>3
  <2> QED BY <1>1, <1>4, <2>1
<1>8. Latest(ms[N + 1])'
  <2>1. PICK mm : mm = ms[N + 1]
    OBVIOUS
  <2>2. Latest(mm)'
    BY <1>1, <1>2, <2>1, LatestKept
  <2> QED BY <2>1, <2>2
<1>9. rows[N] = ms[N + 1] /\ (N - 1) + 1 = N
  BY <1>3, <1>4
<1>10. Latest(rows[N])'
  BY <1>8, <1>9
<1>11. Reached(rows, T)'
  BY <1>3, <1>5, <1>6, <1>7, <1>9, <1>10 DEF Reached
<1> QED BY <1>11 DEF IndexInv

\* A step that leaves the rows, their transactions and the notes alone.
LEMMA QuietReaches ==
  ASSUME IndexInv, IndInv', UNCHANGED <<noteVars, vaultVars, relayVars, unindexed, mirror>>
  PROVE  IndexInv'
<1>1. PICK ms, T : Reached(ms, T)
  BY DEF IndexInv
<1>2. Latest(ms[Len(unindexed) + 1])'
  <2> DEFINE m == ms[Len(unindexed) + 1]
  <2>1. PICK mm : mm = m
    OBVIOUS
  <2>2. Latest(mm)
    BY <1>1, <2>1 DEF Reached
  <2>3. Latest(mm)'
    BY <2>2, LatestKept
  <2> QED BY <2>1, <2>3
<1>3. Reached(ms, T)'
  BY <1>1, <1>2 DEF Reached
<1> QED BY <1>3 DEF IndexInv

LEMMA LastIsGood ==
  ASSUME NEW ms, NEW T, Reached(ms, T), NEW m, m = ms[Len(unindexed) + 1]
  PROVE  Good(m) /\ Latest(m)
<1>1. unindexed \in Seq(T) /\ \A k \in 1..(Len(unindexed) + 1) : Good(ms[k])
  BY DEF Reached
<1>2. Len(unindexed) + 1 \in 1..(Len(unindexed) + 1)
  BY <1>1
<1> QED BY <1>1, <1>2 DEF Reached

\* What a page fills in is an amount.
LEMMA PrefillIsNat ==
  ASSUME IndexInv, NEW n \in NoteIds, NEW i \in Periods
  PROVE  Short(n, i) \in Nat /\ Prefill(n, i) \in Nat
<1>1. PICK ms, T : Reached(ms, T)
  BY DEF IndexInv
<1>2. Good(mirror) /\ Payable(mirror)
  <2>1. Len(unindexed) \in Nat /\ ms[1] = mirror
        /\ \A k \in 1..(Len(unindexed) + 1) : Good(ms[k]) /\ Payable(ms[k])
    BY <1>1 DEF Reached
  <2>2. 1 \in 1..(Len(unindexed) + 1)
    BY <2>1
  <2> QED BY <2>1, <2>2
<1>3. mirror.period[n][i].due \in Nat /\ mirror.period[n][i].paid \in Nat
  BY <1>2, RowData DEF Good, Counted
<1> DEFINE short == Short(n, i)
<1>4. short \in Nat
  BY <1>2, <1>3 DEF Short, Payable
<1>5. Unit \in Nat \ {0}
  BY PageAssumption
<1> HIDE DEF short
<1>6. (short \div Unit) \in Nat
  BY <1>4, <1>5
<1>7. (short \div Unit) * Unit \in Nat
  BY <1>5, <1>6
<1> QED BY <1>4, <1>7 DEF short, Prefill

LEMMA PaidReaches ==
  ASSUME IndexInv, NEW n \in NoteIds, NEW first \in Periods, NEW value \in Nat \ {0},
         NEW payer \in Payers, Pay(n, first, value, payer)
  PROVE  IndexInv'
<1>1. PICK ms, T : Reached(ms, T)
  BY DEF IndexInv
<1>2. PICK events : events = RepaymentEvents(n, first, value, payer)
  OBVIOUS
<1>3. PICK m : m = ms[Len(unindexed) + 1]
  OBVIOUS
<1>4. PICK mm : mm = Applied(m, events)
  OBVIOUS
<1>5. IndInv /\ RepayNote(n, first, value) /\ Emit(events)
  BY <1>2 DEF IndexInv, Pay, PayByHand
<1>6. IndInv'
  BY <1>5, RepayStep
<1>7. Good(m) /\ Latest(m)
  BY <1>1, <1>3, LastIsGood
<1>8. Good(mm) /\ Latest(mm)'
  BY <1>2, <1>4, <1>5, <1>7, PayFollows
<1> QED BY <1>1, <1>3, <1>4, <1>5, <1>6, <1>8, EmitReaches

LEMMA DelegatedReaches ==
  ASSUME IndexInv, NEW n \in NoteIds, NEW a \in Agents, Delegated(n, a)
  PROVE  IndexInv'
<1>1. PICK ms, T : Reached(ms, T)
  BY DEF IndexInv
<1>2. PICK events : events = <<[event |-> "DelegationSet", note |-> n, agent |-> a]>>
  OBVIOUS
<1>3. PICK m : m = ms[Len(unindexed) + 1]
  OBVIOUS
<1>4. PICK mm : mm = Applied(m, events)
  OBVIOUS
<1>5. IndInv /\ Delegate(n, a) /\ Emit(events)
  BY <1>2 DEF IndexInv, Delegated
<1>6. IndInv'
  <2>1. TypeOK /\ now \in Nat
    BY <1>5 DEF IndInv, TypeOK
  <2>2. TypeOK'
    BY <1>5, <2>1 DEF Delegate, TypeOK, noteVars, vaultVars
  <2> QED BY <1>5, <2>1, <2>2, QuietStep DEF Delegate
<1>7. Good(m) /\ Latest(m)
  BY <1>1, <1>3, LastIsGood
<1>8. Good(mm) /\ Latest(mm)'
  BY <1>2, <1>4, <1>5, <1>7, DelegateFollows
<1> QED BY <1>1, <1>3, <1>4, <1>5, <1>6, <1>8, EmitReaches

LEMMA RevokedReaches ==
  ASSUME IndexInv, NEW n \in NoteIds, Revoked(n)
  PROVE  IndexInv'
<1>1. PICK ms, T : Reached(ms, T)
  BY DEF IndexInv
<1>2. PICK events : events = <<[event |-> "DelegationRevoked", note |-> n]>>
  OBVIOUS
<1>3. PICK m : m = ms[Len(unindexed) + 1]
  OBVIOUS
<1>4. PICK mm : mm = Applied(m, events)
  OBVIOUS
<1>5. IndInv /\ RevokeDelegation(n) /\ Emit(events)
  BY <1>2 DEF IndexInv, Revoked
<1>6. IndInv'
  <2>1. TypeOK /\ now \in Nat
    BY <1>5 DEF IndInv, TypeOK
  <2>2. TypeOK'
    BY <1>5, <2>1 DEF RevokeDelegation, TypeOK, noteVars, vaultVars
  <2> QED BY <1>5, <2>1, <2>2, QuietStep DEF RevokeDelegation
<1>7. Good(m) /\ Latest(m)
  BY <1>1, <1>3, LastIsGood
<1>8. Good(mm) /\ Latest(mm)'
  BY <1>2, <1>4, <1>5, <1>7, RevokeFollows
<1> QED BY <1>1, <1>3, <1>4, <1>5, <1>6, <1>8, EmitReaches

LEMMA SettledReaches ==
  ASSUME IndexInv, NEW n \in NoteIds, NEW i \in Periods, NEW a \in Agents, Settle(n, i, a)
  PROVE  IndexInv'
<1>1. PICK ms, T : Reached(ms, T)
  BY DEF IndexInv
<1>2. PICK events :
        events = StatusEvents(n) \o
                 <<[event |-> "PeriodSettled", note |-> n, period |-> i, sender |-> a,
                    distributed |-> Net(i), servicingFee |-> Fee(i), timestamp |-> now]>>
  OBVIOUS
<1>3. PICK m : m = ms[Len(unindexed) + 1]
  OBVIOUS
<1>4. PICK mm : mm = Applied(m, events)
  OBVIOUS
<1>5. IndInv /\ SettlePeriod(n, i, a, TRUE) /\ Emit(events)
  BY <1>2 DEF IndexInv, Settle
<1>6. IndInv'
  BY <1>5, SettleStep
<1>7. Good(m) /\ Latest(m)
  BY <1>1, <1>3, LastIsGood
<1>8. Good(mm) /\ Latest(mm)'
  BY <1>2, <1>4, <1>5, <1>7, SettleFollows
<1> QED BY <1>1, <1>3, <1>4, <1>5, <1>6, <1>8, EmitReaches

LEMMA MissedReaches ==
  ASSUME IndexInv, NEW n \in NoteIds, NEW i \in Periods, NEW a \in Agents, Miss(n, i, a)
  PROVE  IndexInv'
<1>1. PICK ms, T : Reached(ms, T)
  BY DEF IndexInv
<1>2. PICK events :
        events = StatusEvents(n) \o
                 <<[event |-> "MarkedDelinquent", note |-> n, period |-> i, sender |-> a]>>
  OBVIOUS
<1>3. PICK m : m = ms[Len(unindexed) + 1]
  OBVIOUS
<1>4. PICK mm : mm = Applied(m, events)
  OBVIOUS
<1>5. IndInv /\ MarkDelinquent(n, i, a) /\ Emit(events)
  BY <1>2 DEF IndexInv, Miss
<1>6. IndInv'
  BY <1>5, MissStep
<1>7. Good(m) /\ Latest(m)
  BY <1>1, <1>3, LastIsGood
<1>8. Good(mm) /\ Latest(mm)'
  BY <1>2, <1>4, <1>5, <1>7, MissFollows
<1> QED BY <1>1, <1>3, <1>4, <1>5, <1>6, <1>8, EmitReaches

LEMMA ClosedReaches ==
  ASSUME IndexInv, NEW n \in NoteIds, NEW a \in Agents, Close(n, a)
  PROVE  IndexInv'
<1>1. PICK ms, T : Reached(ms, T)
  BY DEF IndexInv
<1>2. PICK events :
        events = StatusEvents(n) \o <<[event |-> "Defaulted", note |-> n, sender |-> a]>>
  OBVIOUS
<1>3. PICK m : m = ms[Len(unindexed) + 1]
  OBVIOUS
<1>4. PICK mm : mm = Applied(m, events)
  OBVIOUS
<1>5. IndInv /\ DefaultNote(n, a) /\ Emit(events)
  BY <1>2 DEF IndexInv, Close
<1>6. IndInv'
  BY <1>5, DefaultStep
<1>7. Good(m) /\ Latest(m)
  BY <1>1, <1>3, LastIsGood
<1>8. Good(mm) /\ Latest(mm)'
  BY <1>2, <1>4, <1>5, <1>7, CloseFollows
<1> QED BY <1>1, <1>3, <1>4, <1>5, <1>6, <1>8, EmitReaches

LEMMA IndexStep == IndexInv /\ [PageNext]_indexVars => IndexInv'
<1> SUFFICES ASSUME IndexInv, [PageNext]_indexVars PROVE IndexInv'
  OBVIOUS
<1>0. IndInv /\ TypeOK /\ now \in Nat
  BY DEF IndexInv, IndInv, TypeOK
<1>1. CASE Pass
  <2>1. Tick /\ UNCHANGED <<unindexed, mirror>>
    BY <1>1 DEF Pass
  <2>2. IndInv'
    BY <1>0, <2>1, IndInvStep DEF Next
  <2> QED BY <2>1, <2>2, QuietReaches DEF Tick
<1>2. CASE Index
  <2>1. UNCHANGED vars
    BY <1>2 DEF Index
  <2>2. IndInv'
    BY <1>0, <2>1, IndInvStep
  <2>3. PICK ms, T : Reached(ms, T)
    BY DEF IndexInv
  <2> QED BY <1>2, <2>2, <2>3, IndexReaches
<1>3. ASSUME NEW n \in NoteIds, NEW i \in Periods, NEW payer \in Payers \ {MandateContract},
             RepayFromPage(n, i, payer)
      PROVE  IndexInv'
  <2>1. PICK value \in Payments \cup ({Prefill(n, i)} \ {0}) : Pay(n, i, value, payer)
    BY <1>3 DEF RepayFromPage
  <2>2. value \in Nat \ {0}
    BY <2>1, PrefillIsNat, PaymentsAssumption
  <2> QED BY <2>1, <2>2, PaidReaches
<1>4. ASSUME NEW n \in NoteIds, NEW agent \in Agents, DelegateFromPage(n, agent) PROVE IndexInv'
  BY <1>4, DelegatedReaches DEF DelegateFromPage
<1>5. ASSUME NEW n \in NoteIds, RevokeFromPage(n) PROVE IndexInv'
  BY <1>5, RevokedReaches DEF RevokeFromPage
<1>6. ASSUME NEW n \in NoteIds, NEW i \in Periods, NEW value \in Payments,
             Pay(n, i, value, MandateContract)
      PROVE  IndexInv'
  <2>1. value \in Nat \ {0} /\ MandateContract \in Payers
    BY PaymentsAssumption, SubgraphAssumption
  <2> QED BY <1>6, <2>1, PaidReaches
<1>7. ASSUME NEW n \in NoteIds, NEW i \in Periods, NEW caller \in Agents,
             Settle(n, i, caller) \/ Miss(n, i, caller)
      PROVE  IndexInv'
  BY <1>7, SettledReaches, MissedReaches
<1>8. ASSUME NEW n \in NoteIds, NEW caller \in Agents, Close(n, caller) PROVE IndexInv'
  BY <1>8, ClosedReaches
<1>9. CASE UNCHANGED indexVars
  <2>1. UNCHANGED vars /\ UNCHANGED <<unindexed, mirror>>
    BY <1>9 DEF indexVars
  <2>2. IndInv'
    BY <1>0, <2>1, IndInvStep
  <2> QED BY <2>1, <2>2, QuietReaches DEF vars
<1> QED BY <1>1, <1>2, <1>3, <1>4, <1>5, <1>6, <1>7, <1>8, <1>9 DEF PageNext

----------------------------------------------------------------------------
(***************************************************************************)
(* The rows the indexer has yet to write are those its events make of the  *)
(* ones it has, and the last of them say what the contracts hold.          *)
(***************************************************************************)
THEOREM IndexFollows == PageSpec => []IndexInv
BY IndexInitially, IndexStep, PTL DEF PageSpec

LEMMA MirrorIsGood == IndexInv => Good(mirror) /\ (unindexed = <<>> => Latest(mirror))
<1> SUFFICES ASSUME IndexInv PROVE Good(mirror) /\ (unindexed = <<>> => Latest(mirror))
  OBVIOUS
<1>1. PICK ms, T : Reached(ms, T)
  BY DEF IndexInv
<1>2. /\ Len(unindexed) \in Nat /\ ms[1] = mirror
      /\ \A k \in 1..(Len(unindexed) + 1) : Good(ms[k])
      /\ Latest(ms[Len(unindexed) + 1])
      /\ unindexed = <<>> => Len(unindexed) + 1 = 1
  BY <1>1 DEF Reached
<1>3. 1 \in 1..(Len(unindexed) + 1)
  BY <1>2
<1> QED BY <1>2, <1>3

(***************************************************************************)
(* Whatever the indexer has reached, the counters its handlers keep in     *)
(* rows of four kinds recount the periods, the endings and the actions,    *)
(* whoever serviced the notes, in any order of the contracts' events.      *)
(***************************************************************************)
THEOREM CountersHold == PageSpec => []CountersRecount
<1>1. IndexInv => CountersRecount
  <2> SUFFICES ASSUME Good(mirror) PROVE CountersRecount
    BY MirrorIsGood
  <2>1. Counted(mirror) /\ EndsCounted(mirror)
    BY DEF Good
  <2>2. ActionsRecounted(mirror)
    BY <2>1 DEF Counted, EndsCounted, PeriodActionsRecounted, DefaultsRecounted, ActionsRecounted
  <2> QED BY <2>1, <2>2 DEF Counted, EndsCounted, CountersRecount
<1> QED BY <1>1, IndexFollows, PTL

(***************************************************************************)
(* An index that has caught up says what the contracts hold, field by      *)
(* field, and at any time the repayments it marks as collected are those   *)
(* the mandate made: a note's transactions never share an identity.        *)
(***************************************************************************)
THEOREM MirrorHolds == PageSpec => []MirrorCurrent
<1>1. IndexInv => MirrorCurrent
  <2> SUFFICES ASSUME Good(mirror), unindexed = <<>> => Latest(mirror) PROVE MirrorCurrent
    BY MirrorIsGood
  <2> QED BY DEF Good, Latest, MirrorCurrent
<1> QED BY <1>1, IndexFollows, PTL

----------------------------------------------------------------------------
\* What the pages make of an index that has caught up.

LEMMA PairExtremes ==
  ASSUME NEW a \in Int, NEW b \in Int
  PROVE  /\ Max({a, b}) = IF a >= b THEN a ELSE b
         /\ Min({a, b}) = IF a <= b THEN a ELSE b
<1>1. \E x \in {a, b} : \A y \in {a, b} : x >= y
  OBVIOUS
<1>2. Max({a, b}) \in {a, b} /\ \A y \in {a, b} : Max({a, b}) >= y
  BY <1>1 DEF Max
<1>3. \E x \in {a, b} : \A y \in {a, b} : x <= y
  OBVIOUS
<1>4. Min({a, b}) \in {a, b} /\ \A y \in {a, b} : Min({a, b}) <= y
  BY <1>3 DEF Min
<1> QED BY <1>2, <1>4

\* The multiple of a unit that a truncation keeps.
LEMMA WholeUnits ==
  ASSUME NEW x \in Nat, NEW u \in Nat \ {0}
  PROVE  (x \div u) * u \in Nat /\ (x \div u) * u <= x /\ x - (x \div u) * u < u
<1> DEFINE q == x \div u
<1>1. q \in Nat /\ x % u \in 0..(u - 1)
  OBVIOUS
<1>2. x = u * q + (x % u)
  OBVIOUS
<1>3. q * u = u * q
  BY <1>1
<1> DEFINE p == q * u
           r == x % u
<1>4. p \in Nat /\ x = p + r /\ r \in 0..(u - 1)
  BY <1>1, <1>2, <1>3
<1> HIDE DEF p, r
<1>5. p \in Nat /\ p <= x /\ x - p < u
  BY <1>4
<1> QED BY <1>5 DEF p

\* What a payment leaves of the period it starts at, and how much of the rest
\* the later ones take.
AfterOf(f, i) == [j \in Periods |-> IF j > i THEN f[j] ELSE 0]

LEMMA CreditsGoOver ==
  ASSUME NEW room \in [Periods -> Nat], NEW i \in Periods, NEW value \in Nat
  PROVE  /\ Credits(room, i, value)[i] = Taken(value, room[i])
         /\ SumOf(AfterOf(Credits(room, i, value), i)) =
              LET over == IF value > room[i] THEN value - room[i] ELSE 0
                  rest == SumOf(AfterOf(room, i))
              IN  IF over < rest THEN over ELSE rest
<1> DEFINE left == Remaining(room, i, value)
           c == Credits(room, i, value)
           over == IF value > room[i] THEN value - room[i] ELSE 0
           g == AfterOf(c, i)
           h == AfterOf(room, i)
           N == PeriodCount
<1>0. N \in Nat \ {0} /\ Periods = 0..(N - 1) /\ i \in 0..(N - 1)
  BY TermsAssumption DEF Periods
<1>1. /\ left \in [0..N -> Nat]
      /\ \A j \in 0..N :
            left[j] = IF j <= i THEN value
                      ELSE left[j - 1] - Taken(left[j - 1], room[j - 1])
  <2>1. Cascades(left, room, i, value)
    BY RemainingFollows, Zenon
  <2> QED BY <2>1, Zenon DEF Cascades
<1>2. /\ c = [j \in Periods |-> IF j < i THEN 0 ELSE Taken(left[j], room[j])]
      /\ c \in [Periods -> Nat]
  <2>1. c \in [Periods -> Nat]
    <3> DEFINE f == [j \in Periods |-> 0]
    <3>1. f \in [Periods -> Nat]
      OBVIOUS
    <3> HIDE DEF f
    <3> QED BY <3>1, CreditsSpread, Zenon
  <2> QED BY <2>1, Zenon DEF Credits
<1> HIDE DEF left, c, N
<1>3. left[i] = value /\ c[i] = Taken(value, room[i]) /\ left[i + 1] = over
  <2>1. i \in 0..N /\ i + 1 \in 0..N /\ (i + 1) - 1 = i /\ i <= i /\ ~(i + 1 <= i) /\ ~(i < i)
    BY <1>0
  <2>2. left[i] = value
    BY <1>1, <2>1
  <2>3. c[i] = Taken(left[i], room[i])
    BY <1>2, <2>1
  <2>4. left[i + 1] = value - Taken(value, room[i])
    BY <1>1, <2>1, <2>2
  <2> QED BY <2>2, <2>3, <2>4 DEF Taken
<1>4. g \in [Periods -> Nat] /\ h \in [Periods -> Nat]
  BY <1>2 DEF AfterOf
<1>5. /\ \A j \in Periods : j <= i => g[j] = 0 /\ h[j] = 0
      /\ \A j \in Periods : j > i => g[j] = Taken(left[j], room[j]) /\ h[j] = room[j]
  BY <1>0, <1>2 DEF AfterOf
<1> DEFINE s == PartialSums(g, N)
           t == PartialSums(h, N)
<1> HIDE DEF g, h, over
<1>6. /\ s \in [0..N -> Int] /\ s[0] = 0
      /\ \A j \in 1..N : s[j] = s[j - 1] + g[j - 1]
      /\ t \in [0..N -> Int] /\ t[0] = 0
      /\ \A j \in 1..N : t[j] = t[j - 1] + h[j - 1]
  <2>1. g \in [0..(N - 1) -> Int] /\ h \in [0..(N - 1) -> Int] /\ N \in Nat
    BY <1>0, <1>4
  <2> QED BY <2>1, PartialSumFollows
<1> HIDE DEF s, t
<1>7. over \in Nat
  BY DEF over
<1> DEFINE T == {k \in Nat : k <= N =>
                   /\ k <= i => s[k] = 0 /\ t[k] = 0
                   /\ k > i => /\ t[k] >= 0
                               /\ left[k] = over - s[k]
                               /\ s[k] = IF over < t[k] THEN over ELSE t[k]}
<1>8. 0 \in T
  BY <1>0, <1>6
<1>9. ASSUME NEW k \in Nat, k \in T PROVE k + 1 \in T
  <2> SUFFICES ASSUME k + 1 <= N
               PROVE  /\ k + 1 <= i => s[k + 1] = 0 /\ t[k + 1] = 0
                      /\ k + 1 > i => /\ t[k + 1] >= 0
                                      /\ left[k + 1] = over - s[k + 1]
                                      /\ s[k + 1] = IF over < t[k + 1] THEN over ELSE t[k + 1]
    OBVIOUS
  <2>1. /\ k \in Periods /\ k \in 0..N /\ k + 1 \in 1..N /\ k + 1 \in 0..N /\ (k + 1) - 1 = k
        /\ k <= i => s[k] = 0 /\ t[k] = 0
        /\ k > i => /\ t[k] >= 0
                    /\ left[k] = over - s[k]
                    /\ s[k] = IF over < t[k] THEN over ELSE t[k]
    BY <1>0, <1>9
  <2>2. s[k + 1] = s[k] + g[k] /\ t[k + 1] = t[k] + h[k]
    BY <1>6, <2>1
  <2>3. s[k] \in Int /\ t[k] \in Int /\ room[k] \in Nat /\ left[k] \in Nat /\ g[k] \in Nat
    BY <1>1, <1>4, <1>6, <2>1
  <2>4. CASE k < i
    BY <1>5, <2>1, <2>2, <2>4
  <2>5. CASE k = i
    <3>1. s[k + 1] = 0 /\ t[k + 1] = 0 /\ left[k + 1] = over
      BY <1>3, <1>5, <2>1, <2>2, <2>5
    <3> QED BY <1>7, <2>5, <3>1
  <2>6. CASE k > i
    <3>1. g[k] = Taken(left[k], room[k]) /\ h[k] = room[k]
      BY <1>5, <2>1, <2>6
    <3>2. left[k + 1] = left[k] - Taken(left[k], room[k])
      <4>1. ~(k + 1 <= i)
        BY <1>0, <2>6
      <4> QED BY <1>1, <2>1, <4>1
    <3> QED BY <1>7, <2>1, <2>2, <2>3, <2>6, <3>1, <3>2 DEF Taken
  <2> QED BY <1>0, <2>4, <2>5, <2>6
<1>10. s[N] = IF over < t[N] THEN over ELSE t[N]
  <2> HIDE DEF T
  <2>1. Nat \subseteq T
    BY <1>8, <1>9, SetInduction
  <2> QED BY <1>0, <2>1 DEF T
<1>11. s[N] = SumOf(g) /\ t[N] = SumOf(h)
  BY Zenon DEF s, t, N, SumOf, SumTo
<1> QED BY <1>3, <1>10, <1>11, Zenon DEF c, g, h, over

\* The repayment and the fees the preview added up.
LEMMA PreviewIsDue ==
  /\ \A i \in Periods : PreviewDue(i) = PeriodDue(i)
  /\ SumOf([i \in Periods |-> PeriodDue(i)]) = totalRepayment
  /\ SumOf([i \in Periods |-> Fee(i)]) = servicingFeeTotal
<1>0. PeriodCount \in Nat \ {0} /\ Periods = 0..(PeriodCount - 1) /\ PeriodCount - 1 \in Periods
  BY TermsAssumption DEF Periods
<1>1. Coupon \in Nat /\ couponPerPeriod = Coupon /\ Principal \in Nat
  <2>1. Principal * CouponBps \in Nat
    BY TermsAssumption
  <2> QED BY <2>1, TermsAssumption DEF Coupon, couponPerPeriod, BPS
<1>2. ASSUME NEW i \in Periods PROVE PreviewDue(i) = PeriodDue(i)
  BY <1>1 DEF PreviewDue, PeriodDue
<1>3. SumOf([i \in Periods |-> Fee(i)]) = servicingFeeTotal
  <2>1. [i \in Periods |-> servicingFee(PreviewDue(i))] = [i \in Periods |-> Fee(i)]
    BY <1>2 DEF servicingFee, Fee
  <2> QED BY <2>1 DEF servicingFeeTotal
<1> DEFINE zero == [i \in Periods |-> 0]
           ones == [i \in Periods |-> 1]
           flat == [i \in Periods |-> Coupon]
           due  == [i \in Periods |-> PeriodDue(i)]
           step == [i \in 0..PeriodCount |-> i]
<1>4. SumOf(zero) = 0
  <2>1. zero \in [Periods -> Int] /\ \A i \in Periods : zero[i] = 0
    OBVIOUS
  <2> HIDE DEF zero
  <2> QED BY <2>1, PeriodSumZero
<1>5. SumOf(ones) = PeriodCount
  <2>1. /\ zero \in [Periods -> Int] /\ ones \in [Periods -> Int]
        /\ step \in [0..PeriodCount -> Int] /\ step[PeriodCount] = PeriodCount
    BY <1>0
  <2>2. RunningDifference(step, zero, ones, PeriodCount)
    BY <1>0 DEF RunningDifference
  <2> HIDE DEF zero, ones, step
  <2>3. SumOf(ones) = SumOf(zero) + step[PeriodCount]
    BY <2>1, <2>2, PeriodSumOfDifference
  <2> QED BY <1>0, <1>4, <2>1, <2>3
<1>6. SumOf(flat) = Coupon * PeriodCount
  <2>1. /\ zero \in [Periods -> Int] /\ ones \in [Periods -> Int] /\ flat \in [Periods -> Int]
        /\ Coupon \in Int
        /\ \A i \in Periods : flat[i] = zero[i] + Coupon * ones[i]
    BY <1>1
  <2> HIDE DEF zero, ones, flat
  <2>2. SumTo(flat, PeriodCount) = SumTo(zero, PeriodCount) + Coupon * SumTo(ones, PeriodCount)
    BY <1>0, <2>1, SumPlusMultiple
  <2>3. Coupon * PeriodCount \in Int
    BY <1>0, <1>1
  <2> QED BY <1>4, <1>5, <2>2, <2>3 DEF SumOf
<1>7. SumOf(due) = SumOf(flat) + Principal
  <2>1. /\ flat \in [Periods -> Int] /\ due \in [Periods -> Int]
        /\ due[PeriodCount - 1] = flat[PeriodCount - 1] + Principal
        /\ \A i \in Periods : i # PeriodCount - 1 => due[i] = flat[i]
    BY <1>0, <1>1, DueIsNat DEF PeriodDue
  <2>2. Principal \in Int
    BY <1>1
  <2> HIDE DEF flat, due
  <2> QED BY <1>0, <2>1, <2>2, PeriodSumBump
<1>8. SumOf(due) = totalRepayment
  BY <1>1, <1>6, <1>7 DEF totalRepayment
<1> QED BY <1>2, <1>3, <1>8

\* A note whose periods are all settled has distributed and cost what they say.
LEMMA MaturedTotals ==
  ASSUME NEW n \in NoteIds, StandingAt(n), CreditedAt(n), status[n] = "Matured"
  PROVE  /\ \A i \in Periods : periodStatus[n][i] \in Done
         /\ totalDistributed[n] = totalRepayment - servicingFeeTotal
<1>1. ASSUME NEW i \in Periods PROVE periodStatus[n][i] \in Done
  <2>1. i \in InStatus(n, Done)
    BY DEF StandingAt
  <2> QED BY <2>1 DEF InStatus
<1> DEFINE net == [i \in Periods |-> Net(i)]
           due == [i \in Periods |-> PeriodDue(i)]
           fee == [i \in Periods |-> Fee(i)]
           minus == -1
<1>2. Earned(n) = net
  BY <1>1 DEF Earned
<1>3. SumOf(net) = SumOf(due) + minus * SumOf(fee)
  <2>1. /\ net \in [Periods -> Int] /\ due \in [Periods -> Int] /\ fee \in [Periods -> Int]
        /\ minus \in Int /\ \A i \in Periods : net[i] = due[i] + minus * fee[i]
    BY FeeAndNet DEF Net
  <2>2. PeriodCount \in Nat /\ Periods = 0..(PeriodCount - 1)
    BY PeriodCountType
  <2> HIDE DEF net, due, fee, minus
  <2>3. SumTo(net, PeriodCount) = SumTo(due, PeriodCount) + minus * SumTo(fee, PeriodCount)
    BY <2>1, <2>2, SumPlusMultiple
  <2> QED BY <2>3 DEF SumOf
<1>4. SumOf(due) \in Int /\ SumOf(fee) \in Int
  <2>1. due \in [Periods -> Nat] /\ fee \in [Periods -> Nat]
    BY FeeAndNet
  <2> HIDE DEF due, fee
  <2> QED BY <2>1, PeriodSumType
<1>5. SumOf(due) = totalRepayment /\ SumOf(fee) = servicingFeeTotal
  BY PreviewIsDue
<1>6. totalDistributed[n] = SumOf(net)
  BY <1>2 DEF CreditedAt
<1> HIDE DEF net, due, fee
<1> QED BY <1>1, <1>3, <1>4, <1>5, <1>6

LEMMA OffersFollow ==
  ASSUME IndInv, Good(mirror), Latest(mirror)
  PROVE  /\ \A a \in Agents : Serviced(a) = {n \in NoteIds : agentOf[n] = a}
         /\ \A n \in NoteIds :
              /\ OpenToPayment(n) <=> Live(n) /\ \E i \in Periods : Room(n)[i] > 0
              /\ OpenToPayment(n) =>
                   \A i \in Periods :
                     /\ \A value \in Payments \cup {Prefill(n, i)} : DoesAsSaid(n, i, value)
                     /\ Consequence(n, i, Prefill(n, i)).over = 0
                     /\ Consequence(n, i, Prefill(n, i)).left < Unit
              /\ mirror.note[n].status = "Matured" => CostAsPreviewed(n)
<1>1. Current(mirror) /\ TypeOK /\ Counted(mirror)
  BY DEF IndInv, Good, Latest
<1>2. \A a \in Agents : Serviced(a) = {n \in NoteIds : agentOf[n] = a}
  BY <1>1 DEF Serviced, Current
<1>3. ASSUME NEW n \in NoteIds
      PROVE  /\ OpenToPayment(n) <=> Live(n) /\ \E i \in Periods : Room(n)[i] > 0
             /\ \A i \in Periods :
                  /\ \A value \in Payments \cup {Prefill(n, i)} : DoesAsSaid(n, i, value)
                  /\ Consequence(n, i, Prefill(n, i)).over = 0
                  /\ Consequence(n, i, Prefill(n, i)).left < Unit
  <2>1. StandingAt(n) /\ LedgersAt(n) /\ CreditedAt(n)
    BY DEF IndInv, NoteAt
  <2>2. /\ Room(n) \in [Periods -> Nat]
        /\ \A i \in Periods : paidOf[n][i] + Room(n)[i] = PeriodDue(i)
    BY <1>1, <2>1, RoomIsRoom
  <2>3. ASSUME NEW i \in Periods PROVE Short(n, i) = Room(n)[i]
    <3>1. mirror.period[n][i].due = PeriodDue(i) /\ mirror.period[n][i].paid = paidOf[n][i]
      BY <1>1, <2>1 DEF Current, LedgersAt
    <3>2. paidOf[n][i] \in Nat /\ PeriodDue(i) \in Nat /\ Room(n)[i] \in Nat
      BY <1>1, <2>2, DueIsNat DEF TypeOK
    <3> QED BY <2>2, <3>1, <3>2 DEF Short
  <2>4. OpenToPayment(n) <=> Live(n) /\ \E i \in Periods : Room(n)[i] > 0
    <3>1. mirror.note[n].status = status[n]
      BY <1>1 DEF Current
    <3>2. Outstanding(n) # {} <=> \E i \in Periods : Room(n)[i] > 0
      BY <2>3 DEF Outstanding
    <3> QED BY <3>1, <3>2 DEF OpenToPayment, Live
  <2>5. ASSUME NEW i \in Periods, NEW value \in Nat
        PROVE  /\ DoesAsSaid(n, i, value)
               /\ Consequence(n, i, value).over = IF value > Room(n)[i] THEN value - Room(n)[i] ELSE 0
               /\ Consequence(n, i, value).left = IF Room(n)[i] > value THEN Room(n)[i] - value ELSE 0
    <3> DEFINE room == Room(n)
               x == room[i]
               c == Credits(room, i, value)
               over == IF value > x THEN value - x ELSE 0
               rest == SumOf(AfterOf(room, i))
    <3>1. room \in [Periods -> Nat] /\ x \in Nat /\ Short(n, i) = x
      BY <2>2, <2>3
    <3>2. c[i] = Taken(value, x) /\ SumOf(AfterOf(c, i)) = IF over < rest THEN over ELSE rest
      <4> HIDE DEF room
      <4> QED BY <3>1, CreditsGoOver
    <3>3. rest \in Int
      <4>1. AfterOf(room, i) \in [Periods -> Nat]
        BY <3>1 DEF AfterOf
      <4> HIDE DEF room
      <4> QED BY <4>1, PeriodSumType
    <3> HIDE DEF room, c, rest, x
    <3>4. /\ Consequence(n, i, value).left = IF x > value THEN x - value ELSE 0
          /\ Consequence(n, i, value).over = over
      <4>1. x - value \in Int /\ value - x \in Int /\ 0 \in Int
        BY <3>1
      <4>2. /\ Max({x - value, 0}) = IF x - value >= 0 THEN x - value ELSE 0
            /\ Max({value - x, 0}) = IF value - x >= 0 THEN value - x ELSE 0
        BY <4>1, PairExtremes
      <4>3. /\ Consequence(n, i, value).left = Max({x - value, 0})
            /\ Consequence(n, i, value).over = Max({value - x, 0})
        BY <3>1 DEF Consequence
      <4> QED BY <3>1, <4>2, <4>3
    <3>5. over \in Int
      BY <3>1
    <3>6. Min({over, rest}) = IF over < rest THEN over ELSE rest
      <4> HIDE DEF over
      <4>1. Min({over, rest}) = IF over <= rest THEN over ELSE rest
        BY <3>3, <3>5, PairExtremes
      <4> QED BY <3>3, <3>5, <4>1
    <3>7. x - c[i] = Consequence(n, i, value).left
      BY <3>1, <3>2, <3>4 DEF Taken
    <3> HIDE DEF over
    <3>8. SumOf(AfterOf(c, i)) = Min({Consequence(n, i, value).over, rest})
      BY <3>2, <3>4, <3>6
    <3>9. DoesAsSaid(n, i, value)
      BY <3>7, <3>8, Zenon DEF DoesAsSaid, AfterOf, c, room, rest, x
    <3> QED BY <3>4, <3>9 DEF x, room, over
  <2>6. ASSUME NEW i \in Periods
        PROVE  /\ \A value \in Payments \cup {Prefill(n, i)} : DoesAsSaid(n, i, value)
               /\ Consequence(n, i, Prefill(n, i)).over = 0
               /\ Consequence(n, i, Prefill(n, i)).left < Unit
    <3> DEFINE x == Room(n)[i]
               v == Prefill(n, i)
    <3>1. x \in Nat
      BY <2>2
    <3>2. v \in Nat /\ v <= x /\ x - v < Unit
      <4>1. v = (x \div Unit) * Unit
        BY <2>3 DEF Prefill
      <4> HIDE DEF v, x
      <4> QED BY <3>1, <4>1, PageAssumption, WholeUnits
    <3>3. Payments \subseteq Nat
      BY PaymentsAssumption
    <3> HIDE DEF v
    <3>4. \A value \in Payments \cup {v} : DoesAsSaid(n, i, value)
      BY <2>5, <3>2, <3>3
    <3>5. /\ Consequence(n, i, v).over = IF v > x THEN v - x ELSE 0
          /\ Consequence(n, i, v).left = IF x > v THEN x - v ELSE 0
      BY <2>5, <3>2
    <3>6. Consequence(n, i, v).over = 0 /\ Consequence(n, i, v).left < Unit
      <4> HIDE DEF x
      <4> QED BY <3>1, <3>2, <3>5, PageAssumption
    <3> QED BY <3>4, <3>6 DEF v
  <2> QED BY <2>4, <2>6
<1>4. ASSUME NEW n \in NoteIds, mirror.note[n].status = "Matured" PROVE CostAsPreviewed(n)
  <2>1. StandingAt(n) /\ CreditedAt(n) /\ status[n] = "Matured"
    BY <1>1, <1>4 DEF IndInv, NoteAt, Current
  <2>2. /\ \A i \in Periods : periodStatus[n][i] \in Done
        /\ totalDistributed[n] = totalRepayment - servicingFeeTotal
    BY <2>1, MaturedTotals
  <2>3. mirror.note[n].totalDistributed = totalRepayment - servicingFeeTotal
    BY <1>1, <2>2 DEF Current
  <2>4. mirror.note[n].servicingFeesPaid = servicingFeeTotal
    <3>1. ASSUME NEW i \in Periods
          PROVE  Fee(i) * Count(mirror.period[n][i].status \in Done) = Fee(i)
      <4>1. mirror.period[n][i].status \in Done
        BY <1>1, <2>2 DEF Current
      <4>2. Count(mirror.period[n][i].status \in Done) = 1 /\ Fee(i) \in Nat
        BY <4>1, FeeAndNet DEF Count
      <4> QED BY <4>2
    <3>2. [i \in Periods |-> Fee(i) * Count(mirror.period[n][i].status \in Done)]
            = [i \in Periods |-> Fee(i)]
      BY <3>1
    <3>3. mirror.note[n].servicingFeesPaid
            = SumOf([i \in Periods |-> Fee(i) * Count(mirror.period[n][i].status \in Done)])
      BY <1>1 DEF Counted, NotesRecounted
    <3> QED BY <3>2, <3>3, PreviewIsDue
  <2> QED BY <2>3, <2>4 DEF CostAsPreviewed
<1> QED BY <1>2, <1>3, <1>4

(***************************************************************************)
(* Once the index has caught up, the pages offer what the contracts take:  *)
(* the notes an agent may settle, the periods with room, what a payment    *)
(* does to them, and, of a note that has run its course, the repayment and *)
(* the fees its preview added up, for any schedule, terms and amounts.     *)
(***************************************************************************)
THEOREM OffersHold == PageSpec => []OffersWhatIsTaken
<1>1. IndexInv => OffersWhatIsTaken
  <2> SUFFICES ASSUME IndInv, Good(mirror), unindexed = <<>> => Latest(mirror)
               PROVE  OffersWhatIsTaken
    BY MirrorIsGood DEF IndexInv
  <2> SUFFICES ASSUME Latest(mirror) PROVE OffersWhatIsTaken
    BY DEF OffersWhatIsTaken
  <2> QED BY OffersFollow DEF OffersWhatIsTaken
<1> QED BY <1>1, IndexFollows, PTL

----------------------------------------------------------------------------
\* Counting what grows while it is counted.  now is the set as it is, lo what it
\* counted when the reading began, made what has been asked for, hi the count.

Tally(lo, hi, present, made) ==
  \E b, c \in SUBSET present :
    /\ c \subseteq made /\ b \cap made \subseteq c
    /\ lo = Cardinality(b) /\ hi = Cardinality(c)

LEMMA TallyStarts ==
  ASSUME NEW present, NEW made, NEW b \in SUBSET present, b \cap made = {}
  PROVE  Tally(Cardinality(b), 0, present, made)
<1>1. {} \in SUBSET present /\ Cardinality({}) = 0
  BY FS_EmptySet
<1> QED BY <1>1 DEF Tally

LEMMA TallyGrows ==
  ASSUME NEW lo, NEW hi, NEW present, NEW made, NEW later, present \subseteq later,
         Tally(lo, hi, present, made)
  PROVE  Tally(lo, hi, later, made)
<1>1. PICK b \in SUBSET present, c \in SUBSET present :
        /\ c \subseteq made /\ b \cap made \subseteq c
        /\ lo = Cardinality(b) /\ hi = Cardinality(c)
  BY DEF Tally
<1>2. b \in SUBSET later /\ c \in SUBSET later
  OBVIOUS
<1> QED BY <1>1, <1>2 DEF Tally

\* One more has been asked for.
LEMMA TallyAsks ==
  ASSUME NEW lo, NEW hi, NEW present, NEW made, IsFiniteSet(present),
         NEW x, x \notin made, Tally(lo, hi, present, made)
  PROVE  /\ hi \in Nat
         /\ Tally(lo, hi + One(x \in present), present, made \cup {x})
<1>1. PICK b \in SUBSET present, c \in SUBSET present :
        /\ c \subseteq made /\ b \cap made \subseteq c
        /\ lo = Cardinality(b) /\ hi = Cardinality(c)
  BY DEF Tally
<1>2. IsFiniteSet(c) /\ Cardinality(c) \in Nat
  BY FS_Subset, FS_CardinalityType
<1>3. CASE x \in present
  <2> DEFINE d == c \cup {x}
  <2>1. x \notin c
    BY <1>1
  <2>2. Cardinality(d) = hi + One(x \in present)
    BY <1>1, <1>2, <1>3, <2>1, FS_AddElement DEF One
  <2>3. d \in SUBSET present /\ d \subseteq made \cup {x} /\ b \cap (made \cup {x}) \subseteq d
    BY <1>1, <1>3
  <2> HIDE DEF d
  <2> QED BY <1>1, <1>2, <2>2, <2>3 DEF Tally
<1>4. CASE x \notin present
  <2>1. c \subseteq made \cup {x} /\ b \cap (made \cup {x}) \subseteq c
    BY <1>1, <1>4
  <2>2. hi + One(x \in present) = hi
    BY <1>1, <1>2, <1>4 DEF One
  <2> QED BY <1>1, <1>2, <2>1, <2>2 DEF Tally
<1> QED BY <1>3, <1>4

LEMMA TallyEnds ==
  ASSUME NEW lo, NEW hi, NEW present, NEW made, IsFiniteSet(present),
         present \subseteq made, Tally(lo, hi, present, made)
  PROVE  hi \in lo..Cardinality(present)
<1>1. PICK b \in SUBSET present, c \in SUBSET present :
        /\ c \subseteq made /\ b \cap made \subseteq c
        /\ lo = Cardinality(b) /\ hi = Cardinality(c)
  BY DEF Tally
<1>2. b \subseteq c
  BY <1>1
<1>3. /\ IsFiniteSet(c) /\ IsFiniteSet(b)
      /\ Cardinality(b) \in Nat /\ Cardinality(c) \in Nat /\ Cardinality(present) \in Nat
  BY FS_Subset, FS_CardinalityType
<1>4. Cardinality(b) <= Cardinality(c) /\ Cardinality(c) <= Cardinality(present)
  BY <1>2, <1>3, FS_Subset
<1> QED BY <1>1, <1>3, <1>4

----------------------------------------------------------------------------
\* The calls that are still to be made.

CallSet ==
  ({"status"} \X NoteIds \X {0}) \cup ({"period", "paid", "cure"} \X NoteIds \X Periods)

Queued(q, x) == \E k \in DOMAIN q : q[k] = x
EachOnce(q) == \A j, k \in DOMAIN q : q[j] = q[k] => j = k

LEMMA OneIsAsked ==
  ASSUME NEW S, NEW q \in Seq(S), q # <<>>, EachOnce(q)
  PROVE  /\ Tail(q) \in Seq(S) /\ EachOnce(Tail(q))
         /\ Head(q) \in S /\ Queued(q, Head(q)) /\ ~Queued(Tail(q), Head(q))
         /\ \A x : x # Head(q) => (Queued(Tail(q), x) <=> Queued(q, x))
         /\ \A k \in DOMAIN Tail(q) : Queued(q, Tail(q)[k])
<1>1. /\ Tail(q) \in Seq(S) /\ Head(q) = q[1] /\ 1 \in DOMAIN q /\ Len(q) \in Nat \ {0}
      /\ DOMAIN q = 1..Len(q) /\ DOMAIN Tail(q) = 1..(Len(q) - 1)
      /\ \A k \in 1..(Len(q) - 1) : Tail(q)[k] = q[k + 1]
  BY HeadTailProperties
<1>2. EachOnce(Tail(q))
  BY <1>1 DEF EachOnce
<1>3. \A k \in DOMAIN Tail(q) : k + 1 \in DOMAIN q /\ k + 1 # 1 /\ Tail(q)[k] = q[k + 1]
  BY <1>1
<1>4. ~Queued(Tail(q), Head(q))
  BY <1>1, <1>3 DEF EachOnce, Queued
<1>5. ASSUME NEW x, x # Head(q), Queued(q, x) PROVE Queued(Tail(q), x)
  <2>1. PICK k \in DOMAIN q : q[k] = x
    BY <1>5 DEF Queued
  <2>2. k - 1 \in 1..(Len(q) - 1) /\ (k - 1) + 1 = k
    BY <1>1, <1>5, <2>1
  <2> QED BY <1>1, <2>1, <2>2 DEF Queued
<1>6. \A k \in DOMAIN Tail(q) : Queued(q, Tail(q)[k])
  BY <1>3 DEF Queued
<1>7. \A x : Queued(Tail(q), x) => Queued(q, x)
  BY <1>6 DEF Queued
<1>8. Head(q) \in S /\ Queued(q, Head(q))
  BY <1>1 DEF Queued
<1> QED BY <1>1, <1>2, <1>4, <1>5, <1>6, <1>7, <1>8

\* Every member of a finite set is in its order, once.
LEMMA OrderOfSet ==
  ASSUME NEW S, IsFiniteSet(S)
  PROVE  /\ Cardinality(S) \in Nat
         /\ SetToSeq(S) \in [1..Cardinality(S) -> S]
         /\ SetToSeq(S) \in Seq(S) /\ Len(SetToSeq(S)) = Cardinality(S)
         /\ EachOnce(SetToSeq(S))
         /\ \A x \in S : \E k \in 1..Cardinality(S) : SetToSeq(S)[k] = x
<1> DEFINE n == Cardinality(S)
<1>1. n \in Nat /\ ExistsBijection(1..n, S)
  BY FS_CardinalityType
<1>2. PICK g : g \in [1..n -> S] /\ IsInjective(g)
  BY <1>1 DEF ExistsBijection, Bijection, Injection, IsInjective
<1> DEFINE q == SetToSeq(S)
<1>3. q \in [1..n -> S] /\ IsInjective(q)
  <2>1. q = CHOOSE f \in [1..n -> S] : IsInjective(f)
    BY DEF SetToSeq
  <2> HIDE DEF q, n
  <2> QED BY <1>2, <2>1, Zenon
<1>4. q \in Surjection(1..n, S)
  <2>1. q \in Injection(1..n, S)
    BY <1>3 DEF Injection, IsInjective
  <2>2. IsFiniteSet(1..n) /\ Cardinality(1..n) = n
    <3>1. 1 \in Int /\ n \in Int
      BY <1>1
    <3>2. Cardinality(1..n) = IF 1 > n THEN 0 ELSE n - 1 + 1
      BY <3>1, FS_Interval
    <3> QED BY <1>1, <3>1, <3>2, FS_Interval
  <2> QED BY <2>1, <2>2, FS_Injection
<1>5. \A x \in S : \E k \in 1..n : q[k] = x
  BY <1>4 DEF Surjection
<1>6. q \in Seq(S) /\ Len(q) = n /\ DOMAIN q = 1..n
  BY <1>1, <1>3
<1>7. EachOnce(q)
  BY <1>3 DEF EachOnce, IsInjective
<1> QED BY <1>1, <1>3, <1>5, <1>6, <1>7

LEMMA NoteCountType == NoteCount \in Nat
BY ChunkAssumption, FS_CardinalityType DEF NoteCount

LEMMA NotesOrdered ==
  /\ NoteCount \in Nat /\ NotesInOrder \in [1..NoteCount -> NoteIds]
  /\ \A j, k \in 1..NoteCount : NotesInOrder[j] = NotesInOrder[k] => j = k
  /\ \A n \in NoteIds : \E k \in 1..NoteCount : NotesInOrder[k] = n
<1>1. IsFiniteSet(NoteIds)
  BY ChunkAssumption
<1> QED BY <1>1, OrderOfSet DEF NoteCount, NotesInOrder, EachOnce

----------------------------------------------------------------------------
\* The calls a reading sets out to make.

\* The calls for some notes: each once, and of each note its status and its
\* periods, for a borrower what they have been paid too.
CallsFor(q, whose, N) ==
  /\ q \in Seq(CallSet) /\ EachOnce(q)
  /\ \A k \in DOMAIN q : q[k][1] # "cure" /\ q[k][2] \in N
  /\ \A n \in N :
       /\ Queued(q, <<"status", n, 0>>)
       /\ \A i \in Periods :
            /\ Queued(q, <<"period", n, i>>)
            /\ whose = "borrower" => Queued(q, <<"paid", n, i>>)

LEMMA CallsForOne ==
  ASSUME NEW whose \in {"borrower", "originator"}, NEW n \in NoteIds
  PROVE  CallsFor(CallsOf(whose, n), whose, {n})
<1>0. PeriodCount \in Nat \ {0} /\ Periods = 0..(PeriodCount - 1)
  BY TermsAssumption DEF Periods
<1>1. <<"status", n, 0>> \in CallSet /\ \A kind \in {"period", "paid"}, i \in Periods : <<kind, n, i>> \in CallSet
  BY DEF CallSet
<1> DEFINE s == <<<<"status", n, 0>>>>
           L == IF whose = "originator" THEN PeriodCount ELSE 2 * PeriodCount
           t == IF whose = "originator" THEN [k \in 1..PeriodCount |-> <<"period", n, k - 1>>]
                ELSE [k \in 1..(2 * PeriodCount) |->
                        <<IF k % 2 = 1 THEN "period" ELSE "paid", n, (k - 1) \div 2>>]
           q == CallsOf(whose, n)
<1>2. L \in Nat /\ L >= 1
  BY <1>0
<1>3. t \in Seq(CallSet) /\ Len(t) = L
  <2>1. CASE whose = "originator"
    <3>1. \A k \in 1..PeriodCount : <<"period", n, k - 1>> \in CallSet
      BY <1>0, <1>1
    <3> QED BY <1>0, <2>1, <3>1
  <2>2. CASE whose = "borrower"
    <3>1. \A k \in 1..(2 * PeriodCount) : (k - 1) \div 2 \in Periods
      BY <1>0
    <3>2. \A k \in 1..(2 * PeriodCount) :
            <<IF k % 2 = 1 THEN "period" ELSE "paid", n, (k - 1) \div 2>> \in CallSet
      BY <1>1, <3>1
    <3> QED BY <1>0, <2>2, <3>2
  <2> QED BY <2>1, <2>2
<1>4. q = s \o t /\ s \in Seq(CallSet) /\ Len(s) = 1 /\ s[1] = <<"status", n, 0>>
  BY <1>1 DEF CallsOf
<1> HIDE DEF s, q
<1>5. /\ q \in Seq(CallSet) /\ Len(q) = L + 1 /\ DOMAIN q = 1..(L + 1)
      /\ q[1] = <<"status", n, 0>> /\ \A k \in 1..L : q[k + 1] = t[k]
  <2>1. /\ q \in Seq(CallSet) /\ Len(q) = L + 1
        /\ \A k \in 1..(L + 1) : q[k] = IF k <= 1 THEN s[k] ELSE t[k - 1]
    <3> HIDE DEF t, L
    <3>1. /\ s \o t \in Seq(CallSet) /\ Len(s \o t) = Len(s) + Len(t)
          /\ \A k \in 1..(Len(s) + Len(t)) :
               (s \o t)[k] = IF k <= Len(s) THEN s[k] ELSE t[k - Len(s)]
      BY <1>3, <1>4, ConcatProperties, Zenon
    <3>2. Len(s) + Len(t) = L + 1
      BY <1>2, <1>3, <1>4
    <3> QED BY <1>4, <3>1, <3>2
  <2> HIDE DEF t, L
  <2>2. \A k \in 1..L : k + 1 \in 1..(L + 1) /\ ~(k + 1 <= 1) /\ (k + 1) - 1 = k
    BY <1>2
  <2> QED BY <1>2, <1>4, <2>1, <2>2
<1>6. \A k \in 1..(L + 1) : k = 1 \/ \E j \in 1..L : k = j + 1
  <2> SUFFICES ASSUME NEW k \in 1..(L + 1), k # 1 PROVE \E j \in 1..L : k = j + 1
    OBVIOUS
  <2>1. k - 1 \in 1..L /\ k = (k - 1) + 1
    BY <1>2
  <2> QED BY <2>1
<1>7. CASE whose = "originator"
  <2>1. L = PeriodCount /\ \A k \in 1..L : q[k + 1] = <<"period", n, k - 1>>
    BY <1>0, <1>5, <1>7
  <2> HIDE DEF t, L
  <2>2. EachOnce(q)
    <3> SUFFICES ASSUME NEW j \in DOMAIN q, NEW k \in DOMAIN q, q[j] = q[k] PROVE j = k
      BY DEF EachOnce
    <3>1. (j = 1 \/ \E a \in 1..L : j = a + 1) /\ (k = 1 \/ \E b \in 1..L : k = b + 1)
      BY <1>5, <1>6
    <3> QED BY <1>2, <1>5, <2>1, <3>1
  <2>3. ASSUME NEW i \in Periods PROVE Queued(q, <<"period", n, i>>)
    <3>1. i + 1 \in 1..L /\ (i + 1) - 1 = i /\ (i + 1) + 1 \in DOMAIN q
      BY <1>0, <1>5, <2>1
    <3> QED BY <2>1, <3>1 DEF Queued
  <2>4. Queued(q, <<"status", n, 0>>)
    BY <1>2, <1>5 DEF Queued
  <2>5. \A k \in DOMAIN q : q[k][1] # "cure" /\ q[k][2] \in {n}
    BY <1>5, <1>6, <2>1
  <2> QED BY <1>5, <1>7, <2>2, <2>3, <2>4, <2>5 DEF CallsFor, q
<1>8. CASE whose = "borrower"
  <2>1. /\ L = 2 * PeriodCount
        /\ \A k \in 1..L : q[k + 1] = <<IF k % 2 = 1 THEN "period" ELSE "paid", n, (k - 1) \div 2>>
    BY <1>0, <1>5, <1>8
  <2> HIDE DEF t, L
  <2>2. EachOnce(q)
    <3> SUFFICES ASSUME NEW j \in DOMAIN q, NEW k \in DOMAIN q, q[j] = q[k] PROVE j = k
      BY DEF EachOnce
    <3>1. (j = 1 \/ \E a \in 1..L : j = a + 1) /\ (k = 1 \/ \E b \in 1..L : k = b + 1)
      BY <1>5, <1>6
    <3>2. ASSUME NEW a \in 1..L, NEW b \in 1..L, q[a + 1] = q[b + 1] PROVE a = b
      <4>1. (a % 2 = 1 <=> b % 2 = 1) /\ (a - 1) \div 2 = (b - 1) \div 2
        BY <2>1, <3>2
      <4> QED BY <1>2, <4>1
    <3>3. \A a \in 1..L : q[1] # q[a + 1]
      BY <1>5, <2>1
    <3> QED BY <3>1, <3>2, <3>3
  <2>3. ASSUME NEW i \in Periods
        PROVE  Queued(q, <<"period", n, i>>) /\ Queued(q, <<"paid", n, i>>)
    <3>1. PICK j \in 1..L : j % 2 = 1 /\ (j - 1) \div 2 = i
      <4>1. 2 * i + 1 \in 1..L /\ (2 * i + 1) % 2 = 1 /\ ((2 * i + 1) - 1) \div 2 = i
        BY <1>0, <2>1
      <4> QED BY <4>1
    <3>2. PICK k \in 1..L : k % 2 # 1 /\ (k - 1) \div 2 = i
      <4>1. 2 * i + 2 \in 1..L /\ (2 * i + 2) % 2 # 1 /\ ((2 * i + 2) - 1) \div 2 = i
        BY <1>0, <2>1
      <4> QED BY <4>1
    <3>3. q[j + 1] = <<"period", n, i>> /\ q[k + 1] = <<"paid", n, i>>
      BY <2>1, <3>1, <3>2
    <3>4. j + 1 \in DOMAIN q /\ k + 1 \in DOMAIN q
      BY <1>2, <1>5
    <3> QED BY <3>3, <3>4 DEF Queued
  <2>4. Queued(q, <<"status", n, 0>>)
    BY <1>2, <1>5 DEF Queued
  <2>5. \A k \in DOMAIN q : q[k][1] # "cure" /\ q[k][2] \in {n}
    <3>1. \A k \in 1..L : q[k + 1][1] # "cure" /\ q[k + 1][2] = n
      BY <2>1
    <3> QED BY <1>5, <1>6, <3>1
  <2> QED BY <1>5, <2>2, <2>3, <2>4, <2>5 DEF CallsFor, q
<1> QED BY <1>7, <1>8

LEMMA CallsForMore ==
  ASSUME NEW whose, NEW N, NEW M, NEW q, NEW r, N \cap M = {},
         CallsFor(q, whose, N), CallsFor(r, whose, M)
  PROVE  CallsFor(q \o r, whose, N \cup M)
<1> DEFINE t == q \o r
<1>1. q \in Seq(CallSet) /\ r \in Seq(CallSet)
  BY DEF CallsFor
<1>2. /\ t \in Seq(CallSet) /\ Len(t) = Len(q) + Len(r)
      /\ \A k \in 1..(Len(q) + Len(r)) : t[k] = IF k <= Len(q) THEN q[k] ELSE r[k - Len(q)]
  BY <1>1, ConcatProperties, Zenon
<1>3. /\ Len(q) \in Nat /\ Len(r) \in Nat /\ DOMAIN q = 1..Len(q) /\ DOMAIN r = 1..Len(r)
      /\ DOMAIN t = 1..(Len(q) + Len(r))
  BY <1>1, <1>2
<1> HIDE DEF t
<1>4. \A k \in DOMAIN q : k \in DOMAIN t /\ t[k] = q[k]
  BY <1>2, <1>3
<1>5. \A k \in DOMAIN r : k + Len(q) \in DOMAIN t /\ t[k + Len(q)] = r[k]
  BY <1>2, <1>3
<1>6. ASSUME NEW k \in DOMAIN t
      PROVE  \/ k \in DOMAIN q
             \/ \E j \in DOMAIN r : k = j + Len(q)
  <2>1. CASE k <= Len(q)
    BY <1>3, <2>1
  <2>2. CASE k > Len(q)
    <3>1. k - Len(q) \in DOMAIN r /\ k = (k - Len(q)) + Len(q)
      BY <1>3, <2>2
    <3> QED BY <3>1
  <2> QED BY <1>3, <2>1, <2>2
<1>7. /\ \A k \in DOMAIN q : q[k][1] # "cure" /\ q[k][2] \in N
      /\ \A k \in DOMAIN r : r[k][1] # "cure" /\ r[k][2] \in M
  BY DEF CallsFor
<1>8. EachOnce(t)
  <2> SUFFICES ASSUME NEW j \in DOMAIN t, NEW k \in DOMAIN t, t[j] = t[k] PROVE j = k
    BY DEF EachOnce
  <2>1. CASE j \in DOMAIN q /\ k \in DOMAIN q
    BY <1>4, <2>1 DEF CallsFor, EachOnce
  <2>2. ASSUME NEW a \in DOMAIN r, NEW b \in DOMAIN r, j = a + Len(q), k = b + Len(q)
        PROVE  j = k
    <3>1. r[a] = r[b]
      BY <1>5, <2>2
    <3>2. a = b
      BY <3>1 DEF CallsFor, EachOnce
    <3> QED BY <2>2, <3>2
  <2>3. \A a \in DOMAIN q, b \in DOMAIN r : t[a] # t[b + Len(q)]
    BY <1>4, <1>5, <1>7
  <2> QED BY <1>6, <2>1, <2>2, <2>3
<1>9. \A k \in DOMAIN t : t[k][1] # "cure" /\ t[k][2] \in N \cup M
  BY <1>4, <1>5, <1>6, <1>7
<1>10. \A x : Queued(q, x) \/ Queued(r, x) => Queued(t, x)
  BY <1>4, <1>5 DEF Queued
<1>11. \A n \in N \cup M :
         /\ Queued(t, <<"status", n, 0>>)
         /\ \A i \in Periods :
              /\ Queued(t, <<"period", n, i>>)
              /\ whose = "borrower" => Queued(t, <<"paid", n, i>>)
  BY <1>10 DEF CallsFor
<1>12. CallsFor(t, whose, N \cup M)
  BY <1>2, <1>8, <1>9, <1>11 DEF CallsFor
<1> QED BY <1>12 DEF t

NotesUpTo(k) == {NotesInOrder[j] : j \in 1..k}

LEMMA CallsForAll ==
  ASSUME NEW whose \in {"borrower", "originator"}
  PROVE  CallsFor(Calls(whose), whose, NoteIds)
<1> DEFINE C(k) == CallsOf(whose, NotesInOrder[k])
           D(h) == [k \in 0..NoteCount |-> IF k = 0 THEN <<>> ELSE h[k - 1] \o C(k)]
           S    == Seq(CallSet)
           say  == [k \in 0..(NoteCount - 1) |-> [x \in S |-> x \o C(k + 1)]]
<1>0. NoteCount \in Nat
  BY NotesOrdered
<1>1. \A k \in 1..NoteCount : NotesInOrder[k] \in NoteIds
  BY NotesOrdered
<1>2. \A k \in 1..NoteCount : CallsFor(C(k), whose, {NotesInOrder[k]})
  BY <1>1, CallsForOne
<1>3. \A k \in 1..NoteCount : C(k) \in S
  BY <1>2 DEF CallsFor
<1> HIDE DEF C
<1>4. PICK g \in [0..NoteCount -> S] : Follows(g, NoteCount, <<>>, say)
  <2>1. say \in [0..(NoteCount - 1) -> [S -> S]]
    <3>1. ASSUME NEW k \in 0..(NoteCount - 1), NEW x \in S PROVE x \o C(k + 1) \in S
      <4>1. k + 1 \in 1..NoteCount
        BY <1>0
      <4>2. C(k + 1) \in Seq(CallSet) /\ x \in Seq(CallSet)
        BY <1>3, <4>1
      <4> QED BY <4>2, ConcatProperties
    <3> HIDE DEF S
    <3> QED BY <3>1
  <2>2. <<>> \in S
    OBVIOUS
  <2> HIDE DEF say, S
  <2>3. \A Q : \A base \in Q : \A step \in [0..(NoteCount - 1) -> [Q -> Q]] :
          \E h \in [0..NoteCount -> Q] : Follows(h, NoteCount, base, step)
    BY <1>0, RecursionExists, Zenon
  <2> QED BY <2>1, <2>2, <2>3, Zenon
<1>5. g = D(g)
  <2>1. ASSUME NEW k \in 0..NoteCount
        PROVE  g[k] = IF k = 0 THEN <<>> ELSE g[k - 1] \o C(k)
    <3>1. CASE k = 0
      BY <1>4, <3>1 DEF Follows
    <3>2. CASE k # 0
      <4>1. k \in 1..NoteCount /\ k - 1 \in 0..(NoteCount - 1) /\ k - 1 \in 0..NoteCount /\ (k - 1) + 1 = k
        BY <1>0, <3>2
      <4>2. g[k] = say[k - 1][g[k - 1]]
        <5> HIDE DEF say
        <5> QED BY <1>4, <4>1, Zenon DEF Follows
      <4>3. g[k - 1] \in S
        BY <1>4, <4>1, Zenon
      <4>4. say[k - 1][g[k - 1]] = g[k - 1] \o C((k - 1) + 1)
        <5> HIDE DEF S
        <5> QED BY <4>1, <4>3, Zenon
      <4> QED BY <3>2, <4>1, <4>2, <4>4, Zenon
    <3> QED BY <3>1, <3>2
  <2> HIDE DEF S
  <2> QED BY <2>1, <1>4
<1>6. Calls(whose) = (CHOOSE h : h = D(h))[NoteCount]
  BY Zenon DEF Calls, C
<1> DEFINE s == CHOOSE h : h = D(h)
<1>7. s = D(s)
  BY <1>5, Zenon
<1> HIDE DEF s
<1>8. \A k \in 0..NoteCount : s[k] = IF k = 0 THEN <<>> ELSE s[k - 1] \o C(k)
  BY <1>7
<1> DEFINE T == {k \in Nat : k <= NoteCount => CallsFor(s[k], whose, NotesUpTo(k))}
<1>9. Nat \subseteq T
  <2>1. 0 \in T
    <3>1. s[0] = <<>>
      BY <1>0, <1>8
    <3>2. NotesUpTo(0) = {}
      BY DEF NotesUpTo
    <3>3. CallsFor(<<>>, whose, {})
      BY DEF CallsFor, EachOnce
    <3> QED BY <3>1, <3>2, <3>3
  <2>2. ASSUME NEW k \in Nat, k \in T PROVE k + 1 \in T
    <3> SUFFICES ASSUME k + 1 <= NoteCount PROVE CallsFor(s[k + 1], whose, NotesUpTo(k + 1))
      OBVIOUS
    <3>1. k + 1 \in 1..NoteCount /\ k + 1 \in 0..NoteCount /\ k + 1 # 0 /\ (k + 1) - 1 = k /\ k <= NoteCount
      BY <1>0
    <3>2. s[k + 1] = s[k] \o C(k + 1)
      BY <1>8, <3>1, Zenon
    <3>3. CallsFor(s[k], whose, NotesUpTo(k)) /\ CallsFor(C(k + 1), whose, {NotesInOrder[k + 1]})
      BY <1>2, <2>2, <3>1
    <3>4. NotesUpTo(k) \cap {NotesInOrder[k + 1]} = {}
      <4> SUFFICES ASSUME NEW j \in 1..k, NotesInOrder[j] = NotesInOrder[k + 1] PROVE FALSE
        BY DEF NotesUpTo
      <4>1. j \in 1..NoteCount /\ j # k + 1
        BY <1>0, <3>1
      <4> QED BY <3>1, <4>1, NotesOrdered
    <3>5. NotesUpTo(k) \cup {NotesInOrder[k + 1]} = NotesUpTo(k + 1)
      <4>1. 1..(k + 1) = (1..k) \cup {k + 1}
        OBVIOUS
      <4> QED BY <4>1 DEF NotesUpTo
    <3> QED BY <3>2, <3>3, <3>4, <3>5, CallsForMore
  <2> HIDE DEF T
  <2> QED BY <2>1, <2>2, SetInduction
<1>10. CallsFor(s[NoteCount], whose, NotesUpTo(NoteCount))
  BY <1>0, <1>9
<1>11. NotesUpTo(NoteCount) = NoteIds
  BY <1>1, NotesOrdered DEF NotesUpTo
<1> QED BY <1>6, <1>10, <1>11 DEF s

----------------------------------------------------------------------------
\* What was paid in, over all notes.

PaidGrid == [NoteIds -> [Periods -> Nat]]

LEMMA NoteSums ==
  ASSUME NEW f \in PaidGrid
  PROVE  /\ [k \in 0..(NoteCount - 1) |-> SumOf(f[NotesInOrder[k + 1]])]
              \in [0..(NoteCount - 1) -> Nat]
         /\ TotalOf(f) \in Nat
<1> DEFINE s == [k \in 0..(NoteCount - 1) |-> SumOf(f[NotesInOrder[k + 1]])]
<1>1. NoteCount \in Nat
  BY NotesOrdered
<1>2. ASSUME NEW k \in 0..(NoteCount - 1) PROVE SumOf(f[NotesInOrder[k + 1]]) \in Nat
  <2>1. k + 1 \in 1..NoteCount
    BY <1>1
  <2>2. NotesInOrder[k + 1] \in NoteIds
    BY <2>1, NotesOrdered
  <2>3. f[NotesInOrder[k + 1]] \in [Periods -> Nat]
    BY <2>2 DEF PaidGrid
  <2> QED BY <2>3, PeriodSumType
<1>3. s \in [0..(NoteCount - 1) -> Nat]
  BY <1>2
<1>4. TotalOf(f) = SumTo(s, NoteCount)
  BY DEF TotalOf
<1> HIDE DEF s
<1>5. TotalOf(f) \in Nat
  BY <1>1, <1>3, <1>4, SumType
<1> QED BY <1>3, <1>5 DEF s

LEMMA TotalBelow ==
  ASSUME NEW f \in PaidGrid, NEW g \in PaidGrid,
         \A n \in NoteIds, i \in Periods : f[n][i] <= g[n][i]
  PROVE  TotalOf(f) <= TotalOf(g)
<1> DEFINE s == [k \in 0..(NoteCount - 1) |-> SumOf(f[NotesInOrder[k + 1]])]
           t == [k \in 0..(NoteCount - 1) |-> SumOf(g[NotesInOrder[k + 1]])]
<1>1. NoteCount \in Nat /\ s \in [0..(NoteCount - 1) -> Nat] /\ t \in [0..(NoteCount - 1) -> Nat]
  BY NotesOrdered, NoteSums
<1>2. ASSUME NEW k \in 0..(NoteCount - 1) PROVE s[k] <= t[k]
  <2>1. k + 1 \in 1..NoteCount
    BY <1>1
  <2>2. NotesInOrder[k + 1] \in NoteIds
    BY <2>1, NotesOrdered
  <2> DEFINE x == f[NotesInOrder[k + 1]]
             y == g[NotesInOrder[k + 1]]
  <2>3. x \in [Periods -> Int] /\ y \in [Periods -> Int] /\ \A i \in Periods : x[i] <= y[i]
    BY <2>2 DEF PaidGrid
  <2>4. PeriodCount \in Nat /\ Periods = 0..(PeriodCount - 1)
    BY PeriodCountType
  <2> HIDE DEF x, y
  <2>5. SumOf(x) <= SumOf(y)
    BY <2>3, <2>4, SumBelow DEF SumOf
  <2> QED BY <2>5 DEF x, y
<1>3. TotalOf(f) = SumTo(s, NoteCount) /\ TotalOf(g) = SumTo(t, NoteCount)
  BY DEF TotalOf
<1>4. s \in [0..(NoteCount - 1) -> Int] /\ t \in [0..(NoteCount - 1) -> Int]
  BY <1>1
<1> HIDE DEF s, t
<1> QED BY <1>1, <1>2, <1>3, <1>4, SumBelow

LEMMA NotesSumBump ==
  ASSUME NEW s \in [0..(NoteCount - 1) -> Int], NEW t \in [0..(NoteCount - 1) -> Int],
         NEW k \in 0..(NoteCount - 1), NEW x \in Int,
         t[k] = s[k] + x, \A j \in 0..(NoteCount - 1) : j # k => t[j] = s[j]
  PROVE  SumTo(t, NoteCount) = SumTo(s, NoteCount) + x
BY NoteCountType, SumBump, Zenon

LEMMA TotalMoves ==
  ASSUME NEW f \in PaidGrid, NEW g \in PaidGrid, NEW n \in NoteIds, NEW x \in Int,
         SumOf(g[n]) = SumOf(f[n]) + x, \A m \in NoteIds : m # n => g[m] = f[m]
  PROVE  TotalOf(g) = TotalOf(f) + x
<1> DEFINE s == [k \in 0..(NoteCount - 1) |-> SumOf(f[NotesInOrder[k + 1]])]
           t == [k \in 0..(NoteCount - 1) |-> SumOf(g[NotesInOrder[k + 1]])]
<1>1. NoteCount \in Nat /\ s \in [0..(NoteCount - 1) -> Nat] /\ t \in [0..(NoteCount - 1) -> Nat]
  BY NoteCountType, NoteSums
<1>2. PICK k \in 1..NoteCount : NotesInOrder[k] = n
  BY NotesOrdered
<1>3. PICK h \in 0..(NoteCount - 1) : h + 1 = k
  <2>1. k - 1 \in 0..(NoteCount - 1) /\ (k - 1) + 1 = k
    BY <1>1, <1>2
  <2> QED BY <2>1
<1>4. t[h] = s[h] + x
  BY <1>2, <1>3
<1>5. \A j \in 0..(NoteCount - 1) : j # h => t[j] = s[j]
  <2> SUFFICES ASSUME NEW j \in 0..(NoteCount - 1), j # h PROVE t[j] = s[j]
    OBVIOUS
  <2>1. j + 1 \in 1..NoteCount /\ j + 1 # k
    BY <1>1, <1>2, <1>3
  <2>2. NotesInOrder[j + 1] \in NoteIds /\ NotesInOrder[j + 1] # n
    BY <1>2, <2>1, NotesOrdered
  <2> QED BY <2>2
<1>6. TotalOf(f) = SumTo(s, NoteCount) /\ TotalOf(g) = SumTo(t, NoteCount)
  BY DEF TotalOf
<1>7. s \in [0..(NoteCount - 1) -> Int] /\ t \in [0..(NoteCount - 1) -> Int]
  BY <1>1
<1> HIDE DEF s, t
<1>8. SumTo(t, NoteCount) = SumTo(s, NoteCount) + x
  BY <1>4, <1>5, <1>7, NotesSumBump, Zenon
<1> QED BY <1>6, <1>8

LEMMA TotalBump ==
  ASSUME NEW f \in PaidGrid, NEW n \in NoteIds, NEW i \in Periods, NEW x \in Nat,
         f[n][i] = 0
  PROVE  /\ [f EXCEPT ![n][i] = x] \in PaidGrid
         /\ TotalOf([f EXCEPT ![n][i] = x]) = TotalOf(f) + x
<1> DEFINE g == [f EXCEPT ![n][i] = x]
<1>1. g \in PaidGrid /\ f[n] \in [Periods -> Nat] /\ g[n] = [f[n] EXCEPT ![i] = x]
      /\ \A m \in NoteIds : m # n => g[m] = f[m]
  BY DEF PaidGrid
<1>2. SumOf(g[n]) = SumOf(f[n]) + x
  <2>1. /\ f[n] \in [Periods -> Int] /\ g[n] \in [Periods -> Int]
        /\ g[n][i] = f[n][i] + x /\ \A j \in Periods : j # i => g[n][j] = f[n][j]
    BY <1>1
  <2> HIDE DEF g
  <2> QED BY <2>1, PeriodSumBump
<1> HIDE DEF g
<1>3. TotalOf(g) = TotalOf(f) + x
  BY <1>1, <1>2, TotalMoves
<1> QED BY <1>1, <1>3 DEF g

LEMMA TotalOfNothing ==
  /\ [n \in NoteIds |-> [i \in Periods |-> 0]] \in PaidGrid
  /\ TotalOf([n \in NoteIds |-> [i \in Periods |-> 0]]) = 0
<1> DEFINE f == [n \in NoteIds |-> [i \in Periods |-> 0]]
           s == [k \in 0..(NoteCount - 1) |-> SumOf(f[NotesInOrder[k + 1]])]
<1>1. f \in PaidGrid
  BY DEF PaidGrid
<1>2. NoteCount \in Nat /\ s \in [0..(NoteCount - 1) -> Int]
  <2>1. s \in [0..(NoteCount - 1) -> Nat]
    BY <1>1, NoteSums
  <2> QED BY <2>1, NotesOrdered
<1>3. ASSUME NEW k \in 0..(NoteCount - 1) PROVE s[k] = 0
  <2>1. k + 1 \in 1..NoteCount
    BY <1>2
  <2>2. NotesInOrder[k + 1] \in NoteIds
    BY <2>1, NotesOrdered
  <2> DEFINE x == [i \in Periods |-> 0]
  <2>3. f[NotesInOrder[k + 1]] = x /\ x \in [Periods -> Int] /\ \A i \in Periods : x[i] = 0
    BY <2>2
  <2>4. SumOf(x) = 0
    BY <2>3, PeriodSumZero
  <2> QED BY <2>3, <2>4
<1>4. TotalOf(f) = SumTo(s, NoteCount)
  BY DEF TotalOf
<1> HIDE DEF s
<1>5. TotalOf(f) = 0
  BY <1>2, <1>3, <1>4, SumZero
<1> QED BY <1>1, <1>5

----------------------------------------------------------------------------
\* Nothing a card counts is undone by the chain.

ChainGrows ==
  /\ now \in Nat /\ now' \in Nat /\ now <= now'
  /\ \A n \in NoteIds :
       /\ status[n] \in {"Matured", "Defaulted"} => status'[n] = status[n]
       /\ \A i \in Periods :
            /\ periodStatus[n][i] \in {"Missed", "Cured"} => periodStatus'[n][i] \in {"Missed", "Cured"}
            /\ periodStatus[n][i] \in Done => periodStatus'[n][i] = periodStatus[n][i]
            /\ periodPaid[n][i] \in Nat /\ periodPaid'[n][i] \in Nat
            /\ periodPaid[n][i] <= periodPaid'[n][i]

LEMMA ChainMoves ==
  ASSUME IndInv, [Next]_vars
  PROVE  IndInv' /\ ChainGrows
<1>1. IndInv' /\ TypeOK /\ TypeOK'
  BY IndInvStep DEF IndInv
<1>2. now' \in Nat /\ now \in Nat /\ now <= now'
  <2>1. now \in Nat /\ now' \in Nat
    BY <1>1 DEF TypeOK
  <2>2. now' = now \/ now' = now + 1
    BY DEF Next, vars, Tick, Delegate, RevokeDelegation, PayByHand, RepayNote, SettlePeriod,
           MarkDelinquent, DefaultNote, WithdrawFees, relayVars, vaultVars, noteVars
  <2> QED BY <2>1, <2>2
<1>3. ASSUME NEW n \in NoteIds, status[n] \in {"Matured", "Defaulted"}
      PROVE  status'[n] = status[n]
  <2>1. CASE UNCHANGED vars
    BY <2>1 DEF vars, noteVars
  <2>2. CASE Next /\ ~UNCHANGED vars
    <3>1. TerminalStep
      BY <2>2, TerminalNextStep
    <3> QED BY <1>3, <3>1 DEF TerminalStep, ClosedNoteKept
  <2> QED BY <2>1, <2>2
<1>4. ASSUME NEW n \in NoteIds, NEW i \in Periods
      PROVE  /\ periodStatus[n][i] \in {"Missed", "Cured"} => periodStatus'[n][i] \in {"Missed", "Cured"}
             /\ periodStatus[n][i] \in Done => periodStatus'[n][i] = periodStatus[n][i]
  <2>1. CASE UNCHANGED vars
    BY <2>1 DEF vars, noteVars
  <2>2. CASE Next /\ ~UNCHANGED vars
    <3>1. RecordStep
      BY <2>2, RecordNextStep
    <3> QED BY <3>1 DEF RecordStep, Done
  <2> QED BY <2>1, <2>2
<1>5. ASSUME NEW n \in NoteIds, NEW i \in Periods
      PROVE  /\ periodPaid[n][i] \in Nat /\ periodPaid'[n][i] \in Nat
             /\ periodPaid[n][i] <= periodPaid'[n][i]
  <2>1. periodPaid[n][i] \in Nat /\ periodPaid'[n][i] \in Nat
    BY <1>1 DEF TypeOK
  <2>2. ASSUME NEW m \in NoteIds, NEW first \in Periods, NEW value \in Payments,
               PayByHand(m, first, value)
        PROVE  periodPaid[n][i] <= periodPaid'[n][i]
    <3>1. Repay(m, first, value) /\ value \in Nat /\ LedgersAt(m)
      BY <2>2, PaymentsAssumption DEF PayByHand, RepayNote, IndInv, NoteAt
    <3>2. PICK credit \in [Periods -> Nat], left \in Nat : RepayEffect(m, value, credit, left)
      BY <1>1, <3>1, RepayMoves, Zenon
    <3>3. CASE m = n
      <4>1. periodPaid'[n][i] = periodPaid[n][i] + credit[i] /\ credit[i] \in Nat
        BY <3>2, <3>3 DEF RepayEffect
      <4> QED BY <2>1, <4>1
    <3>4. CASE m # n
      <4>1. periodPaid'[n] = periodPaid[n]
        BY <1>1, <3>1, <3>4 DEF Repay, RecordPayments, TypeOK
      <4> QED BY <2>1, <4>1
    <3> QED BY <3>3, <3>4
  <2>3. ASSUME ~ \E m \in NoteIds, first \in Periods, value \in Payments : PayByHand(m, first, value)
        PROVE  periodPaid' = periodPaid
    BY <2>3 DEF Next, vars, Tick, Delegate, RevokeDelegation, SettlePeriod, MarkSettled, Release,
                MarkDelinquent, MarkMissed, DefaultNote, MarkDefaulted, WithdrawFees, noteVars
  <2> QED BY <2>1, <2>2, <2>3
<1> QED BY <1>1, <1>2, <1>3, <1>4, <1>5 DEF ChainGrows

----------------------------------------------------------------------------
\* The reading, half way through.

NotesNow(s) == {n \in NoteIds : status[n] = s}
AskedNotes == {n \in NoteIds : ~Queued(todo, <<"status", n, 0>>)}
Asked(kind) == {p \in NoteIds \X Periods : ~Queued(todo, <<kind, p[1], p[2]>>)}

CardData == [matured : Nat, defaulted : Nat, live : Nat, settled : Nat, missed : Nat,
             cured : Nat, outstanding : Nat, repaid : Nat, selfCured : Nat]

QueueOK ==
  /\ todo \in Seq(CallSet) /\ EachOnce(todo)
  /\ \A k \in DOMAIN todo : todo[k][1] = "cure" <=> reading = "cures"
  /\ reading = "logs" => todo = <<>>

NotesTallied ==
  /\ Tally(before.matured, card.matured, NotesNow("Matured"), AskedNotes)
  /\ Tally(before.defaulted, card.defaulted, NotesNow("Defaulted"), AskedNotes)

PeriodsTallied ==
  /\ Tally(before.settled, card.settled, InAll(Done), Asked("period"))
  /\ Tally(before.missed, card.missed, InAll({"Missed", "Cured"}), Asked("period"))
  /\ Tally(before.cured, card.cured, InAll({"Cured"}), Asked("period"))
  /\ card.cured <= card.settled
  /\ card.settled + card.outstanding = Cardinality(Asked("period"))

PaidTallied ==
  \E b, c \in PaidGrid :
    /\ before.repaid = TotalOf(b) /\ card.repaid = TotalOf(c)
    /\ \A n \in NoteIds, i \in Periods :
         /\ b[n][i] <= periodPaid[n][i] /\ c[n][i] <= periodPaid[n][i]
         /\ IF Queued(todo, <<"paid", n, i>>) THEN c[n][i] = 0 ELSE b[n][i] <= c[n][i]

\* Until the cures are asked for, the logs of those there were at the beginning
\* are found or still ahead.
CuresAhead ==
  /\ card.selfCured = 0
  /\ \E b \in SUBSET SelfCured :
       /\ before.selfCured = Cardinality(b)
       /\ \A p \in b : \E l \in repaidLogs :
            /\ l.note = p[1] /\ l.period = p[2] /\ l.block <= head
            /\ l.block < from => l \in found

CuresTallied ==
  /\ Tally(before.selfCured, card.selfCured, SelfCured, Asked("cure"))
  /\ \A k \in DOMAIN todo : \E l \in repaidLogs : l.note = todo[k][2] /\ l.period = todo[k][3]

\* Whatever is still to be asked for, each count is of its place in the reading.
ReadingOK ==
  /\ QueueOK
  /\ card \in CardData /\ found \subseteq repaidLogs
  /\ head \in Nat /\ from \in Nat /\ chunk \in Nat
  /\ NotesTallied /\ PeriodsTallied
  /\ reading = "borrower" => PaidTallied
  /\ reading \in {"originator", "logs"} => CuresAhead
  /\ reading = "cures" => CuresTallied

LogsOK ==
  /\ MintedAt <= now
  /\ \A l \in repaidLogs :
       /\ l.note \in NoteIds /\ l.period \in Periods
       /\ l.block \in Nat /\ MintedAt <= l.block /\ l.block <= now

ScoreInv ==
  /\ IndInv /\ LogsOK
  /\ reading \in {"idle", "borrower", "originator", "logs", "cures"}
  /\ IF reading = "idle" THEN todo = <<>> ELSE ReadingOK

LEMMA ScoreInitially == ScoreInit => ScoreInv
<1> SUFFICES ASSUME ScoreInit PROVE ScoreInv
  OBVIOUS
<1>1. IndInv
  BY IndInvInit DEF ScoreInit
<1>2. MintedAt <= now
  BY TermsAssumption DEF ScoreInit, Init
<1> QED BY <1>1, <1>2 DEF ScoreInit, ScoreInv, LogsOK

LEMMA SlotsFinite ==
  /\ IsFiniteSet(NoteIds) /\ IsFiniteSet(NoteIds \X Periods)
  /\ \A S : IsFiniteSet(InAll(S)) /\ InAll(S) \subseteq NoteIds \X Periods
  /\ IsFiniteSet(SelfCured) /\ SelfCured \subseteq NoteIds \X Periods
  /\ \A s : IsFiniteSet(NotesNow(s))
  /\ \A kind : IsFiniteSet(Asked(kind)) /\ Cardinality(Asked(kind)) \in Nat
<1>1. IsFiniteSet(NoteIds)
  BY ChunkAssumption
<1>2. IsFiniteSet(Periods)
  BY PeriodSets
<1>3. IsFiniteSet(NoteIds \X Periods)
  BY <1>1, <1>2, FS_Product
<1>4. \A S : InAll(S) \subseteq NoteIds \X Periods
  BY DEF InAll
<1>5. SelfCured \subseteq NoteIds \X Periods
  BY <1>4 DEF SelfCured
<1>6. \A s : NotesNow(s) \subseteq NoteIds
  BY DEF NotesNow
<1>7. \A kind : Asked(kind) \subseteq NoteIds \X Periods
  BY DEF Asked
<1> QED BY <1>1, <1>3, <1>4, <1>5, <1>6, <1>7, FS_Subset, FS_CardinalityType

\* A step of the chain, with a log or without.
LEMMA ChainKeeps ==
  ASSUME ScoreInv, [Next]_vars, UNCHANGED readerVars, repaidLogs \subseteq repaidLogs',
         \A l \in repaidLogs' \ repaidLogs :
            l.note \in NoteIds /\ l.period \in Periods /\ l.block = now
  PROVE  ScoreInv'
<1>1. IndInv' /\ ChainGrows
  BY ChainMoves DEF ScoreInv
<1>2. LogsOK'
  BY <1>1, TermsAssumption DEF ScoreInv, LogsOK, ChainGrows
<1>3. ASSUME ReadingOK PROVE ReadingOK'
  <2>0. /\ reading' = reading /\ todo' = todo /\ head' = head /\ from' = from /\ chunk' = chunk
        /\ found' = found /\ card' = card /\ before' = before
    BY DEF readerVars
  <2>1. QueueOK' /\ AskedNotes' = AskedNotes /\ \A kind : Asked(kind)' = Asked(kind)
    BY <1>3, <2>0 DEF ReadingOK, QueueOK, AskedNotes, Asked
  <2>2. \A s \in {"Matured", "Defaulted"} : NotesNow(s) \subseteq NotesNow(s)'
    BY <1>1 DEF ChainGrows, NotesNow
  <2>3. \A S \in {Done, {"Missed", "Cured"}, {"Cured"}} : InAll(S) \subseteq InAll(S)'
    <3>1. ASSUME NEW S, NEW p \in InAll(S), S \in {Done, {"Missed", "Cured"}, {"Cured"}}
          PROVE  p \in InAll(S)'
      <4>1. p \in NoteIds \X Periods /\ p[1] \in NoteIds /\ p[2] \in Periods /\ periodStatus[p[1]][p[2]] \in S
        BY DEF InAll
      <4>2. periodStatus'[p[1]][p[2]] \in S
        BY <1>1, <3>1, <4>1 DEF ChainGrows, Done
      <4> QED BY <4>1, <4>2 DEF InAll
    <3> QED BY <3>1
  <2>4. SelfCured \subseteq SelfCured'
    BY <2>3 DEF SelfCured
  <2>5. NotesTallied'
    BY <1>3, <2>0, <2>1, <2>2, TallyGrows DEF ReadingOK, NotesTallied
  <2>6. PeriodsTallied'
    <3>1. /\ Tally(before.settled, card.settled, InAll(Done)', Asked("period"))
          /\ Tally(before.missed, card.missed, InAll({"Missed", "Cured"})', Asked("period"))
          /\ Tally(before.cured, card.cured, InAll({"Cured"})', Asked("period"))
      BY <1>3, <2>3, TallyGrows DEF ReadingOK, PeriodsTallied
    <3> QED BY <1>3, <2>0, <2>1, <3>1 DEF ReadingOK, PeriodsTallied
  <2>7. ASSUME PaidTallied PROVE PaidTallied'
    <3>1. PICK b \in PaidGrid, c \in PaidGrid :
            /\ before.repaid = TotalOf(b) /\ card.repaid = TotalOf(c)
            /\ \A n \in NoteIds, i \in Periods :
                 /\ b[n][i] <= periodPaid[n][i] /\ c[n][i] <= periodPaid[n][i]
                 /\ IF Queued(todo, <<"paid", n, i>>) THEN c[n][i] = 0 ELSE b[n][i] <= c[n][i]
      BY <2>7 DEF PaidTallied
    <3>2. ASSUME NEW n \in NoteIds, NEW i \in Periods
          PROVE  b[n][i] <= periodPaid'[n][i] /\ c[n][i] <= periodPaid'[n][i]
      <4>1. b[n][i] \in Nat /\ c[n][i] \in Nat
        BY DEF PaidGrid
      <4>2. periodPaid[n][i] \in Nat /\ periodPaid'[n][i] \in Nat /\ periodPaid[n][i] <= periodPaid'[n][i]
        BY <1>1 DEF ChainGrows
      <4>3. b[n][i] <= periodPaid[n][i] /\ c[n][i] <= periodPaid[n][i]
        BY <3>1, Zenon
      <4> QED BY <4>1, <4>2, <4>3
    <3> QED BY <2>0, <3>1, <3>2 DEF PaidTallied
  <2>8. ASSUME CuresAhead PROVE CuresAhead'
    BY <2>0, <2>4, <2>8 DEF CuresAhead
  <2>9. ASSUME CuresTallied PROVE CuresTallied'
    <3>1. Tally(before.selfCured, card.selfCured, SelfCured', Asked("cure"))
      BY <2>4, <2>9, TallyGrows DEF CuresTallied
    <3> QED BY <2>0, <2>1, <2>9, <3>1 DEF CuresTallied
  <2> QED BY <1>3, <2>0, <2>1, <2>5, <2>6, <2>7, <2>8, <2>9 DEF ReadingOK
<1> QED BY <1>1, <1>2, <1>3 DEF ScoreInv, readerVars

\* The reader's own steps leave the chain alone.
LEMMA ChainStands ==
  ASSUME ScoreInv, UNCHANGED <<vars, repaidLogs>>
  PROVE  /\ IndInv' /\ LogsOK'
         /\ \A s : NotesNow(s)' = NotesNow(s)
         /\ \A S : InAll(S)' = InAll(S)
         /\ SelfCured' = SelfCured /\ periodPaid' = periodPaid
         /\ status' = status /\ periodStatus' = periodStatus /\ repaidLogs' = repaidLogs
<1>1. status' = status /\ periodStatus' = periodStatus /\ periodPaid' = periodPaid /\ now' = now
  BY DEF vars, noteVars
<1>2. IndInv'
  BY IndInvStep DEF ScoreInv
<1> QED BY <1>1, <1>2 DEF ScoreInv, LogsOK, NotesNow, InAll, SelfCured

LEMMA BeginKeeps ==
  ASSUME ScoreInv, NEW whose \in {"borrower", "originator"}, Begin(whose)
  PROVE  ScoreInv'
<1>0. /\ reading' = whose /\ todo' = Calls(whose) /\ head' = now /\ from' = MintedAt
      /\ chunk' = DefaultChunk /\ found' = {} /\ card' = Blank /\ before' = CardNow
      /\ UNCHANGED <<vars, repaidLogs>>
  BY DEF Begin
<1>1. /\ IndInv' /\ LogsOK' /\ \A s : NotesNow(s)' = NotesNow(s)
      /\ \A S : InAll(S)' = InAll(S) /\ SelfCured' = SelfCured /\ periodPaid' = periodPaid
      /\ status' = status /\ periodStatus' = periodStatus /\ repaidLogs' = repaidLogs
  BY <1>0, ChainStands
<1>2. CallsFor(todo', whose, NoteIds)
  BY <1>0, CallsForAll
<1>3. QueueOK'
  BY <1>0, <1>2 DEF CallsFor, QueueOK
<1>4. AskedNotes' = {} /\ Asked("period")' = {}
  BY <1>2 DEF CallsFor, AskedNotes, Asked
<1>5. card' \in CardData /\ head' \in Nat /\ from' \in Nat /\ chunk' \in Nat /\ found' = {}
  <2>1. now \in Nat
    BY DEF ScoreInv, IndInv, TypeOK
  <2> QED BY <1>0, <2>1, TermsAssumption, ChunkAssumption DEF Blank, CardData
<1>6. NotesTallied'
  <2>1. /\ before'.matured = Cardinality(NotesNow("Matured")) /\ card'.matured = 0
        /\ before'.defaulted = Cardinality(NotesNow("Defaulted")) /\ card'.defaulted = 0
    BY <1>0 DEF CardNow, Blank, Standing, NotesNow
  <2>2. \A s : Tally(Cardinality(NotesNow(s)), 0, NotesNow(s), {})
    BY TallyStarts
  <2> QED BY <1>1, <1>4, <2>1, <2>2 DEF NotesTallied
<1>7. PeriodsTallied'
  <2>1. /\ before'.settled = Cardinality(InAll(Done)) /\ card'.settled = 0
        /\ before'.missed = Cardinality(InAll({"Missed", "Cured"})) /\ card'.missed = 0
        /\ before'.cured = Cardinality(InAll({"Cured"})) /\ card'.cured = 0
        /\ card'.outstanding = 0
    BY <1>0 DEF CardNow, Blank
  <2>2. \A S : Tally(Cardinality(InAll(S)), 0, InAll(S), {})
    BY TallyStarts
  <2>3. Cardinality({}) = 0
    BY FS_EmptySet
  <2> QED BY <1>1, <1>4, <2>1, <2>2, <2>3 DEF PeriodsTallied
<1>8. ASSUME whose = "borrower" PROVE PaidTallied'
  <2> DEFINE c == [n \in NoteIds |-> [i \in Periods |-> 0]]
  <2>1. c \in PaidGrid /\ TotalOf(c) = 0
    BY TotalOfNothing
  <2>2. periodPaid \in PaidGrid
    BY DEF ScoreInv, IndInv, TypeOK, PaidGrid
  <2>3. before'.repaid = TotalOf(periodPaid) /\ card'.repaid = 0
    BY <1>0 DEF CardNow, Blank
  <2>4. \A n \in NoteIds, i \in Periods : Queued(todo', <<"paid", n, i>>)
    BY <1>2, <1>8 DEF CallsFor
  <2>5. \A n \in NoteIds, i \in Periods :
          /\ periodPaid[n][i] <= periodPaid[n][i] /\ c[n][i] <= periodPaid[n][i]
          /\ c[n][i] = 0
    BY <2>2 DEF PaidGrid
  <2> HIDE DEF c
  <2> QED BY <1>1, <2>1, <2>2, <2>3, <2>4, <2>5 DEF PaidTallied
<1>9. CuresAhead'
  <2>1. card'.selfCured = 0 /\ before'.selfCured = Cardinality(SelfCured)
    BY <1>0 DEF CardNow, Blank
  <2>2. ASSUME NEW p \in SelfCured
        PROVE  \E l \in repaidLogs :
                 /\ l.note = p[1] /\ l.period = p[2] /\ l.block <= head'
                 /\ l.block < from' => l \in found'
    <3>1. PICK l \in repaidLogs : l.note = p[1] /\ l.period = p[2]
      BY DEF SelfCured
    <3>2. l.block \in Nat /\ MintedAt <= l.block /\ l.block <= now /\ MintedAt \in Nat
      BY TermsAssumption DEF ScoreInv, LogsOK
    <3>3. l.block <= head' /\ ~(l.block < from')
      BY <1>0, <3>2
    <3> QED BY <3>1, <3>3
  <2> QED BY <1>1, <2>1, <2>2 DEF CuresAhead
<1>10. ReadingOK'
  BY <1>0, <1>3, <1>5, <1>6, <1>7, <1>8, <1>9 DEF ReadingOK
<1> QED BY <1>0, <1>1, <1>10 DEF ScoreInv

----------------------------------------------------------------------------
\* One call to the node.

LEMMA CallAsks ==
  ASSUME ScoreInv, Call
  PROVE  /\ ReadingOK /\ QueueOK'
         /\ Head(todo) \in CallSet /\ Queued(todo, Head(todo)) /\ ~Queued(todo', Head(todo))
         /\ \A x : x # Head(todo) => (Queued(todo', x) <=> Queued(todo, x))
         /\ Head(todo)[1] = "cure" <=> reading = "cures"
         /\ \A k \in DOMAIN todo' : Queued(todo, todo'[k])
<1>1. todo # <<>> /\ todo' = Tail(todo) /\ reading' = reading
  BY DEF Call
<1>2. ReadingOK /\ reading # "logs"
  BY <1>1 DEF ScoreInv, ReadingOK, QueueOK
<1>3. /\ todo \in Seq(CallSet) /\ EachOnce(todo)
      /\ \A k \in DOMAIN todo : todo[k][1] = "cure" <=> reading = "cures"
  BY <1>2 DEF ReadingOK, QueueOK
<1>4. /\ todo' \in Seq(CallSet) /\ EachOnce(todo')
      /\ Head(todo) \in CallSet /\ Queued(todo, Head(todo)) /\ ~Queued(todo', Head(todo))
      /\ \A x : x # Head(todo) => (Queued(todo', x) <=> Queued(todo, x))
      /\ \A k \in DOMAIN todo' : Queued(todo, todo'[k])
  BY <1>1, <1>3, OneIsAsked
<1>5. Head(todo)[1] = "cure" <=> reading = "cures"
  BY <1>3, <1>4 DEF Queued
<1>6. \A k \in DOMAIN todo' : todo'[k][1] = "cure" <=> reading' = "cures"
  BY <1>1, <1>3, <1>4 DEF Queued
<1>7. QueueOK'
  BY <1>1, <1>2, <1>4, <1>6 DEF QueueOK
<1> QED BY <1>2, <1>4, <1>5, <1>7

\* What has been asked for grows by what is asked for now.
LEMMA StatusAsked ==
  ASSUME NEW n \in NoteIds, Queued(todo, <<"status", n, 0>>), ~Queued(todo', <<"status", n, 0>>),
         \A x : x # <<"status", n, 0>> => (Queued(todo', x) <=> Queued(todo, x))
  PROVE  /\ n \notin AskedNotes /\ AskedNotes' = AskedNotes \cup {n}
         /\ \A kind \in {"period", "paid", "cure"} : Asked(kind)' = Asked(kind)
<1>1. \A m \in NoteIds : m # n => <<"status", m, 0>> # <<"status", n, 0>>
  OBVIOUS
<1>2. \A kind \in {"period", "paid", "cure"} : \A m, i : <<kind, m, i>> # <<"status", n, 0>>
  OBVIOUS
<1> QED BY <1>1, <1>2 DEF AskedNotes, Asked

LEMMA SlotAsked ==
  ASSUME NEW kind \in {"period", "paid", "cure"}, NEW n \in NoteIds, NEW i \in Periods,
         Queued(todo, <<kind, n, i>>), ~Queued(todo', <<kind, n, i>>),
         \A x : x # <<kind, n, i>> => (Queued(todo', x) <=> Queued(todo, x))
  PROVE  /\ AskedNotes' = AskedNotes
         /\ <<n, i>> \notin Asked(kind) /\ Asked(kind)' = Asked(kind) \cup {<<n, i>>}
         /\ \A other \in {"period", "paid", "cure"} : other # kind => Asked(other)' = Asked(other)
<1>1. \A m : <<"status", m, 0>> # <<kind, n, i>>
  OBVIOUS
<1>2. \A other, m, j : <<other, m, j>> = <<kind, n, i>> => other = kind /\ m = n /\ j = i
  OBVIOUS
<1>3. AskedNotes' = AskedNotes
  BY <1>1 DEF AskedNotes
<1>4. \A other \in {"period", "paid", "cure"} : other # kind => Asked(other)' = Asked(other)
  BY <1>2 DEF Asked
<1>5. <<n, i>> \in NoteIds \X Periods /\ <<n, i>> \notin Asked(kind) /\ <<n, i>> \in Asked(kind)'
  BY DEF Asked
<1>6. ASSUME NEW p \in NoteIds \X Periods, p # <<n, i>> PROVE p \in Asked(kind)' <=> p \in Asked(kind)
  <2>1. <<kind, p[1], p[2]>> # <<kind, n, i>>
    BY <1>2, <1>6
  <2> QED BY <2>1 DEF Asked
<1>7. Asked(kind) \subseteq NoteIds \X Periods /\ Asked(kind)' \subseteq NoteIds \X Periods
  BY DEF Asked
<1> QED BY <1>3, <1>4, <1>5, <1>6, <1>7

\* Every call is for the status of a note, or for a slot.
LEMMA CallKinds ==
  ASSUME NEW x \in CallSet
  PROVE  /\ x[2] \in NoteIds
         /\ \/ x = <<"status", x[2], 0>> /\ x[1] = "status"
            \/ /\ x[1] \in {"period", "paid", "cure"} /\ x[3] \in Periods
               /\ x = <<x[1], x[2], x[3]>>
BY DEF CallSet

LEMMA WithStatusCounts ==
  ASSUME NEW c \in CardData, NEW s
  PROVE  /\ WithStatus(c, s) \in CardData
         /\ WithStatus(c, s).matured = c.matured + One(s = "Matured")
         /\ WithStatus(c, s).defaulted = c.defaulted + One(s = "Defaulted")
         /\ \A f \in {"settled", "missed", "cured", "outstanding", "repaid", "selfCured"} :
              WithStatus(c, s)[f] = c[f]
<1> DEFINE x == One(s = "Matured")
           y == One(s = "Defaulted")
           z == One(s \notin {"Matured", "Defaulted"})
<1>1. x \in Nat /\ y \in Nat /\ z \in Nat
  BY DEF One
<1>2. WithStatus(c, s) = [c EXCEPT !.matured = @ + x, !.defaulted = @ + y, !.live = @ + z]
  BY DEF WithStatus
<1> HIDE DEF x, y, z
<1>3. /\ WithStatus(c, s) \in CardData
      /\ WithStatus(c, s).matured = c.matured + x /\ WithStatus(c, s).defaulted = c.defaulted + y
  <2>1. PICK d : d = [c EXCEPT !.matured = c.matured + x]
    OBVIOUS
  <2>2. PICK e : e = [d EXCEPT !.defaulted = c.defaulted + y]
    OBVIOUS
  <2>3. c.matured \in Nat /\ c.defaulted \in Nat /\ c.live \in Nat
    BY DEF CardData
  <2>4. d \in CardData /\ d.matured = c.matured + x /\ d.defaulted = c.defaulted /\ d.live = c.live
    BY <1>1, <2>1, <2>3 DEF CardData
  <2>5. /\ e \in CardData /\ e.matured = c.matured + x /\ e.defaulted = c.defaulted + y
        /\ e.live = c.live
    BY <1>1, <2>2, <2>3, <2>4 DEF CardData
  <2>6. WithStatus(c, s) = [e EXCEPT !.live = c.live + z]
    BY <1>2, <2>1, <2>2, <2>4, <2>5 DEF CardData
  <2> QED BY <1>1, <2>3, <2>5, <2>6 DEF CardData
<1>4. \A f \in {"settled", "missed", "cured", "outstanding", "repaid", "selfCured"} :
        WithStatus(c, s)[f] = c[f]
  BY <1>2 DEF CardData
<1> QED BY <1>3, <1>4 DEF x, y

LEMMA WithPeriodCounts ==
  ASSUME NEW c \in CardData, NEW s
  PROVE  /\ WithPeriod(c, s) \in CardData
         /\ WithPeriod(c, s).settled = c.settled + One(s \in Done)
         /\ WithPeriod(c, s).missed = c.missed + One(s \in {"Missed", "Cured"})
         /\ WithPeriod(c, s).cured = c.cured + One(s = "Cured")
         /\ WithPeriod(c, s).outstanding = c.outstanding + One(s \notin Done)
         /\ \A f \in {"matured", "defaulted", "repaid", "selfCured"} : WithPeriod(c, s)[f] = c[f]
<1> DEFINE w == One(s \in Done)
           x == One(s = "Cured")
           y == One(s \in {"Missed", "Cured"})
           z == One(s \notin Done)
<1>1. w \in Nat /\ x \in Nat /\ y \in Nat /\ z \in Nat
  BY DEF One
<1>2. WithPeriod(c, s) = [c EXCEPT !.settled = @ + w, !.cured = @ + x,
                                   !.missed = @ + y, !.outstanding = @ + z]
  BY DEF WithPeriod
<1> HIDE DEF w, x, y, z
<1>3. /\ WithPeriod(c, s) \in CardData
      /\ WithPeriod(c, s).settled = c.settled + w /\ WithPeriod(c, s).cured = c.cured + x
      /\ WithPeriod(c, s).missed = c.missed + y /\ WithPeriod(c, s).outstanding = c.outstanding + z
  <2>1. PICK d : d = [c EXCEPT !.settled = c.settled + w]
    OBVIOUS
  <2>2. PICK e : e = [d EXCEPT !.cured = c.cured + x]
    OBVIOUS
  <2>3. PICK g : g = [e EXCEPT !.missed = c.missed + y]
    OBVIOUS
  <2>4. /\ c.settled \in Nat /\ c.cured \in Nat /\ c.missed \in Nat /\ c.outstanding \in Nat
    BY DEF CardData
  <2>5. /\ d \in CardData /\ d.settled = c.settled + w
        /\ d.cured = c.cured /\ d.missed = c.missed /\ d.outstanding = c.outstanding
    BY <1>1, <2>1, <2>4 DEF CardData
  <2>6. /\ e \in CardData /\ e.settled = c.settled + w /\ e.cured = c.cured + x
        /\ e.missed = c.missed /\ e.outstanding = c.outstanding
    BY <1>1, <2>2, <2>4, <2>5 DEF CardData
  <2>7. /\ g \in CardData /\ g.settled = c.settled + w /\ g.cured = c.cured + x
        /\ g.missed = c.missed + y /\ g.outstanding = c.outstanding
    BY <1>1, <2>3, <2>4, <2>6 DEF CardData
  <2>8. WithPeriod(c, s) = [g EXCEPT !.outstanding = c.outstanding + z]
    BY <1>2, <2>1, <2>2, <2>3, <2>5, <2>6, <2>7 DEF CardData
  <2> QED BY <1>1, <2>4, <2>7, <2>8 DEF CardData
<1>4. \A f \in {"matured", "defaulted", "repaid", "selfCured"} : WithPeriod(c, s)[f] = c[f]
  BY <1>2 DEF CardData
<1> QED BY <1>3, <1>4 DEF w, x, y, z

LEMMA StatusCall ==
  ASSUME ScoreInv, Call, Head(todo)[1] = "status"
  PROVE  ReadingOK'
<1> DEFINE n == Head(todo)[2]
<1>0. /\ UNCHANGED <<vars, repaidLogs>> /\ reading' = reading /\ head' = head /\ from' = from
      /\ chunk' = chunk /\ found' = found /\ before' = before
      /\ card' = WithStatus(card, status[n])
  BY DEF Call
<1>1. /\ ReadingOK /\ QueueOK' /\ reading # "cures"
      /\ Head(todo) \in CallSet /\ Queued(todo, Head(todo)) /\ ~Queued(todo', Head(todo))
      /\ \A x : x # Head(todo) => (Queued(todo', x) <=> Queued(todo, x))
  BY CallAsks
<1>2. n \in NoteIds /\ Head(todo) = <<"status", n, 0>>
  BY <1>1, CallKinds
<1> HIDE DEF n
<1>3. /\ n \notin AskedNotes /\ AskedNotes' = AskedNotes \cup {n}
      /\ \A kind \in {"period", "paid", "cure"} : Asked(kind)' = Asked(kind)
  BY <1>1, <1>2, StatusAsked
<1>4. /\ IndInv' /\ LogsOK' /\ \A s : NotesNow(s)' = NotesNow(s)
      /\ \A S : InAll(S)' = InAll(S) /\ SelfCured' = SelfCured /\ periodPaid' = periodPaid
      /\ repaidLogs' = repaidLogs
  BY <1>0, ChainStands
<1>5. card \in CardData
  BY <1>1 DEF ReadingOK
<1>6. /\ card'.matured = card.matured + One(n \in NotesNow("Matured"))
      /\ card'.defaulted = card.defaulted + One(n \in NotesNow("Defaulted"))
      /\ card' \in CardData
      /\ card'.settled = card.settled /\ card'.missed = card.missed /\ card'.cured = card.cured
      /\ card'.outstanding = card.outstanding /\ card'.repaid = card.repaid
      /\ card'.selfCured = card.selfCured
  <2>1. \A s : One(status[n] = s) = One(n \in NotesNow(s))
    BY <1>2 DEF One, NotesNow
  <2> QED BY <1>0, <1>5, <2>1, WithStatusCounts
<1>7. NotesTallied'
  <2>1. /\ Tally(before.matured, card.matured, NotesNow("Matured"), AskedNotes)
        /\ Tally(before.defaulted, card.defaulted, NotesNow("Defaulted"), AskedNotes)
    BY <1>1 DEF ReadingOK, NotesTallied
  <2>2. /\ Tally(before.matured, card'.matured, NotesNow("Matured"), AskedNotes')
        /\ Tally(before.defaulted, card'.defaulted, NotesNow("Defaulted"), AskedNotes')
    BY <1>3, <1>6, <2>1, SlotsFinite, TallyAsks
  <2> QED BY <1>0, <1>4, <2>2 DEF NotesTallied
<1>8. PeriodsTallied'
  BY <1>0, <1>1, <1>3, <1>4, <1>6 DEF ReadingOK, PeriodsTallied
<1>9. ASSUME reading = "borrower" PROVE PaidTallied'
  <2>1. \A m, i : <<"paid", m, i>> # <<"status", n, 0>>
    OBVIOUS
  <2>2. \A m, i : Queued(todo', <<"paid", m, i>>) <=> Queued(todo, <<"paid", m, i>>)
    BY <1>1, <1>2, <2>1
  <2>3. PaidTallied
    BY <1>1, <1>9 DEF ReadingOK
  <2> QED BY <1>0, <1>4, <1>6, <2>2, <2>3 DEF PaidTallied
<1>10. CuresAhead => CuresAhead'
  BY <1>0, <1>4, <1>6 DEF CuresAhead
<1> QED BY <1>0, <1>1, <1>4, <1>6, <1>7, <1>8, <1>9, <1>10 DEF ReadingOK

LEMMA PeriodCall ==
  ASSUME ScoreInv, Call, Head(todo)[1] = "period"
  PROVE  ReadingOK'
<1> DEFINE n == Head(todo)[2]
           i == Head(todo)[3]
           p == <<n, i>>
<1>0. /\ UNCHANGED <<vars, repaidLogs>> /\ reading' = reading /\ head' = head /\ from' = from
      /\ chunk' = chunk /\ found' = found /\ before' = before
      /\ card' = WithPeriod(card, periodStatus[n][i])
  BY DEF Call
<1>1. /\ ReadingOK /\ QueueOK' /\ reading # "cures"
      /\ Head(todo) \in CallSet /\ Queued(todo, Head(todo)) /\ ~Queued(todo', Head(todo))
      /\ \A x : x # Head(todo) => (Queued(todo', x) <=> Queued(todo, x))
  BY CallAsks
<1>2. n \in NoteIds /\ i \in Periods /\ Head(todo) = <<"period", n, i>>
  BY <1>1, CallKinds
<1>3. /\ AskedNotes' = AskedNotes
      /\ p \notin Asked("period") /\ Asked("period")' = Asked("period") \cup {p}
      /\ Asked("cure")' = Asked("cure")
  <2> HIDE DEF n, i
  <2> QED BY <1>1, <1>2, SlotAsked
<1>4. /\ IndInv' /\ LogsOK' /\ \A s : NotesNow(s)' = NotesNow(s)
      /\ \A S : InAll(S)' = InAll(S) /\ SelfCured' = SelfCured /\ periodPaid' = periodPaid
      /\ repaidLogs' = repaidLogs
  BY <1>0, ChainStands
<1>5. card \in CardData
  BY <1>1 DEF ReadingOK
<1> DEFINE s == periodStatus[n][i]
<1>6. \A S : p \in InAll(S) <=> s \in S
  BY <1>2 DEF InAll
<1> HIDE DEF n, i, s
<1>7. /\ card'.settled = card.settled + One(s \in Done)
      /\ card'.missed = card.missed + One(s \in {"Missed", "Cured"})
      /\ card'.cured = card.cured + One(s = "Cured")
      /\ card'.outstanding = card.outstanding + One(s \notin Done)
      /\ card' \in CardData
      /\ card'.matured = card.matured /\ card'.defaulted = card.defaulted
      /\ card'.repaid = card.repaid /\ card'.selfCured = card.selfCured
  BY <1>0, <1>5, WithPeriodCounts DEF s
<1>8. NotesTallied'
  BY <1>0, <1>1, <1>3, <1>4, <1>7 DEF ReadingOK, NotesTallied
<1>9. PeriodsTallied'
  <2> HIDE DEF p
  <2>1. PeriodsTallied
    BY <1>1 DEF ReadingOK
  <2>2. /\ Tally(before.settled, card.settled, InAll(Done), Asked("period"))
        /\ Tally(before.missed, card.missed, InAll({"Missed", "Cured"}), Asked("period"))
        /\ Tally(before.cured, card.cured, InAll({"Cured"}), Asked("period"))
    BY <2>1 DEF PeriodsTallied
  <2>3. One(s = "Cured") = One(p \in InAll({"Cured"}))
    BY <1>6 DEF One
  <2>4. Tally(before.settled, card'.settled, InAll(Done), Asked("period")')
    BY <1>3, <1>6, <1>7, <2>2, SlotsFinite, TallyAsks
  <2>5. Tally(before.missed, card'.missed, InAll({"Missed", "Cured"}), Asked("period")')
    BY <1>3, <1>6, <1>7, <2>2, SlotsFinite, TallyAsks
  <2>6. Tally(before.cured, card'.cured, InAll({"Cured"}), Asked("period")')
    BY <1>3, <1>7, <2>2, <2>3, SlotsFinite, TallyAsks
  <2>7. card.cured <= card.settled /\ card.settled + card.outstanding = Cardinality(Asked("period"))
    BY <2>1 DEF PeriodsTallied
  <2>8. Cardinality(Asked("period")') = Cardinality(Asked("period")) + 1
    BY <1>3, SlotsFinite, FS_AddElement
  <2>9. /\ card'.cured <= card'.settled
        /\ card'.settled + card'.outstanding = Cardinality(Asked("period")) + 1
    BY <1>5, <1>7, <2>7 DEF CardData, One, Done
  <2> QED BY <1>0, <1>4, <2>4, <2>5, <2>6, <2>8, <2>9 DEF PeriodsTallied
<1>10. ASSUME reading = "borrower" PROVE PaidTallied'
  <2>1. \A m, j : <<"paid", m, j>> # <<"period", n, i>>
    OBVIOUS
  <2>2. \A m, j : Queued(todo', <<"paid", m, j>>) <=> Queued(todo, <<"paid", m, j>>)
    BY <1>1, <1>2, <2>1
  <2>3. PaidTallied
    BY <1>1, <1>10 DEF ReadingOK
  <2> QED BY <1>0, <1>4, <1>7, <2>2, <2>3 DEF PaidTallied
<1>11. CuresAhead => CuresAhead'
  BY <1>0, <1>4, <1>7 DEF CuresAhead
<1> QED BY <1>0, <1>1, <1>4, <1>7, <1>8, <1>9, <1>10, <1>11 DEF ReadingOK

LEMMA PaidCall ==
  ASSUME ScoreInv, Call, Head(todo)[1] = "paid"
  PROVE  ReadingOK'
<1> DEFINE n == Head(todo)[2]
           i == Head(todo)[3]
           x == periodPaid[n][i]
<1>0. /\ UNCHANGED <<vars, repaidLogs>> /\ reading' = reading /\ head' = head /\ from' = from
      /\ chunk' = chunk /\ found' = found /\ before' = before
      /\ card' = [card EXCEPT !.repaid = @ + x]
  BY DEF Call
<1>1. /\ ReadingOK /\ QueueOK' /\ reading # "cures"
      /\ Head(todo) \in CallSet /\ Queued(todo, Head(todo)) /\ ~Queued(todo', Head(todo))
      /\ \A y : y # Head(todo) => (Queued(todo', y) <=> Queued(todo, y))
  BY CallAsks
<1>2. n \in NoteIds /\ i \in Periods /\ Head(todo) = <<"paid", n, i>>
  BY <1>1, CallKinds
<1>3. AskedNotes' = AskedNotes /\ Asked("period")' = Asked("period")
  <2> HIDE DEF n, i
  <2> QED BY <1>1, <1>2, SlotAsked
<1>4. /\ IndInv' /\ LogsOK' /\ \A s : NotesNow(s)' = NotesNow(s)
      /\ \A S : InAll(S)' = InAll(S) /\ SelfCured' = SelfCured /\ periodPaid' = periodPaid
      /\ repaidLogs' = repaidLogs
  BY <1>0, ChainStands
<1>5. card \in CardData
  BY <1>1 DEF ReadingOK
<1>6. x \in Nat
  <2> HIDE DEF n, i
  <2> QED BY <1>2 DEF ScoreInv, IndInv, TypeOK, x
<1>7. periodPaid \in [NoteIds -> [Periods -> Nat]]
  BY DEF ScoreInv, IndInv, TypeOK
<1> HIDE DEF n, i, x
<1>8. /\ card' \in CardData /\ card'.repaid = card.repaid + x
      /\ card'.matured = card.matured /\ card'.defaulted = card.defaulted
      /\ card'.settled = card.settled /\ card'.missed = card.missed /\ card'.cured = card.cured
      /\ card'.outstanding = card.outstanding /\ card'.selfCured = card.selfCured
  BY <1>0, <1>5, <1>6 DEF CardData
<1>9. NotesTallied' /\ PeriodsTallied'
  BY <1>0, <1>1, <1>3, <1>4, <1>8 DEF ReadingOK, NotesTallied, PeriodsTallied
<1>10. ASSUME reading = "borrower" PROVE PaidTallied'
  <2>1. PICK b \in PaidGrid, c \in PaidGrid :
          /\ before.repaid = TotalOf(b) /\ card.repaid = TotalOf(c)
          /\ \A m \in NoteIds, j \in Periods :
               /\ b[m][j] <= periodPaid[m][j] /\ c[m][j] <= periodPaid[m][j]
               /\ IF Queued(todo, <<"paid", m, j>>) THEN c[m][j] = 0 ELSE b[m][j] <= c[m][j]
    BY <1>1, <1>10 DEF ReadingOK, PaidTallied
  <2> DEFINE d == [c EXCEPT ![n][i] = x]
  <2>2. c[n][i] = 0
    BY <1>1, <1>2, <2>1
  <2>3. d \in PaidGrid /\ TotalOf(d) = card.repaid + x
    BY <1>2, <1>6, <2>1, <2>2, TotalBump
  <2>4. d[n][i] = x /\ \A m \in NoteIds, j \in Periods : m # n \/ j # i => d[m][j] = c[m][j]
    BY <1>2 DEF PaidGrid
  <2> HIDE DEF d
  <2>5. ASSUME NEW m \in NoteIds, NEW j \in Periods
        PROVE  /\ d[m][j] <= periodPaid[m][j]
               /\ IF Queued(todo', <<"paid", m, j>>) THEN d[m][j] = 0 ELSE b[m][j] <= d[m][j]
    <3>1. CASE m = n /\ j = i
      <4>1. d[m][j] = periodPaid[m][j] /\ periodPaid[m][j] \in Nat
        BY <1>6, <2>4, <3>1 DEF x
      <4>2. ~Queued(todo', <<"paid", m, j>>)
        BY <1>1, <1>2, <3>1
      <4> QED BY <2>1, <4>1, <4>2
    <3>2. CASE m # n \/ j # i
      <4>1. <<"paid", m, j>> # <<"paid", n, i>>
        BY <3>2
      <4>2. Queued(todo', <<"paid", m, j>>) <=> Queued(todo, <<"paid", m, j>>)
        BY <1>1, <1>2, <4>1
      <4>3. d[m][j] = c[m][j]
        BY <2>4, <3>2
      <4> QED BY <2>1, <4>2, <4>3
    <3> QED BY <3>1, <3>2
  <2>6. before'.repaid = TotalOf(b) /\ card'.repaid = TotalOf(d)
    BY <1>0, <1>8, <2>1, <2>3
  <2> QED BY <1>4, <2>1, <2>3, <2>5, <2>6 DEF PaidTallied
<1>11. CuresAhead => CuresAhead'
  BY <1>0, <1>4, <1>8 DEF CuresAhead
<1> QED BY <1>0, <1>1, <1>4, <1>8, <1>9, <1>10, <1>11 DEF ReadingOK

LEMMA CureCall ==
  ASSUME ScoreInv, Call, Head(todo)[1] = "cure"
  PROVE  ReadingOK'
<1> DEFINE n == Head(todo)[2]
           i == Head(todo)[3]
           p == <<n, i>>
           y == One(periodStatus[n][i] = "Cured")
<1>0. /\ UNCHANGED <<vars, repaidLogs>> /\ reading' = reading /\ head' = head /\ from' = from
      /\ chunk' = chunk /\ found' = found /\ before' = before
      /\ card' = [card EXCEPT !.selfCured = @ + y]
  BY DEF Call
<1>1. /\ ReadingOK /\ QueueOK' /\ reading = "cures"
      /\ Head(todo) \in CallSet /\ Queued(todo, Head(todo)) /\ ~Queued(todo', Head(todo))
      /\ \A x : x # Head(todo) => (Queued(todo', x) <=> Queued(todo, x))
      /\ \A k \in DOMAIN todo' : Queued(todo, todo'[k])
  BY CallAsks
<1>2. n \in NoteIds /\ i \in Periods /\ Head(todo) = <<"cure", n, i>>
  BY <1>1, CallKinds
<1>3. /\ AskedNotes' = AskedNotes /\ Asked("period")' = Asked("period")
      /\ p \notin Asked("cure") /\ Asked("cure")' = Asked("cure") \cup {p}
  <2> HIDE DEF n, i
  <2> QED BY <1>1, <1>2, SlotAsked
<1>4. /\ IndInv' /\ LogsOK' /\ \A s : NotesNow(s)' = NotesNow(s)
      /\ \A S : InAll(S)' = InAll(S) /\ SelfCured' = SelfCured /\ periodPaid' = periodPaid
      /\ repaidLogs' = repaidLogs
  BY <1>0, ChainStands
<1>5. card \in CardData /\ CuresTallied
  BY <1>1 DEF ReadingOK
<1>6. \A x : Queued(todo, x) => \E l \in repaidLogs : l.note = x[2] /\ l.period = x[3]
  BY <1>5 DEF CuresTallied, Queued
<1>7. p \in SelfCured <=> periodStatus[n][i] = "Cured"
  <2>1. p \in InAll({"Cured"}) <=> periodStatus[n][i] = "Cured"
    BY <1>2 DEF InAll
  <2>2. \E l \in repaidLogs : l.note = p[1] /\ l.period = p[2]
    BY <1>1, <1>6
  <2> QED BY <2>1, <2>2 DEF SelfCured
<1>8. y = One(p \in SelfCured) /\ y \in Nat
  BY <1>7 DEF One
<1> HIDE DEF n, i, y
<1>9. /\ card' \in CardData /\ card'.selfCured = card.selfCured + y
      /\ card'.matured = card.matured /\ card'.defaulted = card.defaulted
      /\ card'.settled = card.settled /\ card'.missed = card.missed /\ card'.cured = card.cured
      /\ card'.outstanding = card.outstanding
  BY <1>0, <1>5, <1>8 DEF CardData
<1>10. NotesTallied' /\ PeriodsTallied'
  BY <1>0, <1>1, <1>3, <1>4, <1>9 DEF ReadingOK, NotesTallied, PeriodsTallied
<1>11. CuresTallied'
  <2> HIDE DEF p
  <2>1. Tally(before.selfCured, card'.selfCured, SelfCured, Asked("cure")')
    BY <1>3, <1>5, <1>8, <1>9, SlotsFinite, TallyAsks DEF CuresTallied
  <2>2. \A k \in DOMAIN todo' : \E l \in repaidLogs : l.note = todo'[k][2] /\ l.period = todo'[k][3]
    BY <1>1, <1>6
  <2> QED BY <1>0, <1>4, <2>1, <2>2 DEF CuresTallied
<1> QED BY <1>0, <1>1, <1>4, <1>9, <1>10, <1>11 DEF ReadingOK

LEMMA CallKeeps ==
  ASSUME ScoreInv, Call
  PROVE  ScoreInv'
<1>1. Head(todo) \in CallSet
  BY CallAsks
<1>2. ReadingOK'
  BY <1>1, CallKinds, StatusCall, PeriodCall, PaidCall, CureCall
<1>3. UNCHANGED <<vars, repaidLogs>> /\ reading' = reading /\ todo # <<>>
  BY DEF Call
<1>4. IndInv' /\ LogsOK'
  BY <1>3, ChainStands
<1> QED BY <1>2, <1>3, <1>4 DEF ScoreInv

----------------------------------------------------------------------------
\* From the notes to the logs, and from the logs to the cures.

\* What the calls left do not tell apart.
LEMMA TalliesStand ==
  ASSUME ScoreInv, ReadingOK, UNCHANGED <<vars, repaidLogs, card, before>>,
         AskedNotes' = AskedNotes, Asked("period")' = Asked("period")
  PROVE  card' \in CardData /\ NotesTallied' /\ PeriodsTallied'
BY ChainStands DEF ReadingOK, NotesTallied, PeriodsTallied

LEMMA ToLogsKeeps ==
  ASSUME ScoreInv, ToLogs
  PROVE  ScoreInv'
<1>1. /\ reading = "originator" /\ todo = <<>> /\ reading' = "logs"
      /\ UNCHANGED <<vars, repaidLogs, todo, head, from, chunk, found, card, before>>
  BY DEF ToLogs
<1>2. ReadingOK
  BY <1>1 DEF ScoreInv
<1>3. /\ IndInv' /\ LogsOK' /\ SelfCured' = SelfCured
  BY <1>1, ChainStands
<1>4. QueueOK' /\ AskedNotes' = AskedNotes /\ Asked("period")' = Asked("period")
  BY <1>1, <1>2 DEF ReadingOK, QueueOK, AskedNotes, Asked
<1>5. card' \in CardData /\ NotesTallied' /\ PeriodsTallied'
  BY <1>1, <1>2, <1>4, TalliesStand
<1>6. CuresAhead'
  BY <1>1, <1>2, <1>3 DEF ReadingOK, CuresAhead
<1>7. ReadingOK'
  BY <1>1, <1>2, <1>4, <1>5, <1>6 DEF ReadingOK
<1> QED BY <1>1, <1>3, <1>7 DEF ScoreInv

LEMMA WindowKeeps ==
  ASSUME ScoreInv, Window
  PROVE  ScoreInv'
<1> DEFINE to == IF from + chunk - 1 > head THEN head ELSE from + chunk - 1
<1>1. /\ reading = "logs" /\ from <= head
      /\ found' = found \cup {l \in repaidLogs : l.block \in from..to} /\ from' = to + 1
      /\ UNCHANGED <<vars, repaidLogs, reading, todo, head, chunk, card, before>>
  BY DEF Window
<1>2. ReadingOK
  BY <1>1 DEF ScoreInv
<1>3. IndInv' /\ LogsOK' /\ SelfCured' = SelfCured
  BY <1>1, ChainStands
<1>4. QueueOK' /\ AskedNotes' = AskedNotes /\ Asked("period")' = Asked("period")
  BY <1>1, <1>2 DEF ReadingOK, QueueOK, AskedNotes, Asked
<1>5. card' \in CardData /\ NotesTallied' /\ PeriodsTallied'
  BY <1>1, <1>2, <1>4, TalliesStand
<1>6. /\ head \in Nat /\ from \in Nat /\ chunk \in Nat /\ to \in Int /\ from' \in Nat
      /\ found \subseteq repaidLogs /\ found' \subseteq repaidLogs
  BY <1>1, <1>2 DEF ReadingOK
<1> HIDE DEF to
<1>7. CuresAhead'
  <2>1. CuresAhead
    BY <1>1, <1>2 DEF ReadingOK
  <2>2. PICK b \in SUBSET SelfCured :
          /\ before.selfCured = Cardinality(b)
          /\ \A p \in b : \E l \in repaidLogs :
               /\ l.note = p[1] /\ l.period = p[2] /\ l.block <= head
               /\ l.block < from => l \in found
    BY <2>1 DEF CuresAhead
  <2>3. ASSUME NEW l \in repaidLogs, l.block < from => l \in found
        PROVE  l.block < from' => l \in found'
    <3> SUFFICES ASSUME l.block < from' PROVE l \in found'
      OBVIOUS
    <3>1. l.block \in Nat
      BY DEF ScoreInv, LogsOK
    <3>2. l.block < from \/ l.block \in from..to
      BY <1>1, <1>6, <3>1
    <3> QED BY <1>1, <2>3, <3>2
  <2>4. \A p \in b : \E l \in repaidLogs :
          /\ l.note = p[1] /\ l.period = p[2] /\ l.block <= head
          /\ l.block < from' => l \in found'
    BY <2>2, <2>3
  <2> QED BY <1>1, <1>3, <2>1, <2>2, <2>4 DEF CuresAhead
<1>8. ReadingOK'
  BY <1>1, <1>2, <1>4, <1>5, <1>6, <1>7 DEF ReadingOK
<1> QED BY <1>1, <1>3, <1>8 DEF ScoreInv

LEMMA TooLargeKeeps ==
  ASSUME ScoreInv, TooLarge
  PROVE  ScoreInv'
<1>1. /\ reading = "logs" /\ chunk' = chunk \div 2
      /\ UNCHANGED <<vars, repaidLogs, reading, todo, head, from, found, card, before>>
  BY DEF TooLarge
<1>2. ReadingOK
  BY <1>1 DEF ScoreInv
<1>3. IndInv' /\ LogsOK' /\ SelfCured' = SelfCured
  BY <1>1, ChainStands
<1>4. QueueOK' /\ AskedNotes' = AskedNotes /\ Asked("period")' = Asked("period")
  BY <1>1, <1>2 DEF ReadingOK, QueueOK, AskedNotes, Asked
<1>5. card' \in CardData /\ NotesTallied' /\ PeriodsTallied'
  BY <1>1, <1>2, <1>4, TalliesStand
<1>6. chunk' \in Nat
  BY <1>1, <1>2 DEF ReadingOK
<1>7. CuresAhead'
  BY <1>1, <1>2, <1>3 DEF ReadingOK, CuresAhead
<1>8. ReadingOK'
  BY <1>1, <1>2, <1>4, <1>5, <1>6, <1>7 DEF ReadingOK
<1> QED BY <1>1, <1>3, <1>8 DEF ScoreInv

LEMMA ToCuresKeeps ==
  ASSUME ScoreInv, ToCures
  PROVE  ScoreInv'
<1> DEFINE cureOf == [p \in NoteIds \X Periods |-> <<"cure", p[1], p[2]>>]
           F == {<<"cure", l.note, l.period>> : l \in found}
<1>1. /\ reading = "logs" /\ from > head /\ reading' = "cures" /\ todo' = SetToSeq(F)
      /\ UNCHANGED <<vars, repaidLogs, head, from, chunk, found, card, before>>
  BY DEF ToCures
<1>2. ReadingOK /\ todo = <<>> /\ found \subseteq repaidLogs
  BY <1>1 DEF ScoreInv, ReadingOK, QueueOK
<1>3. IndInv' /\ LogsOK' /\ SelfCured' = SelfCured /\ repaidLogs' = repaidLogs
  BY <1>1, ChainStands
<1>4. \A l \in repaidLogs : l.note \in NoteIds /\ l.period \in Periods /\ l.block \in Nat
  BY DEF ScoreInv, LogsOK
<1>5. F \subseteq CallSet /\ \A x \in F : x[1] = "cure"
  BY <1>2, <1>4 DEF CallSet
<1>6. IsFiniteSet(F)
  <2> DEFINE G == {<<"cure", p[1], p[2]>> : p \in NoteIds \X Periods}
  <2>1. cureOf \in Surjection(NoteIds \X Periods, G)
    BY DEF Surjection
  <2>2. IsFiniteSet(G)
    <3> HIDE DEF cureOf, G
    <3> QED BY <2>1, SlotsFinite, FS_Surjection
  <2>3. F \subseteq G
    <3>1. ASSUME NEW l \in found PROVE <<"cure", l.note, l.period>> \in G
      <4>1. <<l.note, l.period>> \in NoteIds \X Periods
        BY <1>2, <1>4
      <4> QED BY <4>1
    <3> QED BY <3>1
  <2> QED BY <2>2, <2>3, FS_Subset
<1>7. \A l \in found : <<"cure", l.note, l.period>> \in F
  OBVIOUS
<1>8. \A x \in F : \E l \in repaidLogs : l.note = x[2] /\ l.period = x[3]
  BY <1>2
<1> HIDE DEF F
<1>9. /\ DOMAIN todo' = 1..Cardinality(F) /\ \A k \in DOMAIN todo' : todo'[k] \in F
      /\ todo' \in Seq(CallSet) /\ EachOnce(todo') /\ \A x \in F : Queued(todo', x)
  <2>1. /\ Cardinality(F) \in Nat /\ todo' \in [1..Cardinality(F) -> F] /\ todo' \in Seq(F)
        /\ EachOnce(todo') /\ \A x \in F : \E k \in 1..Cardinality(F) : todo'[k] = x
    BY <1>1, <1>6, OrderOfSet
  <2> QED BY <1>5, <2>1 DEF Queued
<1>10. QueueOK'
  BY <1>1, <1>5, <1>9 DEF QueueOK
<1>11. AskedNotes' = AskedNotes /\ Asked("period")' = Asked("period")
  <2>1. \A x : ~Queued(todo, x)
    BY <1>2 DEF Queued
  <2>2. \A x : x[1] # "cure" => ~Queued(todo', x)
    BY <1>5, <1>9 DEF Queued
  <2> QED BY <2>1, <2>2 DEF AskedNotes, Asked
<1>12. card' \in CardData /\ NotesTallied' /\ PeriodsTallied'
  BY <1>1, <1>2, <1>11, TalliesStand
<1>13. CuresTallied'
  <2>1. PICK b \in SUBSET SelfCured :
          /\ before.selfCured = Cardinality(b)
          /\ \A p \in b : \E l \in repaidLogs :
               /\ l.note = p[1] /\ l.period = p[2] /\ l.block <= head
               /\ l.block < from => l \in found
    BY <1>1, <1>2 DEF ReadingOK, CuresAhead
  <2>2. card.selfCured = 0 /\ head \in Nat /\ from \in Nat
    BY <1>1, <1>2 DEF ReadingOK, CuresAhead
  <2>3. ASSUME NEW p \in b PROVE Queued(todo', <<"cure", p[1], p[2]>>)
    <3>1. PICK l \in repaidLogs :
            /\ l.note = p[1] /\ l.period = p[2] /\ l.block <= head
            /\ l.block < from => l \in found
      BY <2>1
    <3>2. l \in found
      BY <1>1, <1>4, <2>2, <3>1
    <3> QED BY <1>7, <1>9, <3>1, <3>2
  <2>4. b \cap Asked("cure")' = {}
    BY <2>3 DEF Asked
  <2>5. Tally(before.selfCured, card.selfCured, SelfCured, Asked("cure")')
    BY <2>1, <2>2, <2>4, TallyStarts
  <2>6. \A k \in DOMAIN todo' : \E l \in repaidLogs : l.note = todo'[k][2] /\ l.period = todo'[k][3]
    BY <1>8, <1>9
  <2> QED BY <1>1, <1>3, <2>5, <2>6 DEF CuresTallied
<1>14. ReadingOK'
  BY <1>1, <1>2, <1>10, <1>12, <1>13 DEF ReadingOK
<1> QED BY <1>1, <1>3, <1>14 DEF ScoreInv

LEMMA FinishKeeps ==
  ASSUME ScoreInv, Finish
  PROVE  ScoreInv'
<1>1. reading' = "idle" /\ todo' = <<>> /\ UNCHANGED <<vars, repaidLogs>>
  BY DEF Finish
<1> QED BY <1>1, ChainStands DEF ScoreInv

LEMMA ScoreStep ==
  ASSUME ScoreInv, [ScoreNext]_scoreVars
  PROVE  ScoreInv'
<1>1. ASSUME NEW n \in NoteIds, NEW first \in Periods, NEW value \in Payments,
             PaidByOriginator(n, first, value)
      PROVE  ScoreInv'
  <2>1. Next /\ UNCHANGED readerVars
    BY <1>1 DEF PaidByOriginator, Next
  <2>2. repaidLogs' = repaidLogs \cup {[note |-> n, period |-> first, block |-> now]}
    BY <1>1 DEF PaidByOriginator
  <2> QED BY <2>1, <2>2, ChainKeeps
<1>2. ASSUME [Next]_vars, UNCHANGED <<repaidLogs, readerVars>> PROVE ScoreInv'
  BY <1>2, ChainKeeps
<1>3. CASE UNCHANGED scoreVars
  BY <1>2, <1>3 DEF scoreVars
<1>4. ASSUME ChainStep(Tick) PROVE ScoreInv'
  BY <1>2, <1>4 DEF ChainStep, Next
<1>5. ASSUME NEW n \in NoteIds, NEW a \in Agents, ChainStep(Delegate(n, a)) PROVE ScoreInv'
  BY <1>2, <1>5 DEF ChainStep, Next
<1>6. ASSUME NEW n \in NoteIds, NEW first \in Periods, NEW value \in Payments,
             ChainStep(PayByHand(n, first, value))
      PROVE  ScoreInv'
  BY <1>2, <1>6 DEF ChainStep, Next
<1>7. ASSUME NEW n \in NoteIds, NEW i \in Periods, NEW a \in Agents,
             ChainStep(SettlePeriod(n, i, a, TRUE)) \/ ChainStep(MarkDelinquent(n, i, a))
      PROVE  ScoreInv'
  BY <1>2, <1>7 DEF ChainStep, Next
<1>8. ASSUME NEW n \in NoteIds, NEW a \in Agents, ChainStep(DefaultNote(n, a)) PROVE ScoreInv'
  BY <1>2, <1>8 DEF ChainStep, Next
<1>9. ASSUME ScoreNext PROVE ScoreInv'
  BY <1>1, <1>4, <1>5, <1>6, <1>7, <1>8, <1>9, BeginKeeps, CallKeeps, ToLogsKeeps, WindowKeeps,
     TooLargeKeeps, ToCuresKeeps, FinishKeeps
     DEF ScoreNext
<1> QED BY <1>3, <1>9

\* When every call has been answered.
LEMMA CardIsOfItsTime == ScoreInv => CardOfItsTime
<1> SUFFICES ASSUME ScoreInv, Complete PROVE CardOfItsTime
  BY DEF CardOfItsTime
<1>1. ReadingOK /\ todo = <<>> /\ reading \in {"borrower", "cures"}
  BY DEF Complete, ScoreInv
<1>2. AskedNotes = NoteIds /\ \A kind : Asked(kind) = NoteIds \X Periods
  BY <1>1 DEF AskedNotes, Asked, Queued
<1>3. card \in CardData /\ NotesTallied /\ PeriodsTallied
  BY <1>1 DEF ReadingOK
<1>4. /\ card.matured \in before.matured..Cardinality(NotesNow("Matured"))
      /\ card.defaulted \in before.defaulted..Cardinality(NotesNow("Defaulted"))
  <2>1. \A s : NotesNow(s) \subseteq NoteIds
    BY DEF NotesNow
  <2> QED BY <1>2, <1>3, <2>1, SlotsFinite, TallyEnds DEF NotesTallied
<1>5. /\ card.settled \in before.settled..Cardinality(InAll(Done))
      /\ card.missed \in before.missed..Cardinality(InAll({"Missed", "Cured"}))
      /\ card.cured \in before.cured..Cardinality(InAll({"Cured"}))
  <2>1. /\ Tally(before.settled, card.settled, InAll(Done), NoteIds \X Periods)
        /\ Tally(before.missed, card.missed, InAll({"Missed", "Cured"}), NoteIds \X Periods)
        /\ Tally(before.cured, card.cured, InAll({"Cured"}), NoteIds \X Periods)
    BY <1>2, <1>3 DEF PeriodsTallied
  <2> QED BY <2>1, SlotsFinite, TallyEnds
<1>6. /\ CardNow.matured = Cardinality(NotesNow("Matured"))
      /\ CardNow.defaulted = Cardinality(NotesNow("Defaulted"))
      /\ CardNow.settled = Cardinality(InAll(Done)) /\ CardNow.cured = Cardinality(InAll({"Cured"}))
      /\ CardNow.missed = Cardinality(InAll({"Missed", "Cured"}))
      /\ CardNow.repaid = TotalOf(periodPaid) /\ CardNow.selfCured = Cardinality(SelfCured)
  BY DEF CardNow, Standing, NotesNow
<1>7. \A count \in {"matured", "defaulted", "settled", "missed", "cured"} :
        card[count] \in before[count]..CardNow[count]
  BY <1>4, <1>5, <1>6
<1>8. card.settled + card.outstanding = Cardinality(NoteIds \X Periods)
  BY <1>2, <1>3 DEF PeriodsTallied
<1>9. Rate(card.settled - card.cured, Resolved(card))
  BY <1>3 DEF PeriodsTallied, CardData, Rate, Resolved
<1>10. ASSUME reading = "borrower" PROVE card.repaid \in before.repaid..CardNow.repaid
  <2>1. PICK b \in PaidGrid, c \in PaidGrid :
          /\ before.repaid = TotalOf(b) /\ card.repaid = TotalOf(c)
          /\ \A n \in NoteIds, i \in Periods :
               /\ b[n][i] <= periodPaid[n][i] /\ c[n][i] <= periodPaid[n][i]
               /\ IF Queued(todo, <<"paid", n, i>>) THEN c[n][i] = 0 ELSE b[n][i] <= c[n][i]
    BY <1>1, <1>10 DEF ReadingOK, PaidTallied
  <2>2. \A n \in NoteIds, i \in Periods : b[n][i] <= c[n][i] /\ c[n][i] <= periodPaid[n][i]
    BY <1>1, <2>1 DEF Queued
  <2>3. periodPaid \in PaidGrid
    BY DEF ScoreInv, IndInv, TypeOK, PaidGrid
  <2>4. TotalOf(b) <= TotalOf(c) /\ TotalOf(c) <= TotalOf(periodPaid)
    BY <2>2, <2>3, TotalBelow
  <2>5. TotalOf(b) \in Nat /\ TotalOf(c) \in Nat /\ TotalOf(periodPaid) \in Nat
    BY <2>3, NoteSums
  <2> QED BY <1>6, <2>1, <2>4, <2>5
<1>11. ASSUME reading = "cures" PROVE card.selfCured \in before.selfCured..CardNow.selfCured
  <2>1. Tally(before.selfCured, card.selfCured, SelfCured, NoteIds \X Periods)
    BY <1>1, <1>2, <1>11 DEF ReadingOK, CuresTallied
  <2> QED BY <1>6, <2>1, SlotsFinite, TallyEnds
<1> QED BY <1>7, <1>8, <1>9, <1>10, <1>11 DEF CardOfItsTime

\* intel/reader.ts: whatever is mined between its calls, and however the windows
\* of its logs had to shrink, a finished card lies between what the block the
\* reading began at would have put on it and what the last one would.
THEOREM CardHolds == ScoreSpec => []CardOfItsTime
<1>1. ScoreInit => ScoreInv
  BY ScoreInitially
<1>2. ScoreInv /\ [ScoreNext]_scoreVars => ScoreInv'
  BY ScoreStep
<1>3. ScoreInv => CardOfItsTime
  BY CardIsOfItsTime
<1> QED BY <1>1, <1>2, <1>3, PTL DEF ScoreSpec
=============================================================================
