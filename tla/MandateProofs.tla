---------------------------- MODULE MandateProofs ----------------------------
(***************************************************************************)
(* Theorems about what is done with the borrower's signatures: the agent's *)
(* loop (module Agent) and the page, the route and the table (module       *)
(* Lodging), both over RepaymentMandate, for every set of notes, borrowers *)
(* and mandates and any number of faults.                                  *)
(***************************************************************************)
EXTENDS Agent, Lodging, ServicingProofs, SequenceTheorems

----------------------------------------------------------------------------
\* RepaymentMandate.

\* Rounding up gives a natural, and no more than one unit too much.
LEMMA UnitsRoundUp ==
  ASSUME NEW x \in Nat
  PROVE  /\ Units(x) \in Nat
         /\ Units(x) * SCALE - x \in 0..(SCALE - 1)
         /\ x > 0 => Units(x) > 0
BY MandateAssumption DEF Units

LEMMA ChargeType ==
  ASSUME TypeOK, NEW n \in NoteIds, NEW i \in Periods, paidOf[n][i] < PeriodDue(i)
  PROVE  Charge(n, i) \in Nat /\ Charge(n, i) * SCALE \in Nat
<1>1. Owed(n, i) \in Nat
  BY DueIsNat DEF Owed, TypeOK
<1>2. Charge(n, i) \in Nat
  BY <1>1, UnitsRoundUp DEF Charge
<1> QED BY <1>2, MandateAssumption

\* No step takes back what a period has been paid.
PaidGrows == \A n \in NoteIds, i \in Periods : paidOf[n][i] <= paidOf'[n][i]

LEMMA RepaymentGrows ==
  ASSUME IndInv, NEW n \in NoteIds, NEW first \in Periods, NEW value \in Nat,
         RepayNote(n, first, value)
  PROVE  PaidGrows
<1>1. TypeOK /\ LedgersAt(n) /\ Repay(n, first, value)
  BY DEF IndInv, NoteAt, RepayNote
<1>2. PICK credit \in [Periods -> Nat], left \in Nat : RepayEffect(n, value, credit, left)
  BY <1>1, RepayMoves, Zenon
<1> SUFFICES ASSUME NEW m \in NoteIds, NEW i \in Periods
             PROVE  paidOf[m][i] <= paidOf'[m][i]
  BY DEF PaidGrows
<1>3. CASE m = n
  BY <1>1, <1>2, <1>3 DEF RepayEffect, TypeOK
<1>4. CASE m # n
  BY <1>1, <1>4 DEF Repay, TypeOK
<1> QED BY <1>3, <1>4

LEMMA PaymentsGrow == IndInv /\ [Next]_vars => PaidGrows
<1> SUFFICES ASSUME IndInv, [Next]_vars PROVE PaidGrows
  OBVIOUS
<1>1. ASSUME NEW n \in NoteIds, NEW first \in Periods, NEW value \in Payments,
             PayByHand(n, first, value)
      PROVE  PaidGrows
  BY <1>1, RepaymentGrows, PaymentsAssumption DEF PayByHand
<1>2. ASSUME ~ \E n \in NoteIds, first \in Periods, value \in Payments : PayByHand(n, first, value)
      PROVE  paidOf' = paidOf
  <2>1. CASE UNCHANGED vars
    BY <2>1 DEF vars, vaultVars
  <2>2. CASE Next
    BY <1>2, <2>2 DEF Next, Tick, Delegate, RevokeDelegation, SettlePeriod, Release,
                      MarkDelinquent, DefaultNote, WithdrawFees, vaultVars
  <2> QED BY <2>1, <2>2
<1>3. CASE paidOf' = paidOf
  BY <1>3 DEF IndInv, TypeOK, PaidGrows
<1> QED BY <1>1, <1>2, <1>3

\* A mandate collected, and a scheduled pull, are repayments like any other.
LEMMA CollectKept ==
  ASSUME IndInv, NEW m, m.note \in NoteIds, m.period \in Periods, m.value \in Nat, Collect(m)
  PROVE  IndInv' /\ PaidGrows /\ UNCHANGED <<now, status, periodStatus, agentOf>>
<1>1. m.value * SCALE \in Nat
  BY MandateAssumption
<1>2. RepayNote(m.note, m.period, m.value * SCALE)
  BY Zenon DEF Collect
<1>3. UNCHANGED <<now, status, periodStatus, agentOf>>
  BY <1>2 DEF RepayNote, Repay, RecordPayments, relayVars
<1> QED BY <1>1, <1>2, <1>3, RepayStep, RepaymentGrows

LEMMA ScheduledKept ==
  ASSUME IndInv, NEW n \in NoteIds, NEW i \in Periods, CollectScheduled(n, i)
  PROVE  IndInv' /\ PaidGrows /\ UNCHANGED <<now, status, periodStatus, agentOf>>
<1>1. Charge(n, i) * SCALE \in Nat
  BY ChargeType DEF CollectScheduled, MayCollect, IndInv
<1>2. RepayNote(n, i, Charge(n, i) * SCALE)
  BY Zenon DEF CollectScheduled
<1>3. UNCHANGED <<now, status, periodStatus, agentOf>>
  BY <1>2 DEF RepayNote, Repay, RecordPayments, relayVars
<1> QED BY <1>1, <1>2, <1>3, RepayStep, RepaymentGrows

----------------------------------------------------------------------------
\* The agent.  What the invariants rest on.

Authority == [kind : {"signed", "standing"}, note : NoteIds, period : Periods,
              value : Nat, validAfter : Nat, validBefore : Nat]
Reading == [note : NoteIds, period : Periods, paid : Nat, status : PeriodStatus]
Sent == [action : {"SETTLE", "DELINQUENT", "DEFAULT", "COLLECT"},
         note : NoteIds, period : Periods, authority : SUBSET Authority]

SlotOf(x) == <<x.note, x.period>>

\* A period short beyond its grace was short when its grace ended.
LateNoted ==
  \A n \in NoteIds, i \in Periods :
     (now > Deadline(i) /\ paidOf[n][i] < PeriodDue(i)) => <<n, i>> \in lateSlots

\* The agent reads the clock first: what it has read as late is late.
ReadAfterClock ==
  {p \in Reading : (clock > Deadline(p.period) /\ p.paid < PeriodDue(p.period))
                      => SlotOf(p) \in lateSlots}

\* A miss is sent only for a period that was late.
SentWhenLate == {tx \in Sent : tx.action = "DELINQUENT" => SlotOf(tx) \in lateSlots}

AgentTypeOK ==
  /\ clock \in Nat /\ clock <= now
  /\ work \in Seq(ReadAfterClock)
  /\ held \subseteq Authority
  /\ pending \in Seq(SentWhenLate)
  /\ rows \subseteq Lodged
  /\ phase = "idle" => work = <<>> /\ held = {} /\ todo = <<>>
  /\ phase = "waiting" => work # <<>>

LateInv == IndInv /\ AgentTypeOK /\ LateNoted /\ MissedOnlyIfLate

\* One authorisation is presented for a period.
OnePresented == \A a, b \in held : SlotOf(a) = SlotOf(b) => a = b

\* The transaction waited for is the last one sent, and the answer is to it.
AnswerKnown ==
  /\ (phase = "waiting" /\ pending # <<>>) => pending[Len(pending)] = Transaction(Head(work))
  /\ outcome # "none" => phase = "waiting" /\ pending = <<>>
  /\ outcome = "success" =>
       \A a \in Transaction(Head(work)).authority :
          a.kind = "signed" => SlotOf(a) \in spentNonces

StrandInv == LateInv /\ OnePresented /\ AnswerKnown /\ NothingStranded

----------------------------------------------------------------------------
\* The chain's steps.

\* What every step on the chain keeps or only adds to.
ChainGrows ==
  /\ IndInv'
  /\ PaidGrows
  /\ spentNonces \subseteq spentNonces'

LEMMA SettledMoves ==
  ASSUME IndInv, NEW n \in NoteIds, NEW i \in Periods, NEW accepted \in BOOLEAN,
         SettlePeriod(n, i, Me, accepted)
  PROVE  /\ now' = now
         /\ \A m \in NoteIds, j \in Periods :
              periodStatus'[m][j] \in {"Missed", "Cured"} =>
                periodStatus[m][j] \in {"Missed", "Cured"}
<1>1. TypeOK
  BY DEF IndInv
<1> QED BY <1>1 DEF SettlePeriod, MarkSettled, StatusOnPayout, TypeOK

LEMMA EffectGrows ==
  ASSUME IndInv, NEW tx \in Sent, Effect(tx)
  PROVE  /\ ChainGrows
         /\ now' = now
         /\ \A n \in NoteIds, i \in Periods :
              periodStatus'[n][i] \in {"Missed", "Cured"} =>
                \/ periodStatus[n][i] \in {"Missed", "Cured"}
                \/ tx.action = "DELINQUENT" /\ SlotOf(tx) = <<n, i>>
<1>0. /\ TypeOK /\ Me \in Agents
      /\ tx.note \in NoteIds /\ tx.period \in Periods /\ tx.authority \in SUBSET Authority
  BY AgentAssumption DEF IndInv, Sent
<1>1. ASSUME Next, UNCHANGED mandateVars PROVE ChainGrows
  BY <1>1, IndInvStep, PaymentsGrow DEF ChainGrows, mandateVars
<1>2. ASSUME NEW accepted \in BOOLEAN, SettlePeriod(tx.note, tx.period, Me, accepted),
             UNCHANGED mandateVars
      PROVE  /\ ChainGrows /\ now' = now
             /\ \A n \in NoteIds, i \in Periods :
                  periodStatus'[n][i] \in {"Missed", "Cured"} =>
                    periodStatus[n][i] \in {"Missed", "Cured"}
  <2>1. Next
    BY <1>0, <1>2 DEF Next
  <2> QED BY <1>0, <1>1, <1>2, <2>1, SettledMoves
<1>3. ASSUME MarkDelinquent(tx.note, tx.period, Me), UNCHANGED mandateVars
      PROVE  /\ ChainGrows /\ now' = now
             /\ \A n \in NoteIds, i \in Periods :
                  periodStatus'[n][i] \in {"Missed", "Cured"} =>
                    \/ periodStatus[n][i] \in {"Missed", "Cured"}
                    \/ SlotOf(tx) = <<n, i>>
  <2>1. Next
    BY <1>0, <1>3 DEF Next
  <2>2. now' = now /\ periodStatus' = [periodStatus EXCEPT ![tx.note][tx.period] = "Missed"]
    BY <1>3 DEF MarkDelinquent, MarkMissed
  <2> QED BY <1>0, <1>1, <1>3, <2>1, <2>2 DEF TypeOK, SlotOf
<1>4. ASSUME DefaultNote(tx.note, Me), UNCHANGED mandateVars
      PROVE  ChainGrows /\ UNCHANGED <<now, periodStatus>>
  <2>1. Next
    BY <1>0, <1>4 DEF Next
  <2> QED BY <1>1, <1>4, <2>1 DEF DefaultNote, MarkDefaulted
<1>5. ASSUME NEW a \in Authority, Collect(a)
      PROVE  ChainGrows /\ UNCHANGED <<now, periodStatus>>
  <2>1. a.note \in NoteIds /\ a.period \in Periods /\ a.value \in Nat
    BY DEF Authority
  <2>2. spentNonces \subseteq spentNonces'
    BY <1>5, Zenon DEF Collect
  <2> QED BY <1>5, <2>1, <2>2, CollectKept DEF ChainGrows
<1>6. ASSUME CollectScheduled(tx.note, tx.period)
      PROVE  ChainGrows /\ UNCHANGED <<now, periodStatus>>
  BY <1>0, <1>6, ScheduledKept DEF ChainGrows, CollectScheduled
<1>7. CASE \E accepted \in BOOLEAN : SettlePeriod(tx.note, tx.period, Me, accepted)
                                     /\ UNCHANGED mandateVars
  BY <1>2, <1>7
<1>8. CASE /\ tx.action = "DELINQUENT"
           /\ MarkDelinquent(tx.note, tx.period, Me) /\ UNCHANGED mandateVars
  BY <1>3, <1>8
<1>9. CASE DefaultNote(tx.note, Me) /\ UNCHANGED mandateVars
  BY <1>4, <1>9
<1>10. CASE \E a \in tx.authority : Collect(a) \/ CollectScheduled(tx.note, tx.period)
  BY <1>0, <1>5, <1>6, <1>10
<1> QED BY <1>7, <1>8, <1>9, <1>10 DEF Effect

LEMMA OthersGrow ==
  ASSUME IndInv, Others
  PROVE  ChainGrows /\ UNCHANGED <<now, periodStatus>>
<1>0. Me \in Agents
  BY AgentAssumption
<1>1. ASSUME NEW n \in NoteIds, UNCHANGED mandateVars,
             \/ Delegate(n, Me) \/ RevokeDelegation(n)
             \/ \E first \in Periods, value \in Payments : PayByHand(n, first, value)
      PROVE  ChainGrows /\ UNCHANGED <<now, periodStatus>>
  <2>1. Next
    BY <1>0, <1>1 DEF Next
  <2>2. UNCHANGED <<now, periodStatus>>
    BY <1>1 DEF Delegate, RevokeDelegation, PayByHand, RepayNote, Repay, RecordPayments, noteVars
  <2> QED BY <1>1, <2>1, <2>2, IndInvStep, PaymentsGrow DEF ChainGrows, mandateVars
<1>2. ASSUME NEW m \in Signed, Collect(m)
      PROVE  ChainGrows /\ UNCHANGED <<now, periodStatus>>
  <2>1. m.note \in NoteIds /\ m.period \in Periods /\ m.value \in Nat
    BY MandateAssumption DEF Mandate
  <2>2. spentNonces \subseteq spentNonces'
    BY <1>2, Zenon DEF Collect
  <2> QED BY <1>2, <2>1, <2>2, CollectKept DEF ChainGrows
<1>3. ASSUME UNCHANGED <<vars, spentNonces>>
      PROVE  ChainGrows /\ UNCHANGED <<now, periodStatus>>
  <2>1. UNCHANGED <<now, periodStatus>>
    BY <1>3 DEF vars, noteVars
  <2> QED BY <1>3, <2>1, IndInvStep, PaymentsGrow DEF ChainGrows
<1>4. ASSUME NEW n \in NoteIds, NEW i \in Periods, CollectScheduled(n, i)
      PROVE  ChainGrows /\ UNCHANGED <<now, periodStatus>>
  BY <1>4, ScheduledKept DEF ChainGrows, CollectScheduled
<1>5. ASSUME NEW n \in NoteIds, NEW value \in Ceilings, Authorize(n, value)
      PROVE  ChainGrows /\ UNCHANGED <<now, periodStatus>>
  BY <1>3, <1>5 DEF Authorize
<1>6. ASSUME NEW b \in Borrowers, NEW amount \in Spendings, Spend(b, amount)
      PROVE  ChainGrows /\ UNCHANGED <<now, periodStatus>>
  BY <1>3, <1>6 DEF Spend
<1> QED BY <1>1, <1>2, <1>4, <1>5, <1>6 DEF Others

----------------------------------------------------------------------------
\* A miss is recorded only of a period that was late.

LEMMA DeadlineType ==
  ASSUME NEW i \in Periods
  PROVE  Deadline(i) \in Nat /\ Deadline(i) > MintedAt
<1>1. i * PeriodLength \in Nat /\ (i + 1) * PeriodLength = i * PeriodLength + PeriodLength
  BY TermsAssumption DEF Periods
<1> QED BY <1>1, TermsAssumption DEF Deadline, PeriodEnd

\* What the agent decides of a reading, and what it sends.
LEMMA TransactionType ==
  ASSUME held \subseteq Authority, clock \in Nat, NEW p \in Reading
  PROVE  /\ Decide(p) \in {"SETTLE", "DELINQUENT", "DEFAULT", "COLLECT", "WAIT"}
         /\ Decide(p) # "WAIT" => Transaction(p) \in Sent
         /\ Decide(p) = "DELINQUENT" =>
              clock > Deadline(p.period) /\ p.paid < PeriodDue(p.period)
<1>1. Decide(p) \in {"SETTLE", "DELINQUENT", "DEFAULT", "COLLECT", "WAIT"}
  BY Zenon DEF Decide
<1>2. Authorisation(p) \subseteq Authority /\ p.note \in NoteIds /\ p.period \in Periods
  BY DEF Authorisation, Reading
<1>3. Decide(p) # "WAIT" => Transaction(p) \in Sent
  BY <1>1, <1>2 DEF Transaction, Sent
<1>4. Decide(p) = "DELINQUENT" =>
         /\ ~Paid(p)
         /\ ~ (ClockRead <= PeriodEnd(p.period) + GracePeriod \/ p.status = "Missed")
  BY DEF Decide
<1>5. Deadline(p.period) \in Nat /\ p.paid \in Nat /\ PeriodDue(p.period) \in Nat
  BY <1>2, DeadlineType, DueIsNat DEF Reading
<1> QED BY <1>1, <1>3, <1>4, <1>5 DEF Paid, ClockRead, Deadline

LEMMA AgentTypeInit == AgentInit => AgentTypeOK
<1> SUFFICES ASSUME AgentInit PROVE AgentTypeOK
  OBVIOUS
<1>1. /\ phase = "idle" /\ clock = 0 /\ work = <<>> /\ held = {} /\ todo = <<>> /\ pending = <<>> /\ rows = Lodged
      /\ now = MintedAt
  BY DEF AgentInit, AtRest, MandateInit, Init
<1>2. <<>> \in Seq(ReadAfterClock) /\ <<>> \in Seq(SentWhenLate)
  BY EmptySeq
<1> QED BY <1>1, <1>2, TermsAssumption DEF AgentTypeOK

\* A step of the agent's own, the chain standing still.
LEMMA AgentTypeStep ==
  ASSUME IndInv, AgentTypeOK, LateNoted, AgentStep \/ AgentFails
  PROVE  AgentTypeOK'
<1>0. /\ TypeOK /\ clock \in Nat /\ clock <= now /\ now \in Nat
      /\ work \in Seq(ReadAfterClock) /\ held \subseteq Authority
      /\ pending \in Seq(SentWhenLate) /\ rows \subseteq Lodged
      /\ phase = "idle" => work = <<>> /\ held = {} /\ todo = <<>>
      /\ phase = "waiting" => work # <<>>
      /\ \A S : <<>> \in Seq(S)
  BY EmptySeq DEF IndInv, TypeOK, AgentTypeOK
<1>1. lateSlots' = lateSlots /\ now' = now
  BY DEF AgentStep, AgentFails, StartTick, Read, EndTick, Consider, Receipt, Timeout, Stop,
         allVars, vars
<1>2. SentWhenLate' = SentWhenLate
  BY <1>1 DEF SentWhenLate
<1>3. clock' = clock => ReadAfterClock' = ReadAfterClock
  BY <1>1 DEF ReadAfterClock
<1>4. ASSUME Forget, UNCHANGED <<rows, pending>> PROVE AgentTypeOK'
  BY <1>0, <1>1, <1>2, <1>4 DEF AgentTypeOK, Forget
<1>5. CASE StartTick
  BY <1>0, <1>1, <1>2, <1>5 DEF AgentTypeOK, StartTick
<1>6. CASE Read
  <2>1. /\ phase = "ticking" /\ phase' = phase /\ clock' = clock
        /\ rows' = rows /\ pending' = pending
    BY <1>6 DEF Read
  <2>2. ASSUME NEW n \in NoteIds, ReadDelegation(n) \/ ReadHeader(n)
        PROVE  work' = work /\ held' = held
    BY <2>2 DEF ReadDelegation, ReadHeader
  <2>3. ASSUME NEW n \in NoteIds, NEW i \in Periods, ReadPeriod(n, i)
        PROVE  work' \in Seq(ReadAfterClock) /\ held' = held
    <3> DEFINE p == [note |-> n, period |-> i, paid |-> paidOf[n][i],
                     status |-> periodStatus[n][i]]
    <3>1. p \in Reading
      BY <1>0 DEF Reading, TypeOK
    <3>2. clock > Deadline(i) /\ paidOf[n][i] < PeriodDue(i) => <<n, i>> \in lateSlots
      BY <1>0, DeadlineType DEF LateNoted
    <3>3. p \in ReadAfterClock
      BY <3>1, <3>2 DEF ReadAfterClock, SlotOf
    <3>4. held' = held /\ (work' = work \/ work' = Append(work, p))
      BY <2>3 DEF ReadPeriod
    <3> HIDE DEF p
    <3>5. Append(work, p) \in Seq(ReadAfterClock)
      BY <1>0, <3>3, AppendProperties
    <3> QED BY <1>0, <3>4, <3>5
  <2>4. ASSUME NEW n \in NoteIds, ReadStanding(n)
        PROVE  work' = work /\ held' \subseteq Authority
    <3>1. ASSUME NEW i \in Periods PROVE Standing(n, i) \in Authority
      <4>1. PeriodEnd(i) \in Nat /\ MaxTime + 1 \in Nat
        BY FirstPeriodEndsFirst, RelayAssumption
      <4> QED BY <4>1 DEF Standing, Authority
    <3>2. \A a \in held' : a \in held \/ \E i \in Periods : a = Standing(n, i)
      BY <2>4 DEF ReadStanding
    <3> QED BY <1>0, <2>4, <3>1, <3>2 DEF ReadStanding
  <2>5. ASSUME NEW n \in NoteIds, ReadMandates(n)
        PROVE  work' = work /\ held' \subseteq Authority
    <3>1. ASSUME NEW m \in rows PROVE Presented(m) \in Authority
      <4>1. m \in Mandate
        BY <1>0, AgentAssumption, MandateAssumption
      <4> QED BY <4>1 DEF Mandate, Presented, Authority
    <3>2. \A a \in held' : a \in held \/ \E m \in rows : a = Presented(m)
      BY <2>5 DEF ReadMandates
    <3> QED BY <1>0, <2>5, <3>1, <3>2 DEF ReadMandates
  <2>6. work' \in Seq(ReadAfterClock) /\ held' \subseteq Authority
    BY <1>0, <1>6, <2>2, <2>3, <2>4, <2>5 DEF Read
  <2> QED BY <1>0, <1>1, <1>2, <1>3, <2>1, <2>6 DEF AgentTypeOK
<1>7. CASE EndTick
  BY <1>4, <1>7 DEF EndTick
<1>8. CASE Consider
  <2> DEFINE p == Head(work)
  <2>1. /\ phase = "ticking" /\ work # <<>>
        /\ UNCHANGED <<clock, todo, held, rows>>
        /\ \/ /\ Decide(p) # "WAIT" /\ pending' = Append(pending, Transaction(p))
              /\ phase' = "waiting" /\ work' = work
           \/ work' = Tail(work) /\ UNCHANGED <<pending, phase>>
    BY <1>8 DEF Consider, Acting
  <2>2. p \in ReadAfterClock /\ Tail(work) \in Seq(ReadAfterClock)
    BY <1>0, <2>1, HeadTailProperties
  <2>3. ASSUME Decide(p) # "WAIT" PROVE Transaction(p) \in SentWhenLate
    <3>1. /\ p \in Reading
          /\ (clock > Deadline(p.period) /\ p.paid < PeriodDue(p.period)) => SlotOf(p) \in lateSlots
      BY <2>2 DEF ReadAfterClock
    <3>2. Transaction(p) \in Sent
      BY <1>0, <2>3, <3>1, TransactionType
    <3>3. /\ Transaction(p).action = Decide(p)
          /\ SlotOf(Transaction(p)) = SlotOf(p)
      BY DEF Transaction, SlotOf
    <3>4. Decide(p) = "DELINQUENT" => clock > Deadline(p.period) /\ p.paid < PeriodDue(p.period)
      BY <1>0, <3>1, TransactionType
    <3> QED BY <3>1, <3>2, <3>3, <3>4 DEF SentWhenLate
  <2> HIDE DEF p
  <2>4. pending' \in Seq(SentWhenLate) /\ work' \in Seq(ReadAfterClock) /\ phase' # "idle"
    BY <1>0, <2>1, <2>2, <2>3, AppendProperties
  <2> QED BY <1>0, <1>1, <1>2, <1>3, <2>1, <2>4 DEF AgentTypeOK
<1>9. CASE Receipt \/ Timeout
  <2>1. /\ phase = "waiting" /\ phase' = "ticking" /\ work' = Tail(work)
        /\ UNCHANGED <<clock, todo, held, pending>> /\ rows' \subseteq rows
    BY <1>9 DEF Receipt, Timeout
  <2>2. Tail(work) \in Seq(ReadAfterClock)
    BY <1>0, <2>1, HeadTailProperties
  <2> QED BY <1>0, <1>1, <1>2, <1>3, <2>1, <2>2 DEF AgentTypeOK
<1>10. CASE Stop
  BY <1>4, <1>10 DEF Stop
<1> QED BY <1>5, <1>6, <1>7, <1>8, <1>9, <1>10 DEF AgentStep, AgentFails

\* A step of the chain's, the agent standing still but for what it has sent.
LEMMA ChainTypeStep ==
  ASSUME AgentTypeOK, now' >= now, now \in Nat, now' \in Nat, lateSlots \subseteq lateSlots',
         UNCHANGED <<phase, viewVars, rows>>, pending' \in Seq(SentWhenLate)
  PROVE  AgentTypeOK'
<1>1. UNCHANGED <<clock, todo, work, held>>
  BY DEF viewVars
<1>2. ReadAfterClock \subseteq ReadAfterClock'
  BY <1>1 DEF ReadAfterClock
<1>3. SentWhenLate \subseteq SentWhenLate'
  BY DEF SentWhenLate
<1>4. work' \in Seq(ReadAfterClock') /\ pending' \in Seq(SentWhenLate')
  BY <1>1, <1>2, <1>3, SeqMonotonic DEF AgentTypeOK
<1> QED BY <1>1, <1>4 DEF AgentTypeOK

LEMMA MinePending ==
  ASSUME AgentTypeOK, pending # <<>>
  PROVE  Head(pending) \in SentWhenLate /\ Tail(pending) \in Seq(SentWhenLate)
BY HeadTailProperties DEF AgentTypeOK

\* A period paid in full stays so: nobody is late who was not.
LEMMA LateNotedKept ==
  ASSUME TypeOK, TypeOK', LateNoted, PaidGrows, now' = now, lateSlots' = lateSlots
  PROVE  LateNoted'
<1> SUFFICES ASSUME NEW n \in NoteIds, NEW i \in Periods,
                    now > Deadline(i), paidOf'[n][i] < PeriodDue(i)
             PROVE  <<n, i>> \in lateSlots
  BY DEF LateNoted, Deadline
<1>1. paidOf[n][i] < PeriodDue(i)
  <2>1. paidOf[n][i] \in Nat /\ paidOf'[n][i] \in Nat /\ paidOf[n][i] <= paidOf'[n][i]
    BY DEF TypeOK, PaidGrows
  <2> QED BY <2>1, DueIsNat
<1> QED BY <1>1 DEF LateNoted

LEMMA LateInit == AgentInit => LateInv
<1> SUFFICES ASSUME AgentInit PROVE LateInv
  OBVIOUS
<1>1. IndInv /\ now = MintedAt
  BY IndInvInit DEF AgentInit, MandateInit, Init
<1>2. LateNoted
  BY <1>1, DeadlineType, TermsAssumption DEF LateNoted
<1>3. MissedOnlyIfLate
  BY DEF AgentInit, MandateInit, Init, NoteInit, MissedOnlyIfLate
<1> QED BY <1>1, <1>2, <1>3, AgentTypeInit DEF LateInv

LEMMA LateStep == LateInv /\ [AgentNext]_everyVar => LateInv'
<1> SUFFICES ASSUME LateInv, [AgentNext]_everyVar PROVE LateInv'
  OBVIOUS
<1>0. IndInv /\ AgentTypeOK /\ LateNoted /\ MissedOnlyIfLate /\ TypeOK /\ now \in Nat
  BY DEF LateInv, IndInv, TypeOK
<1>1. ASSUME ChainGrows, now' = now, lateSlots' = lateSlots, AgentTypeOK',
             \A n \in NoteIds, i \in Periods :
               periodStatus'[n][i] \in {"Missed", "Cured"} =>
                 \/ periodStatus[n][i] \in {"Missed", "Cured"}
                 \/ <<n, i>> \in lateSlots
      PROVE  LateInv'
  <2>1. TypeOK'
    BY <1>1 DEF ChainGrows, IndInv
  <2>2. LateNoted'
    BY <1>0, <1>1, <2>1, LateNotedKept DEF ChainGrows
  <2>3. MissedOnlyIfLate'
    BY <1>0, <1>1 DEF MissedOnlyIfLate
  <2> QED BY <1>1, <2>2, <2>3 DEF LateInv, ChainGrows
<1>2. ASSUME UNCHANGED allVars PROVE ChainGrows /\ now' = now /\ periodStatus' = periodStatus
  <2>1. UNCHANGED vars /\ now' = now /\ periodStatus' = periodStatus /\ spentNonces' = spentNonces
    BY <1>2 DEF allVars, vars, noteVars, mandateVars
  <2> QED BY <1>0, <2>1, IndInvStep, PaymentsGrow DEF ChainGrows
<1>3. CASE UNCHANGED everyVar
  <2>1. /\ UNCHANGED allVars /\ lateSlots' = lateSlots
        /\ UNCHANGED <<phase, viewVars, rows, pending>>
    BY <1>3 DEF everyVar, agentVars
  <2>2. AgentTypeOK'
    BY <1>0, <1>2, <2>1, ChainTypeStep DEF AgentTypeOK
  <2> QED BY <1>0, <1>1, <1>2, <2>1, <2>2
<1>4. CASE AgentStep \/ AgentFails
  <2>1. UNCHANGED allVars /\ lateSlots' = lateSlots
    BY <1>4 DEF AgentStep, AgentFails, StartTick, Read, EndTick, Consider, Receipt, Timeout, Stop
  <2>2. AgentTypeOK'
    BY <1>0, <1>4, AgentTypeStep
  <2> QED BY <1>0, <1>1, <1>2, <2>1, <2>2
<1>5. CASE Mine
  <2> DEFINE tx == Head(pending)
  <2>1. /\ pending # <<>> /\ pending' = Tail(pending) /\ lateSlots' = lateSlots
        /\ UNCHANGED <<phase, viewVars, rows>>
        /\ Effect(tx) \/ UNCHANGED allVars
    BY <1>5 DEF Mine
  <2>2. tx \in SentWhenLate /\ pending' \in Seq(SentWhenLate)
    BY <1>0, <2>1, MinePending
  <2> HIDE DEF tx
  <2>3. CASE Effect(tx)
    <3>1. tx \in Sent /\ (tx.action = "DELINQUENT" => SlotOf(tx) \in lateSlots)
      BY <2>2 DEF SentWhenLate
    <3>2. /\ ChainGrows /\ now' = now
          /\ \A n \in NoteIds, i \in Periods :
               periodStatus'[n][i] \in {"Missed", "Cured"} =>
                 \/ periodStatus[n][i] \in {"Missed", "Cured"}
                 \/ <<n, i>> \in lateSlots
      BY <1>0, <2>3, <3>1, EffectGrows
    <3>3. AgentTypeOK'
      BY <1>0, <2>1, <2>2, <3>2, ChainTypeStep
    <3> QED BY <1>1, <2>1, <3>2, <3>3
  <2>4. CASE UNCHANGED allVars
    <3>1. AgentTypeOK'
      BY <1>0, <1>2, <2>1, <2>2, <2>4, ChainTypeStep
    <3> QED BY <1>0, <1>1, <1>2, <2>1, <2>4, <3>1
  <2> QED BY <2>1, <2>3, <2>4
<1>6. CASE Block
  <2>1. /\ Tick /\ now' = now + 1 /\ paidOf' = paidOf /\ periodStatus' = periodStatus
        /\ lateSlots' = lateSlots \cup
             {s \in Slots : /\ now <= Deadline(s[2]) /\ now' > Deadline(s[2])
                            /\ paidOf[s[1]][s[2]] < PeriodDue(s[2])}
        /\ UNCHANGED <<phase, viewVars, rows, pending>>
    BY <1>6 DEF Block, Tick, noteVars, vaultVars, agentVars
  <2>2. IndInv'
    BY <1>0, <2>1, IndInvStep DEF Next
  <2>3. AgentTypeOK'
    BY <1>0, <2>1, ChainTypeStep DEF AgentTypeOK
  <2>4. ASSUME NEW n \in NoteIds, NEW i \in Periods,
               now' > Deadline(i), paidOf'[n][i] < PeriodDue(i)
        PROVE  <<n, i>> \in lateSlots'
    <3>1. CASE now > Deadline(i)
      BY <1>0, <2>1, <2>4, <3>1 DEF LateNoted
    <3>2. CASE ~ (now > Deadline(i))
      <4>1. now <= Deadline(i) /\ <<n, i>> \in Slots
        BY <1>0, <3>2, DeadlineType DEF Slots
      <4> QED BY <2>1, <2>4, <4>1
    <3> QED BY <3>1, <3>2
  <2>5. LateNoted'
    BY <2>4 DEF LateNoted, Deadline
  <2>6. MissedOnlyIfLate'
    BY <1>0, <2>1 DEF MissedOnlyIfLate
  <2> QED BY <2>2, <2>3, <2>5, <2>6 DEF LateInv
<1>7. CASE Others
  <2>1. ChainGrows /\ now' = now /\ periodStatus' = periodStatus
    BY <1>0, <1>7, OthersGrow
  <2>2. lateSlots' = lateSlots /\ UNCHANGED <<phase, viewVars, rows, pending>>
    BY <1>7 DEF Others, agentVars
  <2>3. AgentTypeOK'
    BY <1>0, <2>1, <2>2, ChainTypeStep DEF AgentTypeOK
  <2> QED BY <1>0, <1>1, <2>1, <2>2, <2>3
<1> QED BY <1>3, <1>4, <1>5, <1>6, <1>7 DEF AgentNext

LEMMA LateInvariant == AgentSpec => []LateInv
BY LateInit, LateStep, PTL DEF AgentSpec

(***************************************************************************)
(* The agent puts a miss on the record only of a period that was short     *)
(* when its grace ended, whatever it read stale, whatever crashed, however *)
(* long its transactions took, and whoever else was using the contracts.   *)
(***************************************************************************)
THEOREM MissesAreLate == AgentSpec => []MissedOnlyIfLate
<1>1. LateInv => MissedOnlyIfLate
  BY DEF LateInv
<1> QED BY <1>1, LateInvariant, PTL

----------------------------------------------------------------------------
\* A mandate is marked collected only once it has been honoured.

LEMMA SameTransaction ==
  ASSUME UNCHANGED <<clock, since, work, held>>
  PROVE  Transaction(Head(work))' = Transaction(Head(work))
BY DEF Transaction, Decide, Lapsed, Paid, Covered, Authorisation, ClockRead

\* All that is presented for a period is one authorisation.
LEMMA AuthorisationSingle ==
  ASSUME OnePresented, NEW p, NEW a \in Transaction(p).authority, NEW b \in Transaction(p).authority
  PROVE  a = b
<1>1. a \in Authorisation(p) /\ b \in Authorisation(p)
  BY DEF Transaction
<1>2. a \in held /\ b \in held /\ SlotOf(a) = SlotOf(b)
  BY <1>1 DEF Authorisation, SlotOf
<1> QED BY <1>2 DEF OnePresented

\* A transaction that collects honours the mandate presented with it.
LEMMA EffectSpends ==
  ASSUME OnePresented, NEW p, Effect(Transaction(p)),
         NEW a \in Transaction(p).authority, a.kind = "signed"
  PROVE  SlotOf(a) \in spentNonces'
<1>1. Transaction(p).action = "COLLECT"
  BY DEF Transaction
<1>2. PICK b \in Transaction(p).authority :
        \/ b.kind = "signed" /\ Collect(b)
        \/ b.kind = "standing" /\ CollectScheduled(p.note, p.period)
  <2>1. Transaction(p).note = p.note /\ Transaction(p).period = p.period
    BY DEF Transaction
  <2> QED BY <1>1, <2>1 DEF Effect
<1>3. b = a
  BY AuthorisationSingle
<1>4. Collect(a)
  BY <1>2, <1>3
<1> QED BY <1>4, Zenon DEF Collect, SlotOf

\* What the agent holds after it has read the authorisations of a note.
LEMMA ReadOnePresented ==
  ASSUME LateInv, OnePresented, Read
  PROVE  OnePresented'
<1>1. CASE held' = held
  BY <1>1 DEF OnePresented, SlotOf
<1>2. ASSUME NEW n \in NoteIds, ReadStanding(n) PROVE OnePresented'
  <2> SUFFICES ASSUME NEW a \in held', NEW b \in held', SlotOf(a) = SlotOf(b) PROVE a = b
    BY DEF OnePresented, SlotOf
  <2>1. ASSUME NEW x \in held'
        PROVE  (x \in held /\ x.note # n) \/ (x.note = n /\ x = Standing(n, x.period))
    BY <1>2 DEF ReadStanding, Standing
  <2>2. a.note = b.note /\ a.period = b.period
    BY DEF SlotOf
  <2> QED BY <2>1, <2>2 DEF OnePresented
<1>3. ASSUME NEW n \in NoteIds, ReadMandates(n) PROVE OnePresented'
  <2> SUFFICES ASSUME NEW a \in held', NEW b \in held', SlotOf(a) = SlotOf(b) PROVE a = b
    BY DEF OnePresented, SlotOf
  <2>1. \A m, k \in rows : SlotOf(m) = SlotOf(k) => m = k
    BY AgentAssumption DEF LateInv, AgentTypeOK, SlotOf
  <2>2. ASSUME NEW x \in held'
        PROVE  \/ x \in held /\ \A m \in {k \in rows : k.note = n} : SlotOf(m) # SlotOf(x)
               \/ \E m \in {k \in rows : k.note = n} : x = Presented(m)
    BY <1>3 DEF ReadMandates, SlotOf
  <2>3. \A m : SlotOf(Presented(m)) = SlotOf(m)
    BY DEF Presented, SlotOf
  <2> QED BY <2>1, <2>2, <2>3 DEF OnePresented
<1>4. held' = held \/ \E n \in NoteIds : ReadStanding(n) \/ ReadMandates(n)
  BY DEF Read, ReadDelegation, ReadHeader, ReadPeriod
<1> QED BY <1>1, <1>2, <1>3, <1>4

\* The transaction at the front is mined.
LEMMA MinedAnswer ==
  ASSUME LateInv, OnePresented, AnswerKnown, Mine, spentNonces \subseteq spentNonces'
  PROVE  AnswerKnown'
<1> DEFINE p  == Head(work)
           tx == Head(pending)
<1>1. /\ pending # <<>> /\ pending' = Tail(pending) /\ pending \in Seq(SentWhenLate)
      /\ phase' = phase /\ UNCHANGED <<clock, since, work, held>>
      /\ \/ /\ Effect(tx)
            /\ outcome' = IF phase = "waiting" /\ Len(pending) = 1 THEN "success" ELSE "none"
         \/ outcome' = IF phase = "waiting" /\ Len(pending) = 1 THEN "reverted" ELSE "none"
  BY DEF Mine, LateInv, AgentTypeOK, viewVars
<1>2. /\ Len(pending) \in Nat \ {0} /\ Len(Tail(pending)) = Len(pending) - 1
      /\ \A i \in 1..(Len(pending) - 1) : Tail(pending)[i] = pending[i + 1]
      /\ Len(pending) = 1 => pending' = <<>>
  <2>1. /\ Len(pending) \in Nat \ {0} /\ Len(Tail(pending)) = Len(pending) - 1
        /\ \A i \in 1..Len(Tail(pending)) : Tail(pending)[i] = pending[i + 1]
        /\ Tail(pending) \in Seq(SentWhenLate)
    BY <1>1, EmptySeq, HeadTailProperties
  <2> QED BY <1>1, <2>1, EmptySeq
<1>3. tx = pending[1]
  BY <1>1
<1>4. phase = "waiting" => pending[Len(pending)] = Transaction(p)
  BY <1>1 DEF AnswerKnown
<1>5. Transaction(Head(work))' = Transaction(p)
  BY <1>1, SameTransaction
<1> HIDE DEF tx, p
<1>6. ASSUME phase' = "waiting", pending' # <<>>
      PROVE  pending'[Len(pending')] = Transaction(p)
  BY <1>1, <1>2, <1>4, <1>6
<1>7. ASSUME outcome' # "none" PROVE phase' = "waiting" /\ pending' = <<>>
  BY <1>1, <1>2, <1>7
<1>8. ASSUME outcome' = "success", NEW a \in Transaction(p).authority, a.kind = "signed"
      PROVE  SlotOf(a) \in spentNonces'
  <2>1. phase = "waiting" /\ Len(pending) = 1 /\ Effect(tx)
    BY <1>1, <1>8
  <2>2. Effect(Transaction(p))
    BY <1>3, <1>4, <2>1
  <2> QED BY <1>8, <2>2, EffectSpends
<1> QED BY <1>5, <1>6, <1>7, <1>8 DEF AnswerKnown, SlotOf, p

LEMMA StrandInit == AgentInit => StrandInv
<1> SUFFICES ASSUME AgentInit PROVE StrandInv
  OBVIOUS
<1>1. held = {} /\ todo = <<>> /\ phase = "idle" /\ outcome = "none" /\ rows = Lodged
  BY DEF AgentInit, AtRest
<1> QED BY <1>1, LateInit DEF StrandInv, OnePresented, AnswerKnown, NothingStranded

LEMMA StrandStep == StrandInv /\ [AgentNext]_everyVar => StrandInv'
<1> SUFFICES ASSUME StrandInv, [AgentNext]_everyVar PROVE StrandInv'
  OBVIOUS
<1>0. LateInv /\ OnePresented /\ AnswerKnown /\ NothingStranded /\ IndInv
  BY DEF StrandInv, LateInv
<1>1. LateInv'
  BY <1>0, LateStep
<1>2. ASSUME OnePresented', AnswerKnown', rows' = rows, spentNonces \subseteq spentNonces'
      PROVE  StrandInv'
  BY <1>0, <1>1, <1>2 DEF StrandInv, NothingStranded
<1>3. ASSUME UNCHANGED agentVars, spentNonces \subseteq spentNonces' PROVE StrandInv'
  <2>1. UNCHANGED <<phase, clock, todo, since, work, held, rows, pending, outcome>>
    BY <1>3 DEF agentVars, viewVars
  <2>2. OnePresented'
    BY <1>0, <2>1 DEF OnePresented, SlotOf
  <2>3. Transaction(Head(work))' = Transaction(Head(work))
    BY <2>1, SameTransaction
  <2>4. AnswerKnown'
    BY <1>0, <1>3, <2>1, <2>3 DEF AnswerKnown, SlotOf
  <2> QED BY <1>2, <1>3, <2>1, <2>2, <2>4
<1>4. CASE UNCHANGED everyVar
  BY <1>3, <1>4 DEF everyVar, allVars, mandateVars
<1>5. CASE Block
  BY <1>3, <1>5 DEF Block, mandateVars
<1>6. CASE Others
  BY <1>0, <1>3, <1>6, OthersGrow DEF Others, ChainGrows
<1>7. CASE Mine
  <2>1. UNCHANGED <<phase, todo, held, rows>>
    BY <1>7 DEF Mine, viewVars
  <2>2. OnePresented'
    BY <1>0, <2>1 DEF OnePresented, SlotOf
  <2>3. spentNonces \subseteq spentNonces'
    <3>1. pending # <<>> /\ (Effect(Head(pending)) \/ UNCHANGED allVars)
      BY <1>7 DEF Mine
    <3>2. Head(pending) \in Sent
      BY <1>0, <3>1, MinePending DEF LateInv, SentWhenLate
    <3> QED BY <1>0, <3>1, <3>2, EffectGrows DEF ChainGrows, allVars, mandateVars
  <2>4. AnswerKnown'
    BY <1>0, <1>7, <2>3, MinedAnswer
  <2> QED BY <1>2, <2>1, <2>2, <2>3, <2>4
<1>8. CASE AgentStep \/ AgentFails
  <2>0. spentNonces' = spentNonces
    BY <1>8 DEF AgentStep, AgentFails, StartTick, Read, EndTick, Consider, Receipt, Timeout, Stop,
                allVars, mandateVars
  <2>1. ASSUME Forget, UNCHANGED rows PROVE StrandInv'
    <3>1. held' = {} /\ todo' = <<>> /\ phase' = "idle" /\ outcome' = "none"
      BY <2>1 DEF Forget
    <3> QED BY <1>2, <2>0, <2>1, <3>1 DEF OnePresented, AnswerKnown
  <2>2. CASE EndTick \/ Stop
    BY <2>1, <2>2 DEF EndTick, Stop
  <2>3. CASE StartTick
    <3>1. held = {} /\ held' = held /\ phase' = "ticking" /\ rows' = rows /\ outcome' = "none"
      BY <1>0, <2>3 DEF StartTick, LateInv, AgentTypeOK, AnswerKnown
    <3> QED BY <1>2, <2>0, <3>1 DEF OnePresented, AnswerKnown
  <2>4. CASE Read
    <3>1. phase' = "ticking" /\ rows' = rows /\ outcome' = "none"
      BY <1>0, <2>4 DEF Read, AnswerKnown
    <3> QED BY <1>0, <1>2, <2>0, <2>4, <3>1, ReadOnePresented DEF AnswerKnown
  <2>5. CASE Consider
    <3>1. /\ phase = "ticking" /\ todo = <<>> /\ work # <<>> /\ outcome = "none"
          /\ UNCHANGED <<clock, todo, since, held, rows, outcome>>
          /\ \/ /\ pending' = Append(pending, Transaction(Head(work)))
                /\ phase' = "waiting" /\ work' = work
             \/ phase' = phase
      BY <1>0, <2>5 DEF Consider, Acting, AnswerKnown
    <3>2. OnePresented'
      BY <1>0, <3>1 DEF OnePresented, SlotOf
    <3>3. AnswerKnown'
      <4>1. CASE phase' = phase
        BY <3>1, <4>1 DEF AnswerKnown
      <4>2. CASE /\ pending' = Append(pending, Transaction(Head(work)))
                 /\ phase' = "waiting" /\ work' = work
        <5>1. Transaction(Head(work))' = Transaction(Head(work))
          BY <3>1, <4>2, SameTransaction
        <5> DEFINE tx == Transaction(Head(work))
        <5>2. pending \in Seq(SentWhenLate \cup {tx}) /\ tx \in SentWhenLate \cup {tx}
          BY <1>0, SeqMonotonic DEF LateInv, AgentTypeOK
        <5> HIDE DEF tx
        <5>3. /\ Len(Append(pending, tx)) = Len(pending) + 1
              /\ Append(pending, tx)[Len(pending) + 1] = tx
          BY <5>2, AppendProperties
        <5>4. pending'[Len(pending')] = tx
          BY <4>2, <5>3 DEF tx
        <5> QED BY <3>1, <5>1, <5>4 DEF AnswerKnown, tx
      <4> QED BY <3>1, <4>1, <4>2
    <3> QED BY <1>2, <2>0, <3>1, <3>2, <3>3
  <2>6. CASE Timeout
    <3>1. /\ phase = "waiting" /\ phase' = "ticking" /\ rows' = rows /\ todo' = todo /\ held' = held
          /\ outcome' = "none"
      BY <1>0, <2>6 DEF Timeout, AnswerKnown
    <3>2. OnePresented'
      BY <1>0, <3>1 DEF OnePresented, SlotOf
    <3> QED BY <1>2, <2>0, <3>1, <3>2 DEF AnswerKnown
  <2>7. CASE Receipt
    <3>1. /\ phase = "waiting" /\ phase' = "ticking" /\ todo' = todo /\ held' = held
          /\ outcome' = "none"
          /\ rows' = rows \ Marked(Head(work)) \/ rows' = rows
      BY <2>7 DEF Receipt
    <3>2. OnePresented'
      BY <1>0, <3>1 DEF OnePresented, SlotOf
    <3>3. AnswerKnown'
      BY <3>1 DEF AnswerKnown
    <3>4. ASSUME NEW m \in Marked(Head(work)) PROVE <<m.note, m.period>> \in spentNonces
      <4>1. /\ outcome = "success"
            /\ \E a \in Transaction(Head(work)).authority :
                 a.kind = "signed" /\ <<m.note, m.period>> = <<a.note, a.period>>
        BY <3>4 DEF Marked
      <4> QED BY <1>0, <4>1 DEF AnswerKnown, SlotOf
    <3>5. NothingStranded'
      BY <1>0, <2>0, <3>1, <3>4 DEF NothingStranded
    <3> QED BY <1>1, <3>2, <3>3, <3>5 DEF StrandInv
  <2> QED BY <1>8, <2>2, <2>3, <2>4, <2>5, <2>6, <2>7 DEF AgentStep, AgentFails
<1> QED BY <1>4, <1>5, <1>6, <1>7, <1>8 DEF AgentNext

(***************************************************************************)
(* A mandate the database has marked collected has been honoured by the    *)
(* token: nothing that times out, crashes or is lost between the send and  *)
(* the write strands one.                                                  *)
(***************************************************************************)
THEOREM MarkedWereHonoured == AgentSpec => []NothingStranded
<1>1. StrandInv => NothingStranded
  BY DEF StrandInv
<1> QED BY <1>1, StrandInit, StrandStep, PTL DEF AgentSpec

----------------------------------------------------------------------------
\* What is outstanding, and what is pulled for it.

LEMMA PeriodSumBelow ==
  ASSUME NEW f \in [Periods -> Int], NEW g \in [Periods -> Int], \A i \in Periods : f[i] <= g[i]
  PROVE  SumOf(f) <= SumOf(g)
BY PeriodCountType, SumBelow, Zenon DEF SumOf

LEMMA UnitsMonotone ==
  ASSUME NEW x \in Nat, NEW y \in Nat, x <= y
  PROVE  Units(x) <= Units(y)
<1>1. /\ Units(x) \in Nat /\ Units(y) \in Nat /\ SCALE \in Nat \ {0}
      /\ Units(x) * SCALE - x \in 0..(SCALE - 1)
      /\ Units(y) * SCALE - y \in 0..(SCALE - 1)
  BY UnitsRoundUp, MandateAssumption
<1> SUFFICES ASSUME Units(x) > Units(y) PROVE FALSE
  BY <1>1
<1> DEFINE d == Units(x) - Units(y) - 1
<1>2. d \in Nat /\ Units(x) = Units(y) + 1 + d
  BY <1>1
<1>3. Units(x) * SCALE = Units(y) * SCALE + SCALE + d * SCALE /\ d * SCALE \in Nat
  <2> HIDE DEF d
  <2>1. (Units(y) + 1 + d) * SCALE = Units(y) * SCALE + SCALE + d * SCALE
    BY <1>1, <1>2
  <2> QED BY <1>1, <1>2, <2>1
<1> HIDE DEF d
<1> QED BY <1>1, <1>3

\* The terms of outstanding(), one for each period.
Shortfalls(n) ==
  [i \in Periods |-> IF paidOf[n][i] >= PeriodDue(i) THEN 0 ELSE Units(Owed(n, i))]

LEMMA ShortfallType ==
  ASSUME TypeOK, NEW n \in NoteIds
  PROVE  /\ Shortfalls(n) \in [Periods -> Nat]
         /\ Outstanding(n) = SumOf(Shortfalls(n))
         /\ Outstanding(n) \in Nat
<1>1. ASSUME NEW i \in Periods, ~ (paidOf[n][i] >= PeriodDue(i)) PROVE Units(Owed(n, i)) \in Nat
  <2>1. Owed(n, i) \in Nat
    BY <1>1, DueIsNat DEF Owed, TypeOK
  <2> QED BY <2>1, UnitsRoundUp
<1>2. Shortfalls(n) \in [Periods -> Nat]
  BY <1>1 DEF Shortfalls
<1>3. Outstanding(n) = SumOf(Shortfalls(n))
  BY DEF Outstanding, Shortfalls
<1> QED BY <1>2, <1>3, PeriodSumType

\* Paying only ever lowers it.
LEMMA ShortfallShrinks ==
  ASSUME TypeOK, TypeOK', PaidGrows, NEW n \in NoteIds, NEW i \in Periods
  PROVE  Shortfalls(n)'[i] <= Shortfalls(n)[i]
<1>1. /\ paidOf[n][i] \in Nat /\ paidOf'[n][i] \in Nat /\ paidOf[n][i] <= paidOf'[n][i]
      /\ PeriodDue(i) \in Nat
  BY DueIsNat DEF TypeOK, PaidGrows
<1>2. /\ Shortfalls(n)[i] = IF paidOf[n][i] >= PeriodDue(i) THEN 0
                            ELSE Units(PeriodDue(i) - paidOf[n][i])
      /\ Shortfalls(n)'[i] = IF paidOf'[n][i] >= PeriodDue(i) THEN 0
                             ELSE Units(PeriodDue(i) - paidOf'[n][i])
  BY DEF Shortfalls, Owed
<1>3. CASE paidOf'[n][i] >= PeriodDue(i)
  BY <1>1, <1>2, <1>3, ShortfallType
<1>4. CASE ~ (paidOf'[n][i] >= PeriodDue(i))
  <2>1. /\ PeriodDue(i) - paidOf[n][i] \in Nat /\ PeriodDue(i) - paidOf'[n][i] \in Nat
        /\ PeriodDue(i) - paidOf'[n][i] <= PeriodDue(i) - paidOf[n][i]
        /\ ~ (paidOf[n][i] >= PeriodDue(i))
    BY <1>1, <1>4
  <2> QED BY <1>2, <1>4, <2>1, UnitsMonotone
<1> QED BY <1>3, <1>4

LEMMA OutstandingShrinks ==
  ASSUME TypeOK, TypeOK', PaidGrows, NEW n \in NoteIds
  PROVE  /\ Outstanding(n)' \in Nat /\ Outstanding(n) \in Nat
         /\ Outstanding(n)' <= Outstanding(n)
<1> DEFINE f == Shortfalls(n)
           g == Shortfalls(n)'
<1>1. f \in [Periods -> Nat] /\ Outstanding(n) = SumOf(f)
  BY ShortfallType
<1>2. g \in [Periods -> Nat] /\ Outstanding(n)' = SumOf(g)
  <2>1. ASSUME NEW i \in Periods, ~ (paidOf'[n][i] >= PeriodDue(i))
        PROVE  Units(PeriodDue(i) - paidOf'[n][i]) \in Nat
    <3>1. PeriodDue(i) - paidOf'[n][i] \in Nat
      BY <2>1, DueIsNat DEF TypeOK
    <3> QED BY <3>1, UnitsRoundUp
  <2> QED BY <2>1 DEF Shortfalls, Owed, Outstanding, SumOf
<1>3. \A i \in Periods : g[i] <= f[i]
  BY ShortfallShrinks
<1> HIDE DEF f, g
<1> QED BY <1>1, <1>2, <1>3, PeriodSumBelow, PeriodSumType

\* A scheduled pull pays its period in full.
LEMMA ScheduledPays ==
  ASSUME IndInv, NEW n \in NoteIds, NEW i \in Periods, CollectScheduled(n, i)
  PROVE  /\ paidOf'[n][i] = PeriodDue(i)
         /\ Charge(n, i) \in Nat
         /\ Charge(n, i) * SCALE - Owed(n, i) \in 0..(SCALE - 1)
         /\ Charge(n, i) <= Units(PeriodDue(i))
<1>0. TypeOK /\ PeriodDue(i) \in Nat /\ paidOf[n][i] \in Nat /\ paidOf[n][i] < PeriodDue(i)
  BY DueIsNat DEF IndInv, TypeOK, CollectScheduled, MayCollect
<1>1. Owed(n, i) \in Nat /\ Owed(n, i) <= PeriodDue(i)
  BY <1>0 DEF Owed
<1>2. /\ Charge(n, i) \in Nat
      /\ Charge(n, i) * SCALE - Owed(n, i) \in 0..(SCALE - 1)
      /\ Charge(n, i) <= Units(PeriodDue(i))
  BY <1>0, <1>1, UnitsRoundUp, UnitsMonotone DEF Charge
<1>3. Charge(n, i) * SCALE \in Nat /\ Charge(n, i) * SCALE >= Owed(n, i)
  BY <1>1, <1>2, MandateAssumption
<1> DEFINE value == Charge(n, i) * SCALE
           room  == Room(n)
           left  == Remaining(room, i, value)
<1>4. room \in [Periods -> Nat] /\ room[i] = Owed(n, i)
  <2>1. LedgersAt(n)
    BY DEF IndInv, NoteAt
  <2>2. room \in [Periods -> Nat]
    BY <1>0, <2>1, RoomIsRoom
  <2>3. room[i] = Owed(n, i)
    BY <1>0 DEF Room, Owed
  <2> QED BY <2>2, <2>3
<1>5. Repay(n, i, value)
  BY Zenon DEF CollectScheduled, RepayNote
<1>6. paidOf' = [paidOf EXCEPT ![n] = [j \in Periods |-> paidOf[n][j] + Credits(room, i, value)[j]]]
  BY <1>5, Zenon DEF Repay
<1> HIDE DEF value, room
<1>7. Cascades(left, room, i, value)
  BY <1>3, <1>4, RemainingFollows DEF value
<1>8. left[i] = value
  BY <1>7, PeriodCountType DEF Cascades
<1>9. Credits(room, i, value)[i] = Owed(n, i)
  <2>1. Credits(room, i, value)[i] = IF i < i THEN 0 ELSE Taken(left[i], room[i])
    BY Zenon DEF Credits
  <2>2. ~ (i < i) /\ value >= Owed(n, i) /\ value \in Nat
    BY <1>3, PeriodCountType DEF value
  <2> HIDE DEF left
  <2> QED BY <1>1, <1>4, <1>8, <2>1, <2>2 DEF Taken
<1>10. paidOf'[n][i] = paidOf[n][i] + Owed(n, i)
  BY <1>0, <1>6, <1>9 DEF TypeOK
<1> QED BY <1>0, <1>2, <1>10 DEF Owed

\* It lowers what is outstanding by what it takes from the allowance.
LEMMA OutstandingPulled ==
  ASSUME IndInv, NEW n \in NoteIds, NEW i \in Periods, CollectScheduled(n, i)
  PROVE  Outstanding(n)' <= Outstanding(n) - Charge(n, i)
<1>1. TypeOK /\ TypeOK' /\ PaidGrows
  BY ScheduledKept DEF IndInv
<1>2. paidOf'[n][i] = PeriodDue(i) /\ Charge(n, i) \in Nat /\ PeriodDue(i) \in Nat
      /\ paidOf[n][i] \in Nat /\ paidOf[n][i] < PeriodDue(i)
  BY <1>1, ScheduledPays, DueIsNat DEF CollectScheduled, MayCollect, TypeOK
<1> DEFINE f == Shortfalls(n)
           g == Shortfalls(n)'
           h == [f EXCEPT ![i] = 0]
<1>3. f \in [Periods -> Nat] /\ Outstanding(n) = SumOf(f)
  BY <1>1, ShortfallType
<1>4. g \in [Periods -> Int] /\ Outstanding(n)' = SumOf(g)
  <2>1. ASSUME NEW j \in Periods, ~ (paidOf'[n][j] >= PeriodDue(j))
        PROVE  Units(PeriodDue(j) - paidOf'[n][j]) \in Nat
    <3>1. PeriodDue(j) - paidOf'[n][j] \in Nat
      BY <1>1, <2>1, DueIsNat DEF TypeOK
    <3> QED BY <3>1, UnitsRoundUp
  <2> QED BY <2>1 DEF Shortfalls, Owed, Outstanding, SumOf
<1>5. f[i] = Charge(n, i)
  BY <1>2 DEF Shortfalls, Charge
<1>6. g[i] = 0
  BY <1>2 DEF Shortfalls
<1>7. \A j \in Periods : g[j] <= f[j]
  BY <1>1, ShortfallShrinks
<1> HIDE DEF f, g
<1>8. SumOf(h) = SumOf(f) + (0 - Charge(n, i))
  <2>1. h \in [Periods -> Int] /\ h[i] = f[i] + (0 - Charge(n, i)) /\ 0 - Charge(n, i) \in Int
        /\ \A j \in Periods : j # i => h[j] = f[j]
    BY <1>2, <1>3, <1>5
  <2> HIDE DEF h
  <2> QED BY <1>3, <2>1, PeriodSumBump
<1>9. SumOf(g) <= SumOf(h)
  <2>1. h \in [Periods -> Int] /\ \A j \in Periods : g[j] <= h[j]
    BY <1>3, <1>6, <1>7
  <2> HIDE DEF h
  <2> QED BY <1>4, <2>1, PeriodSumBelow
<1>10. SumOf(f) \in Nat
  BY <1>3, PeriodSumType
<1> QED BY <1>2, <1>3, <1>4, <1>8, <1>9, <1>10

----------------------------------------------------------------------------
\* The groups of the page.

Earlier(open, i) == {j \in open : j < i}

\* There is a period with exactly r others before it, for every r there can be.
LEMMA RankReached ==
  ASSUME NEW open \in SUBSET Periods, NEW r \in Nat, r < Cardinality(open)
  PROVE  \E i \in open : Cardinality(Earlier(open, i)) = r
<1>0. \A S \in SUBSET open : IsFiniteSet(S) /\ Cardinality(S) \in Nat /\ (Cardinality(S) = 0 <=> S = {})
  BY PeriodSets
<1>1. open \in SUBSET Nat
  BY TermsAssumption DEF Periods
<1> DEFINE T == {k \in Nat : k < Cardinality(open) =>
                               \E i \in open : Cardinality(Earlier(open, i)) = k}
<1>2. 0 \in T
  <2> SUFFICES ASSUME 0 < Cardinality(open)
               PROVE  \E i \in open : Cardinality(Earlier(open, i)) = 0
    OBVIOUS
  <2>1. open # {}
    BY <1>0
  <2>2. PICK i \in open : \A j \in open : i <= j
    BY <1>1, <2>1, LeastElement
  <2>3. \A j \in open : ~ (j < i)
    BY <1>1, <2>2
  <2>4. Earlier(open, i) = {}
    BY <2>3 DEF Earlier
  <2> QED BY <1>0, <2>4
<1>3. ASSUME NEW k \in Nat, k \in T PROVE k + 1 \in T
  <2> SUFFICES ASSUME k + 1 < Cardinality(open)
               PROVE  \E i \in open : Cardinality(Earlier(open, i)) = k + 1
    OBVIOUS
  <2>1. Cardinality(open) \in Nat
    BY <1>0
  <2>2. PICK i \in open : Cardinality(Earlier(open, i)) = k
    BY <1>3, <2>1
  <2> DEFINE upTo  == Earlier(open, i) \cup {i}
             after == {j \in open : j > i}
  <2>3. /\ Earlier(open, i) \in SUBSET open /\ upTo \in SUBSET open /\ after \in SUBSET open
        /\ i \notin Earlier(open, i)
    BY <1>1 DEF Earlier
  <2>4. Cardinality(upTo) = k + 1
    BY <1>0, <2>2, <2>3, FS_AddElement
  <2>5. after # {}
    <3> SUFFICES ASSUME after = {} PROVE FALSE
      OBVIOUS
    <3>1. open \subseteq upTo
      BY <1>1 DEF Earlier
    <3>2. open = upTo
      BY <2>3, <3>1
    <3> QED BY <2>1, <2>4, <3>2
  <2>6. PICK m \in after : \A j \in after : m <= j
    <3>1. after \in SUBSET Nat
      BY <1>1
    <3> QED BY <2>5, <3>1, LeastElement
  <2>7. Earlier(open, m) = upTo
    <3>1. ASSUME NEW j \in Earlier(open, m) PROVE j \in upTo
      <4>1. j \in open /\ j < m /\ ~ (j > i)
        BY <1>1, <2>6, <3>1 DEF Earlier
      <4> QED BY <1>1, <4>1 DEF Earlier
    <3>2. ASSUME NEW j \in upTo PROVE j \in Earlier(open, m)
      BY <1>1, <2>6, <3>2 DEF Earlier
    <3> QED BY <3>1, <3>2
  <2> HIDE DEF upTo
  <2> QED BY <2>4, <2>6, <2>7
<1>4. Nat \subseteq T
  <2> HIDE DEF T
  <2> QED BY <1>2, <1>3, SetInduction
<1> QED BY <1>4

\* No group of the page is empty.
LEMMA BatchFilled ==
  ASSUME NEW open \in SUBSET Periods, NEW size \in Nat \ {0},
         NEW k \in 1..CeilDiv(Cardinality(open), size)
  PROVE  Batch(open, size, k) # {}
<1> DEFINE c == Cardinality(open)
           q == CeilDiv(c, size)
           r == (k - 1) * size
<1>1. c \in Nat
  BY PeriodSets
<1> HIDE DEF c
<1>2. q \in Nat /\ q * size <= c + size - 1
  BY <1>1 DEF CeilDiv
<1>3. k \in 1..q
  BY DEF c
<1> HIDE DEF q
<1>4. r \in Nat /\ r < c /\ r \div size = k - 1
  <2>1. k - 1 \in Nat /\ q - k \in Nat
    BY <1>2, <1>3
  <2>2. (q - k) * size \in Nat /\ r \in Nat
    BY <2>1
  <2>3. q * size = r + size + (q - k) * size
    <3>1. q = (k - 1) + 1 + (q - k)
      BY <1>2, <1>3
    <3>2. ((k - 1) + 1 + (q - k)) * size = (k - 1) * size + size + (q - k) * size
      BY <1>2, <1>3
    <3> QED BY <3>1, <3>2
  <2>4. r < c
    BY <1>1, <1>2, <2>2, <2>3
  <2>5. r \div size = k - 1
    BY <2>1
  <2> QED BY <2>2, <2>4, <2>5
<1>5. PICK i \in open : Cardinality(Earlier(open, i)) = r
  BY <1>4, RankReached DEF c
<1>6. i \in Batch(open, size, k)
  BY <1>4, <1>5 DEF Batch, Earlier
<1> QED BY <1>6

Group == [anchor : Periods, covers : SUBSET Periods]

LEMMA GroupsType ==
  ASSUME NEW open \in SUBSET Periods, NEW size \in sizeOptions(Cardinality(open))
  PROVE  /\ groupPeriods(open, size) \in Seq(Group)
         /\ Len(groupPeriods(open, size)) > 0
<1> DEFINE q == CeilDiv(Cardinality(open), size)
           B(k) == Batch(open, size, k)
<1>1. Cardinality(open) \in Nat /\ size \in 1..Cardinality(open)
  BY PeriodSets DEF sizeOptions
<1>2. q \in Nat /\ q > 0
  BY <1>1 DEF CeilDiv
<1>3. ASSUME NEW k \in 1..q
      PROVE  /\ B(k) \in SUBSET Periods
             /\ (CHOOSE i \in B(k) : \A j \in B(k) : i <= j) \in Periods
  <2>1. B(k) \in SUBSET Periods /\ B(k) \in SUBSET Nat
    <3>1. B(k) \subseteq open
      BY Zenon DEF Batch
    <3>2. Periods \subseteq Nat
      BY TermsAssumption DEF Periods
    <3> HIDE DEF B
    <3> QED BY <3>1, <3>2
  <2>2. B(k) # {}
    BY <1>1, <1>3, BatchFilled
  <2> HIDE DEF B
  <2>3. \E i \in B(k) : \A j \in B(k) : i <= j
    BY <2>1, <2>2, LeastElement
  <2> QED BY <2>1, <2>3
<1>4. groupPeriods(open, size) =
        [k \in 1..q |-> [anchor |-> CHOOSE i \in B(k) : \A j \in B(k) : i <= j, covers |-> B(k)]]
  BY Zenon DEF groupPeriods
<1> HIDE DEF q, B
<1>5. groupPeriods(open, size) \in [1..q -> Group]
  BY <1>3, <1>4 DEF Group
<1> HIDE DEF groupPeriods
<1> QED BY <1>2, <1>5, IsASeq, LenProperties

LEMMA MandateType ==
  ASSUME NEW n \in NoteIds, NEW group \in Group
  PROVE  MandateFor(n, group) \in Mandate
<1>1. group.anchor \in Periods /\ group.covers \in SUBSET Periods
  BY DEF Group
<1>2. DueOf(group.covers) \in Nat
  <2>1. [i \in Periods |-> IF i \in group.covers THEN PeriodDue(i) ELSE 0] \in [Periods -> Nat]
    BY DueIsNat
  <2> QED BY <2>1, PeriodSumType DEF DueOf
<1>3. Units(DueOf(group.covers)) \in Nat /\ PeriodEnd(group.anchor) \in Nat
  BY <1>1, <1>2, UnitsRoundUp, FirstPeriodEndsFirst
<1> QED BY <1>1, <1>3, TermsAssumption DEF MandateFor, Mandate

----------------------------------------------------------------------------
\* Lodging.  What the properties rest on.

\* The mandates the borrower has signed.
Agreed == {m \in Mandate : m \in signed}

\* What has been drawn cannot be drawn again.
DrawnOnce ==
  \A s \in Slots : /\ drawn[s] > 0 => s \in spentNonces
                   /\ drawnStanding[s] > 0 => s \in collected

ChainInv ==
  /\ IndInv
  /\ allowance \in [Borrowers -> Nat]
  /\ drawn \in [Slots -> Nat]
  /\ drawnStanding \in [Slots -> Nat]
  /\ DrawnOnce

\* A permit names no period.
MandatesAgreed == SignedMandates \subseteq Mandate

\* The page holds groups it has not signed for, the route a mandate it has.
PageInv ==
  /\ page # Idle => /\ page.note \in NoteIds
                    /\ page.groups \in Seq(Group)
                    /\ page.done \in Nat /\ page.done < Len(page.groups)
  /\ posting # None => posting \in Agreed /\ page # Idle

\* A permit is for all that was outstanding, and so for all that is.
PermitEnough ==
  permit # None => /\ permit.note \in NoteIds /\ permit.value \in Nat
                   /\ \A n \in NoteIds : n = permit.note => Outstanding(n) <= permit.value

RowsAreSigned ==
  /\ lodged \in [Slots -> [mandate : Mandate, collected : BOOLEAN] \cup {None}]
  /\ \A s \in Slots :
       lodged[s] # None => /\ lodged[s].mandate \in Agreed
                           /\ SlotOf(lodged[s].mandate) = s
                           /\ lodged[s].collected => s \in spentNonces

\* Rows are never deleted: those the agent has read are there.
SweepHoldsRows ==
  /\ sweep.left \subseteq Agreed
  /\ \A m \in sweep.left : lodged[SlotOf(m)] # None
  /\ sweep.mined # None => /\ sweep.mined \in Mandate
                           /\ SlotOf(sweep.mined) \in spentNonces
                           /\ lodged[SlotOf(sweep.mined)] # None

LodgingInv ==
  ChainInv /\ MandatesAgreed /\ PageInv /\ PermitEnough /\ RowsAreSigned /\ SweepHoldsRows

LEMMA MandateSlot ==
  ASSUME NEW m \in Mandate
  PROVE  /\ SlotOf(m) \in Slots /\ SlotOf(m) = <<m.note, m.period>>
         /\ m.note \in NoteIds /\ m.period \in Periods /\ m.value \in Nat
BY DEF Mandate, Slots, SlotOf

----------------------------------------------------------------------------
\* The chain's steps.

\* What every step of the chain's does for the rest.
Forward ==
  /\ ChainInv'
  /\ PaidGrows
  /\ spentNonces \subseteq spentNonces'

LEMMA ServicingForward ==
  ASSUME ChainInv, [Next]_vars,
         UNCHANGED <<allowance, collected, spentNonces, drawn, drawnStanding>>
  PROVE  Forward
<1>1. IndInv' /\ PaidGrows
  BY IndInvStep, PaymentsGrow DEF ChainInv
<1> QED BY <1>1 DEF ChainInv, DrawnOnce, Forward

LEMMA AuthorizeForward ==
  ASSUME ChainInv, NEW n \in NoteIds, NEW value \in Nat, Authorize(n, value)
  PROVE  Forward /\ allowance'[BorrowerOf[n]] = value
<1>1. /\ allowance' = [allowance EXCEPT ![BorrowerOf[n]] = value] /\ UNCHANGED vars
      /\ UNCHANGED <<collected, spentNonces, drawn, drawnStanding>>
      /\ BorrowerOf[n] \in Borrowers
  BY MandateAssumption DEF Authorize
<1>2. IndInv' /\ PaidGrows
  BY <1>1, IndInvStep, PaymentsGrow DEF ChainInv
<1> QED BY <1>1, <1>2 DEF ChainInv, DrawnOnce, Forward

\* A mandate collected is drawn for the first time, and inside its window.
LEMMA CollectForward ==
  ASSUME ChainInv, NEW m \in Mandate, Collect(m)
  PROVE  /\ Forward /\ SlotOf(m) \in spentNonces' /\ allowance' = allowance
         /\ drawnStanding' = drawnStanding
         /\ now > m.validAfter /\ now < m.validBefore
         /\ drawn[SlotOf(m)] = 0 /\ drawn'[SlotOf(m)] = m.value
         /\ \A s \in Slots : s # SlotOf(m) => drawn'[s] = drawn[s]
<1> DEFINE k == SlotOf(m)
<1>1. k \in Slots /\ k = <<m.note, m.period>>
      /\ m.note \in NoteIds /\ m.period \in Periods /\ m.value \in Nat
  BY MandateSlot
<1>2. IndInv' /\ PaidGrows
  BY <1>1, CollectKept DEF ChainInv
<1>3. /\ spentNonces' = spentNonces \cup {k} /\ k \notin spentNonces
      /\ drawn' = [drawn EXCEPT ![k] = @ + m.value]
      /\ now > m.validAfter /\ now < m.validBefore
      /\ UNCHANGED <<allowance, collected, drawnStanding>>
  BY <1>1, Zenon DEF Collect, Honoured
<1> HIDE DEF k
<1>4. drawn[k] = 0 /\ drawn \in [Slots -> Nat]
  <2>1. ~ (drawn[k] > 0) /\ drawn[k] \in Nat
    BY <1>1, <1>3 DEF ChainInv, DrawnOnce
  <2> QED BY <2>1 DEF ChainInv
<1>5. drawn'[k] = m.value /\ \A s \in Slots : s # k => drawn'[s] = drawn[s]
  BY <1>1, <1>3, <1>4
<1>6. drawn' \in [Slots -> Nat]
  BY <1>1, <1>3, <1>4
<1>7. DrawnOnce'
  BY <1>3, <1>5 DEF ChainInv, DrawnOnce
<1> QED BY <1>2, <1>3, <1>4, <1>5, <1>6, <1>7 DEF ChainInv, Forward, k

LEMMA ScheduledForward ==
  ASSUME ChainInv, NEW n \in NoteIds, NEW i \in Periods, CollectScheduled(n, i)
  PROVE  /\ Forward
         /\ allowance'[BorrowerOf[n]] = allowance[BorrowerOf[n]] - Charge(n, i)
         /\ drawnStanding'[<<n, i>>] = drawnStanding[<<n, i>>] + Charge(n, i)
         /\ \A b \in Borrowers : b # BorrowerOf[n] => allowance'[b] = allowance[b]
         /\ \A s \in Slots : s # <<n, i>> => drawnStanding'[s] = drawnStanding[s]
         /\ drawn' = drawn /\ drawnStanding[<<n, i>>] = 0
         /\ now >= PeriodEnd(i) /\ Charge(n, i) \in Nat /\ Charge(n, i) <= Units(PeriodDue(i))
<1> DEFINE k == <<n, i>>
           units == Charge(n, i)
           b == BorrowerOf[n]
<1>1. IndInv /\ IndInv' /\ PaidGrows /\ now' = now /\ k \in Slots /\ b \in Borrowers
  BY ScheduledKept, MandateAssumption DEF ChainInv, Slots
<1>2. units \in Nat /\ units <= Units(PeriodDue(i)) /\ Units(PeriodDue(i)) \in Nat
  BY <1>1, ScheduledPays, DueIsNat, UnitsRoundUp
<1>3. /\ k \notin collected /\ now >= PeriodEnd(i) /\ allowance[b] >= units
      /\ collected' = collected \cup {k}
      /\ allowance' = [allowance EXCEPT ![b] = @ - units]
      /\ drawnStanding' = [drawnStanding EXCEPT ![k] = @ + units]
      /\ UNCHANGED <<spentNonces, drawn>>
  BY Zenon DEF CollectScheduled, MayCollect
<1> HIDE DEF k, units, b
<1>4. drawnStanding \in [Slots -> Nat] /\ allowance \in [Borrowers -> Nat]
  BY DEF ChainInv
<1>5. drawnStanding[k] = 0
  <2>1. ~ (drawnStanding[k] > 0) /\ drawnStanding[k] \in Nat
    BY <1>1, <1>3, <1>4 DEF ChainInv, DrawnOnce
  <2> QED BY <2>1
<1>6. /\ drawnStanding'[k] = drawnStanding[k] + units /\ drawnStanding'[k] = units
      /\ \A s \in Slots : s # k => drawnStanding'[s] = drawnStanding[s]
      /\ drawnStanding' \in [Slots -> Nat]
  BY <1>1, <1>2, <1>3, <1>4, <1>5
<1>7. /\ allowance'[b] = allowance[b] - units
      /\ \A c \in Borrowers : c # b => allowance'[c] = allowance[c]
      /\ allowance' \in [Borrowers -> Nat]
  BY <1>1, <1>2, <1>3, <1>4
<1>8. DrawnOnce'
  BY <1>1, <1>3, <1>6 DEF ChainInv, DrawnOnce
<1>9. ChainInv' /\ spentNonces \subseteq spentNonces'
  BY <1>1, <1>3, <1>6, <1>7, <1>8 DEF ChainInv
<1> QED BY <1>1, <1>2, <1>3, <1>5, <1>6, <1>7, <1>9 DEF Forward, k, units, b

----------------------------------------------------------------------------
\* The page, the route and the sweep.

LEMMA PermitKept ==
  ASSUME ChainInv, Forward, PermitEnough, permit' = permit
  PROVE  PermitEnough'
<1> SUFFICES ASSUME permit # None, NEW n \in NoteIds, n = permit.note
             PROVE  Outstanding(n)' <= permit.value
  BY DEF PermitEnough
<1>1. permit.value \in Nat /\ Outstanding(n) <= permit.value
  BY DEF PermitEnough
<1>2. TypeOK /\ TypeOK' /\ PaidGrows
  BY DEF ChainInv, Forward, IndInv
<1>3. Outstanding(n)' <= Outstanding(n) /\ Outstanding(n) \in Nat /\ Outstanding(n)' \in Nat
  BY <1>2, OutstandingShrinks
<1> QED BY <1>1, <1>3

\* A step of the chain's leaves the page, the route and the table alone.
LEMMA PageKept ==
  ASSUME LodgingInv, Forward, UNCHANGED <<lodged, page, posting, permit, signed>>,
         SweepHoldsRows'
  PROVE  LodgingInv'
<1>1. PageInv'
  BY DEF LodgingInv, PageInv, Agreed
<1>2. PermitEnough'
  BY PermitKept DEF LodgingInv
<1>3. RowsAreSigned' /\ MandatesAgreed'
  BY DEF LodgingInv, RowsAreSigned, MandatesAgreed, SignedMandates, Agreed, Forward, SlotOf
<1> QED BY <1>1, <1>2, <1>3 DEF LodgingInv, Forward

LEMMA LodgingInitially == LodgingInit => LodgingInv
<1> SUFFICES ASSUME LodgingInit PROVE LodgingInv
  OBVIOUS
<1>1. IndInv
  BY IndInvInit DEF LodgingInit, MandateInit
<1>2. ChainInv
  BY <1>1 DEF LodgingInit, MandateInit, ChainInv, DrawnOnce
<1>3. PageInv /\ PermitEnough /\ MandatesAgreed
  BY DEF LodgingInit, PageInv, PermitEnough, MandatesAgreed, SignedMandates
<1>4. RowsAreSigned /\ SweepHoldsRows
  BY DEF LodgingInit, RowsAreSigned, SweepHoldsRows, Resting, Sweep
<1> QED BY <1>2, <1>3, <1>4 DEF LodgingInv

\* A step that leaves the chain alone.
LEMMA ChainKept ==
  ASSUME ChainInv, UNCHANGED allVars
  PROVE  Forward
BY ServicingForward DEF allVars, mandateVars

LEMMA LodgingStep == LodgingInv /\ [LodgingNext]_lodgingVars => LodgingInv'
<1> SUFFICES ASSUME LodgingInv, [LodgingNext]_lodgingVars PROVE LodgingInv'
  OBVIOUS
<1>0. /\ ChainInv /\ PageInv /\ PermitEnough /\ RowsAreSigned /\ SweepHoldsRows
      /\ MandatesAgreed /\ IndInv /\ TypeOK
      /\ signed' = signed => MandatesAgreed'
  BY DEF LodgingInv, ChainInv, IndInv, MandatesAgreed, SignedMandates
<1>1. ASSUME Forward, UNCHANGED pageVars PROVE LodgingInv'
  <2>1. SweepHoldsRows'
    BY <1>0, <1>1 DEF SweepHoldsRows, Agreed, SlotOf, pageVars, Forward
  <2> QED BY <1>1, <2>1, PageKept DEF pageVars
<1>2. CASE UNCHANGED lodgingVars
  BY <1>0, <1>1, <1>2, ChainKept DEF lodgingVars, pageVars
<1>3. CASE OnChain
  <2>1. CASE Serviced
    <3>1. UNCHANGED mandateVars /\ Next
      BY <2>1 DEF Serviced, Next
    <3> QED BY <1>0, <1>1, <1>3, <3>1, ServicingForward DEF OnChain, mandateVars, pageVars
  <2>2. ASSUME NEW n \in NoteIds, NEW i \in Periods, CollectScheduled(n, i) PROVE LodgingInv'
    BY <1>0, <1>1, <1>3, <2>2, ScheduledForward DEF OnChain, pageVars
  <2>3. ASSUME NEW b \in Borrowers, NEW amount \in Spendings, Spend(b, amount) PROVE LodgingInv'
    BY <1>0, <1>1, <1>3, <2>3, ServicingForward DEF OnChain, pageVars, Spend
  <2>4. ASSUME NEW m \in SignedMandates, Collect(m) PROVE LodgingInv'
    <3>1. PICK a \in Mandate : a = m
      BY <1>0, <2>4 DEF MandatesAgreed
    <3>2. Forward
      BY <1>0, <2>4, <3>1, CollectForward
    <3> QED BY <1>1, <1>3, <3>2 DEF OnChain
  <2> QED BY <1>3, <2>1, <2>2, <2>3, <2>4 DEF OnChain
<1>4. ASSUME NEW n \in NoteIds, SignPermit(n) PROVE LodgingInv'
  <2>1. /\ permit' = [note |-> n, value |-> Outstanding(n)] /\ signed' = signed \cup {permit'}
        /\ UNCHANGED <<allVars, lodged, page, posting, sweep>>
    BY <1>4 DEF SignPermit, Sign
  <2>2. Forward /\ Agreed \subseteq Agreed'
    BY <1>0, <2>1, ChainKept DEF Agreed
  <2>3. Outstanding(n)' <= Outstanding(n) /\ Outstanding(n) \in Nat
    BY <1>0, <2>2, OutstandingShrinks DEF Forward, ChainInv, IndInv
  <2>4. PermitEnough'
    BY <2>1, <2>3 DEF PermitEnough
  <2>5. PageInv' /\ RowsAreSigned' /\ SweepHoldsRows'
    BY <1>0, <2>1, <2>2 DEF PageInv, RowsAreSigned, SweepHoldsRows, SlotOf, Forward
  <2>6. MandatesAgreed'
    BY <1>0, <2>1 DEF MandatesAgreed, SignedMandates
  <2> QED BY <2>2, <2>4, <2>5, <2>6 DEF LodgingInv, Forward
<1>5. ASSUME NEW n \in NoteIds, NEW size \in 1..PeriodCount, NEW seen \in SUBSET Periods,
             Authorise(n, size, seen)
      PROVE  LodgingInv'
  <2> DEFINE open == OpenPeriods(n, seen)
  <2>1. /\ page = Idle /\ size \in sizeOptions(Cardinality(open))
        /\ page' = Page(n, groupPeriods(open, size), 0)
        /\ UNCHANGED <<allVars, lodged, posting, permit, sweep, signed>>
    BY <1>5 DEF Authorise
  <2>2. Forward
    BY <1>0, <2>1, ChainKept
  <2>3. open \in SUBSET Periods
    BY DEF OpenPeriods
  <2>4. PICK o \in SUBSET Periods : o = open
    BY <2>3
  <2>5. groupPeriods(o, size) \in Seq(Group) /\ Len(groupPeriods(o, size)) > 0
    BY <2>1, <2>4, GroupsType
  <2> HIDE DEF open
  <2>6. /\ page'.note \in NoteIds /\ page'.groups \in Seq(Group)
        /\ page'.done \in Nat /\ page'.done < Len(page'.groups)
    BY <2>1, <2>4, <2>5 DEF Page
  <2>7. PageInv'
    BY <1>0, <2>1, <2>6 DEF PageInv
  <2>8. PermitEnough'
    BY <1>0, <2>1, <2>2, PermitKept
  <2>9. RowsAreSigned' /\ SweepHoldsRows'
    BY <1>0, <2>1, <2>2 DEF RowsAreSigned, SweepHoldsRows, SlotOf, Forward, Agreed
  <2> QED BY <1>0, <2>1, <2>2, <2>7, <2>8, <2>9 DEF LodgingInv, Forward
<1>6. CASE SignGroup
  <2> DEFINE m == MandateFor(page.note, page.groups[page.done + 1])
  <2>1. /\ page # Idle /\ posting = None
        /\ \/ signed' = signed \cup {m} /\ posting' = m /\ page' = page
           \/ /\ page' = Idle /\ posting' = posting
              /\ signed' = signed \/ signed' = signed \cup {m}
        /\ UNCHANGED <<allVars, lodged, permit, sweep>>
    BY <1>6 DEF SignGroup, Sign, Fail
  <2>2. Forward /\ Agreed \subseteq Agreed'
    BY <1>0, <2>1, ChainKept DEF Agreed
  <2>3. m \in Mandate
    <3>1. page.note \in NoteIds /\ page.groups \in Seq(Group) /\ page.done + 1 \in 1..Len(page.groups)
      <4>1. page.note \in NoteIds /\ page.groups \in Seq(Group) /\ page.done \in Nat
            /\ page.done < Len(page.groups)
        BY <1>0, <2>1 DEF PageInv
      <4>2. Len(page.groups) \in Nat
        BY <4>1, LenProperties
      <4> QED BY <4>1, <4>2
    <3>2. page.groups[page.done + 1] \in Group
      BY <3>1, ElementOfSeq
    <3>3. \A n \in NoteIds, group \in Group : MandateFor(n, group) \in Mandate
      BY MandateType
    <3> QED BY <3>1, <3>2, <3>3
  <2> HIDE DEF m
  <2>4. PageInv'
    BY <1>0, <2>1, <2>3 DEF PageInv, Agreed
  <2>5. PermitEnough'
    BY <1>0, <2>1, <2>2, PermitKept
  <2>6. RowsAreSigned' /\ SweepHoldsRows'
    BY <1>0, <2>1, <2>2 DEF RowsAreSigned, SweepHoldsRows, SlotOf, Forward
  <2>7. MandatesAgreed'
    BY <1>0, <2>1, <2>3 DEF MandatesAgreed, SignedMandates
  <2> QED BY <2>2, <2>4, <2>5, <2>6, <2>7 DEF LodgingInv, Forward
<1>7. CASE Post
  <2> DEFINE s == SlotOf(posting)
  <2>1. /\ posting # None /\ posting' = None
        /\ lodged' = [lodged EXCEPT ![s] = Row(posting, IF lodged[s] = None THEN FALSE
                                                       ELSE lodged[s].collected)]
        /\ page' = IF page.done + 1 = Len(page.groups) THEN Idle
                   ELSE Page(page.note, page.groups, page.done + 1)
        /\ UNCHANGED <<allVars, permit, sweep, signed>>
    BY <1>7 DEF Post, Upsert, SlotOf
  <2>2. Forward /\ Agreed' = Agreed
    BY <1>0, <2>1, ChainKept DEF Agreed
  <2>3. posting \in Agreed /\ posting \in Mandate /\ s \in Slots /\ page # Idle
    BY <1>0, <2>1, MandateSlot DEF PageInv, Agreed
  <2>4. PageInv'
    <3>1. page.note \in NoteIds /\ page.groups \in Seq(Group) /\ page.done \in Nat
          /\ page.done < Len(page.groups)
      BY <1>0, <2>3 DEF PageInv
    <3>2. Len(page.groups) \in Nat
      BY <3>1, LenProperties
    <3> QED BY <2>1, <3>1, <3>2 DEF PageInv, Page
  <2>5. PermitEnough'
    BY <1>0, <2>1, <2>2, PermitKept
  <2> HIDE DEF s
  <2>6. /\ lodged' \in [Slots -> [mandate : Mandate, collected : BOOLEAN] \cup {None}]
        /\ \A t \in Slots : t # s => lodged'[t] = lodged[t]
        /\ lodged'[s] # None /\ lodged'[s].mandate = posting
        /\ lodged'[s].collected => lodged[s] # None /\ lodged[s].collected
    <3>1. Row(posting, IF lodged[s] = None THEN FALSE ELSE lodged[s].collected)
            \in [mandate : Mandate, collected : BOOLEAN]
      <4>1. lodged[s] # None => lodged[s].collected \in BOOLEAN
        BY <1>0, <2>3 DEF RowsAreSigned
      <4> QED BY <2>3, <4>1 DEF Row
    <3>2. lodged'[s] = Row(posting, IF lodged[s] = None THEN FALSE ELSE lodged[s].collected)
      BY <1>0, <2>1, <2>3 DEF RowsAreSigned
    <3> QED BY <1>0, <2>1, <2>3, <3>1, <3>2, LodgingAssumption DEF RowsAreSigned, Row
  <2>7. RowsAreSigned'
    BY <1>0, <2>1, <2>2, <2>3, <2>6 DEF RowsAreSigned, SlotOf, Forward, s
  <2>8. SweepHoldsRows'
    BY <1>0, <2>1, <2>2, <2>3, <2>6, MandateSlot DEF SweepHoldsRows, SlotOf, Forward, Agreed
  <2> QED BY <1>0, <2>1, <2>2, <2>4, <2>5, <2>7, <2>8 DEF LodgingInv, Forward
<1>8. CASE AuthorizeOnce
  <2>1. /\ permit # None /\ permit' = None
        /\ Authorize(permit.note, permit.value)
        /\ UNCHANGED <<lodged, page, posting, sweep, signed>>
    BY <1>8 DEF AuthorizeOnce
  <2>2. Forward
    BY <1>0, <2>1, AuthorizeForward DEF PermitEnough
  <2>3. PermitEnough' /\ PageInv' /\ RowsAreSigned' /\ SweepHoldsRows'
    BY <1>0, <2>1, <2>2 DEF PermitEnough, PageInv, RowsAreSigned, SweepHoldsRows, SlotOf, Agreed, Forward
  <2> QED BY <1>0, <2>1, <2>2, <2>3 DEF LodgingInv, Forward
<1>9. CASE ReadRows
  <2>1. /\ sweep' = Sweep({lodged[s].mandate : s \in {t \in Slots : Collectable(t)}}, None)
        /\ UNCHANGED <<allVars, lodged, page, posting, permit, signed>>
    BY <1>9 DEF ReadRows
  <2>2. Forward
    BY <1>0, <2>1, ChainKept
  <2>3. ASSUME NEW m \in sweep'.left PROVE m \in Agreed /\ lodged[SlotOf(m)] # None
    <3>1. PICK s \in Slots : Collectable(s) /\ m = lodged[s].mandate
      BY <2>1, <2>3 DEF Sweep
    <3>2. lodged[s] # None
      BY <3>1 DEF Collectable
    <3> QED BY <1>0, <3>1, <3>2 DEF RowsAreSigned
  <2>4. sweep'.mined = None
    BY <2>1 DEF Sweep
  <2>5. SweepHoldsRows'
    BY <2>1, <2>3, <2>4 DEF SweepHoldsRows, Agreed, SlotOf
  <2> QED BY <2>1, <2>2, <2>5, PageKept
<1>10. CASE CollectNext
  <2>1. PICK m \in sweep.left :
          /\ \/ Collect(m) /\ sweep' = Sweep(sweep.left \ {m}, m)
             \/ sweep' = Sweep(sweep.left \ {m}, None) /\ UNCHANGED allVars
          /\ UNCHANGED <<lodged, page, posting, permit, signed>>
    BY <1>10 DEF CollectNext
  <2>2. m \in Agreed /\ m \in Mandate /\ lodged[SlotOf(m)] # None
    BY <1>0 DEF SweepHoldsRows, Agreed
  <2>3. CASE Collect(m) /\ sweep' = Sweep(sweep.left \ {m}, m)
    <3>1. PICK a \in Mandate : a = m
      BY <2>2
    <3>2. Forward /\ SlotOf(a) \in spentNonces'
      BY <1>0, <2>3, <3>1, CollectForward
    <3>3. Forward /\ SlotOf(m) \in spentNonces'
      BY <3>1, <3>2
    <3>4. SweepHoldsRows'
      BY <1>0, <2>1, <2>2, <2>3, <3>3 DEF SweepHoldsRows, Agreed, SlotOf, Sweep
    <3> QED BY <2>1, <3>3, <3>4, PageKept
  <2>4. CASE sweep' = Sweep(sweep.left \ {m}, None) /\ UNCHANGED allVars
    <3>1. Forward
      BY <1>0, <2>1, <2>4, ChainKept
    <3>2. SweepHoldsRows'
      BY <1>0, <2>1, <2>4 DEF SweepHoldsRows, Agreed, SlotOf, Sweep
    <3> QED BY <2>1, <3>1, <3>2, PageKept
  <2> QED BY <2>1, <2>3, <2>4
<1>11. CASE MarkRow
  <2> DEFINE s == SlotOf(sweep.mined)
  <2>1. /\ sweep.mined # None
        /\ lodged' = [lodged EXCEPT ![s] = Row(@.mandate, TRUE)]
        /\ sweep' = Sweep(sweep.left, None)
        /\ UNCHANGED <<allVars, page, posting, permit, signed>>
    BY <1>11 DEF MarkRow, SlotOf
  <2>2. s \in Slots /\ s \in spentNonces /\ lodged[s] # None
    BY <1>0, <2>1, MandateSlot DEF SweepHoldsRows
  <2>3. Forward /\ Agreed' = Agreed
    BY <1>0, <2>1, ChainKept DEF Agreed
  <2> HIDE DEF s
  <2>4. /\ lodged' \in [Slots -> [mandate : Mandate, collected : BOOLEAN] \cup {None}]
        /\ \A t \in Slots : t # s => lodged'[t] = lodged[t]
        /\ lodged'[s] # None /\ lodged'[s].mandate = lodged[s].mandate
    <3>1. lodged[s].mandate \in Mandate
      BY <1>0, <2>2 DEF RowsAreSigned, Agreed
    <3>2. lodged'[s] = Row(lodged[s].mandate, TRUE)
      BY <1>0, <2>1, <2>2 DEF RowsAreSigned
    <3>3. Row(lodged[s].mandate, TRUE) \in [mandate : Mandate, collected : BOOLEAN]
      BY <3>1 DEF Row
    <3> QED BY <1>0, <2>1, <2>2, <3>2, <3>3, LodgingAssumption DEF RowsAreSigned, Row
  <2>5. RowsAreSigned'
    BY <1>0, <2>2, <2>3, <2>4 DEF RowsAreSigned, SlotOf, Forward
  <2>6. SweepHoldsRows'
    BY <1>0, <2>1, <2>3, <2>4, MandateSlot DEF SweepHoldsRows, Agreed, SlotOf, Sweep
  <2>7. PageInv' /\ PermitEnough'
    BY <1>0, <2>1, <2>3, PermitKept DEF PageInv
  <2> QED BY <1>0, <2>1, <2>3, <2>5, <2>6, <2>7 DEF LodgingInv, Forward
<1> QED BY <1>2, <1>3, <1>4, <1>5, <1>6, <1>7, <1>8, <1>9, <1>10, <1>11 DEF LodgingNext

LEMMA LodgingInvariant == LodgingSpec => []LodgingInv
BY LodgingInitially, LodgingStep, PTL DEF LodgingSpec

\* Only a mark, and only of what has been honoured, changes a row's mark.
LEMMA MarkNextStep == LodgingInv /\ LodgingInv' /\ [LodgingNext]_lodgingVars => [MarkStep]_lodgingVars
<1> SUFFICES ASSUME LodgingInv, LodgingNext, NEW s \in Slots, lodged'[s] # None
             PROVE  /\ lodged'[s].collected => s \in spentNonces
                    /\ lodged[s] # None /\ lodged[s].collected => lodged'[s].collected
  BY DEF MarkStep
<1>1. RowsAreSigned /\ SweepHoldsRows /\ PageInv
  BY DEF LodgingInv
<1>2. CASE lodged' = lodged
  BY <1>1, <1>2 DEF RowsAreSigned
<1>3. CASE Post
  <2> DEFINE t == SlotOf(posting)
  <2>1. lodged' = [lodged EXCEPT ![t] = Row(posting, IF lodged[t] = None THEN FALSE
                                                     ELSE lodged[t].collected)]
    BY <1>3 DEF Post, Upsert, SlotOf
  <2> HIDE DEF t
  <2>2. CASE s = t
    <3>1. lodged'[s].collected = IF lodged[s] = None THEN FALSE ELSE lodged[s].collected
      BY <1>1, <2>1, <2>2 DEF RowsAreSigned, Row
    <3> QED BY <1>1, <3>1 DEF RowsAreSigned
  <2>3. CASE s # t
    BY <1>1, <2>1, <2>3 DEF RowsAreSigned
  <2> QED BY <2>2, <2>3
<1>4. CASE MarkRow
  <2> DEFINE t == SlotOf(sweep.mined)
  <2>1. t \in spentNonces /\ lodged' = [lodged EXCEPT ![t] = Row(@.mandate, TRUE)]
    BY <1>1, <1>4 DEF MarkRow, SlotOf, SweepHoldsRows
  <2> HIDE DEF t
  <2>2. CASE s = t
    BY <1>1, <2>1, <2>2 DEF RowsAreSigned, Row
  <2>3. CASE s # t
    BY <1>1, <2>1, <2>3 DEF RowsAreSigned
  <2> QED BY <2>2, <2>3
<1>5. ASSUME ~Post, ~MarkRow PROVE lodged' = lodged
  BY <1>5 DEF LodgingNext, OnChain, pageVars, SignPermit, Authorise, SignGroup, AuthorizeOnce,
              ReadRows, CollectNext
<1> QED BY <1>2, <1>3, <1>4, <1>5

(***************************************************************************)
(* A row is marked only after its money has moved, and never unmarked: not *)
(* by the borrower signing its period again, at any point of the sweep.    *)
(***************************************************************************)
THEOREM MarksAreKept == LodgingSpec => MarksHold
BY LodgingInvariant, MarkNextStep, PTL DEF LodgingSpec, MarksHold

\* The steps of Lodging, seen from the chain.
LEMMA LodgingChainSteps ==
  ASSUME LodgingInv, LodgingNext
  PROVE  \/ /\ [Next]_vars
            /\ UNCHANGED <<allowance, collected, spentNonces, drawn, drawnStanding>>
            /\ permit # None => permit' # None
         \/ AuthorizeOnce
         \/ \E m \in Agreed : Collect(m) /\ permit' = permit
         \/ \E n \in NoteIds, i \in Periods : CollectScheduled(n, i) /\ permit' = permit
<1>1. CASE OnChain
  <2>1. CASE Serviced
    <3>1. UNCHANGED mandateVars /\ Next
      BY <2>1 DEF Serviced, Next
    <3> QED BY <1>1, <3>1 DEF OnChain, mandateVars, pageVars
  <2>2. CASE \E m \in SignedMandates : Collect(m)
    <3>1. SignedMandates \subseteq Agreed
      BY DEF LodgingInv, MandatesAgreed, SignedMandates, Agreed
    <3> QED BY <1>1, <2>2, <3>1 DEF OnChain, pageVars
  <2>3. CASE ~Serviced /\ ~ \E m \in SignedMandates : Collect(m)
    BY <1>1, <2>3 DEF OnChain, pageVars, Spend
  <2> QED BY <2>1, <2>2, <2>3
<1>2. CASE \E m \in sweep.left : Collect(m) /\ UNCHANGED <<permit, signed>>
  BY <1>2 DEF LodgingInv, SweepHoldsRows
<1>3. CASE UNCHANGED allVars /\ (permit # None => permit' # None)
  BY <1>3 DEF allVars, mandateVars
<1>4. ASSUME NEW n \in NoteIds, SignPermit(n) PROVE UNCHANGED allVars /\ permit = None
  BY <1>4 DEF SignPermit
<1>5. ASSUME ~OnChain, ~AuthorizeOnce, ~ \E n \in NoteIds : SignPermit(n)
      PROVE  \/ \E m \in sweep.left : Collect(m) /\ UNCHANGED <<permit, signed>>
             \/ UNCHANGED allVars /\ permit' = permit
  BY <1>5 DEF LodgingNext, Authorise, SignGroup, Post, ReadRows, CollectNext, MarkRow
<1> QED BY <1>1, <1>2, <1>3, <1>4, <1>5

LEMMA StandingNextStep ==
  LodgingInv /\ [LodgingNext]_lodgingVars => [PullStep /\ PermitStep /\ CoverStep]_lodgingVars
<1> SUFFICES ASSUME LodgingInv, LodgingNext PROVE PullStep /\ PermitStep /\ CoverStep
  OBVIOUS
<1>0. /\ ChainInv /\ IndInv /\ TypeOK
      /\ \A n \in NoteIds : BorrowerOf[n] \in Borrowers
      /\ \A n \in NoteIds : allowance[BorrowerOf[n]] \in Nat
  BY MandateAssumption DEF LodgingInv, ChainInv, IndInv
\* Steps that pull nothing, and let the allowance stand.
<1>1. ASSUME Forward, allowance' = allowance, drawnStanding' = drawnStanding,
             permit # None => permit' # None
      PROVE  PullStep /\ PermitStep /\ CoverStep
  <2>1. PullStep /\ PermitStep
    BY <1>1 DEF PullStep, PermitStep
  <2>2. ASSUME NEW n \in NoteIds, allowance[BorrowerOf[n]] >= Outstanding(n)
        PROVE  allowance'[BorrowerOf[n]] >= Outstanding(n)'
    <3>1. Outstanding(n)' <= Outstanding(n) /\ Outstanding(n) \in Nat /\ Outstanding(n)' \in Nat
      BY <1>0, <1>1, OutstandingShrinks DEF Forward, ChainInv, IndInv
    <3> QED BY <1>0, <1>1, <2>2, <3>1
  <2> QED BY <2>1, <2>2 DEF CoverStep
<1>2. ASSUME [Next]_vars, UNCHANGED <<allowance, collected, spentNonces, drawn, drawnStanding>>,
             permit # None => permit' # None
      PROVE  PullStep /\ PermitStep /\ CoverStep
  BY <1>0, <1>1, <1>2, ServicingForward
<1>3. ASSUME NEW m \in Agreed, Collect(m), permit' = permit
      PROVE  PullStep /\ PermitStep /\ CoverStep
  BY <1>0, <1>1, <1>3, CollectForward DEF Agreed
<1>4. CASE AuthorizeOnce
  <2>1. PICK n \in NoteIds : n = permit.note
    BY <1>4 DEF AuthorizeOnce, LodgingInv, PermitEnough
  <2>2. /\ Authorize(n, permit.value) /\ permit.value \in Nat /\ signed' = signed
        /\ Outstanding(n) <= permit.value
    BY <1>4, <2>1 DEF AuthorizeOnce, LodgingInv, PermitEnough
  <2>3. Forward /\ allowance'[BorrowerOf[n]] = permit.value
    BY <1>0, <2>2, AuthorizeForward
  <2>4. Outstanding(n)' <= Outstanding(n) /\ Outstanding(n) \in Nat /\ Outstanding(n)' \in Nat
    BY <1>0, <2>3, OutstandingShrinks DEF Forward, ChainInv, IndInv
  <2>5. UNCHANGED <<drawnStanding, collected, paidOf>>
    BY <2>2 DEF Authorize, vars, vaultVars
  <2>6. PermitStep
    BY <2>1, <2>2, <2>3, <2>4 DEF PermitStep
  <2> QED BY <2>5, <2>6 DEF PullStep, CoverStep
<1>5. ASSUME NEW k \in NoteIds, NEW i \in Periods, CollectScheduled(k, i), permit' = permit
      PROVE  PullStep /\ PermitStep /\ CoverStep
  <2>1. /\ Forward
        /\ allowance'[BorrowerOf[k]] = allowance[BorrowerOf[k]] - Charge(k, i)
        /\ drawnStanding'[<<k, i>>] = drawnStanding[<<k, i>>] + Charge(k, i)
        /\ \A b \in Borrowers : b # BorrowerOf[k] => allowance'[b] = allowance[b]
        /\ \A s \in Slots : s # <<k, i>> => drawnStanding'[s] = drawnStanding[s]
    BY <1>0, <1>5, ScheduledForward
  <2>2. /\ paidOf'[k][i] = PeriodDue(i)
        /\ Charge(k, i) \in Nat
        /\ Charge(k, i) * SCALE - Owed(k, i) \in 0..(SCALE - 1)
    BY <1>0, <1>5, ScheduledPays
  <2>3. PermitStep
    BY <1>5 DEF PermitStep
  <2>4. PullStep
    <3> SUFFICES ASSUME NEW n \in NoteIds, NEW j \in Periods,
                        drawnStanding'[<<n, j>>] # drawnStanding[<<n, j>>]
                 PROVE  /\ paidOf'[n][j] = PeriodDue(j)
                        /\ (drawnStanding'[<<n, j>>] - drawnStanding[<<n, j>>]) * SCALE - Owed(n, j)
                             \in 0..(SCALE - 1)
      BY DEF PullStep
    <3>1. n = k /\ j = i
      BY <2>1 DEF Slots
    <3>2. drawnStanding[<<k, i>>] \in Nat
      BY <1>0 DEF ChainInv, Slots
    <3>3. drawnStanding'[<<n, j>>] - drawnStanding[<<n, j>>] = Charge(k, i)
      BY <2>1, <2>2, <3>1, <3>2
    <3> QED BY <2>2, <3>1, <3>3
  <2>5. CoverStep
    <3> SUFFICES ASSUME NEW n \in NoteIds, allowance[BorrowerOf[n]] >= Outstanding(n)
                 PROVE  \/ allowance'[BorrowerOf[n]] >= Outstanding(n)'
                        \/ \E s \in collected' \ collected :
                             s[1] # n /\ BorrowerOf[s[1]] = BorrowerOf[n]
      BY DEF CoverStep
    <3>1. Outstanding(n)' <= Outstanding(n) /\ Outstanding(n) \in Nat /\ Outstanding(n)' \in Nat
      BY <1>0, <2>1, OutstandingShrinks DEF Forward, ChainInv, IndInv
    <3>2. CASE n = k
      <4>1. Outstanding(n)' <= Outstanding(n) - Charge(k, i)
        BY <1>0, <1>5, <3>2, OutstandingPulled
      <4> QED BY <1>0, <2>1, <2>2, <3>1, <3>2, <4>1
    <3>3. CASE n # k /\ BorrowerOf[n] = BorrowerOf[k]
      <4>1. <<k, i>> \in collected' \ collected
        BY <1>5, Zenon DEF CollectScheduled, MayCollect
      <4> QED BY <3>3, <4>1
    <3>4. CASE BorrowerOf[n] # BorrowerOf[k]
      BY <1>0, <2>1, <3>1, <3>4
    <3> QED BY <3>2, <3>3, <3>4
  <2> QED BY <2>3, <2>4, <2>5
<1> QED BY <1>2, <1>3, <1>4, <1>5, LodgingChainSteps

\* Whoever collects, and whatever else is going on.
LEMMA PullsNextStep ==
  LodgingInv /\ [LodgingNext]_lodgingVars => [PullsAs(SignedMandates)]_lodgingVars
<1> SUFFICES ASSUME LodgingInv, LodgingNext PROVE PullsAs(SignedMandates)
  OBVIOUS
<1>0. ChainInv
  BY DEF LodgingInv
<1>1. CASE UNCHANGED <<drawn, drawnStanding>>
  BY <1>1 DEF PullsAs
<1>2. ASSUME NEW m \in Agreed, Collect(m) PROVE PullsAs(SignedMandates)
  <2>1. m \in Mandate /\ m \in SignedMandates
    BY DEF Agreed, Mandate, SignedMandates
  <2>2. /\ drawnStanding' = drawnStanding
        /\ now > m.validAfter /\ now < m.validBefore
        /\ drawn[SlotOf(m)] = 0 /\ drawn'[SlotOf(m)] = m.value
        /\ \A s \in Slots : s # SlotOf(m) => drawn'[s] = drawn[s]
    BY <1>0, <1>2, <2>1, CollectForward
  <2> QED BY <2>1, <2>2 DEF PullsAs, SlotOf
<1>3. ASSUME NEW n \in NoteIds, NEW i \in Periods, CollectScheduled(n, i)
      PROVE  PullsAs(SignedMandates)
  <2>1. /\ drawnStanding'[<<n, i>>] = drawnStanding[<<n, i>>] + Charge(n, i)
        /\ \A s \in Slots : s # <<n, i>> => drawnStanding'[s] = drawnStanding[s]
        /\ drawn' = drawn /\ drawnStanding[<<n, i>>] = 0
        /\ now >= PeriodEnd(i) /\ Charge(n, i) \in Nat /\ Charge(n, i) <= Units(PeriodDue(i))
    BY <1>0, <1>3, ScheduledForward
  <2> QED BY <2>1 DEF PullsAs
<1> QED BY <1>1, <1>2, <1>3, LodgingChainSteps DEF AuthorizeOnce, Authorize

(***************************************************************************)
(* Whatever is signed, replaced, refused, swept and submitted, by whom and *)
(* in what order: a mandate moves what its borrower signed for, once, and  *)
(* between the two ends of its window; a standing authorisation is drawn   *)
(* on once for a period, for no more than its due, to the unit, and not    *)
(* before it ends.                                                         *)
(***************************************************************************)
THEOREM PulledAsSigned == LodgingSpec => PullsAsSigned
BY LodgingInvariant, PullsNextStep, PTL DEF LodgingSpec, PullsAsSigned

(***************************************************************************)
(* One permit does for the whole schedule, for every rounding of the token *)
(* and every schedule: it is enough when it is mined, however much was     *)
(* paid since its amount was read, and every scheduled pull leaves its     *)
(* period paid and the allowance enough for the rest of the note.          *)
(***************************************************************************)
THEOREM PermitsSuffice == LodgingSpec => StandingHonoured
BY LodgingInvariant, StandingNextStep, PTL DEF LodgingSpec, StandingHonoured

----------------------------------------------------------------------------
\* What the page's groups lodge covers what they are for.

\* The groups follow each other, each signed for at its first period.
InOrder(groups) ==
  /\ groups \in Seq(Group)
  /\ \A k \in DOMAIN groups :
       /\ groups[k].anchor \in groups[k].covers
       /\ \A i \in groups[k].covers : groups[k].anchor <= i
  /\ \A k, l \in DOMAIN groups :
       k < l => \A i \in groups[k].covers, j \in groups[l].covers : i < j

LEMMA BatchesInOrder ==
  ASSUME NEW open \in SUBSET Periods, NEW size \in Nat \ {0}, NEW k \in Nat, NEW l \in Nat, k < l,
         NEW i \in Batch(open, size, k), NEW j \in Batch(open, size, l)
  PROVE  i < j
<1> DEFINE x == Cardinality(Earlier(open, i))
           y == Cardinality(Earlier(open, j))
<1>1. i \in open /\ j \in open /\ i \in Nat /\ j \in Nat
  BY TermsAssumption DEF Batch, Periods
<1>2. Earlier(open, i) \in SUBSET Periods /\ Earlier(open, j) \in SUBSET Periods
  BY DEF Earlier
<1>3. x \in Nat /\ y \in Nat /\ IsFiniteSet(Earlier(open, i))
  BY <1>2, PeriodSets
<1>4. x \div size = k - 1 /\ y \div size = l - 1
  BY DEF Batch, Earlier
<1> SUFFICES ASSUME j <= i PROVE FALSE
  BY <1>1
<1>5. Earlier(open, j) \subseteq Earlier(open, i)
  <2>1. open \subseteq Nat
    BY TermsAssumption DEF Periods
  <2>2. ASSUME NEW p \in open, p < j PROVE p < i
    <3>1. p \in Nat
      BY <2>1
    <3> QED BY ONLY <1>1, j <= i, <2>2, <3>1
  <2> QED BY <2>2 DEF Earlier
<1>6. y <= x
  BY <1>3, <1>5, FS_Subset
<1> HIDE DEF x, y
<1>7. y \div size <= x \div size
  BY <1>3, <1>6
<1> QED BY <1>4, <1>7

LEMMA GroupsInOrder ==
  ASSUME NEW open \in SUBSET Periods, NEW size \in sizeOptions(Cardinality(open))
  PROVE  InOrder(groupPeriods(open, size))
<1> DEFINE q == CeilDiv(Cardinality(open), size)
           B(k) == Batch(open, size, k)
           groups == groupPeriods(open, size)
<1>1. Cardinality(open) \in Nat /\ size \in 1..Cardinality(open)
  BY PeriodSets DEF sizeOptions
<1>2. size \in Nat \ {0} /\ q \in Nat
  BY <1>1 DEF CeilDiv
<1>3. groups =
        [k \in 1..q |-> [anchor |-> CHOOSE i \in B(k) : \A j \in B(k) : i <= j, covers |-> B(k)]]
  BY Zenon DEF groupPeriods
<1>4. ASSUME NEW k \in 1..q
      PROVE  /\ groups[k].covers = B(k) /\ groups[k].anchor \in B(k)
             /\ \A j \in B(k) : groups[k].anchor <= j
  <2>1. B(k) \in SUBSET Nat
    <3>1. B(k) \subseteq open
      BY Zenon DEF Batch
    <3>2. Periods \subseteq Nat
      BY TermsAssumption DEF Periods
    <3> HIDE DEF B
    <3> QED BY <3>1, <3>2
  <2>2. B(k) # {}
    BY <1>2, <1>4, BatchFilled
  <2>3. groups[k] = [anchor |-> CHOOSE i \in B(k) : \A j \in B(k) : i <= j, covers |-> B(k)]
    BY <1>3
  <2> HIDE DEF B, groups
  <2>4. \E i \in B(k) : \A j \in B(k) : i <= j
    BY <2>1, <2>2, LeastElement
  <2> QED BY <2>3, <2>4
<1>5. groups \in Seq(Group) /\ DOMAIN groups = 1..q
  BY <1>3, GroupsType
<1>6. ASSUME NEW k \in 1..q, NEW l \in 1..q, k < l, NEW i \in B(k), NEW j \in B(l)
      PROVE  i < j
  BY <1>2, <1>6, BatchesInOrder
<1> HIDE DEF groups, B, q
<1> QED BY <1>4, <1>5, <1>6 DEF InOrder, groups

\* The periods of the first k groups, and what is lodged for them.
Asked(groups, k) == UNION {groups[l].covers : l \in 1..k}
Lodgings(groups, val, k) ==
  [j \in Periods |-> IF \E l \in 1..k : groups[l].anchor = j THEN val[j] ELSE 0]

DuesIn(S) == [i \in Periods |-> IF i \in S THEN PeriodDue(i) ELSE 0]

LEMMA DueOfType ==
  ASSUME NEW S
  PROVE  DuesIn(S) \in [Periods -> Nat] /\ DueOf(S) = SumOf(DuesIn(S)) /\ DueOf(S) \in Nat
<1>1. DuesIn(S) \in [Periods -> Nat]
  BY DueIsNat DEF DuesIn
<1> QED BY <1>1, PeriodSumType DEF DueOf, DuesIn

LEMMA DueOfMore ==
  ASSUME NEW S, NEW R, S \subseteq R
  PROVE  DueOf(S) <= DueOf(R)
<1>1. \A i \in Periods : DuesIn(S)[i] <= DuesIn(R)[i]
  BY DueIsNat DEF DuesIn
<1> QED BY <1>1, DueOfType, PeriodSumBelow

LEMMA DueOfBoth ==
  ASSUME NEW S, NEW R, S \cap R = {}
  PROVE  DueOf(S \cup R) = DueOf(S) + DueOf(R)
<1> DEFINE one == 1
           f == DuesIn(S)
           b == DuesIn(R)
           g == DuesIn(S \cup R)
           N == PeriodCount
<1>1. /\ f \in [0..(N - 1) -> Int] /\ b \in [0..(N - 1) -> Int] /\ g \in [0..(N - 1) -> Int]
      /\ N \in Nat /\ DueOf(S) = SumTo(f, N) /\ DueOf(R) = SumTo(b, N)
      /\ DueOf(S \cup R) = SumTo(g, N) /\ DueOf(R) \in Nat
  BY DueOfType, PeriodCountType DEF SumOf
<1>2. one \in Int /\ \A i \in 0..(N - 1) : g[i] = f[i] + one * b[i]
  BY PeriodCountType, DueIsNat DEF DuesIn
<1> HIDE DEF one, f, b, g, N
<1>3. SumTo(g, N) = SumTo(f, N) + one * SumTo(b, N)
  BY ONLY <1>1, <1>2, SumPlusMultiple
<1> QED BY <1>1, <1>3 DEF one

LEMMA LodgedCovers ==
  ASSUME NEW groups, InOrder(groups), NEW val \in [Periods -> Nat],
         \A l \in DOMAIN groups : val[groups[l].anchor] = Units(DueOf(groups[l].covers)) * SCALE,
         NEW k \in Nat, k <= Len(groups)
  PROVE  /\ Lodgings(groups, val, k) \in [Periods -> Nat]
         /\ DueOf(Asked(groups, k)) <= SumOf(Lodgings(groups, val, k))
         /\ SumOf(Lodgings(groups, val, k)) <= DueOf(Asked(groups, k)) + (SCALE - 1) * k
<1> DEFINE L(j) == Lodgings(groups, val, j)
           A(j) == Asked(groups, j)
           T == {j \in Nat : j <= Len(groups) =>
                   DueOf(A(j)) <= SumOf(L(j)) /\ SumOf(L(j)) <= DueOf(A(j)) + (SCALE - 1) * j}
<1>0. /\ groups \in Seq(Group) /\ Len(groups) \in Nat /\ DOMAIN groups = 1..Len(groups)
      /\ \A l \in DOMAIN groups : groups[l].anchor \in Periods /\ groups[l].covers \in SUBSET Periods
  <2>1. groups \in Seq(Group)
    BY DEF InOrder
  <2>2. \A l \in DOMAIN groups : groups[l] \in Group
    BY <2>1
  <2> QED BY <2>1, <2>2 DEF Group
<1>1. \A j \in Nat : L(j) \in [Periods -> Nat] /\ SumOf(L(j)) \in Nat /\ DueOf(A(j)) \in Nat
  <2>1. \A j \in Nat : L(j) \in [Periods -> Nat]
    BY DEF Lodgings
  <2> HIDE DEF L
  <2> QED BY <2>1, PeriodSumType, DueOfType
<1>2. 0 \in T
  <2>1. A(0) = {} /\ L(0) = DuesIn({}) /\ (SCALE - 1) * 0 = 0
    BY MandateAssumption DEF Asked, Lodgings, DuesIn
  <2> HIDE DEF L, A
  <2>2. SumOf(L(0)) = DueOf(A(0)) /\ DueOf(A(0)) \in Nat
    BY <2>1, DueOfType
  <2> QED BY <2>1, <2>2
<1>3. ASSUME NEW j \in Nat, j \in T PROVE j + 1 \in T
  <2> SUFFICES ASSUME j + 1 <= Len(groups)
               PROVE  /\ DueOf(A(j + 1)) <= SumOf(L(j + 1))
                      /\ SumOf(L(j + 1)) <= DueOf(A(j + 1)) + (SCALE - 1) * (j + 1)
    OBVIOUS
  <2> DEFINE c == groups[j + 1].covers
             a == groups[j + 1].anchor
             u == Units(DueOf(c)) * SCALE
  <2>1. /\ j + 1 \in DOMAIN groups /\ a \in Periods /\ c \in SUBSET Periods /\ a \in c
        /\ 1..j \subseteq DOMAIN groups /\ val[a] = u
        /\ \A l \in 1..j : l < j + 1
    BY <1>0 DEF InOrder
  <2>2. \A l \in 1..j : \A p \in groups[l].covers, r \in c : p < r
    BY <2>1 DEF InOrder
  <2>3. \A l \in 1..j : groups[l].anchor \in groups[l].covers /\ groups[l].covers \in SUBSET Periods
    BY <1>0, <2>1 DEF InOrder
  <2>4. Periods \subseteq Nat
    BY TermsAssumption DEF Periods
  <2>5. A(j + 1) = A(j) \cup c /\ A(j) \cap c = {}
    <3>1. 1..(j + 1) = 1..j \cup {j + 1}
      OBVIOUS
    <3>2. A(j + 1) = A(j) \cup c
      BY <3>1 DEF Asked
    <3>3. ASSUME NEW p \in A(j) PROVE p \notin c
      <4>1. PICK l \in 1..j : p \in groups[l].covers
        BY DEF Asked
      <4>2. p \in Nat
        BY <2>3, <2>4, <4>1
      <4> QED BY <2>2, <4>1, <4>2
    <3> QED BY <3>2, <3>3
  <2>6. DueOf(A(j + 1)) = DueOf(A(j)) + DueOf(c)
    BY <2>5, DueOfBoth
  <2>7. L(j)[a] = 0 /\ L(j + 1)[a] = u /\ \A p \in Periods : p # a => L(j + 1)[p] = L(j)[p]
    <3>1. \A l \in 1..j : groups[l].anchor # a
      BY <2>1, <2>2, <2>3, <2>4
    <3>2. \A p \in Periods :
            (\E l \in 1..(j + 1) : groups[l].anchor = p)
              <=> (p = a \/ \E l \in 1..j : groups[l].anchor = p)
      OBVIOUS
    <3> QED BY <2>1, <3>1, <3>2 DEF Lodgings
  <2>8. DueOf(c) \in Nat /\ u \in Nat /\ u - DueOf(c) \in 0..(SCALE - 1)
    <3> HIDE DEF c
    <3>1. DueOf(c) \in Nat
      BY DueOfType
    <3>2. Units(DueOf(c)) \in Nat /\ u - DueOf(c) \in 0..(SCALE - 1)
      BY <3>1, UnitsRoundUp
    <3> QED BY <3>1, <3>2, MandateAssumption
  <2> HIDE DEF L, A, a, c, u
  <2>9. SumOf(L(j + 1)) = SumOf(L(j)) + u
    <3> DEFINE f == L(j)
               g == L(j + 1)
               N == PeriodCount
    <3>1. /\ f \in [0..(N - 1) -> Int] /\ g \in [0..(N - 1) -> Int] /\ N \in Nat
          /\ a \in 0..(N - 1) /\ u \in Int /\ g[a] = f[a] + u
          /\ \A i \in 0..(N - 1) : i # a => g[i] = f[i]
      <4>1. L(j) \in [Periods -> Nat] /\ L(j + 1) \in [Periods -> Nat]
        <5>1. j + 1 \in Nat
          OBVIOUS
        <5>2. \A i \in Nat : L(i) \in [Periods -> Nat]
          BY <1>1
        <5> QED BY ONLY j \in Nat, <5>1, <5>2, Zenon
      <4> QED BY <2>1, <2>7, <2>8, <4>1, PeriodCountType
    <3> HIDE DEF f, g, N
    <3>2. SumTo(g, N) = SumTo(f, N) + u
      BY <3>1, SumBump
    <3> QED BY <3>2 DEF f, g, N, SumOf
  <2>10. (SCALE - 1) * (j + 1) = (SCALE - 1) * j + (SCALE - 1) /\ (SCALE - 1) * j \in Nat
    BY MandateAssumption
  <2>11. /\ DueOf(A(j)) <= SumOf(L(j)) /\ SumOf(L(j)) <= DueOf(A(j)) + (SCALE - 1) * j
         /\ SumOf(L(j)) \in Nat /\ DueOf(A(j)) \in Nat
    <3>1. SumOf(L(j)) \in Nat /\ DueOf(A(j)) \in Nat
      BY <1>1
    <3>2. j <= Len(groups)
      BY <1>0
    <3> QED BY <1>3, <3>1, <3>2
  <2> QED BY <2>6, <2>8, <2>9, <2>10, <2>11, MandateAssumption
<1>4. k \in T
  <2> HIDE DEF T
  <2>1. Nat \subseteq T
    BY <1>2, <1>3, SetInduction
  <2> QED BY <2>1
<1> QED BY <1>1, <1>4

\* What the page has lodged is there, and what the route is writing is next.
GroupsInv ==
  page # Idle =>
    /\ InOrder(page.groups)
    /\ \A k \in DOMAIN page.groups :
         k <= page.done =>
           /\ lodged[<<page.note, page.groups[k].anchor>>] # None
           /\ lodged[<<page.note, page.groups[k].anchor>>].mandate =
                MandateFor(page.note, page.groups[k])
    /\ posting # None => posting = MandateFor(page.note, page.groups[page.done + 1])

\* The row a route's write is for, and the others.
LEMMA Posted ==
  ASSUME LodgingInv, Post
  PROVE  /\ page # Idle /\ posting \in Mandate /\ posting # None
         /\ page.note \in NoteIds /\ page.groups \in Seq(Group)
         /\ page.done \in Nat /\ page.done < Len(page.groups) /\ Len(page.groups) \in Nat
         /\ DOMAIN page.groups = 1..Len(page.groups)
         /\ page' = IF page.done + 1 = Len(page.groups) THEN Idle
                    ELSE Page(page.note, page.groups, page.done + 1)
         /\ posting' = None
         /\ \A t \in Slots : t # SlotOf(posting) => lodged'[t] = lodged[t]
         /\ lodged'[SlotOf(posting)] # None /\ lodged'[SlotOf(posting)].mandate = posting
<1> DEFINE s == SlotOf(posting)
           row == Row(posting, IF lodged[s] = None THEN FALSE ELSE lodged[s].collected)
<1>1. /\ posting # None /\ posting' = None
      /\ lodged' = [lodged EXCEPT ![s] = row]
      /\ page' = IF page.done + 1 = Len(page.groups) THEN Idle
                 ELSE Page(page.note, page.groups, page.done + 1)
  BY DEF Post, Upsert, SlotOf
<1>2. PageInv /\ RowsAreSigned
  BY DEF LodgingInv
<1>3. /\ page # Idle /\ posting \in Mandate /\ s \in Slots
      /\ page.note \in NoteIds /\ page.groups \in Seq(Group)
      /\ page.done \in Nat /\ page.done < Len(page.groups)
  BY <1>1, <1>2, MandateSlot DEF PageInv, Agreed
<1>4. lodged \in [Slots -> [mandate : Mandate, collected : BOOLEAN] \cup {None}]
  BY <1>2 DEF RowsAreSigned
<1>5. row \in [mandate : Mandate, collected : BOOLEAN] /\ row.mandate = posting
  <2>1. lodged[s] # None => lodged[s].collected \in BOOLEAN
    BY <1>3, <1>4
  <2> QED BY <1>3, <2>1 DEF Row
<1> HIDE DEF row, s
<1>6. lodged'[s] = row /\ \A t \in Slots : t # s => lodged'[t] = lodged[t]
  BY <1>1, <1>3, <1>4
<1>7. Len(page.groups) \in Nat /\ DOMAIN page.groups = 1..Len(page.groups)
  BY <1>3, LenProperties
<1> QED BY <1>1, <1>3, <1>5, <1>6, <1>7, LodgingAssumption DEF s

LEMMA GroupsNextStep ==
  LodgingInv /\ GroupsInv /\ [LodgingNext]_lodgingVars => GroupsInv'
<1> SUFFICES ASSUME LodgingInv, GroupsInv, [LodgingNext]_lodgingVars, page' # Idle
             PROVE  /\ InOrder(page'.groups)
                    /\ \A k \in DOMAIN page'.groups :
                         k <= page'.done =>
                           /\ lodged'[<<page'.note, page'.groups[k].anchor>>] # None
                           /\ lodged'[<<page'.note, page'.groups[k].anchor>>].mandate =
                                MandateFor(page'.note, page'.groups[k])
                    /\ posting' # None =>
                         posting' = MandateFor(page'.note, page'.groups[page'.done + 1])
  BY DEF GroupsInv, Idle, Page
<1>0. PageInv /\ RowsAreSigned /\ SweepHoldsRows
  BY DEF LodgingInv
<1>1. CASE UNCHANGED <<page, posting, lodged>>
  BY <1>1 DEF GroupsInv
<1>2. ASSUME NEW n \in NoteIds, NEW size \in 1..PeriodCount, NEW seen \in SUBSET Periods,
             Authorise(n, size, seen)
      PROVE  /\ InOrder(page'.groups) /\ page'.done = 0 /\ posting' = None
             /\ DOMAIN page'.groups \subseteq Nat \ {0}
  <2> DEFINE open == OpenPeriods(n, seen)
  <2>1. /\ page = Idle /\ size \in sizeOptions(Cardinality(open))
        /\ page' = Page(n, groupPeriods(open, size), 0) /\ posting' = posting
    BY <1>2 DEF Authorise
  <2>2. PICK o \in SUBSET Periods : o = open
    BY DEF OpenPeriods
  <2> HIDE DEF open
  <2>3. InOrder(groupPeriods(o, size))
    BY <2>1, <2>2, GroupsInOrder
  <2>4. page'.groups = groupPeriods(o, size) /\ page'.done = 0
    BY <2>1, <2>2 DEF Page
  <2>5. DOMAIN page'.groups \subseteq Nat \ {0}
    <3>1. page'.groups \in Seq(Group)
      BY <2>3, <2>4 DEF InOrder
    <3> QED BY <3>1, LenProperties
  <2> QED BY <1>0, <2>1, <2>3, <2>4, <2>5 DEF PageInv
<1>3. CASE SignGroup
  <2>1. /\ page # Idle /\ posting' = MandateFor(page.note, page.groups[page.done + 1])
        /\ page' = page /\ lodged' = lodged
    BY <1>3 DEF SignGroup, Fail
  <2> QED BY <2>1 DEF GroupsInv
<1>4. CASE Post
  <2> DEFINE gs == page.groups
             d == page.done
             a(k) == <<page.note, gs[k].anchor>>
  <2>1. /\ page # Idle /\ posting \in Mandate /\ posting # None /\ page.note \in NoteIds
        /\ gs \in Seq(Group) /\ DOMAIN gs = 1..Len(gs) /\ Len(gs) \in Nat
        /\ d \in Nat /\ d < Len(gs) /\ posting' = None
        /\ \A t \in Slots : t # SlotOf(posting) => lodged'[t] = lodged[t]
        /\ lodged'[SlotOf(posting)] # None /\ lodged'[SlotOf(posting)].mandate = posting
    BY <1>4, Posted
  <2>2. page' = Page(page.note, gs, d + 1)
    BY <1>4, Posted
  <2>3. page'.note = page.note /\ page'.groups = gs /\ page'.done = d + 1
    BY <2>2 DEF Page
  <2>4. /\ InOrder(gs) /\ posting = MandateFor(page.note, gs[d + 1])
        /\ \A k \in DOMAIN gs : k <= d =>
             lodged[a(k)] # None /\ lodged[a(k)].mandate = MandateFor(page.note, gs[k])
    BY <2>1 DEF GroupsInv
  <2>5. SlotOf(posting) = a(d + 1)
    BY <2>4 DEF MandateFor, SlotOf
  <2>6. ASSUME NEW k \in DOMAIN gs, k <= d + 1
        PROVE  lodged'[a(k)] # None /\ lodged'[a(k)].mandate = MandateFor(page.note, gs[k])
    <3>1. CASE k = d + 1
      BY <2>1, <2>4, <2>5, <3>1
    <3>2. CASE k # d + 1
      <4>1. k \in Nat /\ k <= d /\ k < d + 1 /\ d + 1 \in DOMAIN gs
        BY <2>1, <2>6, <3>2
      <4>2. \A j \in DOMAIN gs : gs[j] \in Group
        BY <2>1
      <4>3. gs[k].anchor \in Periods /\ gs[k].anchor < gs[d + 1].anchor
        BY <2>4, <4>1, <4>2 DEF InOrder, Group
      <4>4. a(k) \in Slots /\ a(k) # a(d + 1)
        <5>1. gs[k].anchor # gs[d + 1].anchor
          BY <4>3, TermsAssumption DEF Periods
        <5> QED BY <2>1, <4>3, <5>1 DEF Slots
      <4> QED BY <2>1, <2>4, <2>5, <4>1, <4>4
    <3> QED BY <3>1, <3>2
  <2> HIDE DEF gs, d
  <2> QED BY <2>1, <2>3, <2>4, <2>6
<1>5. CASE MarkRow
  <2> DEFINE s == SlotOf(sweep.mined)
  <2>1. /\ lodged' = [lodged EXCEPT ![s] = Row(@.mandate, TRUE)] /\ UNCHANGED <<page, posting>>
        /\ s \in Slots /\ lodged[s] # None
    BY <1>0, <1>5, MandateSlot DEF MarkRow, SlotOf, SweepHoldsRows
  <2> HIDE DEF s
  <2>2. ASSUME NEW t \in Slots, lodged[t] # None
        PROVE  lodged'[t] # None /\ lodged'[t].mandate = lodged[t].mandate
    <3>1. CASE t = s
      <4>1. lodged'[s] = Row(lodged[s].mandate, TRUE)
        BY <1>0, <2>1 DEF RowsAreSigned
      <4>2. lodged[s].mandate \in Mandate
        BY <1>0, <2>1 DEF RowsAreSigned, Agreed
      <4>3. Row(lodged[s].mandate, TRUE) \in [mandate : Mandate, collected : BOOLEAN]
        BY <4>2 DEF Row
      <4>4. Row(lodged[s].mandate, TRUE).mandate = lodged[s].mandate
        BY DEF Row
      <4>5. Row(lodged[s].mandate, TRUE) # None
        BY <4>3, LodgingAssumption
      <4> QED BY ONLY <3>1, <4>1, <4>4, <4>5
    <3>2. CASE t # s
      BY <1>0, <2>1, <2>2, <3>2 DEF RowsAreSigned
    <3> QED BY <3>1, <3>2
  <2>3. page # Idle /\ page.note \in NoteIds /\ page.groups \in Seq(Group)
    BY <1>0, <2>1 DEF PageInv
  <2>4. \A k \in DOMAIN page.groups : <<page.note, page.groups[k].anchor>> \in Slots
    <3>1. \A k \in DOMAIN page.groups : page.groups[k] \in Group
      BY <2>3
    <3> QED BY <2>3, <3>1 DEF Slots, Group
  <2> QED BY <2>1, <2>2, <2>3, <2>4 DEF GroupsInv
<1>6. ASSUME ~SignGroup, ~Post, ~MarkRow,
             ~ \E n \in NoteIds, size \in 1..PeriodCount, seen \in SUBSET Periods :
                 Authorise(n, size, seen)
      PROVE  UNCHANGED <<page, posting, lodged>>
  BY <1>6 DEF LodgingNext, lodgingVars, OnChain, pageVars, SignPermit, AuthorizeOnce,
              ReadRows, CollectNext
<1>7. ASSUME NEW n \in NoteIds, NEW size \in 1..PeriodCount, NEW seen \in SUBSET Periods,
             Authorise(n, size, seen)
      PROVE  GroupsInv'
  <2>1. \A k \in DOMAIN page'.groups : ~ (k <= page'.done)
    BY <1>2, <1>7
  <2> QED BY <1>2, <1>7, <2>1 DEF GroupsInv
<1> QED BY <1>1, <1>3, <1>4, <1>5, <1>6, <1>7 DEF GroupsInv, Idle, Page

DoneInv == LodgingInv /\ GroupsInv

LEMMA DoneInvariant == LodgingSpec => []DoneInv
<1>1. LodgingInit => DoneInv
  BY LodgingInitially DEF LodgingInit, DoneInv, GroupsInv
<1>2. DoneInv /\ [LodgingNext]_lodgingVars => DoneInv'
  BY LodgingStep, GroupsNextStep DEF DoneInv
<1> QED BY <1>1, <1>2, PTL DEF LodgingSpec

LEMMA DoneNextStep == DoneInv /\ DoneInv' /\ [LodgingNext]_lodgingVars => [DoneStep]_lodgingVars
<1> SUFFICES ASSUME DoneInv, LodgingNext, posting # None, page' = Idle PROVE DoneStep
  BY DEF DoneStep
<1>1. page # Idle
  BY DEF DoneInv, LodgingInv, PageInv
<1>2. Post
  BY <1>1 DEF LodgingNext, OnChain, pageVars, SignPermit, Authorise, SignGroup, AuthorizeOnce,
              ReadRows, CollectNext, MarkRow
<1> DEFINE gs == page.groups
           n  == page.note
           K  == Len(gs)
           a(k) == <<n, gs[k].anchor>>
           asked == UNION {gs[k].covers : k \in DOMAIN gs}
           value(i) == IF \E k \in DOMAIN gs : gs[k].anchor = i
                       THEN lodged'[<<n, i>>].mandate.value * SCALE ELSE 0
           upTo(i) == SumOf([j \in Periods |-> IF j <= i THEN value(j) ELSE 0])
           val == [j \in Periods |-> IF \E k \in DOMAIN gs : gs[k].anchor = j
                                     THEN lodged'[<<n, j>>].mandate.value * SCALE ELSE 0]
<1>3. /\ n \in NoteIds /\ gs \in Seq(Group) /\ K \in Nat /\ DOMAIN gs = 1..K
      /\ page.done \in Nat /\ page.done < K
      /\ posting \in Mandate
      /\ \A t \in Slots : t # SlotOf(posting) => lodged'[t] = lodged[t]
      /\ lodged'[SlotOf(posting)].mandate = posting
      /\ page' = IF page.done + 1 = K THEN Idle ELSE Page(n, gs, page.done + 1)
  BY <1>2, Posted DEF DoneInv
<1>4. page.done + 1 = K
  <2>1. Page(n, gs, page.done + 1) # Idle
    <3>1. Page(n, gs, page.done + 1).done # Idle.done
      BY <1>3 DEF Page, Idle
    <3> QED BY <3>1
  <2> QED BY <1>3, <2>1
<1>5. /\ InOrder(gs) /\ posting = MandateFor(n, gs[K])
      /\ \A k \in DOMAIN gs : k <= page.done =>
           lodged[a(k)].mandate = MandateFor(n, gs[k])
  BY <1>1, <1>4 DEF DoneInv, GroupsInv
<1>6. \A k \in DOMAIN gs : gs[k] \in Group /\ gs[k].anchor \in Periods /\ gs[k].covers \in SUBSET Periods
  <2>1. \A k \in DOMAIN gs : gs[k] \in Group
    BY <1>3
  <2> QED BY <2>1 DEF Group
<1>7. Periods \subseteq Nat /\ Periods = 0..(PeriodCount - 1) /\ PeriodCount \in Nat \ {0}
  BY TermsAssumption DEF Periods
<1>8. ASSUME NEW k \in DOMAIN gs
      PROVE  lodged'[a(k)].mandate = MandateFor(n, gs[k])
  <2>1. SlotOf(posting) = a(K)
    BY <1>5 DEF MandateFor, SlotOf
  <2>2. CASE k = K
    BY <1>3, <1>5, <2>1, <2>2
  <2>3. CASE k # K
    <3>1. k \in Nat /\ k <= page.done /\ k < K /\ K \in DOMAIN gs
      BY <1>3, <1>4, <1>8, <2>3
    <3>2. gs[k].anchor < gs[K].anchor /\ gs[k].anchor \in Nat
      BY <1>5, <1>6, <1>7, <3>1 DEF InOrder
    <3>3. a(k) \in Slots /\ a(k) # a(K)
      BY <1>3, <1>6, <3>2 DEF Slots
    <3> QED BY <1>3, <1>5, <2>1, <3>1, <3>3
  <2> QED BY <2>2, <2>3
<1>9. ASSUME NEW k \in DOMAIN gs
      PROVE  /\ val[gs[k].anchor] = Units(DueOf(gs[k].covers)) * SCALE
             /\ val[gs[k].anchor] \in Nat
  <2>1. MandateFor(n, gs[k]).value = Units(DueOf(gs[k].covers))
    BY DEF MandateFor
  <2>2. lodged'[a(k)].mandate = MandateFor(n, gs[k])
    BY <1>8
  <2>3. lodged'[a(k)].mandate.value = Units(DueOf(gs[k].covers))
    BY ONLY <2>1, <2>2
  <2>4. Units(DueOf(gs[k].covers)) * SCALE \in Nat
    <3> HIDE DEF gs
    <3>1. DueOf(gs[k].covers) \in Nat
      BY DueOfType
    <3>2. Units(DueOf(gs[k].covers)) \in Nat
      BY <3>1, UnitsRoundUp
    <3> QED BY <3>2, MandateAssumption
  <2> QED BY <1>6, <2>3, <2>4
<1>10. val \in [Periods -> Nat]
  <2>2. \A j \in Periods : val[j] \in Nat
    <3> SUFFICES ASSUME NEW j \in Periods PROVE val[j] \in Nat
      OBVIOUS
    <3>1. CASE \E k \in DOMAIN gs : gs[k].anchor = j
      <4>1. PICK k \in DOMAIN gs : gs[k].anchor = j
        BY <3>1
      <4>2. val[gs[k].anchor] \in Nat
        BY <1>9
      <4> HIDE DEF val
      <4> QED BY <4>1, <4>2
    <3>2. CASE ~ \E k \in DOMAIN gs : gs[k].anchor = j
      BY <3>2
    <3> QED BY <3>1, <3>2
  <2> QED BY <2>2
<1>11. \A i : upTo(i) = SumOf([j \in Periods |-> IF j <= i THEN val[j] ELSE 0])
  BY Zenon
<1> HIDE DEF gs, K, val, upTo
<1>12. ASSUME NEW k \in Nat, k <= K
       PROVE  /\ Lodgings(gs, val, k) \in [Periods -> Nat]
              /\ DueOf(Asked(gs, k)) <= SumOf(Lodgings(gs, val, k))
              /\ SumOf(Lodgings(gs, val, k)) <= DueOf(Asked(gs, k)) + (SCALE - 1) * k
  BY <1>5, <1>9, <1>10, <1>12, LodgedCovers DEF K
<1>13. ASSUME NEW i
       PROVE  [j \in Periods |-> IF j <= i THEN val[j] ELSE 0] \in [Periods -> Nat]
  BY <1>10
<1>14. ASSUME NEW i \in asked
       PROVE  upTo(i) >= DueOf({j \in asked : j <= i})
  <2> DEFINE f == [j \in Periods |-> IF j <= i THEN val[j] ELSE 0]
  <2>1. PICK k \in DOMAIN gs : i \in gs[k].covers
    OBVIOUS
  <2>2. k \in 1..K /\ k \in Nat /\ k <= K /\ i \in Nat
    BY <1>3, <1>6, <1>7, <2>1
  <2>3. \A p \in Periods : Lodgings(gs, val, k)[p] <= f[p]
    <3> SUFFICES ASSUME NEW p \in Periods PROVE Lodgings(gs, val, k)[p] <= f[p]
      OBVIOUS
    <3>1. CASE \E l \in 1..k : gs[l].anchor = p
      <4>1. PICK l \in 1..k : gs[l].anchor = p
        BY <3>1
      <4>2. l \in DOMAIN gs /\ (l = k \/ l < k)
        BY <1>3, <2>2
      <4>3. p <= i
        BY <1>5, <1>6, <1>7, <2>1, <2>2, <4>1, <4>2 DEF InOrder
      <4>4. Lodgings(gs, val, k)[p] = val[p] /\ f[p] = val[p] /\ val[p] \in Nat
        BY <1>10, <3>1, <4>3 DEF Lodgings
      <4> QED BY <4>4
    <3>2. CASE ~ \E l \in 1..k : gs[l].anchor = p
      BY <1>10, <3>2 DEF Lodgings
    <3> QED BY <3>1, <3>2
  <2>4. {j \in asked : j <= i} \subseteq Asked(gs, k)
    <3> SUFFICES ASSUME NEW j \in asked, j <= i PROVE j \in Asked(gs, k)
      OBVIOUS
    <3>1. PICK l \in DOMAIN gs : j \in gs[l].covers
      OBVIOUS
    <3>2. l \in 1..K /\ j \in Nat
      BY <1>3, <1>6, <1>7, <3>1
    <3>3. ~ (k < l)
      BY <1>5, <2>1, <2>2, <3>1, <3>2 DEF InOrder
    <3>4. l \in 1..k
      BY <1>3, <2>2, <3>2, <3>3
    <3> QED BY <3>1, <3>4 DEF Asked
  <2> DEFINE S == {j \in asked : j <= i}
  <2>5. DueOf(S) <= DueOf(Asked(gs, k)) /\ DueOf(S) \in Nat /\ DueOf(Asked(gs, k)) \in Nat
    <3> HIDE DEF S, asked
    <3>1. S \subseteq Asked(gs, k)
      BY <2>4 DEF S
    <3> QED BY <3>1, DueOfMore, DueOfType
  <2>6. f \in [Periods -> Nat]
    BY <1>13
  <2> HIDE DEF f
  <2>7. SumOf(Lodgings(gs, val, k)) <= SumOf(f) /\ SumOf(f) \in Nat
        /\ SumOf(Lodgings(gs, val, k)) \in Nat
    BY <1>12, <2>2, <2>3, <2>6, PeriodSumBelow, PeriodSumType
  <2>8. DueOf(Asked(gs, k)) <= SumOf(Lodgings(gs, val, k))
    BY <1>12, <2>2
  <2>9. upTo(i) = SumOf(f)
    BY <1>11 DEF f
  <2> QED BY <2>5, <2>7, <2>8, <2>9
<1>15. upTo(PeriodCount - 1) < DueOf(asked) + SCALE * Len(gs)
  <2> DEFINE f == [j \in Periods |-> IF j <= PeriodCount - 1 THEN val[j] ELSE 0]
  <2>1. asked = Asked(gs, K)
    BY <1>3 DEF Asked
  <2>2. f = Lodgings(gs, val, K)
    <3>1. \A j \in Periods : f[j] = Lodgings(gs, val, K)[j]
      BY <1>3, <1>7 DEF Lodgings, val
    <3> QED BY <3>1 DEF Lodgings
  <2>3. upTo(PeriodCount - 1) = SumOf(Lodgings(gs, val, K))
    BY <1>11, <2>2
  <2>4. /\ SumOf(Lodgings(gs, val, K)) <= DueOf(asked) + (SCALE - 1) * K
        /\ SumOf(Lodgings(gs, val, K)) \in Nat /\ DueOf(asked) \in Nat
    <3>1. /\ Lodgings(gs, val, K) \in [Periods -> Nat]
          /\ SumOf(Lodgings(gs, val, K)) <= DueOf(Asked(gs, K)) + (SCALE - 1) * K
      BY <1>3, <1>12
    <3>2. SumOf(Lodgings(gs, val, K)) \in Nat
      BY <3>1, PeriodSumType
    <3> HIDE DEF asked
    <3>3. DueOf(asked) \in Nat
      BY DueOfType
    <3> QED BY <2>1, <3>1, <3>2, <3>3
  <2>5. (SCALE - 1) * K = SCALE * K - K /\ SCALE * K \in Nat /\ K > 0
    <3>1. K \in Nat /\ SCALE \in Nat /\ page.done \in Nat /\ page.done < K
      BY <1>3, MandateAssumption
    <3> QED BY ONLY <3>1
  <2> QED BY <1>3, <2>3, <2>4, <2>5 DEF K
<1> QED BY <1>14, <1>15 DEF DoneStep, gs, upTo

(***************************************************************************)
(* When the page says it is done, what is lodged covers the periods it     *)
(* asked for, in the order the vault fills them: each group is lodged for  *)
(* the sum of its dues, at its first period, and the groups follow each    *)
(* other.  Rounding adds less than a token unit a signature.               *)
(***************************************************************************)
THEOREM DoneIsCovered == LodgingSpec => DoneCovers
BY DoneInvariant, DoneNextStep, PTL DEF LodgingSpec, DoneCovers
=============================================================================
