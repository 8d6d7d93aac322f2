-------------------------------- MODULE Agent --------------------------------
(***************************************************************************)
(* backend/src/agent: the loop that services notes, over the contracts it  *)
(* calls.  A tick reads the chain's clock, then every note, period by      *)
(* period, then acts on what it read, one transaction at a time.  The      *)
(* chain moves between any two of its steps, so what it acts on may be     *)
(* stale; the contracts judge when the transaction is mined.               *)
(*                                                                         *)
(* The reads issued together for one period (or for one note's header) are *)
(* one step, and so are those of a note's standing authorisation.  Running *)
(* out of gas, and a source that lags, only skip ticks.                    *)
(***************************************************************************)
EXTENDS RepaymentMandate, SequencesExt

CONSTANTS
  Me,             \* the agent's address
  NoteSeq,        \* the notes in the order the factory numbers them
  Lodged,         \* mandates in the database at first, at most one per slot
  MAX_ACTIONS_PER_TICK,
  DEFAULT_DRY_RUN,
  MaxFaults       \* bound: timeouts, crashes and lost writes explored

ASSUME AgentAssumption ==
  /\ Me \in Agents
  /\ NoteSeq \in Seq(NoteIds)
  /\ Lodged \subseteq Signed
  /\ \A m, k \in Lodged : m.note = k.note /\ m.period = k.period => m = k
  /\ MAX_ACTIONS_PER_TICK \in Nat
  /\ DEFAULT_DRY_RUN \in BOOLEAN
  /\ MaxFaults \in Nat

VARIABLES
  phase,      \* "idle", "ticking", or "waiting" for a receipt
  clock,      \* the chain's time, read once a tick
  todo,       \* what is left to read
  since,      \* firstMissedAt, as read
  work,       \* the unsettled periods as read, in order, left to act on
  held,       \* the authorisations read for them
  acted,      \* actionsTaken
  tried,      \* notes whose default this tick has decided
  rows,       \* the mandates in the database not marked collected
  pending,    \* transactions sent and not mined: one signer, in nonce order
  outcome,    \* of the transaction the agent waits for
  faults,
  lateSlots   \* history: the periods short when their grace ended

viewVars  == <<clock, todo, since, work, held, acted, tried>>
agentVars == <<phase, viewVars, rows, pending, outcome, faults>>
everyVar  == <<allVars, agentVars, lateSlots>>

\* What a tick reads of each note: whether it is delegated here, its header,
\* its periods, its standing authorisation, and the rows lodged for it.
Parts == PeriodCount + 4
ReadPlan ==
  [x \in 1..(Len(NoteSeq) * Parts) |->
     <<NoteSeq[((x - 1) \div Parts) + 1], (x - 1) % Parts>>]

AtRest ==
  /\ phase = "idle" /\ clock = 0 /\ todo = <<>> /\ work = <<>> /\ held = {}
  /\ since = [n \in NoteIds |-> 0]
  /\ acted = 0 /\ tried = {} /\ outcome = "none"

AgentInit ==
  /\ MandateInit
  /\ AtRest
  /\ rows = Lodged
  /\ pending = <<>>
  /\ faults = 0
  /\ lateSlots = {}

Fault == faults < MaxFaults /\ faults' = faults + 1

\* The end of a tick, and of the process: nothing read is kept.
Forget ==
  /\ phase' = "idle" /\ clock' = 0 /\ todo' = <<>> /\ work' = <<>> /\ held' = {}
  /\ since' = [n \in NoteIds |-> 0]
  /\ acted' = 0 /\ tried' = {} /\ outcome' = "none"

----------------------------------------------------------------------------
\* Reading.
StartTick ==
  /\ phase = "idle"
  /\ phase' = "ticking"
  /\ clock' = now
  /\ todo'  = ReadPlan
  /\ UNCHANGED <<allVars, since, work, held, acted, tried, rows, pending,
                 outcome, faults>>

SkipNote(n) == todo' = SelectSeq(todo, LAMBDA part : part[1] # n)

\* serviceable() passes over notes not delegated here, ...
ReadDelegation(n) ==
  /\ Head(todo) = <<n, 0>>
  /\ IF agentOf[n] = Me THEN todo' = Tail(todo) ELSE SkipNote(n)
  /\ UNCHANGED <<since, work, held>>

\* ... and loadNote() over closed ones.
ReadHeader(n) ==
  /\ Head(todo) = <<n, 1>>
  /\ IF Live(n)
     THEN /\ since' = [since EXCEPT ![n] = firstMissedAt[n]]
          /\ todo'  = Tail(todo)
     ELSE SkipNote(n) /\ UNCHANGED since
  /\ UNCHANGED <<work, held>>

ReadPeriod(n, i) ==
  /\ Head(todo) = <<n, i + 2>>
  /\ todo' = Tail(todo)
  /\ work' = IF periodStatus[n][i] \in Done THEN work
             ELSE Append(work, [note |-> n, period |-> i, paid |-> paidOf[n][i],
                                status |-> periodStatus[n][i]])
  /\ UNCHANGED <<since, held>>

Standing(n, i) == [kind |-> "standing", note |-> n, period |-> i, value |-> 0,
                   validAfter |-> PeriodEnd(i), validBefore |-> MaxTime + 1]
Presented(m) == [kind |-> "signed", note |-> m.note, period |-> m.period,
                 value |-> m.value, validAfter |-> m.validAfter,
                 validBefore |-> m.validBefore]

\* standingFor(), for the unsettled periods read.  A read that fails counts as
\* no allowance, or as a period already drawn.
ReadStanding(n) ==
  LET covered == {i \in Periods :
                    /\ \E k \in DOMAIN work : work[k].note = n /\ work[k].period = i
                    /\ allowance[BorrowerOf[n]] # 0
                    /\ <<n, i>> \notin collected}
  IN  /\ Head(todo) = <<n, PeriodCount + 2>>
      /\ todo' = Tail(todo)
      /\ \E answered \in SUBSET covered :
           held' = {a \in held : a.note # n} \cup {Standing(n, i) : i \in answered}
      /\ UNCHANGED <<since, work>>

\* mandatesFor(): a mandate not marked collected wins over the standing one for
\* its period, whatever its window.
ReadMandates(n) ==
  LET unspent == {m \in rows : m.note = n}
  IN  /\ Head(todo) = <<n, PeriodCount + 3>>
      /\ todo' = Tail(todo)
      /\ held' = {a \in held : \A m \in unspent : <<m.note, m.period>> # <<a.note, a.period>>}
                 \cup {Presented(m) : m \in unspent}
      /\ UNCHANGED <<since, work>>

Read ==
  /\ phase = "ticking" /\ todo # <<>>
  /\ \E n \in NoteIds :
       \/ ReadDelegation(n)
       \/ ReadHeader(n)
       \/ \E i \in Periods : ReadPeriod(n, i)
       \/ ReadStanding(n)
       \/ ReadMandates(n)
  /\ UNCHANGED <<allVars, phase, clock, acted, tried, rows, pending,
                 outcome, faults>>

----------------------------------------------------------------------------
\* decide(), of a period as read.  Slip: the clock is read again.
ClockNow  == now
ClockRead == clock

Authorisation(p) == {a \in held : a.note = p.note /\ a.period = p.period}

\* Slip: an authorisation is used whatever its window.
CoveredAlways(p) == Authorisation(p) # {}
Covered(p) ==
  \E a \in Authorisation(p) : ClockRead > a.validAfter /\ ClockRead < a.validBefore

Paid(p) == p.paid >= PeriodDue(p.period)

Lapsed(p) == since[p.note] > 0 /\ ClockRead > since[p.note] + CureWindow

Decide(p) ==
  CASE Lapsed(p)                                -> "DEFAULT"
    [] ~Lapsed(p) /\ Paid(p)                    ->
         IF ClockRead < PeriodEnd(p.period) THEN "WAIT" ELSE "SETTLE"
    [] ~Lapsed(p) /\ ~Paid(p) /\ Covered(p)     -> "COLLECT"
    [] ~Lapsed(p) /\ ~Paid(p) /\ ~Covered(p)    ->
         IF \/ ClockRead <= PeriodEnd(p.period) + GracePeriod
            \/ p.status = "Missed"
         THEN "WAIT" ELSE "DELINQUENT"

Transaction(p) ==
  [action |-> Decide(p), note |-> p.note, period |-> p.period,
   authority |-> IF Decide(p) = "COLLECT" THEN Authorisation(p) ELSE {}]

\* Whether the contract would accept a transaction now: what simulating it
\* answers, and what mining it does.
Accepted(tx) ==
  LET n == tx.note
      i == tx.period
      b == BorrowerOf[n]
  IN  CASE tx.action = "SETTLE"     -> agentOf[n] = Me /\ MaySettle(n, i)
        [] tx.action = "DELINQUENT" -> agentOf[n] = Me /\ MayMiss(n, i)
        [] tx.action = "DEFAULT"    -> agentOf[n] = Me /\ MayDefault(n)
        [] tx.action = "COLLECT"    ->
             \E a \in tx.authority :
                \/ /\ a.kind = "signed"
                   /\ a.value > 0 /\ Honoured(a) /\ wallet[b] >= a.value * SCALE
                   /\ MayRepay(n, i, a.value * SCALE)
                \/ /\ a.kind = "standing"
                   /\ MayCollect(n, i) /\ wallet[b] >= Charge(n, i) * SCALE
                   /\ MayRepay(n, i, Charge(n, i) * SCALE)

Effect(tx) ==
  \/ /\ \/ /\ tx.action = "SETTLE"
           /\ \E accepted \in BOOLEAN : SettlePeriod(tx.note, tx.period, Me, accepted)
        \/ tx.action = "DELINQUENT" /\ MarkDelinquent(tx.note, tx.period, Me)
        \/ tx.action = "DEFAULT" /\ DefaultNote(tx.note, Me)
     /\ UNCHANGED mandateVars
  \/ /\ tx.action = "COLLECT"
     /\ \E a \in tx.authority :
          \/ a.kind = "signed" /\ Collect(a)
          \/ a.kind = "standing" /\ CollectScheduled(tx.note, tx.period)

Acting == phase = "ticking" /\ todo = <<>>

\* The tick ends when everything read has been considered, or at the cap.
EndTick ==
  /\ Acting
  /\ work = <<>> \/ acted >= MAX_ACTIONS_PER_TICK
  /\ Forget
  /\ UNCHANGED <<allVars, rows, pending, faults>>

\* A default is decided once per note and tick, and sent unless it is a dry run.
Suppressed(p) == Decide(p) = "DEFAULT" /\ (p.note \in tried \/ DEFAULT_DRY_RUN)

\* act(): a transaction is simulated, then sent; a refusal is logged.
Consider ==
  LET p  == Head(work)
      go == Decide(p) # "WAIT" /\ ~Suppressed(p) /\ Accepted(Transaction(p))
  IN  /\ Acting /\ work # <<>> /\ acted < MAX_ACTIONS_PER_TICK
      /\ tried' = IF Decide(p) = "DEFAULT" THEN tried \cup {p.note} ELSE tried
      /\ IF go
         THEN /\ pending' = Append(pending, Transaction(p))
              /\ phase' = "waiting"
              /\ UNCHANGED work
         ELSE /\ work' = Tail(work)
              /\ UNCHANGED <<pending, phase>>
      /\ UNCHANGED <<allVars, clock, todo, since, held, acted, rows, outcome, faults>>

\* The rows a finished transaction marks collected.  Slip: whatever became of it.
MarkedAnyway(p) ==
  {m \in rows : \E a \in Transaction(p).authority :
                   a.kind = "signed" /\ <<m.note, m.period>> = <<a.note, a.period>>}
Marked(p) ==
  {m \in rows : /\ outcome = "success"
                /\ \E a \in Transaction(p).authority :
                     a.kind = "signed" /\ <<m.note, m.period>> = <<a.note, a.period>>}

\* The receipt.  Writing collectedTx may fail, and the loss is swallowed.
Receipt ==
  LET p == Head(work)
  IN  /\ phase = "waiting" /\ pending = <<>>
      /\ phase' = "ticking"
      /\ work'  = Tail(work)
      /\ acted' = IF outcome = "success" THEN acted + 1 ELSE acted
      /\ outcome' = "none"
      /\ \/ rows' = rows \ Marked(p) /\ UNCHANGED faults
         \/ Marked(p) # {} /\ Fault /\ UNCHANGED rows
      /\ UNCHANGED <<allVars, clock, todo, since, held, tried, pending>>

\* The wait for the receipt, or the answer to the send, times out: an error
\* like any other, and the loop goes on.
Timeout ==
  /\ phase = "waiting" /\ pending # <<>>
  /\ Fault
  /\ phase' = "ticking"
  /\ work'  = Tail(work)
  /\ UNCHANGED <<allVars, clock, todo, since, held, acted, tried, rows,
                 pending, outcome>>

\* A read that throws ends the tick; a crash ends it anywhere.
Stop ==
  /\ phase # "idle"
  /\ Fault
  /\ Forget
  /\ UNCHANGED <<allVars, rows, pending>>

----------------------------------------------------------------------------
\* The chain: a transaction of the agent's is mined, and reverts if its
\* conditions no longer hold.
Mine ==
  LET tx == Head(pending)
      told(answer) == IF phase = "waiting" /\ Len(pending) = 1 THEN answer ELSE "none"
  IN  /\ pending # <<>>
      /\ pending' = Tail(pending)
      /\ \/ Effect(tx) /\ outcome' = told("success")
         \/ ~Accepted(tx) /\ outcome' = told("reverted") /\ UNCHANGED allVars
      /\ UNCHANGED <<phase, viewVars, rows, faults, lateSlots>>

Deadline(i) == PeriodEnd(i) + GracePeriod

Block ==
  /\ Tick
  /\ lateSlots' = lateSlots \cup
       {s \in Slots : /\ now <= Deadline(s[2]) /\ now' > Deadline(s[2])
                      /\ paidOf[s[1]][s[2]] < PeriodDue(s[2])}
  /\ UNCHANGED <<mandateVars, agentVars>>

\* Everyone else's transactions: the originator's, payments by hand, the
\* borrower's permits and other spending, and relayers of their signatures.
Others ==
  /\ \/ /\ \E n \in NoteIds :
             \/ Delegate(n, Me) \/ RevokeDelegation(n)
             \/ \E first \in Periods, value \in Payments : PayByHand(n, first, value)
        /\ UNCHANGED mandateVars
     \/ \E m \in Signed : Collect(m)
     \/ \E n \in NoteIds, value \in Ceilings : Authorize(n, value)
     \/ \E n \in NoteIds, i \in Periods : CollectScheduled(n, i)
     \/ \E b \in Borrowers, amount \in Spendings : Spend(b, amount)
  /\ UNCHANGED <<agentVars, lateSlots>>

AgentStep == (StartTick \/ Read \/ EndTick \/ Consider \/ Receipt) /\ UNCHANGED lateSlots
AgentFails == (Timeout \/ Stop) /\ UNCHANGED lateSlots

AgentNext == AgentStep \/ AgentFails \/ Mine \/ Block \/ Others

AgentSpec == AgentInit /\ [][AgentNext]_everyVar

\* The runner schedules the next tick whatever became of the last one and the
\* loop awaits nothing forever; blocks come and include what was sent.
FairAgentSpec ==
  /\ AgentSpec
  /\ WF_everyVar(AgentStep)
  /\ WF_everyVar(Mine)
  /\ WF_everyVar(Block)

----------------------------------------------------------------------------
(***************************************************************************)
(* The agent marks a period missed only if it was short when its grace     *)
(* ended: neither a stale read, nor a crash, nor a transaction mined long  *)
(* after it was sent puts a miss on the record of a period paid in time.   *)
(* markDelinquent does not look at what was paid, so this rests on the     *)
(* agent reading the clock before it reads the periods.                    *)
(***************************************************************************)
MissedOnlyIfLate ==
  \A n \in NoteIds, i \in Periods :
     periodStatus[n][i] \in {"Missed", "Cured"} => <<n, i>> \in lateSlots

(***************************************************************************)
(* executor.ts, of marking a mandate collected: "Marking it earlier would  *)
(* strand a mandate whose transaction never landed".  A mandate that is    *)
(* marked has been honoured by the token, whatever was lost in between.    *)
(***************************************************************************)
NothingStranded ==
  \A m \in Lodged \ rows : <<m.note, m.period>> \in spentNonces

\* A funded period of a note that stays delegated here is settled, unless its
\* note closes.
FundedSettles ==
  \A n \in NoteIds, i \in Periods :
     <>[](agentOf[n] = Me) =>
       ((paidOf[n][i] = PeriodDue(i)) ~> (periodStatus[n][i] \in Done \/ ~Live(n)))

\* A period short beyond its grace does not stay pending: it is marked, or paid
\* after all.  A standing authorisation too small for it would put that off for
\* ever.
ShortMarked ==
  \A n \in NoteIds, i \in Periods :
     <>[](agentOf[n] = Me /\ allowance[BorrowerOf[n]] = 0) =>
       ((now > Deadline(i) /\ paidOf[n][i] < PeriodDue(i))
          ~> (periodStatus[n][i] # "Pending" \/ paidOf[n][i] = PeriodDue(i) \/ ~Live(n)))

(***************************************************************************)
(* docs/04-backend.md: "paid >= due -> SETTLE", and "paid < due and now >  *)
(* end + grace and status != Missed -> DELINQUENT".  The agent gets there  *)
(* in the end: neither a mandate that can never be collected, nor a lost   *)
(* answer, a crash or a row wrongly left uncollected stands in the way     *)
(* for ever, with the dry run off.                                         *)
(***************************************************************************)
PeriodsResolved == FundedSettles /\ ShortMarked
=============================================================================
