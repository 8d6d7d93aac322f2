------------------------------ MODULE Lodging ------------------------------
(***************************************************************************)
(* How the borrower's signatures come to be: the signing page              *)
(* (web/src/components/mandate-signer.tsx with lib/mandate.ts), the route  *)
(* that lodges them (backend/src/mandates), and the agent that collects    *)
(* what is lodged, over the contracts.                                     *)
(*                                                                         *)
(* The page works for one borrower on one note.  It signs one mandate per  *)
(* group of periods, for their sum, at the first of them; or one permit    *)
(* for the whole schedule.  The agent is reduced to what it does with a    *)
(* row: read it, have it collected, mark it; module Agent has the rest.    *)
(***************************************************************************)
EXTENDS RepaymentMandate, Sequences

CONSTANTS
  MaxSignatures,   \* bound: the signatures given
  None

ASSUME LodgingAssumption ==
  /\ MaxSignatures \in Nat
  /\ None \notin [mandate : Mandate, collected : BOOLEAN]

VARIABLES
  lodged,     \* the mandate table, by note and period
  page,       \* where the page is, with the groups it still has to sign
  posting,    \* a mandate the route has looked up and not written yet
  permit,     \* the value of a permit signed and not mined
  sweep,      \* the mandates the agent has read, and the one it has had mined
  signed      \* history: the mandates, and the permits, the borrower signed

pageVars == <<lodged, page, posting, permit, sweep, signed>>
lodgingVars == <<allVars, pageVars>>

Row(m, isCollected) == [mandate |-> m, collected |-> isCollected]
Page(n, groups, done) == [note |-> n, groups |-> groups, done |-> done]
Idle == Page(None, <<>>, 0)
Sweep(left, mined) == [left |-> left, mined |-> mined]
Resting == Sweep({}, None)

LodgingInit ==
  /\ MandateInit
  /\ lodged  = [s \in Slots |-> None]
  /\ page    = Idle
  /\ posting = None
  /\ permit  = None
  /\ sweep   = Resting
  /\ signed  = {}

----------------------------------------------------------------------------
\* lib/mandate.ts.
TARGET_SIGNATURES == 4

CeilDiv(a, b) == (a + b - 1) \div b
AtLeastOne(k) == IF k < 1 THEN 1 ELSE k

defaultGroupSize(count) == AtLeastOne(CeilDiv(count, TARGET_SIGNATURES))

sizeOptions(count) ==
  {k \in {1, defaultGroupSize(count), count} \cup {j \in {2, 3, 6} : j < count} :
     k \in 1..count}

\* The k-th `size` of the outstanding periods, in order.
Batch(open, size, k) ==
  {i \in open : Cardinality({j \in open : j < i}) \div size = k - 1}

\* Slip: the mandate is anchored at the end of its group.
GroupsAtTheBack(open, size) ==
  [k \in 1..CeilDiv(Cardinality(open), size) |->
     [anchor |-> CHOOSE i \in Batch(open, size, k) : \A j \in Batch(open, size, k) : j <= i,
      covers |-> Batch(open, size, k)]]

\* The outstanding periods in groups of `size`; each is signed for at the front
\* of its group.
groupPeriods(open, size) ==
  [k \in 1..CeilDiv(Cardinality(open), size) |->
     [anchor |-> CHOOSE i \in Batch(open, size, k) : \A j \in Batch(open, size, k) : i <= j,
      covers |-> Batch(open, size, k)]]

DueOf(periods) == SumOf([i \in Periods |-> IF i \in periods THEN PeriodDue(i) ELSE 0])

----------------------------------------------------------------------------
\* The page.

LodgedFor(n) == {i \in Periods : lodged[<<n, i>>] # None}

\* What the page offers to authorise: pending, and not among the anchors of
\* GET /mandates as it last saw them.  Rows are never deleted, so what it saw
\* is a part of what is there; a failed request counts as an empty list.
OpenPeriods(n, seen) == {i \in Periods : periodStatus[n][i] = "Pending" /\ i \notin seen}

\* authorise(): the groups are those on the screen when the button is pressed.
Authorise(n, size, seen) ==
  /\ page = Idle
  /\ seen \subseteq LodgedFor(n)
  /\ size \in sizeOptions(Cardinality(OpenPeriods(n, seen)))
  /\ page' = Page(n, groupPeriods(OpenPeriods(n, seen), size), 0)
  /\ UNCHANGED <<allVars, lodged, posting, permit, sweep, signed>>

\* Live from the end of the anchor to the end of its cure window.
MandateFor(n, group) ==
  [note |-> n, period |-> group.anchor, value |-> Units(DueOf(group.covers)),
   validAfter |-> PeriodEnd(group.anchor),
   validBefore |-> PeriodEnd(group.anchor) + GracePeriod + CureWindow]

\* The wallet is asked.
Sign(what) ==
  /\ Cardinality(signed \cup {what}) <= MaxSignatures
  /\ signed' = signed \cup {what}

Fail == page' = Idle

\* mandates/verify.ts, judged on the chain's time.
windowProblem(m) ==
  IF m.validBefore <= m.validAfter THEN "inverted"
  ELSE IF m.validBefore <= now THEN "already-expired" ELSE "none"
coversPeriod(m) == m.value * SCALE >= PeriodDue(m.period)

\* The route, up to the look-up: a collected row is refused.
MayLodge(m) ==
  /\ windowProblem(m) = "none"
  /\ coversPeriod(m)
  /\ lodged[<<m.note, m.period>>] # None => ~lodged[<<m.note, m.period>>].collected

\* One turn of the loop: sign, and POST; or the wallet declines, and the loop
\* ends with what is lodged so far.  It ends as well if the route refuses, or is
\* not reached: with a signature given, which whoever saw it may use.
SignGroup ==
  LET m == MandateFor(page.note, page.groups[page.done + 1])
  IN  /\ page # Idle /\ posting = None
      /\ \/ /\ Sign(m)
            /\ MayLodge(m)
            /\ posting' = m
            /\ UNCHANGED page
         \/ Fail /\ UNCHANGED posting /\ (Sign(m) \/ UNCHANGED signed)
      /\ UNCHANGED <<allVars, lodged, permit, sweep>>

\* Slip: the replaced row starts afresh.
UpsertAfresh(s, m) == [lodged EXCEPT ![s] = Row(m, FALSE)]

\* "Re-signing replaces"; an update leaves collectedTx alone.
Upsert(s, m) ==
  [lodged EXCEPT ![s] = Row(m, IF lodged[s] = None THEN FALSE ELSE lodged[s].collected)]

\* The route's write, and its answer.
Post ==
  LET done == page.done + 1
  IN  /\ posting # None
      /\ lodged'  = Upsert(<<posting.note, posting.period>>, posting)
      /\ page'    = IF done = Len(page.groups) THEN Idle
                    ELSE Page(page.note, page.groups, done)
      /\ posting' = None
      /\ UNCHANGED <<allVars, permit, sweep, signed>>

\* Slip: a permit for what is lodged no mandate for.
SignPermitForTheRest(n) ==
  /\ page = Idle /\ permit = None
  /\ OpenPeriods(n, LodgedFor(n)) # {}
  /\ permit' = [note |-> n, value |-> Units(DueOf(Periods \ LodgedFor(n)))]
  /\ Sign(permit')
  /\ UNCHANGED <<allVars, lodged, page, posting, sweep>>

\* authoriseOnce(): outstanding() is read, a permit for it signed, and sent.
SignPermit(n) ==
  /\ page = Idle /\ permit = None
  /\ OpenPeriods(n, {}) # {}
  /\ permit' = [note |-> n, value |-> Outstanding(n)]
  /\ Sign(permit')
  /\ UNCHANGED <<allVars, lodged, page, posting, sweep>>

\* Mined before its deadline, 90 days past the schedule.
AuthorizeOnce ==
  /\ permit # None
  /\ Authorize(permit.note, permit.value)
  /\ permit' = None
  /\ UNCHANGED <<lodged, page, posting, sweep, signed>>

----------------------------------------------------------------------------
\* The agent, on the table.  A tick holds the mandates of the periods it found
\* short, with their window open, and acts on what it read.
Collectable(s) ==
  /\ lodged[s] # None /\ ~lodged[s].collected
  /\ agentOf[s[1]] # NoAgent /\ Live(s[1])
  /\ paidOf[s[1]][s[2]] < PeriodDue(s[2])
  /\ now > lodged[s].mandate.validAfter /\ now < lodged[s].mandate.validBefore

ReadRows ==
  /\ sweep = Resting
  /\ \E s \in Slots : Collectable(s)
  /\ sweep' = Sweep({lodged[s].mandate : s \in {t \in Slots : Collectable(t)}}, None)
  /\ UNCHANGED <<allVars, lodged, page, posting, permit, signed>>

\* One at a time, in order; a refusal is logged.
CollectNext ==
  \E m \in sweep.left :
     /\ sweep.mined = None
     /\ \A k \in sweep.left : k.period >= m.period
     /\ \/ Collect(m) /\ sweep' = Sweep(sweep.left \ {m}, m)
        \/ sweep' = Sweep(sweep.left \ {m}, None) /\ UNCHANGED allVars
     /\ UNCHANGED <<lodged, page, posting, permit, signed>>

MarkRow ==
  LET s == <<sweep.mined.note, sweep.mined.period>>
  IN  /\ sweep.mined # None
      /\ lodged' = [lodged EXCEPT ![s] = Row(@.mandate, TRUE)]
      /\ sweep'  = Sweep(sweep.left, None)
      /\ UNCHANGED <<allVars, page, posting, permit, signed>>

\* Servicing meanwhile, of a note that is delegated once; payments by hand are
\* made by anyone.  Module Agent has the rest of it.
Serviced ==
  /\ \/ Tick
     \/ \E n \in NoteIds :
          \/ \E first \in Periods, value \in Payments : PayByHand(n, first, value)
          \/ \E agent \in Agents :
               \/ agentOf[n] = NoAgent /\ Delegate(n, agent)
               \/ \E i \in Periods : SettlePeriod(n, i, agent, TRUE)
               \/ \E i \in Periods : MarkDelinquent(n, i, agent)
               \/ DefaultNote(n, agent)
  /\ UNCHANGED mandateVars

\* The mandates among what the borrower signed.
SignedMandates == {m \in signed : "period" \in DOMAIN m}

\* Anyone may submit a signature of the borrower's, and draw on a permit.
OnChain ==
  /\ \/ Serviced
     \/ \E m \in SignedMandates : Collect(m)
     \/ \E n \in NoteIds, i \in Periods : CollectScheduled(n, i)
     \/ \E b \in Borrowers, amount \in Spendings : Spend(b, amount)
  /\ UNCHANGED pageVars

LodgingNext ==
  \/ OnChain
  \/ \E n \in NoteIds :
       \/ SignPermit(n)
       \/ \E size \in 1..PeriodCount, seen \in SUBSET Periods : Authorise(n, size, seen)
  \/ SignGroup
  \/ Post
  \/ AuthorizeOnce
  \/ ReadRows
  \/ CollectNext
  \/ MarkRow

LodgingSpec == LodgingInit /\ [][LodgingNext]_lodgingVars

\* A row not marked collected is all the agent sees of its period, though its
\* window may be over: it stands in the way of the standing authorisation.
RowHides(n, i) == lodged[<<n, i>>] # None /\ ~lodged[<<n, i>>].collected

\* What the agent sends under a standing authorisation, for a note delegated to
\* it: nothing once a default is what it decides, which the dry run of the
\* configuration's own default does not send.
AgentPulls(n, i) ==
  /\ agentOf[n] # NoAgent /\ Live(n) /\ ~MayDefault(n)
  /\ now > PeriodEnd(i)
  /\ ~RowHides(n, i)
  /\ CollectScheduled(n, i)
  /\ UNCHANGED pageVars

\* The loop never stops; blocks keep coming.
FairLodgingSpec ==
  /\ LodgingSpec
  /\ WF_lodgingVars(Serviced /\ Tick /\ UNCHANGED pageVars)
  /\ \A n \in NoteIds, i \in Periods : WF_lodgingVars(AgentPulls(n, i))

----------------------------------------------------------------------------
(***************************************************************************)
(* A mandate moves what was signed for on the page, once, inside its       *)
(* window, whatever was re-signed, replaced, refused by the route or       *)
(* submitted by somebody else; a standing authorisation takes from a       *)
(* period at most its due, rounded up to a token unit, once, and not       *)
(* before its end.                                                         *)
(***************************************************************************)
PullsAsSigned == [][PullsAs(SignedMandates)]_lodgingVars

(***************************************************************************)
(* lib/mandate.ts: "a single mandate for the sum of several consecutive    *)
(* periods settles all of them".  When the page says it is done, what is   *)
(* lodged for the periods on its screen covers them in the order the vault *)
(* fills them, at every period, and exceeds the whole by less than a token *)
(* unit a signature.                                                       *)
(***************************************************************************)
DoneStep ==
  (posting # None /\ page' = Idle) =>
    LET asked == UNION {page.groups[k].covers : k \in DOMAIN page.groups}
        value(i) == IF \E k \in DOMAIN page.groups : page.groups[k].anchor = i
                    THEN lodged'[<<page.note, i>>].mandate.value * SCALE ELSE 0
        upTo(i) == SumOf([j \in Periods |-> IF j <= i THEN value(j) ELSE 0])
    IN  /\ \A i \in asked : upTo(i) >= DueOf({j \in asked : j <= i})
        /\ upTo(PeriodCount - 1) < DueOf(asked) + SCALE * Len(page.groups)
DoneCovers == [][DoneStep]_lodgingVars

(***************************************************************************)
(* "Four is a number a person will sit through": by default the page asks  *)
(* for at most that many signatures, with the smallest groups that do, for *)
(* schedules of every length up to MaxPeriods; and it is on the menu.      *)
(***************************************************************************)
MaxPeriods == 24
ASSUME FewSignatures ==
  \A count \in 1..MaxPeriods :
     /\ CeilDiv(count, defaultGroupSize(count)) <= TARGET_SIGNATURES
     /\ \A size \in 1..(defaultGroupSize(count) - 1) :
          CeilDiv(count, size) > TARGET_SIGNATURES
     /\ {1, defaultGroupSize(count), count} \subseteq sizeOptions(count)

(***************************************************************************)
(* RepaymentMandate.sol: "One signature, at the start, for the whole       *)
(* schedule".  A scheduled pull takes exactly what its period lacks,       *)
(* rounded up to a token unit.  One permit for all that is outstanding is  *)
(* enough when it is mined, though its amount was read before the wallet   *)
(* asked; and it stays enough through every pull, mandate, settlement and  *)
(* payment by hand, until the borrower signs a smaller one.                *)
(***************************************************************************)
PermitStep ==
  \A n \in NoteIds :
     (permit # None /\ permit.note = n /\ permit' = None) =>
        allowance'[BorrowerOf[n]] >= Outstanding(n)'
StandingHonoured == [][PullStep /\ PermitStep /\ CoverStep]_lodgingVars

(***************************************************************************)
(* And nobody has to come back for it: a period of a delegated note, with  *)
(* a standing authorisation and the money for all that is outstanding left *)
(* in place and no mandate lodged for it that hides them, gets paid; or    *)
(* the note closes, or stays past its cure window, where the agent has     *)
(* nothing but a default for it.                                           *)
(***************************************************************************)
LeftToTheAgent(n, i) == agentOf[n] # NoAgent /\ Provided(n) /\ ~RowHides(n, i)
SchedulePaid ==
  \A n \in NoteIds, i \in Periods :
     <>[]LeftToTheAgent(n, i) =>
       <>(paidOf[n][i] = PeriodDue(i) \/ ~Live(n)) \/ <>[]MayDefault(n)

(***************************************************************************)
(* A row is marked collected only when its money has moved, and stays      *)
(* marked, though the borrower may be signing the same period again while  *)
(* the agent collects it.                                                  *)
(***************************************************************************)
MarkStep ==
  \A s \in Slots :
     lodged'[s] # None =>
       /\ lodged'[s].collected => s \in spentNonces
       /\ lodged[s] # None /\ lodged[s].collected => lodged'[s].collected
MarksHold == [][MarkStep]_lodgingVars

(***************************************************************************)
(* mandate-signer.tsx, once everything is authorised: "Nothing is taken    *)
(* early, nothing is taken twice".  Mandates take no more for a note than  *)
(* it is due, to the unit each of them is rounded up.                      *)
(***************************************************************************)
NothingTakenTwice ==
  \A n \in NoteIds :
     SumOf([i \in Periods |-> drawn[<<n, i>>] * SCALE]) < DueOf(Periods) + SCALE * PeriodCount
=============================================================================
