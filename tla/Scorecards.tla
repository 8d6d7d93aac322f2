----------------------------- MODULE Scorecards -----------------------------
(***************************************************************************)
(* backend/src/intel/reader.ts and logs.ts: the scorecards that are sold.  *)
(* A card is put together from one call to the node after another, each    *)
(* answered from the latest block, while transactions are mined between    *)
(* them; logs are fetched window by window up to the block the reading     *)
(* began at, and the node may find any window too large.                   *)
(*                                                                         *)
(* The notes share one originator and one borrower.  A block is mined for  *)
(* every second, so that a time names a block.  Of the originator's card   *)
(* the fate of the proposals, a call each, is left out; the logs and the   *)
(* cures, which the code reads note by note, are read of all notes at once.*)
(***************************************************************************)
EXTENDS ServicingRelay, SequencesExt

CONSTANTS
  DefaultChunk, MinChunk      \* blocks asked for at once: at first, at the least

ASSUME ChunkAssumption ==
  /\ DefaultChunk \in Nat \ {0} /\ MinChunk \in Nat \ {0}
  /\ IsFiniteSet(NoteIds)

VARIABLES
  repaidLogs,    \* the vault's Repaid logs whose payer is the originator
  reading,       \* "idle", "borrower", "originator" (the notes), "logs", "cures"
  todo,          \* the calls still to be made, in their order
  head,          \* the block the reading began at
  from, chunk,   \* where the log windows have got to, and their size
  found,         \* the logs fetched
  card,          \* the counts so far
  before         \* what they would have been in the block `head`

readerVars == <<reading, todo, head, from, chunk, found, card, before>>
scoreVars == <<vars, repaidLogs, readerVars>>

Blank == [matured |-> 0, defaulted |-> 0, live |-> 0, settled |-> 0, missed |-> 0,
          cured |-> 0, outstanding |-> 0, repaid |-> 0, selfCured |-> 0]

ScoreInit ==
  /\ Init
  /\ repaidLogs = {}
  /\ reading = "idle" /\ todo = <<>> /\ head = 0 /\ from = 0 /\ chunk = DefaultChunk
  /\ found = {} /\ card = Blank /\ before = Blank

----------------------------------------------------------------------------
\* The chain meanwhile.

ChainStep(A) == A /\ UNCHANGED <<repaidLogs, readerVars>>

PaidByOriginator(n, first, value) ==
  /\ PayByHand(n, first, value)
  /\ repaidLogs' = repaidLogs \cup {[note |-> n, period |-> first, block |-> now]}
  /\ UNCHANGED readerVars

----------------------------------------------------------------------------
\* The reader.

\* The loops go through the notes by their ids.
NoteCount == Cardinality(NoteIds)
NotesInOrder == SetToSeq(NoteIds)

InAll(S) == {p \in NoteIds \X Periods : periodStatus[p[1]][p[2]] \in S}
Standing(s) == Cardinality({n \in NoteIds : status[n] = s})
SelfCured == {p \in InAll({"Cured"}) :
                \E l \in repaidLogs : l.note = p[1] /\ l.period = p[2]}
TotalOf(paid) ==
  SumTo([k \in 0..(NoteCount - 1) |-> SumOf(paid[NotesInOrder[k + 1]])], NoteCount)

\* The whole card, as one block would have it.
CardNow ==
  [matured |-> Standing("Matured"), defaulted |-> Standing("Defaulted"),
   live |-> NoteCount - Standing("Matured") - Standing("Defaulted"),
   settled |-> Cardinality(InAll(Done)), cured |-> Cardinality(InAll({"Cured"})),
   missed |-> Cardinality(InAll({"Missed", "Cured"})),
   outstanding |-> Cardinality(InAll({"Pending", "Missed"})),
   repaid |-> TotalOf(periodPaid), selfCured |-> Cardinality(SelfCured)]

\* The borrower's card takes the paid amount of a period by a call of its own,
\* next to that of its status.
CallsOf(whose, n) ==
  <<<<"status", n, 0>>>> \o
  IF whose = "originator" THEN [k \in 1..PeriodCount |-> <<"period", n, k - 1>>]
  ELSE [k \in 1..(2 * PeriodCount) |->
          <<IF k % 2 = 1 THEN "period" ELSE "paid", n, (k - 1) \div 2>>]

Calls(whose) ==
  LET upTo[k \in 0..NoteCount] ==
        IF k = 0 THEN <<>> ELSE upTo[k - 1] \o CallsOf(whose, NotesInOrder[k])
  IN  upTo[NoteCount]

Begin(whose) ==
  /\ reading = "idle"
  /\ reading' = whose
  /\ todo' = Calls(whose)
  /\ head' = now /\ from' = MintedAt /\ chunk' = DefaultChunk
  /\ found' = {} /\ card' = Blank /\ before' = CardNow
  /\ UNCHANGED <<vars, repaidLogs>>

One(b) == IF b THEN 1 ELSE 0

WithStatus(c, s) ==
  [c EXCEPT !.matured = @ + One(s = "Matured"), !.defaulted = @ + One(s = "Defaulted"),
            !.live = @ + One(s \notin {"Matured", "Defaulted"})]

\* Slip: a miss counts while it is outstanding, as the note's own counter has it.
WithPeriodOutstanding(c, s) ==
  [c EXCEPT !.settled = @ + One(s \in Done), !.cured = @ + One(s = "Cured"),
            !.missed = @ + One(s = "Missed"), !.outstanding = @ + One(s \notin Done)]

WithPeriod(c, s) ==
  [c EXCEPT !.settled = @ + One(s \in Done), !.cured = @ + One(s = "Cured"),
            !.missed = @ + One(s \in {"Missed", "Cured"}),
            !.outstanding = @ + One(s \notin Done)]

\* One call to the node.
Call ==
  /\ todo # <<>>
  /\ todo' = Tail(todo)
  /\ LET n == Head(todo)[2]
         i == Head(todo)[3]
     IN  card' = CASE Head(todo)[1] = "status" -> WithStatus(card, status[n])
                   [] Head(todo)[1] = "period" -> WithPeriod(card, periodStatus[n][i])
                   [] Head(todo)[1] = "paid"   -> [card EXCEPT !.repaid = @ + periodPaid[n][i]]
                   [] Head(todo)[1] = "cure"   ->
                        [card EXCEPT !.selfCured = @ + One(periodStatus[n][i] = "Cured")]
  /\ UNCHANGED <<vars, repaidLogs, reading, head, from, chunk, found, before>>

\* originator(), from the notes to the logs of what it repaid.
ToLogs ==
  /\ reading = "originator" /\ todo = <<>>
  /\ reading' = "logs"
  /\ UNCHANGED <<vars, repaidLogs, todo, head, from, chunk, found, card, before>>

\* getLogsChunked: the next window.
Window ==
  /\ reading = "logs" /\ from <= head
  /\ LET to == IF from + chunk - 1 > head THEN head ELSE from + chunk - 1
     IN  /\ found' = found \cup {l \in repaidLogs : l.block \in from..to}
         /\ from' = to + 1
  /\ UNCHANGED <<vars, repaidLogs, reading, todo, head, chunk, card, before>>

\* The node refuses the window: a smaller one from the same place, or the whole
\* reading fails, and is answered with "upstream_lagging".
TooLarge ==
  /\ reading = "logs" /\ from <= head
  /\ chunk > MinChunk
  /\ chunk' = chunk \div 2
  /\ UNCHANGED <<vars, repaidLogs, reading, todo, head, from, found, card, before>>

\* The periods that were repaid, each once, however often it was paid into.
ToCures ==
  /\ reading = "logs" /\ from > head
  /\ reading' = "cures"
  /\ todo' = SetToSeq({<<"cure", l.note, l.period>> : l \in found})
  /\ UNCHANGED <<vars, repaidLogs, head, from, chunk, found, card, before>>

Complete == reading \in {"borrower", "cures"} /\ todo = <<>>

\* The card is answered; or a call failed.
Finish ==
  /\ reading # "idle"
  /\ reading' = "idle" /\ todo' = <<>> /\ head' = 0 /\ from' = 0
  /\ chunk' = DefaultChunk /\ found' = {} /\ card' = Blank /\ before' = Blank
  /\ UNCHANGED <<vars, repaidLogs>>

ScoreNext ==
  \/ ChainStep(Tick)
  \/ \E n \in NoteIds :
       \/ \E a \in Agents : ChainStep(Delegate(n, a))
       \/ \E first \in Periods, value \in Payments :
            ChainStep(PayByHand(n, first, value)) \/ PaidByOriginator(n, first, value)
       \/ \E i \in Periods, a \in Agents :
            ChainStep(SettlePeriod(n, i, a, TRUE)) \/ ChainStep(MarkDelinquent(n, i, a))
       \/ \E a \in Agents : ChainStep(DefaultNote(n, a))
  \/ \E whose \in {"borrower", "originator"} : Begin(whose)
  \/ Call \/ ToLogs \/ Window \/ TooLarge \/ ToCures \/ Finish

ScoreSpec == ScoreInit /\ [][ScoreNext]_scoreVars

----------------------------------------------------------------------------
\* onTimeRate is (settled - cured) / resolved, and selfCureRate is
\* selfCured / missed.
Resolved(c) == c.settled + c.missed - c.cured
Rate(part, whole) == whole > 0 => part >= 0 /\ part <= whole

(***************************************************************************)
(* A card describes the time of its reading, though its calls were         *)
(* answered from different blocks: a period that was done, missed or cured *)
(* when the reading began is counted as such, none is that is not by the   *)
(* end of it, no period is lost between two counts, a miss is not          *)
(* un-counted by being cured, and the punctuality sold is a rate.  Of the  *)
(* logs up to that block, however the windows had to shrink, none is       *)
(* missing: a cure the originator had paid for by then is on its card.     *)
(***************************************************************************)
CardOfItsTime ==
  Complete =>
    /\ \A count \in {"matured", "defaulted", "settled", "missed", "cured"} :
         card[count] \in before[count]..CardNow[count]
    /\ card.settled + card.outstanding = Cardinality(NoteIds \X Periods)
    /\ Rate(card.settled - card.cured, Resolved(card))
    /\ reading = "borrower" => card.repaid \in before.repaid..CardNow.repaid
    /\ reading = "cures" => card.selfCured \in before.selfCured..CardNow.selfCured
=============================================================================
