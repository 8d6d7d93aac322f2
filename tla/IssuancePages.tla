---------------------------- MODULE IssuancePages ----------------------------
(***************************************************************************)
(* Issuance with what the web shows of it: the rows the index makes of the *)
(* queue's, the registry's and the factory's events                        *)
(* (subgraph/src/issuance-queue.ts, party-registry.ts, note-factory.ts),   *)
(* the list of proposals that reads the rows, the page of one proposal     *)
(* that reads the queue, and the form that drafts one.  The index is taken *)
(* to be at the chain's head here; Subgraph has it lag.                    *)
(***************************************************************************)
EXTENDS Issuance, FiniteSets, Sums

CONSTANTS
  NoRow,
  NaN,        \* what Number makes of a text that is no number
  Drafts      \* what somebody may fill the form in with

\* A party's row: its counters, of what it did as an originator and, as
\* "accepted", as a borrower.
Counters == {"notesProposed", "notesMinted", "proposalsRejected", "proposalsExpired",
             "principalRaised", "accepted"}
PartyRows == [revoked : BOOLEAN, notesProposed : Nat, notesMinted : Nat,
              proposalsRejected : Nat, proposalsExpired : Nat, principalRaised : Nat,
              accepted : Nat]

\* A number typed in.  A fraction is refused or else fares as NaN does, which
\* passes every comparison and which the wallet cannot encode.
Number == Int \cup {NaN}

Draft == [borrower : Parties, principal : Nat, couponBps : Number,
          servicingFeeBps : Number, periodCount : Number, periodLength : Nat,
          gracePeriod : Nat, cureWindow : Nat, acceptDeadline : Number,
          attached : BOOLEAN]

ASSUME PagesAssumption == NoRow \notin PartyRows /\ NaN \notin Int /\ Drafts \subseteq Draft

VARIABLE rows      \* the index

pageVars == <<issuanceVars, rows>>

PartyRow ==
  [revoked |-> FALSE, notesProposed |-> 0, notesMinted |-> 0, proposalsRejected |-> 0,
   proposalsExpired |-> 0, principalRaised |-> 0, accepted |-> 0]

PagesInit ==
  /\ IssuanceInit
  /\ rows = [party |-> [p \in Parties |-> NoRow], proposal |-> <<>>, note |-> <<>>]

----------------------------------------------------------------------------
\* The handlers.  A party has one row as an originator and one as a borrower,
\* made together; they are one here, and "accepted" is the borrower's count.

handlePartyVerified(r, p) ==
  [r EXCEPT !.party[p] = IF @ = NoRow THEN PartyRow ELSE [@ EXCEPT !.revoked = FALSE]]

handlePartyRevoked(r, p) ==
  IF r.party[p] = NoRow THEN r ELSE [r EXCEPT !.party[p].revoked = TRUE]

\* One more, if the party has a row.
Bump(r, p, field) ==
  IF r.party[p] = NoRow THEN r ELSE [r EXCEPT !.party[p][field] = @ + 1]

handleProposed(r, p, t) ==
  Bump([r EXCEPT !.proposal = Append(@,
          [originator |-> p, borrower |-> t.borrower, status |-> "Proposed",
           proposedAt |-> now, acceptedAt |-> 0, approvedAt |-> 0, note |-> 0])],
       p, "notesProposed")

handleAccepted(r, id) ==
  Bump([r EXCEPT !.proposal[id].status = "Accepted", !.proposal[id].acceptedAt = now],
       r.proposal[id].borrower, "accepted")

handleApproved(r, id) ==
  [r EXCEPT !.proposal[id].status = "Approved", !.proposal[id].approvedAt = now]

handleRejected(r, id) ==
  Bump([r EXCEPT !.proposal[id].status = "Rejected"],
       r.proposal[id].originator, "proposalsRejected")

\* Slip: a proposal that lapses counts as one turned down.
handleExpiredRejected(r, id) ==
  Bump([r EXCEPT !.proposal[id].status = "Expired"],
       r.proposal[id].originator, "proposalsRejected")

handleExpired(r, id) ==
  Bump([r EXCEPT !.proposal[id].status = "Expired"],
       r.proposal[id].originator, "proposalsExpired")

\* The event is the factory's: the queue's own Minted has no handler.
handleNoteIssued(r, id) ==
  LET p == proposals[id]
      m == [r EXCEPT !.note = Append(@, [proposal |-> id, originator |-> p.originator,
                                         borrower |-> p.terms.borrower, mintedAt |-> now]),
                     !.proposal[id].status = "Minted",
                     !.proposal[id].note   = Len(r.note) + 1]
  IN  IF m.party[p.originator] = NoRow THEN m
      ELSE [Bump(m, p.originator, "notesMinted") EXCEPT
              !.party[p.originator].principalRaised = @ + p.terms.principal]

----------------------------------------------------------------------------
\* The form.  It was opened at `opened` and keeps that time.  The limits are
\* the contracts'.

Below(x, y) == x # NaN /\ x < y
Above(x, y) == x # NaN /\ x > y

validateTerms(d, opened) ==
     (IF d.principal <= 0 THEN {"principal"} ELSE {})
  \cup (IF Above(d.couponBps, MAX_COUPON_BPS) \/ Below(d.couponBps, 0)
        THEN {"couponBps"} ELSE {})
  \cup (IF Above(d.servicingFeeBps, MAX_SERVICING_FEE_BPS) THEN {"servicingFeeBps"} ELSE {})
  \cup (IF Below(d.periodCount, 1) THEN {"periodCount"} ELSE {})
  \cup (IF d.periodLength < MIN_PERIOD_LENGTH THEN {"periodLength"} ELSE {})
  \cup (IF Below(d.acceptDeadline, opened + 1) THEN {"acceptDeadline"} ELSE {})
  \cup (IF d.cureWindow > 0 /\ d.cureWindow < d.gracePeriod THEN {"cureWindow"} ELSE {})

validateProposal(d, originator, opened) ==
  validateTerms(d, opened)
    \cup (IF d.borrower = originator THEN {"borrower"} ELSE {})
    \cup (IF d.attached THEN {} ELSE {"documentHash"})

\* Nothing is sent while a field is wrong.
FormTakes(d, originator, opened) == validateProposal(d, originator, opened) = {}

\* What the wallet can put into the call: whole numbers of their width.
UINT16 == 0..65535
Encodes(d) ==
  /\ {d.couponBps, d.servicingFeeBps, d.periodCount} \subseteq UINT16
  /\ d.acceptDeadline \in Nat

\* What use-propose.ts makes of it: the fees go to the originator.
Sent(d, originator) ==
  [borrower |-> d.borrower, acceptDeadline |-> d.acceptDeadline,
   principal |-> d.principal, periodCount |-> d.periodCount,
   periodLength |-> d.periodLength, gracePeriod |-> d.gracePeriod,
   cureWindow |-> d.cureWindow, couponBps |-> d.couponBps,
   servicingFeeBps |-> d.servicingFeeBps, feeRecipient |-> originator]

----------------------------------------------------------------------------
\* The page of a proposal, and whom it offers what.  It takes the time when it
\* is opened, and nowhere is `expire` offered.

Viewers == Parties \cup Admins

\* Slip: the deadline itself is too late.
deadlinePassedEarly(p, opened) == opened >= p.terms.acceptDeadline
deadlinePassed(p, opened) == opened > p.terms.acceptDeadline

\* The panel of buttons, from the status and from what the viewer is.
Actions(status, isBorrower, isOriginator, decides, passed) ==
  CASE status = "Proposed" /\ isBorrower /\ ~passed -> {"accept"}
    [] status = "Accepted" /\ decides               -> {"approve", "reject"}
    [] status = "Approved" /\ isOriginator          -> {"mint"}
    [] OTHER                                        -> {}

ProposalView(viewer, id, opened) ==
  LET p == proposals[id]
  IN  Actions(p.status, viewer = p.terms.borrower, viewer = p.originator,
              viewer \in Admins /\ isAdmin[viewer], deadlinePassed(p, opened))

\* The list: "Waiting on you".
WaitingOn(viewer) ==
  {id \in DOMAIN rows.proposal :
     LET row == rows.proposal[id]
     IN  \/ row.status = "Proposed" /\ row.borrower = viewer
         \/ row.status = "Approved" /\ row.originator = viewer}

\* The three signatures the page of a note shows.
Provenance(row) == <<row.proposedAt, row.acceptedAt, row.approvedAt>>

----------------------------------------------------------------------------
PagesPass == Pass /\ UNCHANGED rows

PagesExpire(id) == Expire(id) /\ rows' = handleExpired(rows, id)

PagesNext ==
  \/ PagesPass
  \/ \E a \in Attestations :
       Verify(a) /\ rows' = handlePartyVerified(rows, a.party) /\ UNCHANGED <<now, queueVars>>
  \/ \E p \in Parties :
       Revoke(p) /\ rows' = handlePartyRevoked(rows, p) /\ UNCHANGED <<now, queueVars>>
  \/ \E p \in Parties, t \in TermSheets : Propose(p, t) /\ rows' = handleProposed(rows, p, t)
  \/ \E id \in Ids :
       \/ Accept(id)  /\ rows' = handleAccepted(rows, id)
       \/ Approve(id) /\ rows' = handleApproved(rows, id)
       \/ Reject(id)  /\ rows' = handleRejected(rows, id)
       \/ Mint(id)    /\ rows' = handleNoteIssued(rows, id)
       \/ PagesExpire(id)
  \/ \E a \in Admins, allowed \in BOOLEAN : SetAdmin(a, allowed) /\ UNCHANGED rows
  \/ SetInfrastructure /\ UNCHANGED rows

PagesSpec == PagesInit /\ [][PagesNext]_pageVars

----------------------------------------------------------------------------
Of(party, S) ==
  Cardinality({id \in Ids : proposals[id].originator = party /\ proposals[id].status \in S})
AgreedToOwe(party) ==
  Cardinality({id \in Ids : proposals[id].terms.borrower = party /\ proposals[id].acceptedAt # 0})
Raised(party) ==
  LET paid == [k \in 0..(Len(notes) - 1) |->
                 IF notes[k + 1].originator = party THEN notes[k + 1].terms.principal ELSE 0]
  IN  SumTo(paid, Len(notes))

(***************************************************************************)
(* What the index has counted is what the queue's proposals say: for every *)
(* party, what it proposed, had turned down, let lapse and minted, and     *)
(* what it agreed to owe, counted even when the proposal goes no further;  *)
(* a party has a row exactly if it was ever verified; and a note's page    *)
(* finds through its proposal the three signatures, in their order, that   *)
(* the queue recorded, and through the proposal the note again.            *)
(***************************************************************************)
RowsRecount ==
  /\ \A p \in Parties :
       /\ rows.party[p] = NoRow <=> verifiedAt[p] = 0
       /\ rows.party[p] # NoRow =>
            LET row == rows.party[p]
            IN  /\ row.revoked = revoked[p]
                /\ row.notesProposed = Of(p, ProposalStatus)
                /\ row.proposalsRejected = Of(p, {"Rejected"})
                /\ row.proposalsExpired = Of(p, {"Expired"})
                /\ row.notesMinted = Of(p, {"Minted"})
                /\ row.principalRaised = Raised(p)
                /\ row.accepted = AgreedToOwe(p)
  /\ Len(rows.note) = Len(notes)
  /\ \A k \in DOMAIN rows.note :
       LET row == rows.proposal[rows.note[k].proposal]
           p   == proposals[notes[k].proposal]
       IN  /\ row.note = k
           /\ Provenance(row) = <<p.proposedAt, p.acceptedAt, p.approvedAt>>
           /\ row.proposedAt <= row.acceptedAt /\ row.acceptedAt <= row.approvedAt
           /\ row.approvedAt <= rows.note[k].mintedAt

(***************************************************************************)
(* The pages and the queue agree on whose turn it is.  Whenever a page of  *)
(* a proposal was opened, it offers accept to nobody but a borrower from   *)
(* whom the queue takes it, is no longer verified or is since too late;    *)
(* whom it may be taken from is offered it, and so with mint; approve and  *)
(* reject are offered exactly to whom they are taken from; and nobody is   *)
(* offered what is another's turn.  Whom a page offers accept or mint      *)
(* finds the proposal in the list, and what else the list has is past its  *)
(* time.                                                                   *)
(***************************************************************************)
TurnsMatch ==
  \A id \in Ids : \A v \in Viewers : \A opened \in 1..now :
     LET p     == proposals[id]
         offer == ProposalView(v, id, opened)
     IN  /\ offer = {"accept"} =>
              v = p.terms.borrower /\ (MayAccept(p) \/ ~isVerified(v) \/ Lapsed(p))
         /\ (v = p.terms.borrower /\ MayAccept(p)) => offer = {"accept"}
         /\ offer = {"approve", "reject"} <=> (v \in Admins /\ MayDecide(p, v))
         /\ (v = p.originator /\ MayMint(p)) => offer = {"mint"}
         /\ offer # {} => \A w \in Viewers : ProposalView(w, id, opened) \in {{}, offer}
         /\ (offer \cap {"accept", "mint"} # {}) => id \in WaitingOn(v)
         /\ id \in WaitingOn(v) => offer # {} \/ Lapsed(p)

(***************************************************************************)
(* And of two verified parties, whatever the form lets through and the     *)
(* wallet can encode the queue takes for as long as the deadline is ahead, *)
(* however long the form was open; what the queue would take and the form  *)
(* does not is a cure window shorter than the grace period and nothing     *)
(* else.                                                                   *)
(***************************************************************************)
FormMatches ==
  \A o \in Parties : \A d \in Drafts : \A opened \in 1..now :
     isVerified(o) /\ isVerified(d.borrower) /\ Encodes(d) /\ now < d.acceptDeadline =>
       (MayPropose(o, Sent(d, o), d.attached) <=>
          validateProposal(d, o, opened) \subseteq {"cureWindow"})

PagesMatchTheQueue == TurnsMatch /\ FormMatches
=============================================================================
