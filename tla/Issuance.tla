------------------------------ MODULE Issuance ------------------------------
(***************************************************************************)
(* contracts/src/IssuanceQueue.sol over the registry, with the note        *)
(* factory it alone may call: nothing mints until the originator has       *)
(* proposed, the borrower accepted and an admin approved.                  *)
(***************************************************************************)
EXTENDS PartyRegistry, Sequences

CONSTANTS
  Attestations,       \* what the attestor signed
  Admins,             \* addresses that may be made admins
  TermSheets,         \* terms somebody may propose
  MINT_WINDOW,
  MIN_PERIOD_LENGTH, MAX_COUPON_BPS, MAX_SERVICING_FEE_BPS,
  MaxProposals        \* bound: proposals explored

TermSheet == [borrower : Parties, acceptDeadline : Nat, principal : Nat,
              periodCount : Nat, periodLength : Nat, gracePeriod : Nat,
              cureWindow : Nat, couponBps : Nat, servicingFeeBps : Nat,
              feeRecipient : Parties \cup {Nobody}]

ASSUME IssuanceAssumption ==
  /\ Attestations \subseteq Attestation
  /\ TermSheets \subseteq TermSheet
  /\ MINT_WINDOW \in Nat /\ MIN_PERIOD_LENGTH \in Nat \ {0}
  /\ MAX_COUPON_BPS \in Nat /\ MAX_SERVICING_FEE_BPS \in Nat
  /\ MaxProposals \in Nat

VARIABLES
  isAdmin,
  proposals,      \* a sequence: proposalId is the position
  notes,          \* NoteFactory.noteOf: noteId is the position
  wired           \* setInfrastructure has been called

queueVars == <<isAdmin, proposals, notes, wired>>
issuanceVars == <<now, registryVars, queueVars>>

ProposalStatus == {"Proposed", "Accepted", "Approved", "Minted", "Rejected", "Expired"}

IssuanceInit ==
  /\ RegistryInit
  /\ \E admin \in Admins : isAdmin = [a \in Admins |-> a = admin]
  /\ proposals = <<>>
  /\ notes = <<>>
  /\ wired = FALSE

----------------------------------------------------------------------------
\* _validateTerms.  Grace and cure window may be anything.
WellFormed(t) ==
  /\ t.principal # 0 /\ t.periodCount >= 1
  /\ t.periodLength >= MIN_PERIOD_LENGTH
  /\ t.couponBps <= MAX_COUPON_BPS /\ t.servicingFeeBps <= MAX_SERVICING_FEE_BPS
  /\ t.feeRecipient # Nobody

\* `documented`: the hash of the agreement is not zero.
MayPropose(p, t, documented) ==
  /\ isVerified(p) /\ isVerified(t.borrower)
  /\ t.borrower # p
  /\ documented
  /\ t.acceptDeadline > now /\ WellFormed(t)

Propose(p, t) ==
  /\ \E documented \in BOOLEAN : MayPropose(p, t, documented)
  /\ Len(proposals) < MaxProposals
  /\ proposals' = Append(proposals,
       [originator |-> p, terms |-> t, status |-> "Proposed",
        proposedAt |-> now, acceptedAt |-> 0, approvedAt |-> 0])
  /\ UNCHANGED <<now, registryVars, isAdmin, notes, wired>>

Moved(id, changed) ==
  /\ proposals' = [proposals EXCEPT ![id] = changed]
  /\ UNCHANGED <<now, registryVars, isAdmin, wired>>

InTime(p) == now <= p.terms.acceptDeadline

\* By the borrower's own key.
MayAccept(p) == p.status = "Proposed" /\ InTime(p) /\ isVerified(p.terms.borrower)

Accept(id) ==
  /\ MayAccept(proposals[id])
  /\ Moved(id, [proposals[id] EXCEPT !.status = "Accepted", !.acceptedAt = now])
  /\ UNCHANGED notes

\* By an admin.  Neither verdict asks whether the parties are still verified.
MayDecide(p, admin) == isAdmin[admin] /\ p.status = "Accepted"

Approve(id) ==
  /\ \E admin \in Admins : MayDecide(proposals[id], admin)
  /\ Moved(id, [proposals[id] EXCEPT !.status = "Approved", !.approvedAt = now])
  /\ UNCHANGED notes

Reject(id) ==
  /\ \E admin \in Admins : MayDecide(proposals[id], admin)
  /\ Moved(id, [proposals[id] EXCEPT !.status = "Rejected"])
  /\ UNCHANGED notes

\* NoteFactory.deploy.
Deploy(id, p) ==
  /\ wired
  /\ notes' = Append(notes, [proposal |-> id, originator |-> p.originator,
                             terms |-> p.terms, mintedAt |-> now])

\* Slip: the parties are not looked at again.
MayMintUnverified(p) == p.status = "Approved" /\ now <= p.approvedAt + MINT_WINDOW
MayMint(p) ==
  /\ p.status = "Approved"
  /\ now <= p.approvedAt + MINT_WINDOW
  /\ isVerified(p.originator) /\ isVerified(p.terms.borrower)

\* Slip: the proposal stays approved.
AfterMintApproved(p) == p
AfterMint(p) == [p EXCEPT !.status = "Minted"]

\* By the originator.
Mint(id) ==
  LET p == proposals[id]
  IN  /\ MayMint(p)
      /\ Deploy(id, p)
      /\ Moved(id, AfterMint(p))

Lapsed(p) ==
  \/ p.status = "Proposed" /\ now > p.terms.acceptDeadline
  \/ p.status = "Approved" /\ now > p.approvedAt + MINT_WINDOW

\* By anyone.
Expire(id) ==
  /\ Lapsed(proposals[id])
  /\ Moved(id, [proposals[id] EXCEPT !.status = "Expired"])
  /\ UNCHANGED notes

\* By the owners of the queue and of the factory.
SetAdmin(a, allowed) ==
  /\ isAdmin' = [isAdmin EXCEPT ![a] = allowed]
  /\ UNCHANGED <<now, registryVars, proposals, notes, wired>>

SetInfrastructure ==
  /\ ~wired
  /\ wired' = TRUE
  /\ UNCHANGED <<now, registryVars, isAdmin, proposals, notes>>

Pass == Elapse /\ UNCHANGED queueVars

Ids == DOMAIN proposals

----------------------------------------------------------------------------
(***************************************************************************)
(* A note exists only if everybody agreed, in order and in time: proposed  *)
(* with well-formed terms, accepted before the deadline, approved after    *)
(* that, minted within the window, on the very terms proposed, and with    *)
(* neither party revoked by then.  And the two answer to two nullifiers,   *)
(* whatever either had attested: nobody manufactures a borrower for their  *)
(* own note out of one, though whether two nullifiers are two people is    *)
(* for the credential behind them to say.                                  *)
(***************************************************************************)
NotRevokedBefore(p, time) == verifiedAt[p] # 0 /\ (revoked[p] => revokedAt[p] >= time)
AgreedByAll ==
  \A k \in DOMAIN notes :
     LET note == notes[k]
         p    == proposals[note.proposal]
     IN  /\ note.originator = p.originator /\ note.terms = p.terms
         /\ WellFormed(note.terms)
         /\ verifiedAt[p.originator] <= p.proposedAt
         /\ p.proposedAt <= p.acceptedAt /\ p.acceptedAt <= p.terms.acceptDeadline
         /\ p.acceptedAt <= p.approvedAt
         /\ p.approvedAt <= note.mintedAt /\ note.mintedAt <= p.approvedAt + MINT_WINDOW
         /\ NotRevokedBefore(p.originator, note.mintedAt)
         /\ NotRevokedBefore(p.terms.borrower, note.mintedAt)
         /\ nullifierOf[p.originator] # nullifierOf[p.terms.borrower]

(***************************************************************************)
(* A proposal mints at most once, and exactly the minted ones have a note. *)
(***************************************************************************)
MintedOnce ==
  /\ \A j, k \in DOMAIN notes : notes[j].proposal = notes[k].proposal => j = k
  /\ \A id \in Ids :
       proposals[id].status = "Minted" <=> \E k \in DOMAIN notes : notes[k].proposal = id
=============================================================================
