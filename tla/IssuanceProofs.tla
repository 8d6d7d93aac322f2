--------------------------- MODULE IssuanceProofs ---------------------------
(***************************************************************************)
(* Who agreed to a note, what the pages say of it, and whose nullifier the *)
(* registry has, for any number of addresses, nullifiers, attestations     *)
(* and admins, and any bound on the proposals and on time.  Who stands     *)
(* behind a nullifier, and behind how many, nothing here assumes.          *)
(*                                                                         *)
(* The registry's part is that an address verified is bound to one         *)
(* nullifier, both ways, for good.  The queue's is that each status has its stamps,   *)
(* in order, and that a note points at the one proposal minted for it.     *)
(***************************************************************************)
EXTENDS IssuancePages, Identity, SumLemmas, FiniteSetTheorems

Proposal == [originator : Parties, terms : TermSheet, status : ProposalStatus,
             proposedAt : Nat, acceptedAt : Nat, approvedAt : Nat]
Note == [proposal : Nat, originator : Parties, terms : TermSheet, mintedAt : Nat]

RegistryTyped ==
  /\ now \in Nat \ {0}
  /\ nullifierOf \in [Parties -> Nullifiers \cup {Nobody}]
  /\ partyOf \in [Nullifiers -> Parties \cup {Nobody}]
  /\ verifiedAt \in [Parties -> Nat]
  /\ revoked \in [Parties -> BOOLEAN]
  /\ revokedAt \in [Parties -> Nat]

QueueTyped == proposals \in Seq(Proposal) /\ notes \in Seq(Note)

Bound(p) ==
  /\ verifiedAt[p] <= now
  /\ verifiedAt[p] = 0 => nullifierOf[p] = Nobody /\ ~revoked[p]
  /\ verifiedAt[p] # 0 => nullifierOf[p] # Nobody /\ partyOf[nullifierOf[p]] = p

\* A nullifier that is taken is held by the address that took it.
Held(h) == partyOf[h] # Nobody => nullifierOf[partyOf[h]] = h

Registered ==
  /\ RegistryTyped
  /\ \A p \in Parties : Bound(p)
  /\ \A h \in Nullifiers : Held(h)

Stamped(p) ==
  /\ WellFormed(p.terms)
  /\ p.originator # p.terms.borrower
  /\ verifiedAt[p.originator] # 0 /\ verifiedAt[p.terms.borrower] # 0
  /\ verifiedAt[p.originator] <= p.proposedAt /\ p.proposedAt <= now
  /\ p.status \in {"Accepted", "Approved", "Minted"} =>
       /\ p.proposedAt <= p.acceptedAt /\ p.acceptedAt <= now
       /\ p.acceptedAt <= p.terms.acceptDeadline
  /\ p.status \in {"Approved", "Minted"} =>
       p.acceptedAt <= p.approvedAt /\ p.approvedAt <= now

\* What `mint` saw, of proposal p, when it made note n of it.
MintedFrom(n, p) ==
  /\ p.status = "Minted"
  /\ n.originator = p.originator /\ n.terms = p.terms
  /\ p.approvedAt <= n.mintedAt /\ n.mintedAt <= p.approvedAt + MINT_WINDOW
  /\ n.mintedAt <= now
  /\ NotRevokedBefore(p.originator, n.mintedAt)
  /\ NotRevokedBefore(p.terms.borrower, n.mintedAt)

NotesMinted ==
  \A k \in DOMAIN notes :
    notes[k].proposal \in Ids /\ MintedFrom(notes[k], proposals[notes[k].proposal])

Agreed ==
  /\ Registered /\ QueueTyped
  /\ \A id \in Ids : Stamped(proposals[id])
  /\ NotesMinted
  /\ MintedOnce

----------------------------------------------------------------------------
\* What no step undoes: a verification and a revocation stay, with their times,
\* and a revocation is of its own time.
RegistryOn ==
  /\ now <= now'
  /\ \A p \in Parties : verifiedAt[p] # 0 =>
       /\ verifiedAt'[p] = verifiedAt[p]
       /\ revoked[p] => revoked'[p] /\ revokedAt'[p] = revokedAt[p]
       /\ revoked'[p] /\ ~revoked[p] => revokedAt'[p] = now

LEMMA VerifyBinds ==
  ASSUME Registered, NEW a \in Attestation, Verify(a), UNCHANGED now
  PROVE  Registered' /\ RegistryOn
<1> DEFINE q == a.party
           n == a.nullifier
<1>1. q \in Parties /\ n \in Nullifiers /\ q # Nobody /\ n # Nobody
  BY RegistryAssumption DEF Attestation
<1>2. /\ verifiedAt[q] = 0 /\ partyOf[n] = Nobody
      /\ nullifierOf' = [nullifierOf EXCEPT ![q] = n]
      /\ partyOf' = [partyOf EXCEPT ![n] = q]
      /\ verifiedAt' = [verifiedAt EXCEPT ![q] = now]
      /\ UNCHANGED <<now, revoked, revokedAt>>
  BY DEF Verify, MayVerify
<1> HIDE DEF q, n
<1>3. RegistryTyped /\ (\A p \in Parties : Bound(p)) /\ (\A h \in Nullifiers : Held(h))
  BY DEF Registered
<1>4. RegistryTyped'
  BY <1>1, <1>2, <1>3 DEF RegistryTyped
<1>5. nullifierOf[q] = Nobody
  BY <1>1, <1>2, <1>3 DEF Bound
<1>6. ASSUME NEW p \in Parties PROVE Bound(p)'
  <2>1. CASE p = q
    BY <1>1, <1>2, <1>3, <2>1 DEF Bound, RegistryTyped
  <2>2. CASE p # q
    <3>1. verifiedAt[p] # 0 => nullifierOf[p] # n
      BY <1>2, <1>3, RegistryAssumption DEF Bound
    <3> QED BY <1>1, <1>2, <1>3, <2>2, <3>1 DEF Bound, RegistryTyped
  <2> QED BY <2>1, <2>2
<1>7. ASSUME NEW h \in Nullifiers PROVE Held(h)'
  <2>1. CASE h = n
    BY <1>1, <1>2, <1>3, <2>1 DEF Held, RegistryTyped
  <2>2. CASE h # n
    <3>1. partyOf[h] # q
      BY <1>1, <1>3, <1>5, RegistryAssumption DEF Held
    <3> QED BY <1>1, <1>2, <1>3, <2>2, <3>1 DEF Held, RegistryTyped
  <2> QED BY <2>1, <2>2
<1>8. RegistryOn
  BY <1>1, <1>2, <1>3 DEF RegistryOn, RegistryTyped
<1> QED BY <1>4, <1>6, <1>7, <1>8 DEF Registered

LEMMA RevokeKeepsBound ==
  ASSUME Registered, NEW q \in Parties, Revoke(q), UNCHANGED now
  PROVE  Registered' /\ RegistryOn
BY DEF Registered, RegistryTyped, Bound, Held, Revoke, RegistryOn

LEMMA RegistryLeft ==
  ASSUME Registered, UNCHANGED registryVars, now' \in Nat, now <= now'
  PROVE  Registered' /\ RegistryOn
BY DEF Registered, RegistryTyped, Bound, Held, registryVars, RegistryOn

\* As time goes by and parties come and go, what was agreed stays so.
LEMMA StampedStays ==
  ASSUME RegistryTyped, RegistryTyped', RegistryOn, NEW p \in Proposal, Stamped(p)
  PROVE  Stamped(p)'
BY DEF RegistryTyped, RegistryOn, Stamped, Proposal, TermSheet

LEMMA MintedFromStays ==
  ASSUME RegistryTyped, RegistryTyped', RegistryOn,
         NEW p \in Proposal, NEW n \in Note, MintedFrom(n, p)
  PROVE  MintedFrom(n, p)'
BY DEF RegistryTyped, RegistryOn, MintedFrom, NotRevokedBefore, Proposal, Note, TermSheet

LEMMA AgreedStays ==
  ASSUME Agreed, Registered', RegistryOn, UNCHANGED <<proposals, notes>>
  PROVE  Agreed'
<1>1. QueueTyped' /\ MintedOnce'
  BY DEF Agreed, QueueTyped, MintedOnce, Ids
<1>2. ASSUME NEW id \in Ids' PROVE Stamped(proposals[id])'
  <2>1. id \in Ids /\ proposals[id] \in Proposal /\ Stamped(proposals[id])
    BY <1>2 DEF Ids, Agreed, QueueTyped
  <2>2. PICK p \in Proposal : p = proposals[id]
    BY <2>1
  <2>3. Stamped(p)'
    BY <2>1, <2>2, StampedStays DEF Agreed, Registered
  <2> QED BY <2>2, <2>3 DEF Stamped
<1>3. NotesMinted'
  <2> SUFFICES ASSUME NEW k \in DOMAIN notes
               PROVE  /\ notes[k].proposal \in Ids
                      /\ MintedFrom(notes[k], proposals[notes[k].proposal])'
    BY DEF NotesMinted, Ids
  <2>1. notes[k].proposal \in Ids /\ MintedFrom(notes[k], proposals[notes[k].proposal])
    BY DEF Agreed, NotesMinted
  <2>2. notes[k] \in Note /\ proposals[notes[k].proposal] \in Proposal
    BY <2>1 DEF Agreed, QueueTyped, Ids
  <2>3. PICK n \in Note, p \in Proposal : n = notes[k] /\ p = proposals[notes[k].proposal]
    BY <2>2
  <2>4. MintedFrom(n, p)'
    BY <2>1, <2>3, MintedFromStays DEF Agreed, Registered
  <2> QED BY <2>1, <2>3, <2>4 DEF MintedFrom, NotRevokedBefore
<1> QED BY <1>1, <1>2, <1>3 DEF Agreed

----------------------------------------------------------------------------
LEMMA ProposeAgrees ==
  ASSUME Agreed, NEW p \in Parties, NEW t \in TermSheets, Propose(p, t)
  PROVE  Agreed'
<1> DEFINE new == [originator |-> p, terms |-> t, status |-> "Proposed",
                   proposedAt |-> now, acceptedAt |-> 0, approvedAt |-> 0]
<1>1. /\ proposals \in Seq(Proposal) /\ notes \in Seq(Note)
      /\ proposals' = Append(proposals, new)
      /\ UNCHANGED <<now, registryVars, notes>>
  BY DEF Agreed, QueueTyped, Propose
<1>2. t \in TermSheet /\ t.borrower \in Parties
  BY IssuanceAssumption DEF TermSheet
<1>3. new \in Proposal
  BY <1>2 DEF Agreed, Registered, RegistryTyped, Proposal, ProposalStatus
<1>4. /\ Ids' = 1..(Len(proposals) + 1) /\ Ids = 1..Len(proposals)
      /\ \A id \in Ids : proposals'[id] = proposals[id]
      /\ proposals'[Len(proposals) + 1] = new
      /\ Len(proposals) \in Nat
  BY <1>1 DEF Ids
<1>5. QueueTyped'
  BY <1>1, <1>3 DEF QueueTyped
<1>6. Registered'
  BY <1>1 DEF Agreed, Registered, RegistryTyped, Bound, Held, registryVars
<1>7. Stamped(new)
  BY <1>2 DEF Propose, MayPropose, isVerified, Stamped, Agreed, Registered, RegistryTyped, Bound
<1>8. ASSUME NEW id \in Ids' PROVE Stamped(proposals[id])'
  <2>1. Stamped(proposals'[id])
    BY <1>4, <1>7 DEF Agreed
  <2> QED BY <2>1, <1>1 DEF Stamped, registryVars
<1>9. NotesMinted'
  BY <1>1, <1>4 DEF Agreed, NotesMinted, MintedFrom, NotRevokedBefore, registryVars, Ids
<1>10. MintedOnce'
  <2>1. \A k \in DOMAIN notes : notes[k].proposal \in Ids
    BY DEF Agreed, NotesMinted
  <2> QED BY <1>1, <1>4, <2>1 DEF Agreed, MintedOnce
<1> QED BY <1>5, <1>6, <1>8, <1>9, <1>10 DEF Agreed

\* Every move of the queue but a mint: a proposal not minted gets another
\* status, and the stamp of it.
LEMMA MoveAgrees ==
  ASSUME Agreed, NEW id \in Ids, NEW q \in Proposal, Stamped(q),
         proposals' = [proposals EXCEPT ![id] = q],
         UNCHANGED <<now, registryVars, notes>>,
         proposals[id].status # "Minted", q.status # "Minted"
  PROVE  Agreed'
<1>1. /\ proposals \in Seq(Proposal) /\ Ids' = Ids
      /\ proposals'[id] = q
      /\ \A j \in Ids : j # id => proposals'[j] = proposals[j]
  BY DEF Agreed, QueueTyped, Ids
<1>2. QueueTyped'
  BY <1>1 DEF Agreed, QueueTyped, Ids
<1>3. Registered'
  BY DEF Agreed, Registered, RegistryTyped, Bound, Held, registryVars
<1>4. ASSUME NEW j \in Ids' PROVE Stamped(proposals[j])'
  <2>1. Stamped(proposals'[j])
    BY <1>1 DEF Agreed
  <2> QED BY <2>1 DEF Stamped, registryVars
<1>5. \A k \in DOMAIN notes : notes[k].proposal \in Ids /\ notes[k].proposal # id
  BY DEF Agreed, NotesMinted, MintedFrom
<1>6. NotesMinted'
  BY <1>1, <1>5 DEF Agreed, NotesMinted, MintedFrom, NotRevokedBefore, registryVars
<1>7. MintedOnce'
  BY <1>1, <1>5 DEF Agreed, MintedOnce
<1> QED BY <1>2, <1>3, <1>4, <1>6, <1>7 DEF Agreed

LEMMA AcceptAgrees ==
  ASSUME Agreed, NEW id \in Ids, Accept(id)
  PROVE  Agreed'
<1> DEFINE q == [proposals[id] EXCEPT !.status = "Accepted", !.acceptedAt = now]
<1>1. proposals[id] \in Proposal /\ Stamped(proposals[id])
  BY DEF Agreed, QueueTyped, Ids
<1>2. q \in Proposal /\ q.status = "Accepted"
  BY <1>1 DEF Agreed, Registered, RegistryTyped, Proposal, ProposalStatus
<1>3. Stamped(q)
  BY <1>1 DEF Accept, MayAccept, InTime, Stamped, Proposal, TermSheet, Agreed, Registered, RegistryTyped
<1>4. proposals[id].status = "Proposed" /\ proposals' = [proposals EXCEPT ![id] = q]
  BY DEF Accept, MayAccept, Moved
<1> HIDE DEF q
<1> QED BY <1>2, <1>3, <1>4, MoveAgrees DEF Accept, Moved

LEMMA ApproveAgrees ==
  ASSUME Agreed, NEW id \in Ids, Approve(id)
  PROVE  Agreed'
<1> DEFINE q == [proposals[id] EXCEPT !.status = "Approved", !.approvedAt = now]
<1>1. proposals[id] \in Proposal /\ Stamped(proposals[id])
  BY DEF Agreed, QueueTyped, Ids
<1>2. q \in Proposal /\ q.status = "Approved"
  BY <1>1 DEF Agreed, Registered, RegistryTyped, Proposal, ProposalStatus
<1>3. Stamped(q)
  BY <1>1 DEF Approve, MayDecide, Stamped, Proposal, Agreed, Registered, RegistryTyped
<1>4. proposals[id].status = "Accepted" /\ proposals' = [proposals EXCEPT ![id] = q]
  BY DEF Approve, MayDecide, Moved
<1> HIDE DEF q
<1> QED BY <1>2, <1>3, <1>4, MoveAgrees DEF Approve, Moved

\* A rejection or a lapse: nothing is stamped, and no more is asked of it.
LEMMA ClosingAgrees ==
  ASSUME Agreed, NEW id \in Ids, Reject(id) \/ Expire(id)
  PROVE  Agreed'
<1>1. proposals[id] \in Proposal /\ Stamped(proposals[id])
  BY DEF Agreed, QueueTyped, Ids
<1>2. PICK s \in {"Rejected", "Expired"} :
        Moved(id, [proposals[id] EXCEPT !.status = s])
  BY DEF Reject, Expire
<1>3. proposals[id].status # "Minted" /\ UNCHANGED notes
  BY DEF Reject, Expire, MayDecide, Lapsed
<1> DEFINE q == [proposals[id] EXCEPT !.status = s]
<1>4. q \in Proposal /\ q.status = s
  BY <1>1 DEF Proposal, ProposalStatus
<1>5. Stamped(q)
  BY <1>1 DEF Stamped, Proposal
<1>6. proposals' = [proposals EXCEPT ![id] = q] /\ UNCHANGED <<now, registryVars>>
  BY <1>2 DEF Moved
<1> HIDE DEF q
<1> QED BY <1>3, <1>4, <1>5, <1>6, MoveAgrees

LEMMA MintAgrees ==
  ASSUME Agreed, NEW id \in Ids, Mint(id)
  PROVE  Agreed'
<1> DEFINE p == proposals[id]
           q == [p EXCEPT !.status = "Minted"]
           n == [proposal |-> id, originator |-> p.originator,
                 terms |-> p.terms, mintedAt |-> now]
<1>1. /\ p \in Proposal /\ Stamped(p) /\ p.status = "Approved"
      /\ proposals \in Seq(Proposal) /\ notes \in Seq(Note) /\ Ids \subseteq Nat
  BY DEF Agreed, QueueTyped, Ids, Mint, MayMint
<1>2. /\ proposals' = [proposals EXCEPT ![id] = q]
      /\ notes' = Append(notes, n)
      /\ UNCHANGED <<now, registryVars>>
  BY DEF Mint, Deploy, Moved, AfterMint
<1>3. q \in Proposal /\ q.status = "Minted" /\ n \in Note /\ n.proposal = id
  BY <1>1 DEF Proposal, ProposalStatus, Note, Agreed, Registered, RegistryTyped
<1>4. Stamped(q)
  BY <1>1 DEF Stamped, Proposal
<1>5. MintedFrom(n, q)
  BY <1>1 DEF MintedFrom, NotRevokedBefore, Mint, MayMint, isVerified, Stamped,
              Proposal, Agreed, Registered, RegistryTyped
<1> HIDE DEF p, q, n
<1>6. /\ Ids' = Ids /\ proposals'[id] = q
      /\ \A j \in Ids : j # id => proposals'[j] = proposals[j]
  BY <1>1, <1>2 DEF Ids
<1>7. /\ DOMAIN notes = 1..Len(notes) /\ DOMAIN notes' = 1..(Len(notes) + 1)
      /\ Len(notes) \in Nat
      /\ notes'[Len(notes) + 1] = n
      /\ \A k \in DOMAIN notes : notes'[k] = notes[k]
  BY <1>1, <1>2
<1>8. Registered'
  BY <1>2 DEF Agreed, Registered, RegistryTyped, Bound, Held, registryVars
<1>9. QueueTyped'
  BY <1>1, <1>2, <1>3 DEF QueueTyped, Ids
<1>10. ASSUME NEW j \in Ids' PROVE Stamped(proposals[j])'
  <2>1. Stamped(proposals'[j])
    BY <1>4, <1>6 DEF Agreed
  <2> QED BY <2>1, <1>2 DEF Stamped, registryVars
<1>11. \A k \in DOMAIN notes : notes[k].proposal \in Ids /\ notes[k].proposal # id
  BY <1>1 DEF Agreed, NotesMinted, MintedFrom, p
<1>12. NotesMinted'
  <2> SUFFICES ASSUME NEW k \in DOMAIN notes'
               PROVE  /\ notes'[k].proposal \in Ids'
                      /\ MintedFrom(notes'[k], proposals'[notes'[k].proposal])
    BY <1>2 DEF NotesMinted, MintedFrom, NotRevokedBefore, registryVars
  <2>1. CASE k = Len(notes) + 1
    BY <1>3, <1>5, <1>6, <1>7, <2>1
  <2>2. CASE k \in DOMAIN notes
    BY <1>6, <1>7, <1>11, <2>2 DEF Agreed, NotesMinted
  <2> QED BY <1>7, <2>1, <2>2
<1>13. MintedOnce'
  <2>1. \A j, k \in DOMAIN notes' : notes'[j].proposal = notes'[k].proposal => j = k
    BY <1>3, <1>7, <1>11 DEF Agreed, MintedOnce
  <2>2. ASSUME NEW j \in Ids'
        PROVE  proposals'[j].status = "Minted" <=> \E k \in DOMAIN notes' : notes'[k].proposal = j
    <3>1. CASE j = id
      BY <1>3, <1>6, <1>7, <3>1
    <3>2. CASE j # id
      BY <1>3, <1>6, <1>7, <3>2 DEF Agreed, MintedOnce
    <3> QED BY <3>1, <3>2
  <2> QED BY <2>1, <2>2 DEF MintedOnce
<1> QED BY <1>8, <1>9, <1>10, <1>12, <1>13 DEF Agreed

----------------------------------------------------------------------------
LEMMA AgreedInit == IssuanceInit => Agreed
<1> SUFFICES ASSUME IssuanceInit PROVE Agreed
  OBVIOUS
<1>1. Registered
  BY RegistryAssumption DEF IssuanceInit, RegistryInit, Registered, RegistryTyped, Bound, Held
<1>2. QueueTyped /\ DOMAIN notes = {} /\ Ids = {}
  BY DEF IssuanceInit, QueueTyped, Ids
<1> QED BY <1>1, <1>2 DEF Agreed, NotesMinted, MintedOnce

LEMMA AgreedStep == Agreed /\ [PagesNext]_pageVars => Agreed'
<1> SUFFICES ASSUME Agreed, [PagesNext]_pageVars PROVE Agreed'
  OBVIOUS
<1>0. Registered /\ now \in Nat /\ now <= now
  BY DEF Agreed, Registered, RegistryTyped
<1>1. CASE PagesPass
  <2>1. UNCHANGED registryVars /\ now' = now + 1 /\ UNCHANGED <<proposals, notes>>
    BY <1>1 DEF PagesPass, Pass, Elapse, queueVars
  <2> QED BY <1>0, <2>1, RegistryLeft, AgreedStays
<1>2. ASSUME NEW a \in Attestations, Verify(a), UNCHANGED <<now, queueVars>>
      PROVE  Agreed'
  BY <1>0, <1>2, IssuanceAssumption, VerifyBinds, AgreedStays DEF queueVars
<1>3. ASSUME NEW p \in Parties, Revoke(p), UNCHANGED <<now, queueVars>>
      PROVE  Agreed'
  BY <1>0, <1>3, RevokeKeepsBound, AgreedStays DEF queueVars
<1>4. CASE \E p \in Parties, t \in TermSheets : Propose(p, t)
  BY <1>4, ProposeAgrees
<1>5. ASSUME NEW id \in Ids, Accept(id) \/ Approve(id) \/ Reject(id) \/ Mint(id) \/ Expire(id)
      PROVE  Agreed'
  BY <1>5, AcceptAgrees, ApproveAgrees, ClosingAgrees, MintAgrees
<1>6. CASE UNCHANGED <<now, registryVars, proposals, notes>>
  BY <1>0, <1>6, RegistryLeft, AgreedStays
<1>7. CASE \/ \E a \in Admins, allowed \in BOOLEAN : SetAdmin(a, allowed)
           \/ SetInfrastructure
           \/ UNCHANGED pageVars
  BY <1>6, <1>7 DEF SetAdmin, SetInfrastructure, pageVars, issuanceVars, queueVars
<1> QED BY <1>1, <1>2, <1>3, <1>4, <1>5, <1>7 DEF PagesNext, PagesExpire

THEOREM AlwaysAgreed == PagesSpec => []Agreed
<1>1. PagesInit => Agreed
  BY AgreedInit DEF PagesInit
<1> QED BY <1>1, AgreedStep, PTL DEF PagesSpec

(***************************************************************************)
(* verify, revoke: whatever is attested, submitted, replayed and revoked,  *)
(* a nullifier has one address and an address one nullifier.               *)
(***************************************************************************)
THEOREM OneNullifierOneAddress == PagesSpec => []OneAddressPerNullifier
<1>1. Agreed => OneAddressPerNullifier
  BY RegistryAssumption DEF Agreed, Registered, Bound, Held, OneAddressPerNullifier
<1> QED BY <1>1, AlwaysAgreed, PTL

(***************************************************************************)
(* propose to mint: a note was proposed, accepted in time, approved and    *)
(* minted in the window, in that order, on the terms proposed, by holders  *)
(* of two nullifiers, neither of whom had been revoked.                    *)
(***************************************************************************)
THEOREM EverybodyAgreed == PagesSpec => []AgreedByAll
<1>1. Agreed => AgreedByAll
  <2> SUFFICES ASSUME Agreed, NEW k \in DOMAIN notes
               PROVE  LET note == notes[k]
                          p    == proposals[note.proposal]
                      IN  /\ note.originator = p.originator /\ note.terms = p.terms
                          /\ WellFormed(note.terms)
                          /\ verifiedAt[p.originator] <= p.proposedAt
                          /\ p.proposedAt <= p.acceptedAt
                          /\ p.acceptedAt <= p.terms.acceptDeadline
                          /\ p.acceptedAt <= p.approvedAt
                          /\ p.approvedAt <= note.mintedAt
                          /\ note.mintedAt <= p.approvedAt + MINT_WINDOW
                          /\ NotRevokedBefore(p.originator, note.mintedAt)
                          /\ NotRevokedBefore(p.terms.borrower, note.mintedAt)
                          /\ nullifierOf[p.originator] # nullifierOf[p.terms.borrower]
    BY DEF AgreedByAll
  <2> DEFINE p == proposals[notes[k].proposal]
  <2>1. notes[k].proposal \in Ids /\ MintedFrom(notes[k], p) /\ Stamped(p) /\ p \in Proposal
    BY DEF Agreed, NotesMinted, QueueTyped, Ids
  <2>2. p.originator \in Parties /\ p.terms.borrower \in Parties
    BY <2>1 DEF Proposal, TermSheet
  <2>3. nullifierOf[p.originator] # nullifierOf[p.terms.borrower]
    BY <2>1, <2>2 DEF Agreed, Registered, Bound, Stamped
  <2> QED BY <2>1, <2>3 DEF MintedFrom, Stamped
<1> QED BY <1>1, AlwaysAgreed, PTL

(***************************************************************************)
(* mint: at most one note of a proposal, and one of every minted one.      *)
(***************************************************************************)
THEOREM OneNoteEach == PagesSpec => []MintedOnce
<1>1. Agreed => MintedOnce
  BY DEF Agreed
<1> QED BY <1>1, AlwaysAgreed, PTL

----------------------------------------------------------------------------
(* The index.  Its rows repeat the queue's proposals and the factory's     *)
(* notes, and its counters what can be counted in those.                   *)

ProposalRow == [originator : Parties, borrower : Parties, status : ProposalStatus,
                proposedAt : Nat, acceptedAt : Nat, approvedAt : Nat, note : Nat]
NoteRow == [proposal : Nat, originator : Parties, borrower : Parties, mintedAt : Nat]
Index == [party : [Parties -> PartyRows \cup {NoRow}], proposal : Seq(ProposalRow),
          note : Seq(NoteRow)]

RowOf(row, p) ==
  /\ row.originator = p.originator /\ row.borrower = p.terms.borrower
  /\ row.status = p.status
  /\ Provenance(row) = <<p.proposedAt, p.acceptedAt, p.approvedAt>>

ProposalsShown ==
  /\ Len(rows.proposal) = Len(proposals)
  /\ \A id \in Ids : /\ RowOf(rows.proposal[id], proposals[id])
                     /\ proposals[id].status = "Proposed" => proposals[id].acceptedAt = 0

NotesShown ==
  /\ Len(rows.note) = Len(notes)
  /\ \A k \in DOMAIN notes : /\ rows.note[k].proposal = notes[k].proposal
                             /\ rows.note[k].mintedAt = notes[k].mintedAt
                             /\ rows.proposal[notes[k].proposal].note = k

Tally(p, f) ==
  CASE f = "notesProposed"     -> Of(p, ProposalStatus)
    [] f = "notesMinted"       -> Of(p, {"Minted"})
    [] f = "proposalsRejected" -> Of(p, {"Rejected"})
    [] f = "proposalsExpired"  -> Of(p, {"Expired"})
    [] f = "principalRaised"   -> Raised(p)
    [] f = "accepted"          -> AgreedToOwe(p)

PartiesCounted ==
  \A p \in Parties :
    /\ rows.party[p] = NoRow <=> verifiedAt[p] = 0
    /\ rows.party[p] # NoRow => /\ rows.party[p].revoked = revoked[p]
                                /\ \A f \in Counters : rows.party[p][f] = Tally(p, f)

Shown == Agreed /\ rows \in Index /\ ProposalsShown /\ NotesShown
RowsInv == Shown /\ PartiesCounted

----------------------------------------------------------------------------
(* What a step does to the counts.                                         *)

\* Two sets of positions that differ in one position at most.
LEMMA CountChange ==
  ASSUME NEW N \in Nat, NEW A \in SUBSET (1..N), NEW B \in SUBSET (1..N),
         NEW id \in 1..N, A \ {id} = B \ {id}, id \in A => id \in B
  PROVE  /\ Cardinality(A) \in Nat
         /\ Cardinality(B) = Cardinality(A) + (IF id \in B /\ id \notin A THEN 1 ELSE 0)
<1>1. IsFiniteSet(A) /\ IsFiniteSet(B)
  <2>1. IsFiniteSet(1..N)
    BY FS_Interval, 1 \in Int, N \in Int
  <2> QED BY <2>1, FS_Subset
<1>2. Cardinality(A) \in Nat
  BY <1>1, FS_CardinalityType
<1>3. CASE id \in B /\ id \notin A
  <2>1. B = A \cup {id}
    BY <1>3
  <2> QED BY <1>1, <1>2, <1>3, <2>1, FS_AddElement
<1>4. CASE ~(id \in B /\ id \notin A)
  <2>1. A = B
    BY <1>4
  <2> QED BY <1>2, <1>4, <2>1
<1> QED BY <1>3, <1>4, <1>2

\* A proposal moves, or is new: its originator's count of a status grows if it
\* comes to have it.
LEMMA OfGrows ==
  ASSUME QueueTyped, proposals' \in Seq(Proposal), NEW p \in Parties, NEW S,
         NEW id \in Ids', Len(proposals) <= Len(proposals'),
         \A j \in Ids' : j # id => j \in Ids /\ proposals'[j] = proposals[j],
         id \in Ids => /\ proposals'[id].originator = proposals[id].originator
                       /\ proposals[id].status \in S => proposals'[id].status \in S
  PROVE  Of(p, S)' = Of(p, S) +
           (IF /\ proposals'[id].originator = p /\ proposals'[id].status \in S
               /\ ~(id \in Ids /\ proposals[id].status \in S) THEN 1 ELSE 0)
<1> DEFINE A == {j \in Ids : proposals[j].originator = p /\ proposals[j].status \in S}
           B == {j \in Ids' : proposals'[j].originator = p /\ proposals'[j].status \in S}
<1>1. /\ Of(p, S) = Cardinality(A) /\ Of(p, S)' = Cardinality(B)
  BY DEF Of
<1>2. /\ Len(proposals') \in Nat /\ Ids' = 1..Len(proposals')
      /\ Len(proposals) \in Nat /\ Ids = 1..Len(proposals)
  BY DEF QueueTyped, Ids
<1>3. /\ A \in SUBSET (1..Len(proposals')) /\ B \in SUBSET (1..Len(proposals'))
      /\ A \ {id} = B \ {id} /\ id \in 1..Len(proposals')
  BY <1>2
<1>4. /\ id \in A => id \in B
      /\ (id \in B /\ id \notin A) <=>
           /\ proposals'[id].originator = p /\ proposals'[id].status \in S
           /\ ~(id \in Ids /\ proposals[id].status \in S)
  OBVIOUS
<1> HIDE DEF A, B
<1> QED BY <1>1, <1>2, <1>3, <1>4, CountChange

\* The same for what a borrower has agreed to.
LEMMA OwesGrows ==
  ASSUME QueueTyped, proposals' \in Seq(Proposal), NEW p \in Parties,
         NEW id \in Ids', Len(proposals) <= Len(proposals'),
         \A j \in Ids' : j # id => j \in Ids /\ proposals'[j] = proposals[j],
         id \in Ids => /\ proposals'[id].terms = proposals[id].terms
                       /\ proposals[id].acceptedAt # 0 => proposals'[id].acceptedAt # 0
  PROVE  AgreedToOwe(p)' = AgreedToOwe(p) +
           (IF /\ proposals'[id].terms.borrower = p /\ proposals'[id].acceptedAt # 0
               /\ ~(id \in Ids /\ proposals[id].acceptedAt # 0) THEN 1 ELSE 0)
<1> DEFINE A == {j \in Ids : proposals[j].terms.borrower = p /\ proposals[j].acceptedAt # 0}
           B == {j \in Ids' : proposals'[j].terms.borrower = p /\ proposals'[j].acceptedAt # 0}
<1>1. /\ AgreedToOwe(p) = Cardinality(A) /\ AgreedToOwe(p)' = Cardinality(B)
  BY DEF AgreedToOwe
<1>2. /\ Len(proposals') \in Nat /\ Ids' = 1..Len(proposals')
      /\ Len(proposals) \in Nat /\ Ids = 1..Len(proposals)
  BY DEF QueueTyped, Ids
<1>3. /\ A \in SUBSET (1..Len(proposals')) /\ B \in SUBSET (1..Len(proposals'))
      /\ A \ {id} = B \ {id} /\ id \in 1..Len(proposals')
  BY <1>2
<1>4. /\ id \in A => id \in B
      /\ (id \in B /\ id \notin A) <=>
           /\ proposals'[id].terms.borrower = p /\ proposals'[id].acceptedAt # 0
           /\ ~(id \in Ids /\ proposals[id].acceptedAt # 0)
  OBVIOUS
<1> HIDE DEF A, B
<1> QED BY <1>1, <1>2, <1>3, <1>4, CountChange

\* A note is minted: its originator has raised its principal.
LEMMA RaisedGrows ==
  ASSUME QueueTyped, NEW n \in Note, notes' = Append(notes, n), NEW p \in Parties
  PROVE  /\ Raised(p) \in Nat
         /\ Raised(p)' = Raised(p) + (IF n.originator = p THEN n.terms.principal ELSE 0)
<1> DEFINE f == [k \in 0..(Len(notes) - 1) |->
                   IF notes[k + 1].originator = p THEN notes[k + 1].terms.principal ELSE 0]
           g == [k \in 0..Len(notes) |->
                   IF notes'[k + 1].originator = p THEN notes'[k + 1].terms.principal ELSE 0]
           N == Len(notes)
<1>1. /\ N \in Nat /\ Len(notes') = N + 1 /\ notes'[N + 1] = n
      /\ notes \in Seq(Note) /\ notes' \in Seq(Note)
      /\ \A k \in 1..N : notes'[k] = notes[k]
  BY DEF QueueTyped
<1>2. \A m \in Note : m.terms.principal \in Nat
  BY DEF Note, TermSheet
<1>3. \A k \in 1..N : notes[k] \in Note
  BY <1>1
<1>4. f \in [0..(N - 1) -> Nat] /\ f \in [0..(N - 1) -> Int]
  BY <1>1, <1>2, <1>3
<1>5. \A k \in 1..(N + 1) : notes'[k] \in Note
  BY <1>1
<1>6. g \in [0..N -> Int] /\ g[N] = IF n.originator = p THEN n.terms.principal ELSE 0
  BY <1>1, <1>2, <1>5
<1>7. \A k \in 0..(N - 1) : g[k] = f[k]
  BY <1>1
<1>8. Raised(p) = SumTo(f, N) /\ Raised(p)' = SumTo(g, N + 1)
  <2>1. (N + 1) - 1 = N
    BY <1>1
  <2> QED BY <1>1, <2>1 DEF Raised
<1> HIDE DEF f, g, N
<1>9. SumTo(f, N) \in Nat
  BY <1>1, <1>4, SumType
<1>10. SumTo(g, N + 1) = SumTo(f, N) + g[N]
  BY <1>1, <1>4, <1>6, <1>7, SumExtend
<1> QED BY <1>6, <1>8, <1>9, <1>10

----------------------------------------------------------------------------
(* What a step does to the rows.                                           *)

\* d: by how much p's counters grow.
Nothing == [f \in Counters |-> 0]
One(f) == [Nothing EXCEPT ![f] = 1]

RowGains(p, d) ==
  \A q \in Parties :
    /\ rows'.party[q] = NoRow <=> rows.party[q] = NoRow
    /\ rows.party[q] # NoRow =>
         /\ rows'.party[q].revoked = rows.party[q].revoked
         /\ \A f \in Counters :
              rows'.party[q][f] = rows.party[q][f] + (IF q = p THEN d[f] ELSE 0)
TallyGains(p, d) ==
  \A q \in Parties : \A f \in Counters :
    Tally(q, f)' = Tally(q, f) + (IF q = p THEN d[f] ELSE 0)

LEMMA GainsCounted ==
  ASSUME PartiesCounted, NEW p, NEW d, RowGains(p, d), TallyGains(p, d),
         UNCHANGED <<verifiedAt, revoked>>
  PROVE  PartiesCounted'
BY DEF PartiesCounted, RowGains, TallyGains

LEMMA RowTyped ==
  ASSUME NEW r \in Index, NEW p \in Parties, r.party[p] # NoRow
  PROVE  r.party[p] \in PartyRows
BY DEF Index

LEMMA BumpGains ==
  ASSUME rows \in Index, NEW r \in Index, r.party = rows.party, NEW p \in Parties,
         NEW f \in Counters, rows' = Bump(r, p, f)
  PROVE  /\ rows' \in Index /\ rows'.proposal = r.proposal /\ rows'.note = r.note
         /\ RowGains(p, One(f))
<1>1. CASE r.party[p] = NoRow
  <2>1. rows' = r
    BY <1>1 DEF Bump
  <2>2. ASSUME NEW q \in Parties, rows.party[q] # NoRow PROVE q # p
    BY <1>1, <2>2
  <2>3. ASSUME NEW q \in Parties, rows.party[q] # NoRow, NEW g \in Counters
        PROVE  rows.party[q][g] = rows.party[q][g] + 0
    BY <2>3, RowTyped DEF PartyRows, Counters
  <2> QED BY <2>1, <2>2, <2>3 DEF RowGains
<1>2. CASE r.party[p] # NoRow
  <2>1. r.party[p] \in PartyRows
    BY <1>2, RowTyped
  <2> DEFINE new == [r.party[p] EXCEPT ![f] = @ + 1]
  <2>2. new \in PartyRows /\ new # NoRow
    <3>1. new \in PartyRows
      BY <2>1 DEF Counters, PartyRows
    <3> QED BY <3>1, PagesAssumption
  <2>3. /\ new.revoked = r.party[p].revoked
        /\ \A g \in Counters : new[g] = r.party[p][g] + One(f)[g]
    BY <2>1 DEF Counters, PartyRows, One, Nothing
  <2> HIDE DEF new
  <2>4. rows' = [r EXCEPT !.party = [r.party EXCEPT ![p] = new]]
    BY <1>2 DEF Bump, new
  <2>5. r.party \in [Parties -> PartyRows \cup {NoRow}]
    BY DEF Index
  <2>6. /\ rows' \in Index /\ rows'.proposal = r.proposal /\ rows'.note = r.note
        /\ rows'.party = [r.party EXCEPT ![p] = new]
    BY <2>2, <2>4, <2>5 DEF Index
  <2>7. ASSUME NEW q \in Parties, rows.party[q] # NoRow, NEW g \in Counters
        PROVE  rows.party[q][g] = rows.party[q][g] + 0
    BY <2>7, RowTyped DEF PartyRows, Counters
  <2>8. ASSUME NEW q \in Parties
        PROVE  rows'.party[q] = IF q = p THEN new ELSE rows.party[q]
    BY <2>5, <2>6
  <2> QED BY <1>2, <2>2, <2>3, <2>6, <2>7, <2>8 DEF RowGains
<1> QED BY <1>1, <1>2

\* A row of a proposal is rewritten.
RowRewritten(r, s, id, row) ==
  /\ s \in Index /\ s.party = r.party /\ s.note = r.note
  /\ Len(s.proposal) = Len(r.proposal)
  /\ s.proposal[id] = row
  /\ \A j \in DOMAIN r.proposal : j # id => s.proposal[j] = r.proposal[j]

LEMMA RowSet ==
  ASSUME NEW r \in Index, NEW id \in DOMAIN r.proposal, NEW row \in ProposalRow
  PROVE  RowRewritten(r, [r EXCEPT !.proposal = [r.proposal EXCEPT ![id] = row]], id, row)
<1>1. r.proposal \in Seq(ProposalRow)
  BY DEF Index
<1> DEFINE new == [r.proposal EXCEPT ![id] = row]
<1>2. /\ new \in Seq(ProposalRow) /\ Len(new) = Len(r.proposal) /\ new[id] = row
      /\ \A j \in DOMAIN r.proposal : j # id => new[j] = r.proposal[j]
  BY <1>1
<1> HIDE DEF new
<1>3. RowRewritten(r, [r EXCEPT !.proposal = new], id, row)
  BY <1>2 DEF RowRewritten, Index
<1> QED BY <1>3 DEF new

\* The index keeps showing the proposals when one of them moves on.
LEMMA ShownMoves ==
  ASSUME Shown, Agreed', NEW id \in Ids, NEW s \in Index, NEW row \in ProposalRow,
         RowRewritten(rows, s, id, row), NEW q \in Proposal,
         proposals' = [proposals EXCEPT ![id] = q], UNCHANGED notes,
         rows' \in Index, rows'.proposal = s.proposal, rows'.note = s.note,
         RowOf(row, q), row.note = rows.proposal[id].note, q.status # "Proposed"
  PROVE  Shown'
<1>1. /\ proposals \in Seq(Proposal) /\ Ids' = Ids /\ Ids = 1..Len(proposals)
      /\ Len(proposals') = Len(proposals)
      /\ \A j \in Ids : proposals'[j] = IF j = id THEN q ELSE proposals[j]
      /\ rows.proposal \in Seq(ProposalRow) /\ DOMAIN rows.proposal = Ids
  BY DEF Shown, Agreed, QueueTyped, Ids, Index, ProposalsShown
<1>2. /\ Len(rows'.proposal) = Len(rows.proposal) /\ rows'.note = rows.note
      /\ \A j \in Ids : rows'.proposal[j] = IF j = id THEN row ELSE rows.proposal[j]
  BY <1>1 DEF RowRewritten
<1>3. ProposalsShown'
  BY <1>1, <1>2 DEF Shown, ProposalsShown, RowOf, Provenance
<1>4. \A k \in DOMAIN notes : notes[k].proposal \in Ids
  BY DEF Shown, Agreed, NotesMinted
<1>5. NotesShown'
  BY <1>1, <1>2, <1>4 DEF Shown, NotesShown
<1> QED BY <1>3, <1>5 DEF Shown

\* The counts when a proposal moves on.
LEMMA MoveTally ==
  ASSUME Agreed, NEW id \in Ids, NEW q \in Proposal,
         proposals' = [proposals EXCEPT ![id] = q],
         q.originator = proposals[id].originator, q.terms = proposals[id].terms,
         proposals[id].status \in {"Proposed", "Accepted", "Approved"},
         proposals[id].acceptedAt # 0 => q.acceptedAt # 0,
         NEW p \in Parties
  PROVE  /\ Of(p, ProposalStatus)' = Of(p, ProposalStatus) + 0
         /\ \A s \in {"Minted", "Rejected", "Expired"} :
              Of(p, {s})' = Of(p, {s}) + (IF q.originator = p /\ q.status = s THEN 1 ELSE 0)
         /\ AgreedToOwe(p)' = AgreedToOwe(p) +
              (IF q.terms.borrower = p /\ q.acceptedAt # 0 /\ proposals[id].acceptedAt = 0
               THEN 1 ELSE 0)
<1>1. /\ proposals' \in Seq(Proposal) /\ Ids' = Ids /\ QueueTyped /\ id \in Ids'
      /\ Len(proposals') = Len(proposals) /\ Len(proposals) <= Len(proposals')
      /\ proposals'[id] = q
      /\ \A j \in Ids' : j # id => j \in Ids /\ proposals'[j] = proposals[j]
  BY DEF Agreed, QueueTyped, Ids
<1>2. q.status \in ProposalStatus /\ proposals[id].status \in ProposalStatus
  BY DEF Proposal, ProposalStatus
<1>3. Of(p, ProposalStatus)' = Of(p, ProposalStatus) + 0
  BY <1>1, <1>2, OfGrows
<1>4. ASSUME NEW s \in {"Minted", "Rejected", "Expired"}
      PROVE  Of(p, {s})' = Of(p, {s}) + (IF q.originator = p /\ q.status = s THEN 1 ELSE 0)
  <2> DEFINE S == {s}
  <2>1. proposals[id].status \notin S /\ (q.status \in S <=> q.status = s)
    OBVIOUS
  <2> HIDE DEF S
  <2>2. Of(p, S)' = Of(p, S) + (IF q.originator = p /\ q.status = s THEN 1 ELSE 0)
    BY <1>1, <2>1, OfGrows
  <2> QED BY <2>2 DEF S
<1>5. AgreedToOwe(p)' = AgreedToOwe(p) +
              (IF q.terms.borrower = p /\ q.acceptedAt # 0 /\ proposals[id].acceptedAt = 0
               THEN 1 ELSE 0)
  BY <1>1, OwesGrows
<1> QED BY <1>3, <1>4, <1>5

LEMMA RaisedStays ==
  ASSUME QueueTyped, UNCHANGED notes, NEW p \in Parties
  PROVE  Raised(p)' = Raised(p) + 0
<1> DEFINE f == [k \in 0..(Len(notes) - 1) |->
                   IF notes[k + 1].originator = p THEN notes[k + 1].terms.principal ELSE 0]
           N == Len(notes)
<1>1. N \in Nat /\ \A k \in 1..N : notes[k] \in Note
  BY DEF QueueTyped
<1>2. f \in [0..(N - 1) -> Nat]
  BY <1>1 DEF Note, TermSheet
<1>3. Raised(p) = SumTo(f, N) /\ Raised(p)' = SumTo(f, N)
  BY DEF Raised
<1> HIDE DEF f, N
<1>4. SumTo(f, N) \in Nat
  BY <1>1, <1>2, SumType
<1> QED BY <1>3, <1>4

\* Which counter which move is counted by.
LEMMA MoveGains ==
  ASSUME Agreed, NEW id \in Ids, NEW q \in Proposal,
         proposals' = [proposals EXCEPT ![id] = q], UNCHANGED notes,
         q.originator = proposals[id].originator, q.terms = proposals[id].terms,
         proposals[id].status \in {"Proposed", "Accepted", "Approved"}
  PROVE  /\ q.status = "Accepted" /\ q.acceptedAt # 0 /\ proposals[id].acceptedAt = 0
              => TallyGains(q.terms.borrower, One("accepted"))
         /\ q.acceptedAt = proposals[id].acceptedAt =>
              /\ q.status = "Approved" => \A p \in Parties : TallyGains(p, Nothing)
              /\ q.status = "Rejected" => TallyGains(q.originator, One("proposalsRejected"))
              /\ q.status = "Expired"  => TallyGains(q.originator, One("proposalsExpired"))
<1> DEFINE came(s, p) == IF q.originator = p /\ q.status = s THEN 1 ELSE 0
           owes(p) == IF q.terms.borrower = p /\ q.acceptedAt # 0 /\ proposals[id].acceptedAt = 0
                      THEN 1 ELSE 0
           d(p, f) == CASE f = "notesProposed" -> 0
                        [] f = "notesMinted" -> came("Minted", p)
                        [] f = "proposalsRejected" -> came("Rejected", p)
                        [] f = "proposalsExpired" -> came("Expired", p)
                        [] f = "principalRaised" -> 0
                        [] f = "accepted" -> owes(p)
<1>1. ASSUME proposals[id].acceptedAt # 0 => q.acceptedAt # 0,
             NEW p \in Parties, NEW f \in Counters
      PROVE  Tally(p, f)' = Tally(p, f) + d(p, f)
  <2>1. Raised(p)' = Raised(p) + 0
    BY RaisedStays DEF Agreed
  <2>2. /\ Of(p, ProposalStatus)' = Of(p, ProposalStatus) + 0
        /\ Of(p, {"Minted"})' = Of(p, {"Minted"}) + came("Minted", p)
        /\ Of(p, {"Rejected"})' = Of(p, {"Rejected"}) + came("Rejected", p)
        /\ Of(p, {"Expired"})' = Of(p, {"Expired"}) + came("Expired", p)
        /\ AgreedToOwe(p)' = AgreedToOwe(p) + owes(p)
    BY <1>1, MoveTally
  <2> HIDE DEF came, owes
  <2> QED BY <2>1, <2>2 DEF Tally, Counters
<1>2. q.terms.borrower \in Parties /\ q.originator \in Parties
  BY DEF Proposal, TermSheet
<1>3. ASSUME q.status = "Accepted", q.acceptedAt # 0, proposals[id].acceptedAt = 0,
             NEW p \in Parties, NEW f \in Counters
      PROVE  d(p, f) = IF p = q.terms.borrower THEN One("accepted")[f] ELSE 0
  BY <1>3 DEF One, Nothing, Counters
<1>4. ASSUME q.acceptedAt = proposals[id].acceptedAt,
             q.status \in {"Approved", "Rejected", "Expired"},
             NEW p \in Parties, NEW f \in Counters
      PROVE  /\ q.status = "Approved" => d(p, f) = 0 /\ Nothing[f] = 0
             /\ q.status = "Rejected" =>
                  d(p, f) = IF p = q.originator THEN One("proposalsRejected")[f] ELSE 0
             /\ q.status = "Expired" =>
                  d(p, f) = IF p = q.originator THEN One("proposalsExpired")[f] ELSE 0
  BY <1>4 DEF One, Nothing, Counters
<1> HIDE DEF d
<1> QED BY <1>1, <1>3, <1>4 DEF TallyGains

----------------------------------------------------------------------------
\* A row of a proposal of the index, and of the queue.
LEMMA RowShown ==
  ASSUME Shown, NEW id \in Ids
  PROVE  /\ id \in DOMAIN rows.proposal /\ rows.proposal[id] \in ProposalRow
         /\ proposals[id] \in Proposal /\ RowOf(rows.proposal[id], proposals[id])
         /\ proposals[id].status = "Proposed" => proposals[id].acceptedAt = 0
<1>1. proposals \in Seq(Proposal) /\ rows.proposal \in Seq(ProposalRow)
  BY DEF Shown, Agreed, QueueTyped, Index
<1> QED BY <1>1 DEF Shown, ProposalsShown, Ids

LEMMA AcceptShows ==
  ASSUME RowsInv, NEW id \in Ids, Accept(id), rows' = handleAccepted(rows, id)
  PROVE  RowsInv'
<1> DEFINE p   == proposals[id]
           q   == [p EXCEPT !.status = "Accepted", !.acceptedAt = now]
           old == rows.proposal[id]
           row == [old EXCEPT !.status = "Accepted", !.acceptedAt = now]
           s   == [rows EXCEPT !.proposal = [rows.proposal EXCEPT ![id] = row]]
<1>1. /\ Agreed' /\ Shown /\ Agreed /\ rows \in Index /\ now \in Nat /\ now # 0
      /\ p.status = "Proposed" /\ proposals' = [proposals EXCEPT ![id] = q]
      /\ UNCHANGED <<notes, verifiedAt, revoked>>
  BY AcceptAgrees DEF RowsInv, Shown, Agreed, Registered, RegistryTyped, Accept, MayAccept, Moved,
                      registryVars
<1>2. /\ id \in DOMAIN rows.proposal /\ old \in ProposalRow /\ p \in Proposal
      /\ RowOf(old, p) /\ p.acceptedAt = 0
  BY <1>1, RowShown
<1>3. /\ q \in Proposal /\ q.originator = p.originator /\ q.terms = p.terms
      /\ q.status = "Accepted" /\ q.acceptedAt # 0
      /\ row \in ProposalRow /\ RowOf(row, q) /\ row.note = old.note
      /\ old.borrower = q.terms.borrower /\ q.terms.borrower \in Parties
  BY <1>1, <1>2 DEF Proposal, ProposalRow, ProposalStatus, RowOf, Provenance, TermSheet
<1>4. RowRewritten(rows, s, id, row)
  BY <1>1, <1>2, <1>3, RowSet
<1>5. rows' = Bump(s, old.borrower, "accepted")
  BY <1>1, <1>2 DEF handleAccepted, Index, ProposalRow
<1> HIDE DEF p, q, old, row, s
<1>6. s \in Index /\ s.party = rows.party
  BY <1>4 DEF RowRewritten
<1>7. /\ rows' \in Index /\ rows'.proposal = s.proposal /\ rows'.note = s.note
      /\ RowGains(old.borrower, One("accepted"))
  BY <1>1, <1>3, <1>5, <1>6, BumpGains DEF Counters
<1>8. Shown'
  BY <1>1, <1>3, <1>4, <1>6, <1>7, ShownMoves DEF old
<1>9. TallyGains(old.borrower, One("accepted"))
  BY <1>1, <1>2, <1>3, MoveGains DEF p
<1> QED BY <1>1, <1>7, <1>8, <1>9, GainsCounted DEF RowsInv

\* Rows of parties that no event is about.
LEMMA PartiesAsTheyWere ==
  ASSUME rows \in Index, rows'.party = rows.party, NEW p
  PROVE  RowGains(p, Nothing)
<1>1. ASSUME NEW q \in Parties, rows.party[q] # NoRow, NEW f \in Counters
      PROVE  rows.party[q][f] = rows.party[q][f] + (IF q = p THEN Nothing[f] ELSE 0)
  BY <1>1, RowTyped DEF PartyRows, Counters, Nothing
<1> QED BY <1>1 DEF RowGains

LEMMA ApproveShows ==
  ASSUME RowsInv, NEW id \in Ids, Approve(id), rows' = handleApproved(rows, id)
  PROVE  RowsInv'
<1> DEFINE p   == proposals[id]
           q   == [p EXCEPT !.status = "Approved", !.approvedAt = now]
           old == rows.proposal[id]
           row == [old EXCEPT !.status = "Approved", !.approvedAt = now]
           s   == [rows EXCEPT !.proposal = [rows.proposal EXCEPT ![id] = row]]
<1>1. /\ Agreed' /\ Shown /\ Agreed /\ rows \in Index /\ now \in Nat
      /\ p.status = "Accepted" /\ proposals' = [proposals EXCEPT ![id] = q]
      /\ UNCHANGED <<notes, verifiedAt, revoked>>
  BY ApproveAgrees DEF RowsInv, Shown, Agreed, Registered, RegistryTyped, Approve, MayDecide, Moved,
                       registryVars
<1>2. /\ id \in DOMAIN rows.proposal /\ old \in ProposalRow /\ p \in Proposal
      /\ RowOf(old, p)
  BY <1>1, RowShown
<1>3. /\ q \in Proposal /\ q.originator = p.originator /\ q.terms = p.terms
      /\ q.status = "Approved" /\ q.acceptedAt = p.acceptedAt
      /\ row \in ProposalRow /\ RowOf(row, q) /\ row.note = old.note
      /\ q.originator \in Parties
  BY <1>1, <1>2 DEF Proposal, ProposalRow, ProposalStatus, RowOf, Provenance
<1>4. RowRewritten(rows, s, id, row)
  BY <1>1, <1>2, <1>3, RowSet
<1>5. rows' = s
  BY <1>1, <1>2 DEF handleApproved, Index, ProposalRow
<1> HIDE DEF p, q, old, row, s
<1>6. s \in Index /\ s.party = rows.party
  BY <1>4 DEF RowRewritten
<1>7. RowGains(q.originator, Nothing)
  BY <1>1, <1>5, <1>6, PartiesAsTheyWere
<1>8. Shown'
  BY <1>1, <1>3, <1>4, <1>5, <1>6, ShownMoves DEF old
<1>9. TallyGains(q.originator, Nothing)
  BY <1>1, <1>2, <1>3, MoveGains DEF p
<1> QED BY <1>1, <1>7, <1>8, <1>9, GainsCounted DEF RowsInv

LEMMA ClosingShows ==
  ASSUME RowsInv, NEW id \in Ids,
         \/ Reject(id) /\ rows' = handleRejected(rows, id)
         \/ Expire(id) /\ rows' = handleExpired(rows, id)
  PROVE  RowsInv'
<1> DEFINE p   == proposals[id]
           old == rows.proposal[id]
<1>1. PICK status \in {"Rejected", "Expired"} :
        /\ Moved(id, [p EXCEPT !.status = status])
        /\ rows' = Bump([rows EXCEPT !.proposal[id].status = status], old.originator,
                        IF status = "Rejected" THEN "proposalsRejected" ELSE "proposalsExpired")
  BY DEF Reject, Expire, handleRejected, handleExpired
<1> DEFINE q   == [p EXCEPT !.status = status]
           row == [old EXCEPT !.status = status]
           s   == [rows EXCEPT !.proposal = [rows.proposal EXCEPT ![id] = row]]
           f   == IF status = "Rejected" THEN "proposalsRejected" ELSE "proposalsExpired"
<1>2. /\ Agreed' /\ Shown /\ Agreed /\ rows \in Index
      /\ p.status \in {"Proposed", "Accepted", "Approved"}
      /\ proposals' = [proposals EXCEPT ![id] = q]
      /\ UNCHANGED <<notes, verifiedAt, revoked>>
  <2>1. Agreed' /\ Shown /\ Agreed /\ rows \in Index
    BY ClosingAgrees DEF RowsInv, Shown
  <2>2. p.status \in {"Proposed", "Accepted", "Approved"} /\ UNCHANGED notes
    BY DEF Reject, Expire, MayDecide, Lapsed
  <2> QED BY <1>1, <2>1, <2>2 DEF Moved, registryVars
<1>3. /\ id \in DOMAIN rows.proposal /\ old \in ProposalRow /\ p \in Proposal
      /\ RowOf(old, p)
  BY <1>2, RowShown
<1>4. /\ q \in Proposal /\ q.originator = p.originator /\ q.terms = p.terms
      /\ q.status = status /\ q.status # "Proposed" /\ q.acceptedAt = p.acceptedAt
      /\ row \in ProposalRow /\ RowOf(row, q) /\ row.note = old.note
      /\ old.originator = q.originator /\ q.originator \in Parties
  BY <1>2, <1>3 DEF Proposal, ProposalRow, ProposalStatus, RowOf, Provenance
<1>5. RowRewritten(rows, s, id, row)
  BY <1>2, <1>3, <1>4, RowSet
<1>6. rows' = Bump(s, q.originator, f)
  BY <1>1, <1>2, <1>3, <1>4 DEF Index, ProposalRow
<1>7. f \in Counters
  BY DEF Counters
<1>8. \/ q.status = "Rejected" /\ f = "proposalsRejected"
      \/ q.status = "Expired" /\ f = "proposalsExpired"
  BY <1>4
<1> HIDE DEF p, q, old, row, s, f
<1>9. s \in Index /\ s.party = rows.party
  BY <1>5 DEF RowRewritten
<1>10. /\ rows' \in Index /\ rows'.proposal = s.proposal /\ rows'.note = s.note
       /\ RowGains(q.originator, One(f))
  BY <1>2, <1>4, <1>6, <1>7, <1>9, BumpGains
<1>11. Shown'
  BY <1>2, <1>4, <1>5, <1>9, <1>10, ShownMoves DEF old
<1>12. TallyGains(q.originator, One(f))
  BY <1>2, <1>3, <1>4, <1>8, MoveGains DEF p
<1> QED BY <1>2, <1>10, <1>11, <1>12, GainsCounted DEF RowsInv

LEMMA ProposeShows ==
  ASSUME RowsInv, NEW p \in Parties, NEW t \in TermSheets, Propose(p, t),
         rows' = handleProposed(rows, p, t)
  PROVE  RowsInv'
<1> DEFINE new == [originator |-> p, terms |-> t, status |-> "Proposed",
                   proposedAt |-> now, acceptedAt |-> 0, approvedAt |-> 0]
           row == [originator |-> p, borrower |-> t.borrower, status |-> "Proposed",
                   proposedAt |-> now, acceptedAt |-> 0, approvedAt |-> 0, note |-> 0]
           s   == [rows EXCEPT !.proposal = Append(rows.proposal, row)]
           id  == Len(proposals) + 1
<1>1. /\ Agreed' /\ Shown /\ Agreed /\ rows \in Index /\ now \in Nat
      /\ proposals \in Seq(Proposal) /\ proposals' \in Seq(Proposal)
      /\ proposals' = Append(proposals, new)
      /\ UNCHANGED <<notes, verifiedAt, revoked>> /\ QueueTyped
  BY ProposeAgrees DEF RowsInv, Shown, Agreed, QueueTyped, Registered, RegistryTyped, Propose, registryVars
<1>2. t \in TermSheet /\ t.borrower \in Parties
  BY IssuanceAssumption DEF TermSheet
<1>3. row \in ProposalRow /\ RowOf(row, new) /\ new.status = "Proposed" /\ new.acceptedAt = 0
      /\ new.originator = p
  BY <1>1, <1>2 DEF ProposalRow, ProposalStatus, RowOf, Provenance
<1>4. rows' = Bump(s, p, "notesProposed")
  BY <1>1 DEF handleProposed, Index
<1>5. rows.proposal \in Seq(ProposalRow) /\ Len(rows.proposal) = Len(proposals)
  BY <1>1 DEF Shown, ProposalsShown, Index
<1> HIDE DEF new, row
<1>6. s \in Index /\ s.party = rows.party /\ s.note = rows.note
      /\ s.proposal = Append(rows.proposal, row)
  <2>1. Append(rows.proposal, row) \in Seq(ProposalRow)
    BY <1>3, <1>5
  <2> QED BY <1>1, <2>1 DEF Index
<1> HIDE DEF s
<1>7. /\ rows' \in Index /\ rows'.proposal = s.proposal /\ rows'.note = s.note
      /\ RowGains(p, One("notesProposed"))
  BY <1>1, <1>4, <1>6, BumpGains DEF Counters
<1>8. /\ Ids = 1..Len(proposals) /\ Ids' = 1..id /\ id \in Ids' /\ id \notin Ids
      /\ Len(proposals) \in Nat /\ Len(proposals) <= Len(proposals') /\ Len(proposals') = id
      /\ proposals'[id] = new
      /\ \A j \in Ids' : j # id => j \in Ids /\ proposals'[j] = proposals[j]
  BY <1>1 DEF Ids
<1>9. /\ Len(rows'.proposal) = id /\ rows'.proposal[id] = row
      /\ \A j \in Ids : rows'.proposal[j] = rows.proposal[j]
  BY <1>5, <1>6, <1>7, <1>8
<1> HIDE DEF id
<1>10. ProposalsShown'
  <2>1. ASSUME NEW j \in Ids'
        PROVE  /\ RowOf(rows'.proposal[j], proposals'[j])
               /\ proposals'[j].status = "Proposed" => proposals'[j].acceptedAt = 0
    <3>1. CASE j = id
      BY <1>3, <1>8, <1>9, <3>1
    <3>2. CASE j # id
      BY <1>1, <1>8, <1>9, <3>2 DEF Shown, ProposalsShown
    <3> QED BY <3>1, <3>2
  <2> QED BY <1>8, <1>9, <2>1 DEF ProposalsShown, RowOf, Provenance
<1>11. NotesShown'
  <2>1. \A k \in DOMAIN notes : notes[k].proposal \in Ids
    BY <1>1 DEF Agreed, NotesMinted
  <2>2. rows'.note = rows.note /\ notes' = notes /\ NotesShown
    BY <1>1, <1>6, <1>7 DEF Shown
  <2> QED BY <1>9, <2>1, <2>2 DEF NotesShown
<1>12. TallyGains(p, One("notesProposed"))
  <2> SUFFICES ASSUME NEW q \in Parties, NEW f \in Counters
               PROVE  Tally(q, f)' = Tally(q, f) +
                        (IF q = p THEN One("notesProposed")[f] ELSE 0)
    BY DEF TallyGains
  <2>1. Of(q, ProposalStatus)' = Of(q, ProposalStatus) + (IF q = p THEN 1 ELSE 0)
    <3>1. "Proposed" \in ProposalStatus
      BY DEF ProposalStatus
    <3>2. ASSUME NEW S, "Proposed" \in S
          PROVE  Of(q, S)' = Of(q, S) + (IF q = p THEN 1 ELSE 0)
      <4>1. Of(q, S)' = Of(q, S) +
              (IF /\ proposals'[id].originator = q /\ proposals'[id].status \in S
                  /\ ~(id \in Ids /\ proposals[id].status \in S) THEN 1 ELSE 0)
        <5>1. /\ QueueTyped /\ proposals' \in Seq(Proposal) /\ id \in Ids'
              /\ Len(proposals) <= Len(proposals') /\ id \notin Ids
              /\ \A j \in Ids' : j # id => j \in Ids /\ proposals'[j] = proposals[j]
          BY <1>1, <1>8
        <5> QED BY ONLY <5>1, OfGrows, q \in Parties
      <4> QED BY <1>3, <1>8, <3>2, <4>1
    <3> QED BY <3>1, <3>2
  <2>2. ASSUME NEW S, "Proposed" \notin S PROVE Of(q, S)' = Of(q, S) + 0
    BY <1>1, <1>3, <1>8, <2>2, OfGrows
  <2>3. AgreedToOwe(q)' = AgreedToOwe(q) + 0
    BY <1>1, <1>3, <1>8, OwesGrows
  <2>4. Raised(q)' = Raised(q) + 0
    BY <1>1, RaisedStays
  <2>5. /\ "Proposed" \notin {"Minted"} /\ "Proposed" \notin {"Rejected"}
        /\ "Proposed" \notin {"Expired"}
    OBVIOUS
  <2>6. /\ Of(q, {"Minted"})' = Of(q, {"Minted"}) + 0
        /\ Of(q, {"Rejected"})' = Of(q, {"Rejected"}) + 0
        /\ Of(q, {"Expired"})' = Of(q, {"Expired"}) + 0
    BY <2>2, <2>5
  <2> QED BY <2>1, <2>3, <2>4, <2>6 DEF Tally, Counters, One, Nothing
<1> QED BY <1>1, <1>7, <1>10, <1>11, <1>12, GainsCounted DEF RowsInv, Shown

LEMMA MintShows ==
  ASSUME RowsInv, NEW id \in Ids, Mint(id), rows' = handleNoteIssued(rows, id)
  PROVE  RowsInv'
<1> DEFINE p   == proposals[id]
           q   == [p EXCEPT !.status = "Minted"]
           n   == [proposal |-> id, originator |-> p.originator,
                   terms |-> p.terms, mintedAt |-> now]
           nr  == [proposal |-> id, originator |-> p.originator,
                   borrower |-> p.terms.borrower, mintedAt |-> now]
           k   == Len(notes) + 1
           old == rows.proposal[id]
           row == [old EXCEPT !.status = "Minted", !.note = k]
           s   == [rows EXCEPT !.proposal = [rows.proposal EXCEPT ![id] = row]]
           m   == [s EXCEPT !.note = Append(rows.note, nr)]
           o   == p.originator
           d   == [One("notesMinted") EXCEPT !["principalRaised"] = p.terms.principal]
<1>1. /\ Agreed' /\ Shown /\ Agreed /\ rows \in Index /\ now \in Nat /\ QueueTyped
      /\ p.status = "Approved" /\ Stamped(p) /\ Ids \subseteq Nat
      /\ proposals' = [proposals EXCEPT ![id] = q] /\ notes' = Append(notes, n)
      /\ UNCHANGED <<verifiedAt, revoked>>
      /\ notes \in Seq(Note) /\ Len(rows.note) = Len(notes) /\ rows.note \in Seq(NoteRow)
  <2>1. Agreed' /\ Shown /\ Agreed /\ rows \in Index /\ NotesShown
    BY MintAgrees DEF RowsInv, Shown
  <2>2. now \in Nat /\ QueueTyped /\ Stamped(p) /\ notes \in Seq(Note) /\ Ids \subseteq Nat
    BY <2>1 DEF Agreed, QueueTyped, Registered, RegistryTyped, Ids
  <2>3. /\ p.status = "Approved" /\ proposals' = [proposals EXCEPT ![id] = q]
        /\ notes' = Append(notes, n) /\ UNCHANGED <<verifiedAt, revoked>>
    BY DEF Mint, MayMint, Deploy, Moved, AfterMint, registryVars
  <2>4. Len(rows.note) = Len(notes) /\ rows.note \in Seq(NoteRow)
    BY <2>1 DEF NotesShown, Index
  <2> QED BY <2>1, <2>2, <2>3, <2>4
<1>2. /\ id \in DOMAIN rows.proposal /\ old \in ProposalRow /\ p \in Proposal
      /\ RowOf(old, p)
  BY <1>1, RowShown
<1>3. /\ q \in Proposal /\ q.originator = o /\ q.terms = p.terms
      /\ q.status = "Minted" /\ q.acceptedAt = p.acceptedAt
      /\ row \in ProposalRow /\ RowOf(row, q) /\ row.note = k
      /\ o \in Parties /\ p.terms.borrower \in Parties /\ p.terms.principal \in Nat
      /\ k \in Nat
  <2>1. k \in Nat
    BY <1>1
  <2> HIDE DEF k
  <2> QED BY <1>1, <1>2, <2>1 DEF Proposal, ProposalRow, ProposalStatus, RowOf, Provenance,
                                  TermSheet
<1>4. /\ n \in Note /\ n.originator = o /\ n.terms = p.terms /\ n.proposal = id
      /\ nr \in NoteRow /\ nr.proposal = n.proposal /\ nr.mintedAt = n.mintedAt
  BY <1>1, <1>2, <1>3 DEF Note, NoteRow, Proposal
<1>5. RowRewritten(rows, s, id, row)
  BY <1>1, <1>2, <1>3, RowSet
<1>6. rows.party[o] # NoRow /\ rows.party[o] \in PartyRows
  <2>1. verifiedAt[o] # 0
    BY <1>1 DEF Stamped
  <2>2. rows.party[o] # NoRow
    BY <1>3, <2>1 DEF RowsInv, PartiesCounted
  <2> QED BY <1>1, <1>3, <2>2, RowTyped
<1>7. rows' = [Bump(m, o, "notesMinted") EXCEPT
                 !.party[o].principalRaised = @ + p.terms.principal]
  <2>1. m = [rows EXCEPT !.note = Append(@, nr), !.proposal[id].status = "Minted",
                         !.proposal[id].note = Len(rows.note) + 1]
    BY <1>1, <1>2 DEF Index, ProposalRow
  <2>2. m.party[o] # NoRow
    BY <1>1, <1>6 DEF Index
  <2> HIDE DEF m
  <2> QED BY <2>1, <2>2 DEF handleNoteIssued
<1> HIDE DEF p, q, n, nr, old, row, s, k, o, d
<1>8. /\ s \in Index /\ s.party = rows.party /\ s.note = rows.note
      /\ Append(rows.note, nr) \in Seq(NoteRow)
  BY <1>1, <1>4, <1>5 DEF RowRewritten
<1>9. /\ m \in Index /\ m.party = rows.party /\ m.proposal = s.proposal
      /\ m.note = Append(rows.note, nr)
  BY <1>8 DEF Index
<1> HIDE DEF m
<1> DEFINE was == rows.party[o]
           one == [was EXCEPT !["notesMinted"] = @ + 1]
           new == [one EXCEPT !.principalRaised = @ + p.terms.principal]
<1>10. new \in PartyRows /\ new # NoRow /\ new.revoked = was.revoked
  <2>1. was \in PartyRows /\ p.terms.principal \in Nat
    BY <1>3, <1>6
  <2> HIDE DEF was
  <2>2. one \in PartyRows /\ one.revoked = was.revoked
    BY <2>1 DEF PartyRows
  <2> HIDE DEF one
  <2>3. new \in PartyRows /\ new.revoked = was.revoked
    BY <2>1, <2>2 DEF PartyRows
  <2> QED BY <2>3, PagesAssumption
<1>11. /\ \A f \in Counters : new[f] = was[f] + d[f]
       /\ d["notesMinted"] = 1 /\ d["principalRaised"] = p.terms.principal
       /\ \A f \in Counters \ {"notesMinted", "principalRaised"} : d[f] = 0
  BY <1>3, <1>6 DEF Counters, PartyRows, d, One, Nothing
<1>12. rows' = [m EXCEPT !.party = [m.party EXCEPT ![o] = new]]
  <2>1. m.party \in [Parties -> PartyRows \cup {NoRow}] /\ m.party[o] = was
    BY <1>9 DEF Index
  <2>2. Bump(m, o, "notesMinted") = [m EXCEPT !.party = [m.party EXCEPT ![o] = one]]
    BY <1>6, <2>1 DEF Bump
  <2> HIDE DEF one, was
  <2> DEFINE b == Bump(m, o, "notesMinted")
  <2>3. b.party = [m.party EXCEPT ![o] = one] /\ b.party[o] = one
    BY <1>3, <1>9, <2>1, <2>2 DEF Index
  <2>4. rows' = [b EXCEPT !.party = [b.party EXCEPT ![o] = new]]
    BY <1>7, <2>3
  <2> QED BY <1>9, <2>1, <2>2, <2>3, <2>4 DEF Index
<1> HIDE DEF new
<1>13. /\ rows' \in Index /\ rows'.proposal = s.proposal /\ rows'.note = Append(rows.note, nr)
       /\ rows'.party = [rows.party EXCEPT ![o] = new]
  BY <1>9, <1>10, <1>12 DEF Index
<1>14. RowGains(o, d)
  <2>1. ASSUME NEW x \in Parties PROVE rows'.party[x] = IF x = o THEN new ELSE rows.party[x]
    BY <1>1, <1>13 DEF Index
  <2>2. ASSUME NEW x \in Parties, rows.party[x] # NoRow, NEW f \in Counters
        PROVE  rows.party[x][f] = rows.party[x][f] + 0
    BY <1>1, <2>2, RowTyped DEF PartyRows, Counters
  <2> QED BY <1>6, <1>10, <1>11, <2>1, <2>2 DEF RowGains
<1>15. TallyGains(o, d)
  <2> SUFFICES ASSUME NEW x \in Parties, NEW f \in Counters
               PROVE  Tally(x, f)' = Tally(x, f) + (IF x = o THEN d[f] ELSE 0)
    BY DEF TallyGains
  <2>1. /\ Of(x, ProposalStatus)' = Of(x, ProposalStatus) + 0
        /\ Of(x, {"Minted"})' = Of(x, {"Minted"}) + (IF o = x THEN 1 ELSE 0)
        /\ Of(x, {"Rejected"})' = Of(x, {"Rejected"}) + 0
        /\ Of(x, {"Expired"})' = Of(x, {"Expired"}) + 0
        /\ AgreedToOwe(x)' = AgreedToOwe(x) + 0
    BY <1>1, <1>2, <1>3, MoveTally DEF p, o
  <2>2. Raised(x)' = Raised(x) + (IF o = x THEN p.terms.principal ELSE 0)
    BY <1>1, <1>4, RaisedGrows
  <2> QED BY <1>11, <2>1, <2>2 DEF Tally, Counters
<1>16. /\ Ids' = Ids /\ id \in Ids' /\ proposals'[id] = q /\ Len(proposals') = Len(proposals)
       /\ \A j \in Ids : j # id => proposals'[j] = proposals[j]
       /\ DOMAIN rows.proposal = Ids
  BY <1>1 DEF Shown, Agreed, QueueTyped, Ids, ProposalsShown, Index
<1>17. ProposalsShown'
  <2>1. /\ Len(rows'.proposal) = Len(rows.proposal) /\ rows'.proposal[id] = row
        /\ \A j \in Ids : j # id => rows'.proposal[j] = rows.proposal[j]
    BY <1>5, <1>13, <1>16 DEF RowRewritten
  <2>2. ASSUME NEW j \in Ids
        PROVE  /\ RowOf(rows'.proposal[j], proposals'[j])
               /\ proposals'[j].status = "Proposed" => proposals'[j].acceptedAt = 0
    <3>1. CASE j = id
      BY <1>3, <1>16, <2>1, <3>1
    <3>2. CASE j # id
      BY <1>1, <1>16, <2>1, <3>2 DEF Shown, ProposalsShown
    <3> QED BY <3>1, <3>2
  <2> QED BY <1>1, <1>16, <2>1, <2>2 DEF Shown, ProposalsShown, RowOf, Provenance
<1>18. NotesShown'
  <2>1. /\ Len(notes') = k /\ Len(rows'.note) = k /\ DOMAIN notes' = 1..k
        /\ DOMAIN notes = 1..Len(notes) /\ Len(notes) \in Nat /\ k = Len(notes) + 1
        /\ notes'[k] = n /\ rows'.note[k] = nr
        /\ \A j \in DOMAIN notes : notes'[j] = notes[j] /\ rows'.note[j] = rows.note[j]
    BY <1>1, <1>4, <1>13 DEF k
  <2>2. ASSUME NEW j \in DOMAIN notes
        PROVE  notes[j].proposal \in Ids /\ notes[j].proposal # id
    BY <1>1, <2>2 DEF Agreed, NotesMinted, MintedFrom, p
  <2>3. rows'.proposal[id] = row
        /\ \A j \in Ids : j # id => rows'.proposal[j] = rows.proposal[j]
    BY <1>5, <1>13, <1>16 DEF RowRewritten
  <2>4. ASSUME NEW j \in DOMAIN notes'
        PROVE  /\ rows'.note[j].proposal = notes'[j].proposal
               /\ rows'.note[j].mintedAt = notes'[j].mintedAt
               /\ rows'.proposal[notes'[j].proposal].note = j
    <3>1. CASE j = k
      <4>1. notes'[j].proposal = id /\ row.note = j
        BY <1>3, <1>4, <2>1, <3>1
      <4> QED BY <1>4, <2>1, <2>3, <3>1, <4>1
    <3>2. CASE j # k
      <4>1. j \in DOMAIN notes
        BY <2>1, <3>2
      <4>2. /\ rows.note[j].proposal = notes[j].proposal
            /\ rows.note[j].mintedAt = notes[j].mintedAt
            /\ rows.proposal[notes[j].proposal].note = j
        BY <1>1, <4>1 DEF Shown, NotesShown
      <4>3. rows'.proposal[notes[j].proposal] = rows.proposal[notes[j].proposal]
        BY <2>2, <2>3, <4>1
      <4> QED BY <2>1, <4>1, <4>2, <4>3
    <3> QED BY <3>1, <3>2
  <2> QED BY <2>1, <2>4 DEF NotesShown
<1>19. Shown'
  BY <1>1, <1>13, <1>17, <1>18 DEF Shown
<1> QED BY <1>1, <1>14, <1>15, <1>19, GainsCounted DEF RowsInv

----------------------------------------------------------------------------
(* The registry's events, and the steps that have none.                    *)

\* Nobody who was never verified has anything to count.
LEMMA NothingToCount ==
  ASSUME Agreed, NEW p \in Parties, verifiedAt[p] = 0, NEW f \in Counters
  PROVE  Tally(p, f) = 0
<1>1. /\ proposals \in Seq(Proposal) /\ notes \in Seq(Note)
      /\ \A id \in Ids : proposals[id].originator # p /\ proposals[id].terms.borrower # p
  BY DEF Agreed, QueueTyped, Stamped
<1>2. ASSUME NEW S PROVE Of(p, S) = 0
  <2>1. {id \in Ids : proposals[id].originator = p /\ proposals[id].status \in S} = {}
    BY <1>1
  <2> QED BY <2>1, FS_EmptySet DEF Of
<1>3. AgreedToOwe(p) = 0
  <2>1. {id \in Ids : proposals[id].terms.borrower = p /\ proposals[id].acceptedAt # 0} = {}
    BY <1>1
  <2> QED BY <2>1, FS_EmptySet DEF AgreedToOwe
<1>4. Raised(p) = 0
  <2> DEFINE paid == [k \in 0..(Len(notes) - 1) |->
                        IF notes[k + 1].originator = p THEN notes[k + 1].terms.principal ELSE 0]
             N == Len(notes)
  <2>1. \A k \in 1..N : notes[k].originator # p
    BY <1>1 DEF Agreed, NotesMinted, MintedFrom
  <2>2. N \in Nat
    BY <1>1
  <2>3. paid \in [0..(N - 1) -> Int] /\ \A i \in 0..(N - 1) : paid[i] = 0
    BY <2>1, <2>2
  <2>4. Raised(p) = SumTo(paid, N)
    BY DEF Raised
  <2> HIDE DEF paid, N
  <2> QED BY <2>2, <2>3, <2>4, SumZero
<1> QED BY <1>2, <1>3, <1>4 DEF Tally, Counters

LEMMA TallyLeft ==
  ASSUME UNCHANGED <<proposals, notes>>, NEW p, NEW f \in Counters
  PROVE  Tally(p, f)' = Tally(p, f)
<1>1. /\ \A S : Of(p, S)' = Of(p, S)
      /\ AgreedToOwe(p)' = AgreedToOwe(p) /\ Raised(p)' = Raised(p)
  BY DEF Of, AgreedToOwe, Raised, Ids
<1> QED BY <1>1 DEF Tally, Counters

\* Neither the proposals nor the notes change, nor their rows.
LEMMA ShownStays ==
  ASSUME Shown, Agreed', UNCHANGED <<proposals, notes>>, rows' \in Index,
         rows'.proposal = rows.proposal, rows'.note = rows.note
  PROVE  Shown'
BY DEF Shown, ProposalsShown, NotesShown, RowOf, Provenance, Ids

LEMMA VerifyShows ==
  ASSUME RowsInv, Agreed', NEW a \in Attestations, Verify(a), UNCHANGED <<now, queueVars>>,
         rows' = handlePartyVerified(rows, a.party)
  PROVE  RowsInv'
<1> DEFINE p == a.party
<1>1. /\ p \in Parties /\ verifiedAt[p] = 0
      /\ verifiedAt' = [verifiedAt EXCEPT ![p] = now]
      /\ now # 0 /\ verifiedAt \in [Parties -> Nat] /\ rows \in Index /\ Agreed /\ Shown
      /\ UNCHANGED <<proposals, notes, revoked>> /\ revoked[p] = FALSE
  BY IssuanceAssumption DEF Attestation, Verify, MayVerify, RowsInv, Shown, Agreed,
                            Registered, RegistryTyped, Bound, queueVars
<1>2. rows' = [rows EXCEPT !.party[p] = PartyRow]
  BY <1>1 DEF handlePartyVerified, RowsInv, PartiesCounted
<1>3. PartyRow \in PartyRows /\ PartyRow # NoRow
  <2>1. PartyRow \in PartyRows
    BY DEF PartyRow, PartyRows
  <2> QED BY <2>1, PagesAssumption
<1>4. /\ rows' \in Index /\ rows'.proposal = rows.proposal /\ rows'.note = rows.note
      /\ \A q \in Parties : rows'.party[q] = IF q = p THEN PartyRow ELSE rows.party[q]
  BY <1>1, <1>2, <1>3 DEF Index
<1>5. ASSUME NEW q \in Parties, NEW f \in Counters
      PROVE  Tally(q, f)' = Tally(q, f) /\ (q = p => Tally(q, f) = 0) /\ PartyRow[f] = 0
  BY <1>1, NothingToCount, TallyLeft DEF PartyRow, Counters
<1>6. PartyRow.revoked = FALSE
  BY DEF PartyRow
<1> HIDE DEF p
<1>7. PartiesCounted'
  BY <1>1, <1>3, <1>4, <1>5, <1>6 DEF RowsInv, PartiesCounted
<1>8. Shown'
  BY <1>1, <1>4, ShownStays
<1> QED BY <1>7, <1>8 DEF RowsInv

LEMMA RevokeShows ==
  ASSUME RowsInv, Agreed', NEW p \in Parties, Revoke(p), UNCHANGED <<now, queueVars>>,
         rows' = handlePartyRevoked(rows, p)
  PROVE  RowsInv'
<1>1. /\ verifiedAt[p] # 0 /\ revoked' = [revoked EXCEPT ![p] = TRUE]
      /\ revoked \in [Parties -> BOOLEAN] /\ rows \in Index /\ Agreed /\ Shown
      /\ UNCHANGED <<proposals, notes, verifiedAt>>
  BY DEF Revoke, RowsInv, Shown, Agreed, Registered, RegistryTyped, queueVars
<1>2. rows.party[p] # NoRow /\ rows.party[p] \in PartyRows
  BY <1>1, RowTyped DEF RowsInv, PartiesCounted
<1> DEFINE new == [rows.party[p] EXCEPT !.revoked = TRUE]
<1>3. /\ new \in PartyRows /\ new # NoRow /\ new.revoked = TRUE
      /\ \A f \in Counters : new[f] = rows.party[p][f]
  <2>1. new \in PartyRows
    BY <1>2 DEF PartyRows
  <2> QED BY <1>2, <2>1, PagesAssumption DEF PartyRows, Counters
<1>4. rows' = [rows EXCEPT !.party[p] = new]
  BY <1>2 DEF handlePartyRevoked
<1> HIDE DEF new
<1>5. /\ rows' \in Index /\ rows'.proposal = rows.proposal /\ rows'.note = rows.note
      /\ \A q \in Parties : rows'.party[q] = IF q = p THEN new ELSE rows.party[q]
  BY <1>1, <1>3, <1>4 DEF Index
<1>6. PartiesCounted'
  <2>1. \A q \in Parties, f \in Counters : Tally(q, f)' = Tally(q, f)
    BY <1>1, TallyLeft
  <2>2. PartiesCounted
    BY DEF RowsInv
  <2>3. ASSUME NEW q \in Parties
        PROVE  /\ rows'.party[q] = NoRow <=> verifiedAt[q] = 0
               /\ rows'.party[q] # NoRow =>
                    /\ rows'.party[q].revoked = revoked'[q]
                    /\ \A f \in Counters : rows'.party[q][f] = Tally(q, f)
    <3>1. CASE q = p
      BY <1>1, <1>2, <1>3, <1>5, <2>2, <3>1 DEF PartiesCounted
    <3>2. CASE q # p
      BY <1>1, <1>5, <2>2, <3>2 DEF PartiesCounted
    <3> QED BY <3>1, <3>2
  <2> QED BY <1>1, <2>1, <2>3 DEF PartiesCounted
<1>7. Shown'
  BY <1>1, <1>5, ShownStays
<1> QED BY <1>6, <1>7 DEF RowsInv

LEMMA RowsStay ==
  ASSUME RowsInv, Agreed', UNCHANGED <<verifiedAt, revoked, proposals, notes, rows>>
  PROVE  RowsInv'
<1>1. PartiesCounted'
  BY TallyLeft DEF RowsInv, PartiesCounted
<1>2. Shown'
  BY ShownStays DEF RowsInv, Shown
<1> QED BY <1>1, <1>2 DEF RowsInv

LEMMA RowsInvInit == PagesInit => RowsInv
<1> SUFFICES ASSUME PagesInit PROVE RowsInv
  OBVIOUS
<1>1. Agreed /\ rows = [party |-> [p \in Parties |-> NoRow], proposal |-> <<>>, note |-> <<>>]
  BY AgreedInit DEF PagesInit
<1>2. /\ verifiedAt = [p \in Parties |-> 0] /\ proposals = <<>> /\ notes = <<>>
  BY DEF PagesInit, IssuanceInit, RegistryInit
<1>3. rows \in Index
  BY <1>1 DEF Index
<1>4. ProposalsShown /\ NotesShown
  BY <1>1, <1>2 DEF ProposalsShown, NotesShown, Ids
<1>5. PartiesCounted
  BY <1>1, <1>2 DEF PartiesCounted
<1> QED BY <1>1, <1>3, <1>4, <1>5 DEF RowsInv, Shown

LEMMA RowsInvStep == RowsInv /\ [PagesNext]_pageVars => RowsInv'
<1> SUFFICES ASSUME RowsInv, [PagesNext]_pageVars PROVE RowsInv'
  OBVIOUS
<1>0. Agreed'
  BY AgreedStep DEF RowsInv, Shown
<1>1. ASSUME NEW a \in Attestations, Verify(a), UNCHANGED <<now, queueVars>>,
             rows' = handlePartyVerified(rows, a.party)
      PROVE  RowsInv'
  BY <1>0, <1>1, VerifyShows
<1>2. ASSUME NEW p \in Parties, Revoke(p), UNCHANGED <<now, queueVars>>,
             rows' = handlePartyRevoked(rows, p)
      PROVE  RowsInv'
  BY <1>0, <1>2, RevokeShows
<1>3. ASSUME NEW p \in Parties, NEW t \in TermSheets, Propose(p, t),
             rows' = handleProposed(rows, p, t)
      PROVE  RowsInv'
  BY <1>3, ProposeShows
<1>4. ASSUME NEW id \in Ids,
             \/ Accept(id) /\ rows' = handleAccepted(rows, id)
             \/ Approve(id) /\ rows' = handleApproved(rows, id)
             \/ Reject(id) /\ rows' = handleRejected(rows, id)
             \/ Mint(id) /\ rows' = handleNoteIssued(rows, id)
             \/ Expire(id) /\ rows' = handleExpired(rows, id)
      PROVE  RowsInv'
  BY <1>4, AcceptShows, ApproveShows, ClosingShows, MintShows
<1>5. ASSUME \/ PagesPass \/ UNCHANGED pageVars
             \/ SetInfrastructure /\ UNCHANGED rows
             \/ \E a \in Admins, allowed \in BOOLEAN : SetAdmin(a, allowed) /\ UNCHANGED rows
      PROVE  RowsInv'
  <2>1. UNCHANGED <<registryVars, proposals, notes, rows>>
    BY <1>5 DEF PagesPass, Pass, Elapse, pageVars, issuanceVars, queueVars, SetInfrastructure,
                SetAdmin
  <2> QED BY <1>0, <2>1, RowsStay DEF registryVars
<1> QED BY <1>1, <1>2, <1>3, <1>4, <1>5 DEF PagesNext, PagesExpire

THEOREM RowsKept == PagesSpec => []RowsInv
BY RowsInvInit, RowsInvStep, PTL DEF PagesSpec

(***************************************************************************)
(* issuance-queue.ts, party-registry.ts and note-factory.ts: however many  *)
(* proposals are made, turned down, left to lapse and minted, each counter *)
(* of a party's row is the count of what the queue has of that kind, and   *)
(* the page of a note finds its three signatures, in their order.          *)
(***************************************************************************)
THEOREM CountersAreCounts == PagesSpec => []RowsRecount
<1>1. ASSUME RowsInv PROVE RowsRecount
  <2>1. ASSUME NEW p \in Parties
        PROVE  /\ rows.party[p] = NoRow <=> verifiedAt[p] = 0
               /\ rows.party[p] # NoRow =>
                    /\ rows.party[p].revoked = revoked[p]
                    /\ \A f \in Counters : rows.party[p][f] = Tally(p, f)
    BY <1>1 DEF RowsInv, PartiesCounted
  <2>2. ASSUME NEW p \in Parties, rows.party[p] # NoRow
        PROVE  LET row == rows.party[p]
               IN  /\ row.notesProposed = Of(p, ProposalStatus)
                   /\ row.proposalsRejected = Of(p, {"Rejected"})
                   /\ row.proposalsExpired = Of(p, {"Expired"})
                   /\ row.notesMinted = Of(p, {"Minted"})
                   /\ row.principalRaised = Raised(p)
                   /\ row.accepted = AgreedToOwe(p)
    BY <2>1, <2>2 DEF Tally, Counters
  <2>3. ASSUME NEW k \in DOMAIN rows.note
        PROVE  LET row == rows.proposal[rows.note[k].proposal]
                   p   == proposals[notes[k].proposal]
               IN  /\ row.note = k
                   /\ Provenance(row) = <<p.proposedAt, p.acceptedAt, p.approvedAt>>
                   /\ row.proposedAt <= row.acceptedAt /\ row.acceptedAt <= row.approvedAt
                   /\ row.approvedAt <= rows.note[k].mintedAt
    <3> DEFINE id == notes[k].proposal
               p  == proposals[id]
    <3>1. k \in DOMAIN notes
      BY <1>1 DEF RowsInv, Shown, Agreed, QueueTyped, NotesShown, Index
    <3>2. /\ id \in Ids /\ MintedFrom(notes[k], p) /\ Stamped(p)
          /\ rows.note[k].proposal = id /\ rows.note[k].mintedAt = notes[k].mintedAt
          /\ rows.proposal[id].note = k
      BY <1>1, <3>1 DEF RowsInv, Shown, Agreed, NotesMinted, NotesShown
    <3>3. RowOf(rows.proposal[id], p)
      BY <1>1, <3>2, RowShown DEF RowsInv
    <3> HIDE DEF id, p
    <3>4. /\ p.proposedAt <= p.acceptedAt /\ p.acceptedAt <= p.approvedAt
          /\ p.approvedAt <= rows.note[k].mintedAt
      BY <3>2 DEF MintedFrom, Stamped
    <3>5. /\ rows.proposal[id].proposedAt = p.proposedAt
          /\ rows.proposal[id].acceptedAt = p.acceptedAt
          /\ rows.proposal[id].approvedAt = p.approvedAt
      BY <3>3 DEF RowOf, Provenance
    <3> QED BY <3>2, <3>3, <3>4, <3>5 DEF id, p, RowOf
  <2>4. Len(rows.note) = Len(notes)
    BY <1>1 DEF RowsInv, Shown, NotesShown
  <2> QED BY <2>1, <2>2, <2>3, <2>4 DEF RowsRecount
<1> QED BY <1>1, RowsKept, PTL

LEMMA TurnsTold ==
  ASSUME RowsInv, NEW id \in Ids, NEW v \in Viewers, NEW opened \in 1..now
  PROVE  LET p     == proposals[id]
             offer == ProposalView(v, id, opened)
         IN  /\ offer = {"accept"} =>
                  v = p.terms.borrower /\ (MayAccept(p) \/ ~isVerified(v) \/ Lapsed(p))
             /\ (v = p.terms.borrower /\ MayAccept(p)) => offer = {"accept"}
             /\ offer = {"approve", "reject"} <=> (v \in Admins /\ MayDecide(p, v))
             /\ (v = p.originator /\ MayMint(p)) => offer = {"mint"}
             /\ offer # {} => \A w \in Viewers : ProposalView(w, id, opened) \in {{}, offer}
             /\ (offer \cap {"accept", "mint"} # {}) => id \in WaitingOn(v)
             /\ id \in WaitingOn(v) => offer # {} \/ Lapsed(p)
<1> DEFINE p     == proposals[id]
           late  == opened > p.terms.acceptDeadline
           past  == now > p.terms.acceptDeadline
           offer == ProposalView(v, id, opened)
<1>1. /\ p \in Proposal /\ now \in Nat /\ p.terms.acceptDeadline \in Nat
      /\ rows.proposal[id].status = p.status /\ rows.proposal[id].borrower = p.terms.borrower
      /\ rows.proposal[id].originator = p.originator /\ id \in DOMAIN rows.proposal
  BY RowShown DEF RowsInv, Shown, Agreed, Registered, RegistryTyped, RowOf, Proposal, TermSheet
<1>2. ASSUME NEW w \in Viewers
      PROVE  /\ p.status = "Proposed" =>
                  ProposalView(w, id, opened) =
                    IF w = p.terms.borrower /\ ~late THEN {"accept"} ELSE {}
             /\ p.status = "Accepted" =>
                  ProposalView(w, id, opened) =
                    IF w \in Admins /\ isAdmin[w] THEN {"approve", "reject"} ELSE {}
             /\ p.status = "Approved" =>
                  ProposalView(w, id, opened) = IF w = p.originator THEN {"mint"} ELSE {}
             /\ p.status \notin {"Proposed", "Accepted", "Approved"} =>
                  ProposalView(w, id, opened) = {}
  BY DEF ProposalView, Actions, deadlinePassed
<1>3. id \in WaitingOn(v) <=> \/ p.status = "Proposed" /\ p.terms.borrower = v
                              \/ p.status = "Approved" /\ p.originator = v
  BY <1>1 DEF WaitingOn
<1>4. /\ {"accept"} # {"approve", "reject"} /\ {"mint"} # {"approve", "reject"}
      /\ {"accept"} # {"mint"} /\ {"accept"} # {} /\ {"mint"} # {} /\ {"approve", "reject"} # {}
      /\ {"approve", "reject"} \cap {"accept", "mint"} = {} /\ {} \cap {"accept", "mint"} = {}
  OBVIOUS
<1>5. /\ MayAccept(p) <=> p.status = "Proposed" /\ ~past /\ isVerified(p.terms.borrower)
      /\ \A w \in Admins : MayDecide(p, w) <=> isAdmin[w] /\ p.status = "Accepted"
      /\ MayMint(p) => p.status = "Approved"
      /\ p.status = "Proposed" /\ past => Lapsed(p)
      /\ late => past
  BY <1>1 DEF MayAccept, InTime, MayDecide, MayMint, Lapsed
<1> HIDE DEF p, late, past
<1>6. CASE p.status = "Proposed"
  BY <1>2, <1>3, <1>4, <1>5, <1>6 DEF p
<1>7. CASE p.status = "Accepted"
  BY <1>2, <1>3, <1>4, <1>5, <1>7 DEF p
<1>8. CASE p.status = "Approved"
  BY <1>2, <1>3, <1>4, <1>5, <1>8 DEF p
<1>9. CASE p.status \notin {"Proposed", "Accepted", "Approved"}
  BY <1>2, <1>3, <1>4, <1>5, <1>9 DEF p
<1> QED BY <1>6, <1>7, <1>8, <1>9

LEMMA WholeNumbers ==
  ASSUME NEW d \in Draft, Encodes(d)
  PROVE  /\ d.principal \in Nat /\ d.couponBps \in Nat /\ d.servicingFeeBps \in Nat
         /\ d.periodCount \in Nat /\ d.periodLength \in Nat /\ d.acceptDeadline \in Nat
         /\ d.gracePeriod \in Nat /\ d.cureWindow \in Nat /\ d.attached \in BOOLEAN
<1>1. /\ d.couponBps \in UINT16 /\ d.servicingFeeBps \in UINT16 /\ d.periodCount \in UINT16
      /\ d.acceptDeadline \in Nat
  BY DEF Encodes
<1>2. UINT16 \subseteq Nat
  BY DEF UINT16
<1>3. /\ d.principal \in Nat /\ d.periodLength \in Nat /\ d.gracePeriod \in Nat
      /\ d.cureWindow \in Nat /\ d.attached \in BOOLEAN
  BY DEF Draft
<1> QED BY <1>1, <1>2, <1>3

\* Of a draft the wallet can encode, what the form complains of.
LEMMA Complaints ==
  ASSUME NEW d \in Draft, NEW o \in Parties, NEW opened \in Nat, Encodes(d)
  PROVE  validateProposal(d, o, opened) \subseteq {"cureWindow"} <=>
           /\ d.principal > 0 /\ d.couponBps <= MAX_COUPON_BPS
           /\ d.servicingFeeBps <= MAX_SERVICING_FEE_BPS /\ d.periodCount >= 1
           /\ d.periodLength >= MIN_PERIOD_LENGTH /\ d.acceptDeadline > opened
           /\ d.borrower # o /\ d.attached
<1>1. /\ d.principal \in Nat /\ d.couponBps \in Nat /\ d.servicingFeeBps \in Nat
      /\ d.periodCount \in Nat /\ d.periodLength \in Nat /\ d.acceptDeadline \in Nat
      /\ d.gracePeriod \in Nat /\ d.cureWindow \in Nat /\ d.attached \in BOOLEAN
  BY WholeNumbers
<1>2. /\ d.couponBps # NaN /\ d.servicingFeeBps # NaN /\ d.periodCount # NaN
      /\ d.acceptDeadline # NaN
      /\ MIN_PERIOD_LENGTH \in Nat /\ MAX_COUPON_BPS \in Nat /\ MAX_SERVICING_FEE_BPS \in Nat
  BY <1>1, PagesAssumption, IssuanceAssumption
<1> DEFINE wrong == validateProposal(d, o, opened)
<1>3. /\ "principal" \in wrong <=> ~(d.principal > 0)
      /\ "couponBps" \in wrong <=> ~(d.couponBps <= MAX_COUPON_BPS)
      /\ "servicingFeeBps" \in wrong <=> ~(d.servicingFeeBps <= MAX_SERVICING_FEE_BPS)
      /\ "periodCount" \in wrong <=> ~(d.periodCount >= 1)
      /\ "periodLength" \in wrong <=> ~(d.periodLength >= MIN_PERIOD_LENGTH)
      /\ "acceptDeadline" \in wrong <=> ~(d.acceptDeadline > opened)
      /\ "borrower" \in wrong <=> d.borrower = o
      /\ "documentHash" \in wrong <=> ~d.attached
  BY <1>1, <1>2 DEF validateProposal, validateTerms, Above, Below
<1>4. wrong \subseteq {"principal", "couponBps", "servicingFeeBps", "periodCount",
                       "periodLength", "acceptDeadline", "cureWindow", "borrower",
                       "documentHash"}
  BY DEF validateProposal, validateTerms
<1> HIDE DEF wrong
<1>5. wrong \subseteq {"cureWindow"} <=>
        {"principal", "couponBps", "servicingFeeBps", "periodCount", "periodLength",
         "acceptDeadline", "borrower", "documentHash"} \cap wrong = {}
  BY <1>4
<1> QED BY <1>3, <1>5 DEF wrong

LEMMA FormRight ==
  ASSUME RowsInv, NEW o \in Parties, NEW d \in Drafts, NEW opened \in 1..now,
         isVerified(o), isVerified(d.borrower), Encodes(d), now < d.acceptDeadline
  PROVE  MayPropose(o, Sent(d, o), d.attached) <=>
           validateProposal(d, o, opened) \subseteq {"cureWindow"}
<1>1. d \in Draft /\ now \in Nat /\ o # Nobody
  BY PagesAssumption, RegistryAssumption DEF RowsInv, Shown, Agreed, Registered, RegistryTyped
<1>2. /\ d.principal \in Nat /\ d.couponBps \in Nat /\ d.servicingFeeBps \in Nat
      /\ d.periodCount \in Nat /\ d.periodLength \in Nat /\ d.acceptDeadline \in Nat
      /\ d.attached \in BOOLEAN
  BY <1>1, WholeNumbers
<1>3. d.acceptDeadline > opened /\ d.acceptDeadline > now
  BY <1>1, <1>2
<1>4. /\ Sent(d, o).principal = d.principal /\ Sent(d, o).couponBps = d.couponBps
      /\ Sent(d, o).servicingFeeBps = d.servicingFeeBps
      /\ Sent(d, o).periodCount = d.periodCount /\ Sent(d, o).periodLength = d.periodLength
      /\ Sent(d, o).borrower = d.borrower /\ Sent(d, o).acceptDeadline = d.acceptDeadline
      /\ Sent(d, o).feeRecipient = o
  BY DEF Sent
<1>5. MayPropose(o, Sent(d, o), d.attached) <=>
        /\ d.borrower # o /\ d.attached /\ d.principal # 0 /\ d.periodCount >= 1
        /\ d.periodLength >= MIN_PERIOD_LENGTH
        /\ d.couponBps <= MAX_COUPON_BPS /\ d.servicingFeeBps <= MAX_SERVICING_FEE_BPS
  BY <1>1, <1>3, <1>4 DEF MayPropose, WellFormed
<1> QED BY <1>1, <1>2, <1>3, <1>5, Complaints

(***************************************************************************)
(* proposal-view.tsx and proposal-list.tsx over the rows, terms.ts over    *)
(* the form: a button is shown to whom the queue takes that call from, to  *)
(* nobody two turns at once and however long the page was open; and what   *)
(* the form lets through and the wallet encodes is refused only for its    *)
(* deadline or for a party, while all the form refuses beyond the queue is *)
(* a cure window shorter than the grace period.                            *)
(***************************************************************************)
THEOREM PagesTellTheTruth == PagesSpec => []PagesMatchTheQueue
<1>1. RowsInv => TurnsMatch
  BY TurnsTold DEF TurnsMatch
<1>2. RowsInv => FormMatches
  BY FormRight DEF FormMatches
<1>3. RowsInv => PagesMatchTheQueue
  BY <1>1, <1>2 DEF PagesMatchTheQueue
<1> QED BY <1>3, RowsKept, PTL

----------------------------------------------------------------------------
(* The page that has an address verified, over the same registry.          *)

Steps == {"idle", "asked", "proved", "failed", "attested", "ready", "sent", "verified", "used"}
Attesting == {"attested", "ready", "sent", "used", "verified"}

\* What is true of a page at `at` that holds attestation a.
PageOf(p, at, a) ==
  /\ at \in Attesting => a \in Attestation /\ a.party = p
  /\ at = "verified" => verifiedAt[p] # 0
  /\ at = "used" => partyOf[a.nullifier] \notin {Nobody, p}

IdentityInv ==
  /\ Registered
  /\ signed \subseteq Attestation
  /\ phase \in [Parties -> [at : Steps, attestation : Attestation \cup {NoAttestation}]]
  /\ \A p \in Parties : PageOf(p, phase[p].at, phase[p].attestation)

\* A page goes on, and nothing else happens.
LEMMA GoingKeepsIdentity ==
  ASSUME IdentityInv, NEW p \in Parties, NEW at \in Steps,
         NEW a \in Attestation \cup {NoAttestation}, PageOf(p, at, a),
         Goes(p, at, a), UNCHANGED <<now, registryVars>>, signed' \subseteq Attestation
  PROVE  IdentityInv'
<1>1. Registered'
  BY DEF IdentityInv, Registered, RegistryTyped, Bound, Held, registryVars
<1>2. phase' = [phase EXCEPT ![p] = [at |-> at, attestation |-> a]]
  BY DEF Goes, Phase
<1>3. /\ phase \in [Parties -> [at : Steps, attestation : Attestation \cup {NoAttestation}]]
      /\ UNCHANGED <<partyOf, verifiedAt>>
  BY DEF IdentityInv, registryVars
<1>4. phase' \in [Parties -> [at : Steps, attestation : Attestation \cup {NoAttestation}]]
  BY <1>2, <1>3
<1>5. ASSUME NEW q \in Parties PROVE PageOf(q, phase[q].at, phase[q].attestation)'
  BY <1>2, <1>3 DEF IdentityInv, PageOf
<1> QED BY <1>1, <1>4, <1>5 DEF IdentityInv

\* An attestation is recorded, by whomever: a page that was told its nullifier is
\* another's was told so for good, as none is rebound.
LEMMA RecordingKeepsIdentity ==
  ASSUME IdentityInv, NEW a \in Attestation, Verify(a), UNCHANGED now
  PROVE  /\ Registered' /\ verifiedAt'[a.party] # 0
         /\ \A p \in Parties :
              phase'[p] = phase[p] /\ PageOf(p, phase[p].at, phase[p].attestation)
                => PageOf(p, phase[p].at, phase[p].attestation)'
<1>1. a.party \in Parties /\ a.nullifier \in Nullifiers
  BY DEF Attestation
<1>2. Registered'
  BY VerifyBinds DEF IdentityInv
<1>3. /\ partyOf[a.nullifier] = Nobody
      /\ partyOf' = [partyOf EXCEPT ![a.nullifier] = a.party]
      /\ verifiedAt' = [verifiedAt EXCEPT ![a.party] = now]
      /\ partyOf \in [Nullifiers -> Parties \cup {Nobody}]
      /\ verifiedAt \in [Parties -> Nat] /\ now # 0
  BY DEF Verify, MayVerify, IdentityInv, Registered, RegistryTyped
<1>4. ASSUME NEW p \in Parties, PageOf(p, phase[p].at, phase[p].attestation),
             phase'[p] = phase[p]
      PROVE  PageOf(p, phase[p].at, phase[p].attestation)'
  <2>1. phase[p].at = "used" => phase[p].attestation.nullifier \in Nullifiers
    BY <1>4 DEF PageOf, Attesting, Attestation
  <2> QED BY <1>1, <1>3, <1>4, <2>1 DEF PageOf
<1> QED BY <1>1, <1>2, <1>3, <1>4

LEMMA IdentityInvInit == IdentityInit => IdentityInv
<1> SUFFICES ASSUME IdentityInit PROVE IdentityInv
  OBVIOUS
<1>1. Registered
  BY RegistryAssumption DEF IdentityInit, RegistryInit, Registered, RegistryTyped, Bound, Held
<1> QED BY <1>1 DEF IdentityInit, IdentityInv, Idle, Phase, Steps, Attesting, PageOf

LEMMA IdentityInvStep == IdentityInv /\ [IdentityNext]_identityVars => IdentityInv'
<1> SUFFICES ASSUME IdentityInv, [IdentityNext]_identityVars PROVE IdentityInv'
  OBVIOUS
<1> USE DEF Steps, Attesting
<1>0. /\ RegistryTyped /\ (\A p \in Parties : Bound(p)) /\ now \in Nat /\ now <= now
      /\ signed \subseteq Attestation /\ (\A h \in Nullifiers : Held(h)) /\ Registered
      /\ \A p \in Parties : /\ PageOf(p, phase[p].at, phase[p].attestation)
                            /\ phase[p].attestation \in Attestation \cup {NoAttestation}
  BY DEF IdentityInv, Registered, RegistryTyped
<1>1. ASSUME NEW p \in Parties, Begin(p) \/ Scan(p) \/ Reload(p) PROVE IdentityInv'
  <2>1. PICK at \in {"asked", "proved", "failed", "idle"} : Goes(p, at, NoAttestation)
    BY <1>1 DEF Begin, Scan, Reload
  <2> QED BY <1>0, <1>1, <2>1, GoingKeepsIdentity DEF PageOf, Begin, Scan, Reload, Stays
<1>2. ASSUME NEW p \in Parties, Attest(p) PROVE IdentityInv'
  <2>1. CASE Goes(p, "failed", NoAttestation) /\ UNCHANGED signed
    <3>1. PageOf(p, "failed", NoAttestation)
      BY DEF PageOf
    <3> QED BY <1>0, <1>2, <2>1, <3>1, GoingKeepsIdentity DEF Attest
  <2>2. ASSUME NEW h \in Nullifiers, signed' = signed \cup {AttestationFor(p, h)},
               Goes(p, "attested", AttestationFor(p, h))
        PROVE  IdentityInv'
    <3>1. AttestationFor(p, h) \in Attestation /\ AttestationFor(p, h).party = p
      BY <1>0, IdentityAssumption DEF AttestationFor, Attestation
    <3>2. PageOf(p, "attested", AttestationFor(p, h))
      BY <3>1 DEF PageOf
    <3>3. signed' \subseteq Attestation /\ UNCHANGED <<now, registryVars>>
      BY <1>0, <1>2, <2>2, <3>1 DEF Attest
    <3> QED BY <2>2, <3>1, <3>2, <3>3, GoingKeepsIdentity
  <2> QED BY <1>2, <2>1, <2>2 DEF Attest
<1>3. ASSUME NEW p \in Parties, LookUp(p) PROVE IdentityInv'
  <2> DEFINE a == phase[p].attestation
  <2>1. PICK at \in {"ready", "used"} : Goes(p, at, a) /\ (at = "used" => Taken(p))
    BY <1>3 DEF LookUp
  <2>2. a \in Attestation /\ a.party = p
    BY <1>0, <1>3 DEF PageOf, LookUp, At
  <2>3. PageOf(p, at, a)
    BY <2>1, <2>2 DEF PageOf, Taken
  <2>4. UNCHANGED <<now, registryVars>> /\ signed' \subseteq Attestation
    BY <1>0, <1>3 DEF LookUp, Stays
  <2> QED BY <1>0, <2>1, <2>3, <2>4, GoingKeepsIdentity
<1>4. ASSUME NEW p \in Parties, Submit(p) PROVE IdentityInv'
  <2> DEFINE a == phase[p].attestation
  <2>1. a \in Attestation /\ a.party = p /\ a.nullifier \in Nullifiers /\ a.nullifier # Nobody
    BY <1>0, <1>4, RegistryAssumption DEF PageOf, Submit, At, Attestation
  <2>2. PICK at \in {"sent", "failed", "used"} :
          Goes(p, at, a) /\ (at = "used" => ~MayVerify(a) /\ verifiedAt[p] = 0 /\ Vouched(a))
    BY <1>4 DEF Submit
  <2>3. at = "used" => partyOf[a.nullifier] # Nobody /\ nullifierOf[p] = Nobody
    BY <1>0, <2>1, <2>2 DEF MayVerify, Bound
  <2>4. at = "used" => partyOf[a.nullifier] # p
    BY <1>0, <2>1, <2>3 DEF Held
  <2>5. PageOf(p, at, a)
    BY <2>1, <2>2, <2>3, <2>4 DEF PageOf
  <2>6. UNCHANGED <<now, registryVars>> /\ signed' \subseteq Attestation
    BY <1>0, <1>4 DEF Submit, Stays
  <2> QED BY <1>0, <2>2, <2>5, <2>6, GoingKeepsIdentity
<1>5. ASSUME NEW p \in Parties, Mined(p) PROVE IdentityInv'
  <2> DEFINE a == phase[p].attestation
  <2>1. a \in Attestation /\ a.party = p
    BY <1>0, <1>5 DEF PageOf, Mined, At
  <2>2. CASE ~MayVerify(a)
    <3>1. Goes(p, "ready", a) /\ UNCHANGED <<now, registryVars>> /\ signed' \subseteq Attestation
      BY <1>0, <1>5, <2>2 DEF Mined
    <3>2. PageOf(p, "ready", a)
      BY <2>1 DEF PageOf
    <3> QED BY <1>0, <3>1, <3>2, GoingKeepsIdentity
  <2>3. CASE MayVerify(a)
    <3>1. Verify(a) /\ UNCHANGED <<now, signed>>
          /\ phase' = [phase EXCEPT ![p] = [at |-> "verified", attestation |-> a]]
      BY <1>5, <2>3 DEF Mined, Goes, Phase
    <3>2. PICK b \in Attestation : b = a
      BY <2>1
    <3>3. Registered' /\ verifiedAt'[p] # 0
      BY <2>1, <3>1, <3>2, RecordingKeepsIdentity
    <3>4. ASSUME NEW q \in Parties PROVE PageOf(q, phase[q].at, phase[q].attestation)'
      <4>1. CASE q = p
        <5>1. phase'[q].at = "verified" /\ phase'[q].attestation = a
          BY <3>1, <4>1 DEF IdentityInv
        <5> QED BY <2>1, <3>3, <4>1, <5>1 DEF PageOf
      <4>2. CASE q # p
        <5>1. phase'[q] = phase[q]
          BY <3>1, <4>2 DEF IdentityInv
        <5> QED BY <1>0, <3>1, <3>2, <5>1, RecordingKeepsIdentity
      <4> QED BY <4>1, <4>2
    <3>5. phase' \in [Parties -> [at : Steps, attestation : Attestation \cup {NoAttestation}]]
      BY <1>0, <3>1 DEF IdentityInv
    <3> QED BY <1>0, <3>1, <3>3, <3>4, <3>5 DEF IdentityInv
  <2> QED BY <2>2, <2>3
<1>6. ASSUME NEW a \in signed, Recorded(a) PROVE IdentityInv'
  <2>1. a \in Attestation /\ Verify(a) /\ UNCHANGED <<now, signed, phase>>
    BY <1>0, <1>6 DEF Recorded
  <2> QED BY <1>0, <2>1, RecordingKeepsIdentity DEF IdentityInv
<1>7. ASSUME NEW p \in Parties, RevokeParty(p) PROVE IdentityInv'
  <2>1. Revoke(p) /\ UNCHANGED <<now, signed, phase, partyOf, verifiedAt>>
    BY <1>7 DEF RevokeParty, Revoke
  <2>2. Registered'
    BY <1>0, <2>1, RevokeKeepsBound DEF Registered, Held
  <2> QED BY <1>0, <2>1, <2>2 DEF IdentityInv, PageOf
<1>8. CASE TimePasses \/ UNCHANGED identityVars
  <2>1. UNCHANGED <<registryVars, signed, phase>> /\ now' \in Nat /\ now <= now'
    BY <1>0, <1>8 DEF TimePasses, Elapse, identityVars
  <2>2. Registered'
    BY <1>0, <2>1, RegistryLeft DEF Registered, Held, registryVars
  <2> QED BY <1>0, <2>1, <2>2 DEF IdentityInv, PageOf, registryVars
<1> QED BY <1>1, <1>2, <1>3, <1>4, <1>5, <1>6, <1>7, <1>8 DEF IdentityNext

THEOREM IdentityKept == IdentitySpec => []IdentityInv
BY IdentityInvInit, IdentityInvStep, PTL DEF IdentitySpec

(***************************************************************************)
(* SelfieCheckStep over verify: "this human is already verified" is said   *)
(* of no nullifier but one that another address holds for good, and        *)
(* "verified" of no address the registry lacks, whatever expires, is       *)
(* replayed, revoked or read late on the way.                              *)
(***************************************************************************)
THEOREM VerdictsAreTrue == IdentitySpec => []VerdictsHold
<1>1. ASSUME IdentityInv PROVE VerdictsHold
  <2> SUFFICES ASSUME NEW p \in Parties
               PROVE  LET h == phase[p].attestation.nullifier
                      IN  /\ At(p, "verified") => Verification(p) # "unverified"
                          /\ At(p, "used") =>
                               /\ \E q \in Parties \ {p} :
                                    nullifierOf[q] = h /\ Verification(q) # "unverified"
                               /\ \A a \in signed :
                                    a.party = p /\ a.nullifier = h => ~MayVerify(a)
    BY DEF VerdictsHold
  <2> DEFINE h == phase[p].attestation.nullifier
  <2>1. PageOf(p, phase[p].at, phase[p].attestation)
    BY <1>1 DEF IdentityInv
  <2>2. ASSUME NEW q \in Parties PROVE Verification(q) = "unverified" <=> verifiedAt[q] = 0
    BY DEF Verification
  <2>3. CASE At(p, "verified")
    BY <2>1, <2>2, <2>3 DEF PageOf, At
  <2>4. CASE At(p, "used")
    <3> DEFINE q == partyOf[h]
    <3>1. q # Nobody /\ q # p /\ h \in Nullifiers
      BY <2>1, <2>4 DEF PageOf, At, Attesting, Attestation
    <3>2. q \in Parties \ {p} /\ nullifierOf[q] = h /\ h # Nobody
      BY <1>1, <3>1, RegistryAssumption DEF IdentityInv, Registered, RegistryTyped, Held
    <3>3. verifiedAt[q] # 0
      BY <1>1, <3>2 DEF IdentityInv, Registered, Bound
    <3>4. \A a \in signed : a.party = p /\ a.nullifier = h => ~MayVerify(a)
      BY <3>1 DEF MayVerify
    <3> HIDE DEF q
    <3>5. At(p, "used") /\ ~At(p, "verified")
      BY <2>4 DEF At
    <3> QED BY <2>2, <3>2, <3>3, <3>4, <3>5
  <2> QED BY <2>3, <2>4
<1> QED BY <1>1, IdentityKept, PTL

(***************************************************************************)
(* The same registry, with the attestations the backend signs as time goes *)
(* by: one address per nullifier still, whatever World answers.            *)
(***************************************************************************)
THEOREM OneAddressAttested == IdentitySpec => []OneAddressPerNullifier
<1>1. IdentityInv => OneAddressPerNullifier
  BY RegistryAssumption DEF IdentityInv, Registered, Bound, Held, OneAddressPerNullifier
<1> QED BY <1>1, IdentityKept, PTL
=============================================================================
