------------------------------ MODULE Identity ------------------------------
(***************************************************************************)
(* How an address gets verified: backend/src/identity and the page's       *)
(* SelfieCheckStep over PartyRegistry.  World vouches for a face and names *)
(* its nullifier, the backend signs (party, nullifier) for the wallet of  *)
(* the session, the page looks whether the nullifier is taken, and the     *)
(* wallet records the attestation, which anyone else may do as well.       *)
(*                                                                         *)
(* With World configured and DANGEROUS_ATTEST_WITHOUT_WORLD off.  Selfie   *)
(* Check is no proof of uniqueness: World may answer any proof with any    *)
(* nullifier, so one wallet may come to have several attested and several  *)
(* wallets the same.                                                       *)
(***************************************************************************)
EXTENDS PartyRegistry

CONSTANT Ttl      \* how long an attestation lives

ASSUME IdentityAssumption == Ttl \in Nat \ {0}

VARIABLES
  signed,         \* the attestations the backend has signed
  phase           \* per address: where its SelfieCheckStep is

identityVars == <<now, registryVars, signed, phase>>

NoAttestation == [party |-> Nobody, nullifier |-> Nobody, expiry |-> 0]
Phase(at, a) == [at |-> at, attestation |-> a]
Idle == Phase("idle", NoAttestation)

IdentityInit ==
  /\ RegistryInit
  /\ signed = {}
  /\ phase = [p \in Parties |-> Idle]

At(p, where) == phase[p].at = where
Goes(p, at, a) == phase' = [phase EXCEPT ![p] = Phase(at, a)]
Stays == UNCHANGED <<now, registryVars, signed>>

----------------------------------------------------------------------------
\* useVerification: two reads, verifiedAt and revoked, neither of which ever
\* goes back.
Verification(p) ==
  CASE verifiedAt[p] = 0 -> "unverified"
    [] verifiedAt[p] # 0 /\ revoked[p] -> "revoked"
    [] OTHER -> "verified"

\* VerificationGate: the step in place of the form.
StepShown(p) == Verification(p) = "unverified"

\* A proof request has to be signed by the backend first, or is refused.
Begin(p) ==
  /\ StepShown(p) /\ phase[p].at \in {"idle", "failed", "used"}
  /\ Goes(p, "asked", NoAttestation) \/ Goes(p, "failed", NoAttestation)
  /\ Stays

\* World's widget, until it has a proof or an error.
Scan(p) ==
  /\ At(p, "asked")
  /\ Goes(p, "proved", NoAttestation) \/ Goes(p, "failed", NoAttestation)
  /\ Stays

\* signAttestation.
AttestationFor(p, h) == [party |-> p, nullifier |-> h, expiry |-> now + Ttl]

\* /attest: refused by World, or World is unreachable, or signed for the
\* nullifier World answers with.
Attest(p) ==
  /\ At(p, "proved")
  /\ UNCHANGED <<now, registryVars>>
  /\ \/ \E h \in Nullifiers :
          /\ signed' = signed \cup {AttestationFor(p, h)}
          /\ Goes(p, "attested", AttestationFor(p, h))
     \/ Goes(p, "failed", NoAttestation) /\ UNCHANGED signed

\* Slip: any answer means taken.
TakenAtAll(p) == partyOf[phase[p].attestation.nullifier] # Nobody
\* boundTo: an address that is neither zero nor this one.
Taken(p) == partyOf[phase[p].attestation.nullifier] \notin {Nobody, p}

\* The read may fail, and then nothing is known.
LookUp(p) ==
  /\ At(p, "attested")
  /\ \/ Goes(p, "ready", phase[p].attestation)
     \/ Taken(p) /\ Goes(p, "used", phase[p].attestation)
  /\ Stays

\* "Record verification".  The wallet tries the call before it sends it.
Submit(p) ==
  /\ At(p, "ready")
  /\ LET a == phase[p].attestation
     IN  IF MayVerify(a) THEN Goes(p, "sent", a)
         ELSE Goes(p, IF verifiedAt[p] # 0 \/ ~Vouched(a) THEN "failed" ELSE "used", a)
  /\ Stays

\* Mined, or reverted: then the page offers the button again.
Mined(p) ==
  /\ At(p, "sent")
  /\ LET a == phase[p].attestation
     IN  IF MayVerify(a) THEN Verify(a) /\ Goes(p, "verified", a)
         ELSE Goes(p, "ready", a) /\ UNCHANGED registryVars
  /\ UNCHANGED <<now, signed>>

\* An attestation in anybody's hands.
Recorded(a) == Verify(a) /\ UNCHANGED <<now, signed, phase>>

RevokeParty(p) == Revoke(p) /\ UNCHANGED <<now, signed, phase>>

\* The page is left or reloaded.
Reload(p) == ~At(p, "idle") /\ Goes(p, "idle", NoAttestation) /\ Stays

TimePasses == Elapse /\ UNCHANGED <<signed, phase>>

IdentityNext ==
  \/ \E p \in Parties : \/ Begin(p) \/ Scan(p) \/ Attest(p) \/ LookUp(p)
                        \/ Submit(p) \/ Mined(p) \/ RevokeParty(p) \/ Reload(p)
  \/ \E a \in signed : Recorded(a)
  \/ TimePasses

IdentitySpec == IdentityInit /\ [][IdentityNext]_identityVars

----------------------------------------------------------------------------
(***************************************************************************)
(* What the page concludes is so, and stays so.  "This human is already    *)
(* verified" is said only of a nullifier that another address holds for    *)
(* good, revoked or not: no attestation of it for this address, however    *)
(* old and whoever submits it, will be taken again.  (This address may     *)
(* have been attested under another nullifier, and be verified for all     *)
(* that.)  "Verified" is said of an address the registry has.              *)
(***************************************************************************)
VerdictsHold ==
  \A p \in Parties :
     LET h == phase[p].attestation.nullifier
     IN  /\ At(p, "verified") => Verification(p) # "unverified"
         /\ At(p, "used") =>
              /\ \E q \in Parties \ {p} :
                   nullifierOf[q] = h /\ Verification(q) # "unverified"
              /\ \A a \in signed : a.party = p /\ a.nullifier = h => ~MayVerify(a)
=============================================================================
