---------------------------- MODULE PartyRegistry ----------------------------
(***************************************************************************)
(* contracts/src/PartyRegistry.sol, with AttestedVerifier.sol as its       *)
(* verifier: one nullifier, one address.  An attestation is what the       *)
(* backend signs once World has vouched for a face behind a session;       *)
(* anyone may submit it, any number of times, until it expires.  How many  *)
(* nullifiers a person can come by is the credential's business and not    *)
(* the registry's: under Selfie Check there may be several.                *)
(***************************************************************************)
EXTENDS Naturals

CONSTANTS
  Parties,        \* addresses
  Nullifiers,     \* what World's answers are told apart by
  Nobody,         \* the zero of either
  LastTime        \* bound: the last block.timestamp explored

Attestation == [party : Parties, nullifier : Nullifiers, expiry : Nat]

ASSUME RegistryAssumption ==
  /\ Nobody \notin Parties /\ Nobody \notin Nullifiers
  /\ LastTime \in Nat

VARIABLES
  now,            \* block.timestamp
  nullifierOf, partyOf,
  verifiedAt,     \* 0 if never
  revoked,
  revokedAt       \* history: when, 0 if never

registryVars == <<nullifierOf, partyOf, verifiedAt, revoked, revokedAt>>

RegistryInit ==
  /\ now = 1
  /\ nullifierOf = [p \in Parties |-> Nobody]
  /\ partyOf     = [h \in Nullifiers |-> Nobody]
  /\ verifiedAt  = [p \in Parties |-> 0]
  /\ revoked     = [p \in Parties |-> FALSE]
  /\ revokedAt   = [p \in Parties |-> 0]

isVerified(p) == verifiedAt[p] # 0 /\ ~revoked[p]

\* AttestedVerifier.verify.
Vouched(a) == now < a.expiry

MayVerify(a) ==
  /\ verifiedAt[a.party] = 0
  /\ Vouched(a)
  /\ partyOf[a.nullifier] = Nobody

Verify(a) ==
  /\ MayVerify(a)
  /\ nullifierOf' = [nullifierOf EXCEPT ![a.party] = a.nullifier]
  /\ partyOf'     = [partyOf EXCEPT ![a.nullifier] = a.party]
  /\ verifiedAt'  = [verifiedAt EXCEPT ![a.party] = now]
  /\ UNCHANGED <<revoked, revokedAt>>

\* Slip: revoking frees the nullifier.
RevokeFreeing(p) ==
  /\ verifiedAt[p] # 0 /\ ~revoked[p]
  /\ revoked'   = [revoked EXCEPT ![p] = TRUE]
  /\ revokedAt' = [revokedAt EXCEPT ![p] = now]
  /\ partyOf'   = [partyOf EXCEPT ![nullifierOf[p]] = Nobody]
  /\ UNCHANGED <<nullifierOf, verifiedAt>>

\* By the owner.  The nullifier stays bound.
Revoke(p) ==
  /\ verifiedAt[p] # 0 /\ ~revoked[p]
  /\ revoked'   = [revoked EXCEPT ![p] = TRUE]
  /\ revokedAt' = [revokedAt EXCEPT ![p] = now]
  /\ UNCHANGED <<nullifierOf, partyOf, verifiedAt>>

\* The next block.
Elapse ==
  /\ now < LastTime
  /\ now' = now + 1
  /\ UNCHANGED registryVars

(***************************************************************************)
(* One nullifier per address and one address per nullifier, for good:      *)
(* whoever was ever verified, revoked or not, has no other address under   *)
(* that nullifier, and a verified address has not been pointed at another. *)
(***************************************************************************)
OneAddressPerNullifier ==
  /\ \A p \in Parties : /\ verifiedAt[p] # 0 <=> nullifierOf[p] # Nobody
                        /\ verifiedAt[p] # 0 => partyOf[nullifierOf[p]] = p
  /\ \A h \in Nullifiers : partyOf[h] # Nobody => nullifierOf[partyOf[h]] = h
=============================================================================
