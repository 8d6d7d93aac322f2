----------------------------- MODULE MCIdentity -----------------------------
(* Small instances of Identity for TLC. *)
EXTENDS Identity, TLC

CONSTANTS p1, p2, h1, h2

\* Neither wallet is told from the other, nor one nullifier from the other.
Alike == Permutations(Parties) \cup Permutations(Nullifiers)
=============================================================================
