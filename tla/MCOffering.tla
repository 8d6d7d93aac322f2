----------------------------- MODULE MCOffering -----------------------------
(* Small instances of Market, and of Offering within it, for TLC. *)
EXTENDS Market
=============================================================================
