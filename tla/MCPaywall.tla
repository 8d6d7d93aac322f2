----------------------------- MODULE MCPaywall -----------------------------
(* A small instance of Paywall for TLC. *)
EXTENDS Paywall

CONSTANTS borrowerCard, timeline

TwoPrices == [e \in Endpoints |-> IF e = borrowerCard THEN 2 ELSE 1]
=============================================================================
