----------------------------- MODULE MCIssuance -----------------------------
(* Small instances of IssuancePages for TLC. *)
EXTENDS IssuancePages

CONSTANTS p1, p2, p3, h1, h2, m1

\* p1 has both nullifiers attested, and each of the others one of the same two.
Signed == {[party |-> p, nullifier |-> h, expiry |-> 2] :
             <<p, h>> \in {<<p1, h1>>, <<p1, h2>>, <<p2, h2>>, <<p3, h1>>}}

Sheet(b, deadline) ==
  [borrower |-> b, acceptDeadline |-> deadline, principal |-> 1, periodCount |-> 1,
   periodLength |-> MIN_PERIOD_LENGTH, gracePeriod |-> 2, cureWindow |-> 2,
   couponBps |-> MAX_COUPON_BPS, servicingFeeBps |-> MAX_SERVICING_FEE_BPS,
   feeRecipient |-> p1]
Sheets == {Sheet(p2, 3), Sheet(p1, 3), [Sheet(p2, 4) EXCEPT !.couponBps = @ + 1]}

Filled(b) ==
  [borrower |-> b, acceptDeadline |-> 3, principal |-> 1, periodCount |-> 1,
   periodLength |-> MIN_PERIOD_LENGTH, gracePeriod |-> 2, cureWindow |-> 2,
   couponBps |-> MAX_COUPON_BPS, servicingFeeBps |-> MAX_SERVICING_FEE_BPS,
   attached |-> TRUE]
FormDrafts ==
  {Filled(p1)} \cup
  LET d == Filled(p2)
  IN  {d, [d EXCEPT !.principal = 0], [d EXCEPT !.attached = FALSE],
       [d EXCEPT !.periodLength = MIN_PERIOD_LENGTH - 1],
       [d EXCEPT !.cureWindow = 1], [d EXCEPT !.cureWindow = 0],
       [d EXCEPT !.acceptDeadline = NaN], [d EXCEPT !.acceptDeadline = 2]}
   \cup {[d EXCEPT !.couponBps = n] : n \in {NaN, -1, 0, MAX_COUPON_BPS + 1}}
   \cup {[d EXCEPT !.servicingFeeBps = n] : n \in {NaN, -1, MAX_SERVICING_FEE_BPS + 1}}
   \cup {[d EXCEPT !.periodCount = n] : n \in {NaN, -1, 0, 65535, 65536}}
=============================================================================
