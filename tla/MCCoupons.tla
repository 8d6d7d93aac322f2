------------------------------ MODULE MCCoupons ------------------------------
(* Small instances of CouponHistory for TLC. *)
EXTENDS CouponHistory, TLC
=============================================================================
