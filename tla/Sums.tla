-------------------------------- MODULE Sums --------------------------------
(***************************************************************************)
(* f[0] + ... + f[N - 1], as a recursive function and not as the fold of   *)
(* the community modules, so that proofs can unfold it.                    *)
(***************************************************************************)
EXTENDS Integers

PartialSums(f, N) ==
  LET s[i \in 0..N] == IF i = 0 THEN 0 ELSE s[i - 1] + f[i - 1]
  IN  s
SumTo(f, N) == PartialSums(f, N)[N]
=============================================================================
