----------------------------- MODULE MCRunLock -----------------------------
(* Instances of RunLock for TLC.                                           *)
EXTENDS RunLock, TLC

CONSTANTS r1, r2, r3

ThreeRunners == {r1, r2, r3}
TwoRunners == {r1, r2}
OneRunner == {r1}

Symmetry == Permutations(Runners)
=============================================================================
