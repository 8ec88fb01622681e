---------------------------- MODULE MCLoginLockout ----------------------------
(* Small instances of LoginLockout: two attempts, a window of two ticks. *)
EXTENDS LoginLockout, TLC

CONSTANTS k1, k2, k3

ThreeKeys == {k1, k2, k3}
Symmetry == Permutations(Keys)
===============================================================================
