------------------------------- MODULE MCIotcApp -------------------------------
(* Up to two snapshot commands, one model push. *)
EXTENDS IotcApp, TLC

CONSTANTS s1, s2, p1

OneSnap == {s1}
TwoSnaps == {s1, s2}
OnePush == {p1}

(* The snapshot commands differ in name only; for runs without liveness. *)
SnapSymmetry == Permutations(TwoSnaps)
=============================================================================
