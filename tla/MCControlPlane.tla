--------------------------- MODULE MCControlPlane ---------------------------
(***************************************************************************)
(* Small instances of ControlPlane: two devices, one of them an Android.   *)
(***************************************************************************)
EXTENDS ControlPlane, TLC

CONSTANTS a1, a2, w1, w2

MCAddr == {a1, a2}
MCAndroids == {a1}
OneWorker == {w1}
TwoWorkers == {w1, w2}
SymWorkers == Permutations(TwoWorkers)

\* Without the hand edit that switches auto_link_android on: the default file.
DefaultOps == AllOps \ {"autolink", "identify"}
EveryOp == AllOps
LinkOnly == {"link"}
AllFaults == {"helper", "crash"}
=============================================================================
