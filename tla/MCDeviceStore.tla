---------------------------- MODULE MCDeviceStore ----------------------------
(***************************************************************************)
(* Small instances of DeviceStore: two devices.                            *)
(***************************************************************************)
EXTENDS DeviceStore, TLC

CONSTANTS m1, m2, i1, i2, i3, i4, s1, s2

MCMacs == {m1, m2}
Two == {1, 2}
Three == {1, 2, 3}
TwoIds == {i1, i2}
FourIds == {i1, i2, i3, i4}

\* One device moves between two addresses, the other has one of its own.
OwnPools == m1 :> {1, 3} @@ m2 :> {2}
\* Both get either address.
SharedPools == m1 :> {1, 2} @@ m2 :> {1, 2}
TwoSyncs == {s1, s2}

SymFourIds == Permutations(FourIds)
=============================================================================
