-------------------------- MODULE MCMediaArtifacts --------------------------
EXTENDS MediaArtifacts, TLC

CONSTANTS a1, a2, x1, u1, c1, o1, d1, d2

MCArtifacts == {a1, a2}
MCOld == {x1}
MCUses == {u1}
MCCleanups == {c1}
MCOwners == {o1}
MCDevices == {d1, d2}

Symmetry == Permutations(Artifacts) \cup Permutations(Devices)
=============================================================================
