----------------------------- MODULE MCMailbox -----------------------------
(***************************************************************************)
(* Scenes for Mailbox.  FivePackets fill four slots and one more; b is     *)
(* long enough to reach the region map from slot 2, the others are alike   *)
(* and may be exchanged for each other.  In ThreePackets, b just fits into *)
(* a slot and c does not.                                                  *)
(***************************************************************************)
EXTENDS Mailbox, TLC

CONSTANTS r1, b1, b2, b3, b4

Pkt(dest, body, len) == [dest |-> dest, body |-> body, path |-> <<>>, len |-> len]

Alike        == {b1, b2, b3, b4}
FivePackets  == {Pkt(1, x, 40) : x \in Alike} \cup {Pkt(1, "b", 70), Pkt(1, "c", 77)}
TwoPackets   == {Pkt(1, "a", 30), Pkt(2, "b", 76)}
ThreePackets == {Pkt(1, "a", 30), Pkt(2, "b", 76), Pkt(1, "c", 77)}

Scene(packets, maps, copies, faults, others) ==
  [packets |-> packets, regions |-> maps, stores |-> copies, until |-> 1,
   failures |-> faults, others |-> others]

CrowdScene   == Scene(FivePackets, {}, 1, 0, 0)
FaultScene   == Scene({Pkt(1, "a", 30), Pkt(1, "b", 76)}, {}, 1, 1, 2)
OverlapScene == Scene({Pkt(1, "b", 70)}, {r1}, 2, 1, 1)
TwoNodes     == Scene(TwoPackets, {}, 1, 0, 0)

MCScenes       == {CrowdScene, FaultScene, OverlapScene, TwoNodes}
MCPaddedScenes == {Scene(ThreePackets, {r1}, 1, 0, 1)}

Exchanges == Permutations(Alike)
=============================================================================
