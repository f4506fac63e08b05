---------------------------- MODULE MCRadioLoop ----------------------------
(***************************************************************************)
(* Instances of RadioLoop for TLC.                                         *)
(***************************************************************************)
EXTENDS RadioLoop, TLC

(* Packets are interchangeable (safety runs only).                         *)
PacketSymmetry == Permutations(RxPkts) \cup Permutations(TxPkts)
=============================================================================
