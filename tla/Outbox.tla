------------------------------- MODULE Outbox -------------------------------
(***************************************************************************)
(* What the transmit path of a node promises to those who give it packets, *)
(* without a queue, a radio or an interrupt: a packet is accepted once and *)
(* then settled once, as sent or as dropped, and the node never has more   *)
(* than Capacity packets in its hands.  RadioLoop implements this.         *)
(***************************************************************************)
EXTENDS Naturals

CONSTANTS
  Packets,
  Capacity    \* the slots of the queue and the packet in the loop's hands

VARIABLE fate

Pending == {p \in Packets : fate[p] = "pending"}

(* Every pending packet has a place of its own in the node's hands.        *)
Fits(pending) ==
  \E place \in [pending -> 1 .. Capacity] :
    \A p, q \in pending : place[p] = place[q] => p = q

Init == fate = [p \in Packets |-> "fresh"]

(* A full queue drops an older packet for the new one.                     *)
Accept(p) ==
  /\ fate[p] = "fresh"
  /\ \E dropped \in {{}} \cup {{q} : q \in Pending} :
       fate' = [q \in Packets |-> IF q = p THEN "pending"
                                  ELSE IF q \in dropped THEN "dropped"
                                  ELSE fate[q]]
  /\ Fits(Pending')

Settle(p) ==
  /\ fate[p] = "pending"
  /\ \E outcome \in {"sent", "dropped"} : fate' = [fate EXCEPT ![p] = outcome]

(* A reboot, or a reset after radio errors.                                *)
Restart ==
  fate' = [p \in Packets |-> IF fate[p] = "pending" THEN "dropped" ELSE fate[p]]

Next == Restart \/ \E p \in Packets : Accept(p) \/ Settle(p)

Spec == Init /\ [][Next]_fate
=============================================================================
