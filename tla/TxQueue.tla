------------------------------ MODULE TxQueue ------------------------------
(***************************************************************************)
(* The transmit queue of the firmware (class TxQueue, core/globals.cpp):   *)
(* an array of MC_TX_QUEUE_SIZE packets kept in arrival order.  The module *)
(* has no variables: the modules that own a queue hold it as a sequence    *)
(* and change it with these operators only.                                *)
(***************************************************************************)
EXTENDS Naturals, Sequences

CONSTANT QueueSize    \* MC_TX_QUEUE_SIZE

ASSUME QueueSizeAssumption == QueueSize \in Nat \ {0}

(* Mutant: add without the shift.                                          *)
QueueAdd_NoShift(q, p) == Append(q, p)

(* TxQueue::add.  A full queue first shifts its oldest packet out.         *)
QueueAdd(q, p) ==
  IF Len(q) >= QueueSize THEN Append(Tail(q), p) ELSE Append(q, p)

(* The packets that QueueAdd shifts out: at most the head.                 *)
QueueShiftedOut(q) == IF Len(q) >= QueueSize THEN {Head(q)} ELSE {}

(* Mutant: pop copies the packet and leaves it in its slot.                *)
QueueRest_Keeps(q) == q

(* TxQueue::pop.  Callers test the count first, as the code does.          *)
QueueFront(q) == Head(q)
QueueRest(q)  == Tail(q)

(* The packets now in the queue.                                           *)
Queued(q) == {q[i] : i \in 1 .. Len(q)}

(* No packet is in the queue twice.                                        *)
Distinct(q) == \A i, j \in 1 .. Len(q) : q[i] = q[j] => i = j
=============================================================================
