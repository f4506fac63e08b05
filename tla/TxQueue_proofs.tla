--------------------------- MODULE TxQueue_proofs ---------------------------
(***************************************************************************)
(* Facts about the operators of TxQueue, for the proofs of the modules     *)
(* that own a queue.                                                       *)
(***************************************************************************)
EXTENDS TxQueue, TLAPS

(* TxQueue::add keeps the queue a sequence of packets that fits its array. *)
LEMMA QueueAddType ==
  ASSUME NEW S, NEW q \in Seq(S), NEW p \in S, Len(q) <= QueueSize
  PROVE  QueueAdd(q, p) \in Seq(S) /\ Len(QueueAdd(q, p)) <= QueueSize
BY QueueSizeAssumption DEF QueueAdd

(* TxQueue::pop does the same.                                             *)
LEMMA QueuePopType ==
  ASSUME NEW S, NEW q \in Seq(S), q # <<>>, Len(q) <= QueueSize
  PROVE  /\ QueueFront(q) \in S
         /\ QueueRest(q) \in Seq(S)
         /\ Len(QueueRest(q)) < QueueSize
BY QueueSizeAssumption DEF QueueFront, QueueRest

(* After TxQueue::add the queue holds the new packet and all it held       *)
(* before but what was shifted out, and shifting is the only loss.         *)
LEMMA QueueAddContents ==
  ASSUME NEW S, NEW q \in Seq(S), NEW p \in S, Len(q) <= QueueSize,
         Distinct(q), p \notin Queued(q)
  PROVE  /\ Queued(QueueAdd(q, p)) = (Queued(q) \ QueueShiftedOut(q)) \cup {p}
         /\ Distinct(QueueAdd(q, p))
         /\ QueueShiftedOut(q) \subseteq Queued(q)
<1>1. CASE Len(q) >= QueueSize
  <2> DEFINE r == Append(Tail(q), p)
  <2>1. Len(q) \in Nat \ {0} /\ q # <<>>
    BY <1>1, QueueSizeAssumption
  <2>2. Len(r) = Len(q) /\ r[Len(q)] = p /\ \A i \in 1 .. Len(q) - 1 : r[i] = q[i + 1]
    BY <2>1
  <2>3. QueueAdd(q, p) = r /\ QueueShiftedOut(q) = {q[1]}
    BY <1>1, <2>1 DEF QueueAdd, QueueShiftedOut
  <2>4. \A i \in 1 .. Len(q) : q[i] \in Queued(q)
    BY DEF Queued
  <2> HIDE DEF r
  <2>5. Queued(r) \subseteq (Queued(q) \ {q[1]}) \cup {p}
    <3> SUFFICES ASSUME NEW i \in 1 .. Len(q)
                 PROVE  r[i] \in (Queued(q) \ {q[1]}) \cup {p}
      BY <2>2 DEF Queued
    <3> QED BY <2>1, <2>2, <2>4 DEF Distinct
  <2>6. (Queued(q) \ {q[1]}) \cup {p} \subseteq Queued(r)
    <3>1. p \in Queued(r)
      BY <2>1, <2>2 DEF Queued
    <3>2. ASSUME NEW j \in 1 .. Len(q), q[j] # q[1] PROVE q[j] \in Queued(r)
      <4>1. j - 1 \in 1 .. Len(q) - 1
        BY <2>1, <3>2
      <4>2. r[j - 1] = q[j]
        BY <2>2, <4>1
      <4> QED BY <4>1, <4>2, <2>1, <2>2 DEF Queued
    <3> QED BY <3>1, <3>2 DEF Queued
  <2>7. Distinct(r)
    <3> SUFFICES ASSUME NEW i \in 1 .. Len(q), NEW j \in 1 .. Len(q), r[i] = r[j]
                 PROVE  i = j
      BY <2>2 DEF Distinct
    <3> QED BY <2>1, <2>2, <2>4 DEF Distinct
  <2> QED BY <2>1, <2>3, <2>4, <2>5, <2>6, <2>7
<1>2. CASE Len(q) < QueueSize
  <2> DEFINE r == Append(q, p)
  <2>1. Len(r) = Len(q) + 1 /\ r[Len(q) + 1] = p /\ \A i \in 1 .. Len(q) : r[i] = q[i]
    OBVIOUS
  <2>2. QueueAdd(q, p) = r /\ QueueShiftedOut(q) = {}
    BY <1>2, QueueSizeAssumption DEF QueueAdd, QueueShiftedOut
  <2> HIDE DEF r
  <2>3. Queued(r) = Queued(q) \cup {p}
    BY <2>1 DEF Queued
  <2>4. Distinct(r)
    BY <2>1 DEF Distinct, Queued
  <2> QED BY <2>2, <2>3, <2>4
<1> QED BY <1>1, <1>2, QueueSizeAssumption

(* TxQueue::pop takes out exactly the oldest packet.                       *)
LEMMA QueuePopContents ==
  ASSUME NEW S, NEW q \in Seq(S), q # <<>>, Distinct(q)
  PROVE  /\ Queued(q) = Queued(QueueRest(q)) \cup {QueueFront(q)}
         /\ QueueFront(q) \notin Queued(QueueRest(q))
         /\ Distinct(QueueRest(q))
<1> DEFINE r == Tail(q)
<1>1. Len(q) \in Nat \ {0} /\ Len(r) = Len(q) - 1 /\ \A i \in 1 .. Len(r) : r[i] = q[i + 1]
  OBVIOUS
<1>2. QueueRest(q) = r /\ QueueFront(q) = q[1]
  BY DEF QueueRest, QueueFront
<1> HIDE DEF r
<1>3. q[1] \notin Queued(r)
  BY <1>1 DEF Queued, Distinct
<1>4. Distinct(r)
  <2> SUFFICES ASSUME NEW i \in 1 .. Len(r), NEW j \in 1 .. Len(r), r[i] = r[j]
               PROVE  i = j
    BY DEF Distinct
  <2> QED BY <1>1 DEF Distinct
<1>5. Queued(r) \cup {q[1]} \subseteq Queued(q)
  BY <1>1 DEF Queued
<1>6. Queued(q) \subseteq Queued(r) \cup {q[1]}
  <2> SUFFICES ASSUME NEW j \in 1 .. Len(q), j # 1 PROVE q[j] \in Queued(r)
    BY DEF Queued
  <2>1. j - 1 \in 1 .. Len(r) /\ r[j - 1] = q[j]
    BY <1>1
  <2> QED BY <2>1 DEF Queued
<1> QED BY <1>2, <1>3, <1>4, <1>5, <1>6

(* The queue r is q with p put last: the others are one place further from *)
(* the end, and all that are less than QueueSize from it are kept.         *)
IsAdded(r, q, p) ==
  /\ Len(r) > 0 /\ r[Len(r)] = p
  /\ \A k \in Nat : k < Len(q) /\ k + 1 < QueueSize =>
       k + 1 < Len(r) /\ r[Len(r) - (k + 1)] = q[Len(q) - k]
  /\ Queued(r) \subseteq Queued(q) \cup {p}

(* That is what TxQueue::add does.                                         *)
LEMMA QueueAddShifts ==
  ASSUME NEW S, NEW q \in Seq(S), NEW p \in S, Len(q) <= QueueSize
  PROVE  QueueAdd(q, p) \in Seq(S) /\ IsAdded(QueueAdd(q, p), q, p)
<1> DEFINE r == QueueAdd(q, p)
<1>1. CASE Len(q) >= QueueSize
  <2>1. Len(q) \in Nat \ {0} /\ q # <<>> /\ Len(q) = QueueSize
    BY <1>1, QueueSizeAssumption
  <2>2. r = Append(Tail(q), p)
    BY <1>1 DEF QueueAdd
  <2>3. r \in Seq(S) /\ Len(r) = Len(q) /\ r[Len(q)] = p /\ \A i \in 1 .. Len(q) - 1 : r[i] = q[i + 1]
    BY <2>1, <2>2
  <2> HIDE DEF r
  <2>4. ASSUME NEW k \in Nat, k < Len(q), k + 1 < QueueSize
        PROVE  k + 1 < Len(r) /\ r[Len(r) - (k + 1)] = q[Len(q) - k]
    <3>1. (Len(q) - (k + 1)) \in 1 .. (Len(q) - 1)
      BY <2>1, <2>4
    <3>2. r[Len(q) - (k + 1)] = q[(Len(q) - (k + 1)) + 1]
      BY <2>3, <3>1
    <3>3. (Len(q) - (k + 1)) + 1 = Len(q) - k
      BY <2>1
    <3> QED BY <2>1, <2>3, <2>4, <3>2, <3>3
  <2>5. Queued(r) \subseteq Queued(q) \cup {p}
    <3> SUFFICES ASSUME NEW i \in 1 .. Len(q) PROVE r[i] \in Queued(q) \cup {p}
      BY <2>3 DEF Queued
    <3>1. i = Len(q) \/ (i \in 1 .. Len(q) - 1 /\ i + 1 \in 1 .. Len(q))
      BY <2>1
    <3> QED BY <2>3, <3>1 DEF Queued
  <2> QED BY <2>1, <2>3, <2>4, <2>5 DEF r, IsAdded
<1>2. CASE Len(q) < QueueSize
  <2>1. r = Append(q, p)
    BY <1>2, QueueSizeAssumption DEF QueueAdd
  <2>2. r \in Seq(S) /\ Len(r) = Len(q) + 1 /\ r[Len(q) + 1] = p /\ \A i \in 1 .. Len(q) : r[i] = q[i]
    BY <2>1
  <2> HIDE DEF r
  <2>3. ASSUME NEW k \in Nat, k < Len(q)
        PROVE  k + 1 < Len(r) /\ r[Len(r) - (k + 1)] = q[Len(q) - k]
    <3>1. Len(q) - k \in 1 .. Len(q) /\ Len(r) - (k + 1) = Len(q) - k
      BY <2>2, <2>3
    <3> QED BY <2>2, <2>3, <3>1
  <2>4. Queued(r) \subseteq Queued(q) \cup {p}
    BY <2>2 DEF Queued
  <2> QED BY <2>2, <2>3, <2>4 DEF r, IsAdded
<1> QED BY <1>1, <1>2, QueueSizeAssumption

(* TxQueue::pop adds nothing.                                              *)
LEMMA QueuePopHolds ==
  ASSUME NEW S, NEW q \in Seq(S), q # <<>>
  PROVE  Queued(QueueRest(q)) \subseteq Queued(q)
<1>1. Len(q) \in Nat \ {0} /\ Len(Tail(q)) = Len(q) - 1 /\ \A i \in 1 .. Len(Tail(q)) : Tail(q)[i] = q[i + 1]
  OBVIOUS
<1> QED BY <1>1 DEF Queued, QueueRest
=============================================================================
