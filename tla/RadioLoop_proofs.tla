-------------------------- MODULE RadioLoop_proofs --------------------------
(***************************************************************************)
(* Proofs about RadioLoop.  The inductive invariant is IInv: the type      *)
(* invariant, what the place in the loop says about the packet in hand     *)
(* (Control), InOnePlace, and what the status register and the flag say    *)
(* about the radio's buffer (Buffer, Announced).                           *)
(***************************************************************************)
EXTENDS RadioLoop, TxQueue_proofs

(* The places where the loop has a packet in hand, and those that          *)
(* transmitPacket may return to.                                           *)
HoldPC   == {"wait", "final", "tx", "txPoll", "txStatus"}
ReturnPC == {"rxCheck", "queueing", "beacon", "cleanup", "serialAlert",
             "cleanupAlert"}

Control ==
  /\ ret \in ReturnPC
  /\ pc \in HoldPC <=> pkt # None
  /\ pc \in {"wait", "final"} => pkt \in TxPkts
  /\ pc = "wait" => ~aborted /\ Len(txQueue) < QueueSize

(* RX_DONE means an unread packet, except where the loop has read it and   *)
(* has not restarted the receiver or begun to transmit yet.                *)
ReadPC == {"fatal", "process", "queueing", "rearm", "tx", "halted"}

Buffer ==
  /\ pc = "read" => "RX_DONE" \in irq
  /\ "RX_DONE" \in irq /\ pc \notin ReadPC
       => \E p \in RxPkts : rxState[p] = "fifo"

(* A packet in the buffer is announced: by the status register, and by the *)
(* flag until the loop takes it and reads the buffer.                      *)
Announced ==
  \A p \in RxPkts : rxState[p] = "fifo" =>
    "RX_DONE" \in irq /\ (dio1Flag \/ pc \in {"irq", "read"})

IInv == TypeOK /\ Control /\ InOnePlace /\ Buffer /\ Announced

(***************************************************************************)
(* The type invariant.                                                     *)
(***************************************************************************)
LEMMA InitType == Init => TypeOK
<1> SUFFICES ASSUME Init PROVE TypeOK
  OBVIOUS
<1>1. /\ pc \in PC /\ ret \in PC
      /\ timer \in [Timers -> {"off", "armed", "due"}]
  BY DEF Init, PC, TimersAtBoot
<1>2. /\ txQueue \in Seq(TxPkts) /\ Len(txQueue) <= QueueSize
      /\ faults \in 0 .. MaxFaults
  BY RadioLoopAssumption, QueueSizeAssumption DEF Init
<1>3. /\ rxState \in [RxPkts -> {"unsent", "air", "fifo", "read", "bad", "lost"}]
      /\ txState \in [TxPkts -> {"fresh", "pending", "sent", "failed",
                                 "evicted", "abandoned", "reset"}]
  BY DEF Init
<1> QED BY <1>1, <1>2, <1>3 DEF Init, TypeOK

(* Starting the receiver keeps the types.                                  *)
LEMMA StartReceiveType ==
  ASSUME TypeOK, NEW next \in PC, StartReceive(next)
  PROVE  /\ pc' \in PC /\ dio1Flag' \in BOOLEAN
         /\ activeReceiveStart' = "zero"
         /\ radio' \in {"rx", "tx", "standby"}
         /\ irq' = {}
         /\ faults' \in 0 .. MaxFaults
         /\ rxState' \in [RxPkts -> {"unsent", "air", "fifo", "read", "bad", "lost"}]
<1>1. pc' \in PC /\ irq' = {} /\ activeReceiveStart' = "zero" /\ dio1Flag' \in BOOLEAN
  BY DEF StartReceive, PC
<1>2. radio' \in {"rx", "tx", "standby"}
  BY DEF StartReceive
<1>3. faults' \in 0 .. MaxFaults
  BY RadioLoopAssumption DEF StartReceive, TypeOK, Fault
<1>4. rxState' \in [RxPkts -> {"unsent", "air", "fifo", "read", "bad", "lost"}]
  BY DEF StartReceive, LoseReception, TypeOK
<1> QED BY <1>1, <1>2, <1>3, <1>4

(* Adding to the queue keeps its type and bound.                           *)
LEMMA EnqueueType ==
  ASSUME TypeOK, NEW t \in TxPkts, Enqueue(t)
  PROVE  /\ txQueue' \in Seq(TxPkts) /\ Len(txQueue') <= QueueSize
         /\ txState' \in [TxPkts -> {"fresh", "pending", "sent", "failed",
                                     "evicted", "abandoned", "reset"}]
BY QueueAddType DEF Enqueue, TypeOK

(* A reboot keeps the types.                                               *)
LEMMA ResetType ==
  ASSUME TypeOK, Reset PROVE TypeOK'
<1>1. "expire" \in PC /\ "beacon" \in PC /\ StartReceive("expire")
  BY DEF PC, Reset
<1>2. /\ pc' \in PC /\ dio1Flag' \in BOOLEAN
      /\ activeReceiveStart' = "zero"
      /\ radio' \in {"rx", "tx", "standby"}
      /\ irq' = {}
      /\ faults' \in 0 .. MaxFaults
      /\ rxState' \in [RxPkts -> {"unsent", "air", "fifo", "read", "bad", "lost"}]
  BY <1>1, StartReceiveType
<1>3. timer' \in [Timers -> {"off", "armed", "due"}]
  BY DEF Reset, TimersAtBoot, Timers
<1>4. txState' \in [TxPkts -> {"fresh", "pending", "sent", "failed",
                              "evicted", "abandoned", "reset"}]
  BY DEF Reset, TypeOK
<1>5. /\ txQueue' \in Seq(TxPkts) /\ Len(txQueue') <= QueueSize
      /\ pkt' = None /\ ret' = "beacon" /\ aborted' = FALSE
      /\ radioErrorCount' = 0 /\ errCount' = 0
  BY QueueSizeAssumption DEF Reset
<1> QED BY <1>1, <1>2, <1>3, <1>4, <1>5 DEF TypeOK

(* Moving to another place of loop() keeps the types.                      *)
LEMMA MoveType ==
  ASSUME TypeOK, NEW from, NEW to \in PC, Move(from, to) PROVE TypeOK'
BY DEF Move, TypeOK, hardware

(* So does starting the receiver on the way to another place.              *)
LEMMA RestartType ==
  ASSUME TypeOK, NEW from, NEW to \in PC, RestartReceiver(from, to),
         timer' \in [Timers -> {"off", "armed", "due"}]
  PROVE  TypeOK'
<1>1. StartReceive(to)
  BY DEF RestartReceiver
<1> QED BY <1>1, StartReceiveType DEF RestartReceiver, TypeOK

(* What happens on the channel keeps the types.                            *)
LEMMA ChannelType ==
  ASSUME TypeOK, ChannelBusy \/ ChannelQuiet
  PROVE  activeReceiveStart' \in {"zero", "running", "late"}
BY DEF ChannelBusy, ChannelQuiet, ActivelyReceiving, TypeOK

(* A packet that is finished has an outcome.                               *)
LEMMA FinishType ==
  ASSUME TypeOK, NEW outcome \in {"sent", "failed", "abandoned"}, Finish(outcome)
  PROVE  /\ pkt' = None
         /\ txState' \in [TxPkts -> {"fresh", "pending", "sent", "failed",
                                     "evicted", "abandoned", "reset"}]
BY DEF Finish, TypeOK

(* Every step of the loop, grouped by the helper it is made of, then the   *)
(* steps that change several variables themselves.                         *)
LEMMA TypeStepLoop == TypeOK /\ Control /\ LoopStep => TypeOK'
<1> SUFFICES ASSUME TypeOK, Control, LoopStep PROVE TypeOK'
  OBVIOUS
<1> USE DEF hardware
<1>1. CASE \/ TempRadioStays \/ AgcNotDue \/ NoReboot \/ SerialIdle
           \/ SerialAlertFails \/ NoFlag \/ ReadIrq \/ ProcessPlain
           \/ ProcessDone \/ NothingToSend \/ WaitElapses \/ TxPollDone
           \/ BeaconNotDue \/ HealthDone \/ SleepDeep \/ SleepLightOrNot
           \/ EnterDeepSleep
  <2>1. \E from, to \in PC : Move(from, to)
    BY <1>1 DEF TempRadioStays, AgcNotDue, NoReboot, SerialIdle, SerialAlertFails,
       NoFlag, ReadIrq, ProcessPlain, ProcessDone, NothingToSend, WaitElapses,
       TxPollDone, BeaconNotDue, HealthDone, SleepDeep, SleepLightOrNot,
       EnterDeepSleep, PC
  <2> QED BY <2>1, MoveType
<1>2. CASE TempRadioExpires \/ SerialTempRadio \/ ProcessTempRadio
           \/ AgcRestart \/ Rearm \/ TxEnd
  <2>1. \E from, to \in PC : RestartReceiver(from, to)
    BY <1>2 DEF TempRadioExpires, SerialTempRadio, ProcessTempRadio,
       TempRadioCommand, AgcRestart, Rearm, TxEnd, PC, TypeOK
  <2>2. timer' \in [Timers -> {"off", "armed", "due"}]
    BY <1>2 DEF TempRadioExpires, SerialTempRadio, ProcessTempRadio,
       TempRadioCommand, AgcRestart, Rearm, TxEnd, TypeOK
  <2> QED BY <2>1, <2>2, RestartType
<1>3. CASE PendingReboot \/ SerialReboot \/ ErrorReboot
  BY <1>3, ResetType DEF PendingReboot, SerialReboot, ErrorReboot
<1>4. ASSUME NEW t \in TxPkts,
             SerialAlertQueued(t) \/ HealthAlertQueued(t) \/ ProcessQueue(t)
               \/ ProcessReboot(t)
      PROVE  TypeOK'
  <2>1. Enqueue(t) /\ pc' \in PC
    BY <1>4 DEF SerialAlertQueued, HealthAlertQueued, ProcessQueue, QueueAlert,
       ProcessReboot, PC
  <2>2. timer' \in [Timers -> {"off", "armed", "due"}]
    BY <1>4 DEF SerialAlertQueued, HealthAlertQueued, ProcessQueue, QueueAlert,
       ProcessReboot, TypeOK
  <2> QED BY <1>4, <2>1, <2>2, EnqueueType DEF SerialAlertQueued,
       HealthAlertQueued, ProcessQueue, QueueAlert, ProcessReboot, TypeOK
<1>5. ASSUME NEW t \in TxPkts, SerialSend(t) \/ ProcessSend(t) PROVE TypeOK'
  <2>1. pc' \in PC /\ ret' \in PC
    BY <1>5 DEF SerialSend, ProcessSend, SendDirectly, PC
  <2> QED BY <1>5, <2>1 DEF SerialSend, ProcessSend, SendDirectly, TypeOK
<1>6. CASE SerialAlert \/ BeaconPostSync \/ BeaconInterval \/ HealthAlert
  <2>1. pc' \in PC /\ ret' \in PC
    BY <1>6 DEF SerialAlert, BeaconPostSync, BeaconInterval, HealthAlert,
       SendAdvert, PC
  <2> QED BY <1>6, <2>1 DEF SerialAlert, BeaconPostSync, BeaconInterval,
       HealthAlert, SendAdvert, TypeOK
<1>7. CASE AgcReset
  <2>1. pc' \in PC /\ timer' \in [Timers -> {"off", "armed", "due"}]
    BY <1>7 DEF AgcReset, TypeOK, PC
  <2> QED BY <1>7, <2>1 DEF AgcReset, TypeOK
<1>8. CASE TakeFlag
  BY <1>8 DEF TakeFlag, TypeOK, PC
<1>9. CASE ReadOk
  BY <1>9 DEF ReadOk, TypeOK, PC
<1>10. CASE ReadBad
  BY <1>10, RadioLoopAssumption DEF ReadBad, Fault, TypeOK, PC
<1>11. CASE ReadFails
  <2>1. pc' \in PC /\ radioErrorCount' \in Nat /\ errCount' \in Nat
    BY <1>11 DEF ReadFails, TypeOK, PC
  <2>2. faults' \in 0 .. MaxFaults
    BY <1>11, RadioLoopAssumption DEF ReadFails, Fault, TypeOK
  <2>3. /\ irq' \subseteq {"PREAMBLE", "HEADER", "RX_DONE", "TX_DONE"}
        /\ rxState' \in [RxPkts -> {"unsent", "air", "fifo", "read", "bad", "lost"}]
    BY <1>11 DEF ReadFails, TypeOK
  <2> QED BY <1>11, <2>1, <2>2, <2>3 DEF ReadFails, TypeOK
<1>12. CASE ProcessSync
  <2>1. pc' \in PC /\ timer' \in [Timers -> {"off", "armed", "due"}]
    BY <1>12 DEF ProcessSync, TypeOK, PC
  <2> QED BY <1>12, <2>1 DEF ProcessSync, TypeOK
<1>13. CASE PopPacket
  <2>1. pc' \in PC
    BY <1>13 DEF PopPacket, PC
  <2>2. /\ pkt' \in TxPkts
        /\ txQueue' \in Seq(TxPkts) /\ Len(txQueue') <= QueueSize
    BY <1>13, QueuePopType, QueueSizeAssumption DEF PopPacket, TypeOK
  <2> QED BY <1>13, <2>1, <2>2 DEF PopPacket, TypeOK
<1>14. CASE WaitBusy
  <2>1. pc' \in PC /\ pkt \in TxPkts
    BY <1>14 DEF WaitBusy, PC, Control
  <2>2. txQueue' \in Seq(TxPkts) /\ Len(txQueue') <= QueueSize
    BY <1>14, <2>1, QueueAddType DEF WaitBusy, TypeOK
  <2> QED BY <1>14, <2>1, <2>2, ChannelType DEF WaitBusy, TypeOK
<1>15. CASE WaitQuiet
  BY <1>15, ChannelType DEF WaitQuiet, TypeOK
<1>16. CASE FinalAborted \/ FinalClear
  <2>1. pc' \in PC /\ ret' \in PC
    BY <1>16 DEF FinalAborted, FinalClear, PC
  <2> QED BY <1>16, <2>1, ChannelType DEF FinalAborted, FinalClear, TypeOK
<1>17. CASE FinalBusy
  <2>1. pc' \in PC /\ ret' \in PC
    BY <1>17 DEF FinalBusy, PC
  <2> QED BY <1>17, <2>1, ChannelType, FinishType DEF FinalBusy, TypeOK
<1>18. CASE TxStart
  <2>1. pc' \in PC /\ radio' \in {"rx", "tx", "standby"} /\ faults' \in 0 .. MaxFaults
    BY <1>18, RadioLoopAssumption DEF TxStart, Fault, PC, TypeOK
  <2>2. rxState' \in [RxPkts -> {"unsent", "air", "fifo", "read", "bad", "lost"}]
    BY <1>18 DEF TxStart, LoseReception, TypeOK
  <2> QED BY <1>18, <2>1, <2>2, FinishType DEF TxStart, TypeOK
<1>19. CASE TxPollTimeout
  BY <1>19, RadioLoopAssumption DEF TxPollTimeout, Fault, TypeOK, PC
<1>20. CASE TxDone \/ TxTimeout
  <2>1. pc' \in PC /\ errCount' \in Nat
    BY <1>20 DEF TxDone, TxTimeout, PC, TypeOK
  <2>2. timer' \in [Timers -> {"off", "armed", "due"}]
    BY <1>20 DEF TxDone, TxTimeout, TypeOK
  <2> QED BY <1>20, <2>1, <2>2, FinishType DEF TxDone, TxTimeout, TypeOK
<1> QED BY <1>1, <1>2, <1>3, <1>4, <1>5, <1>6, <1>7, <1>8, <1>9, <1>10, <1>11,
       <1>12, <1>13, <1>14, <1>15, <1>16, <1>17, <1>18, <1>19, <1>20 DEF LoopStep

(* All steps but those of the loop keep the types.                         *)
LEMMA TypeStepOther ==
  TypeOK /\ (RadioStep \/ ClockStep \/ OtherInterrupt) => TypeOK'
<1> SUFFICES ASSUME TypeOK, RadioStep \/ ClockStep \/ OtherInterrupt PROVE TypeOK'
  OBVIOUS
<1> USE DEF loopVars
<1>1. ASSUME NEW p \in RxPkts, AirPreamble(p) \/ AirHeader(p) PROVE TypeOK'
  BY <1>1 DEF AirPreamble, AirHeader, TypeOK
<1>2. ASSUME NEW p \in RxPkts, AirEnd(p) PROVE TypeOK'
  BY <1>2 DEF AirEnd, OnDio1Rise, TypeOK, PC
<1>3. CASE FalsePreamble
  BY <1>3, RadioLoopAssumption DEF FalsePreamble, Fault, TypeOK
<1>4. CASE TxComplete
  BY <1>4 DEF TxComplete, OnDio1Rise, TypeOK, PC
<1>5. CASE ReceptionGrowsLate
  BY <1>5 DEF ReceptionGrowsLate, TypeOK
<1>6. ASSUME NEW t \in Timers, Elapse(t) PROVE TypeOK'
  BY <1>6 DEF Elapse, TypeOK
<1>7. CASE OtherInterrupt
  <2>1. Move("asleep", "expire") /\ "expire" \in PC
    BY <1>7 DEF OtherInterrupt, PC
  <2> QED BY <2>1, MoveType
<1> QED BY <1>1, <1>2, <1>3, <1>4, <1>5, <1>6, <1>7 DEF RadioStep, ClockStep

(***************************************************************************)
(* The packet in hand and the place in the loop.                           *)
(***************************************************************************)
LEMMA InitControl == Init => Control
BY DEF Init, Control, HoldPC, ReturnPC

(* Steps between places without a packet in hand.                          *)
LEMMA IdleControl ==
  ASSUME Control, pc \in PC \ HoldPC, pc' \in PC \ HoldPC,
         ret' \in ReturnPC, pkt' = pkt
  PROVE  Control'
BY DEF Control, HoldPC

(* The steps of the loop keep Control.                                     *)
LEMMA ControlStepLoop == TypeOK /\ Control /\ LoopStep => Control'
<1> SUFFICES ASSUME TypeOK, Control, LoopStep PROVE Control'
  OBVIOUS
<1> USE DEF hardware
<1>1. CASE \/ TempRadioStays \/ AgcNotDue \/ NoReboot \/ SerialIdle
           \/ SerialAlertFails \/ NoFlag \/ ReadIrq \/ ProcessPlain
           \/ ProcessDone \/ NothingToSend \/ BeaconNotDue \/ HealthDone
           \/ SleepDeep \/ SleepLightOrNot \/ EnterDeepSleep
  <2>1. \E from, to \in PC \ HoldPC : Move(from, to)
    BY <1>1 DEF TempRadioStays, AgcNotDue, NoReboot, SerialIdle, SerialAlertFails,
       NoFlag, ReadIrq, ProcessPlain, ProcessDone, NothingToSend, BeaconNotDue,
       HealthDone, SleepDeep, SleepLightOrNot, EnterDeepSleep, PC, HoldPC
  <2> QED BY <2>1, IdleControl DEF Move, Control
<1>2. CASE TempRadioExpires \/ SerialTempRadio \/ ProcessTempRadio
           \/ AgcRestart \/ Rearm \/ TxEnd
  <2>1. \E from, to \in PC \ HoldPC : RestartReceiver(from, to)
    BY <1>2 DEF TempRadioExpires, SerialTempRadio, ProcessTempRadio,
       TempRadioCommand, AgcRestart, Rearm, TxEnd, PC, HoldPC, ReturnPC, Control
  <2>2. pc \in PC \ HoldPC /\ pc' \in PC \ HoldPC /\ ret' = ret /\ pkt' = pkt
    BY <2>1 DEF RestartReceiver, StartReceive, PC, HoldPC
  <2> QED BY <2>2, IdleControl DEF Control
<1>3. CASE PendingReboot \/ SerialReboot \/ ErrorReboot
  <2>1. Reset
    BY <1>3 DEF PendingReboot, SerialReboot, ErrorReboot
  <2>2. pc' \in {"expire", "halted"} /\ pkt' = None /\ ret' = "beacon"
    BY <2>1 DEF Reset, StartReceive
  <2> QED BY <2>2 DEF Control, HoldPC, ReturnPC
<1>4. ASSUME NEW t \in TxPkts,
             SerialAlertQueued(t) \/ HealthAlertQueued(t) \/ ProcessQueue(t)
               \/ ProcessReboot(t)
      PROVE  Control'
  <2>1. pc \in PC \ HoldPC /\ pc' \in PC \ HoldPC /\ ret' = ret /\ pkt' = pkt
    BY <1>4 DEF SerialAlertQueued, HealthAlertQueued, ProcessQueue, QueueAlert,
       ProcessReboot, PC, HoldPC
  <2> QED BY <2>1, IdleControl DEF Control
<1>5. ASSUME NEW t \in TxPkts, SerialSend(t) \/ ProcessSend(t) PROVE Control'
  BY <1>5, RadioLoopAssumption
     DEF SerialSend, ProcessSend, SendDirectly, Control, HoldPC, ReturnPC
<1>6. CASE SerialAlert \/ BeaconPostSync \/ BeaconInterval \/ HealthAlert
  BY <1>6, RadioLoopAssumption DEF SerialAlert, BeaconPostSync, BeaconInterval,
     HealthAlert, SendAdvert, Control, HoldPC, ReturnPC
<1>7. CASE \/ AgcReset \/ TakeFlag \/ ReadOk \/ ReadBad \/ ReadFails \/ ProcessSync
  <2>1. pc \in PC \ HoldPC /\ pc' \in PC \ HoldPC /\ ret' = ret /\ pkt' = pkt
    BY <1>7 DEF AgcReset, TakeFlag, ReadOk, ReadBad, ReadFails, ProcessSync, PC, HoldPC
  <2> QED BY <2>1, IdleControl DEF Control
<1>8. CASE PopPacket
  BY <1>8, QueuePopType, RadioLoopAssumption DEF PopPacket, TypeOK, Control, HoldPC
<1>9. CASE WaitBusy \/ WaitQuiet \/ WaitElapses
  BY <1>9 DEF WaitBusy, WaitQuiet, WaitElapses, Move, Control, HoldPC
<1>10. CASE FinalAborted \/ FinalClear \/ FinalBusy
  BY <1>10 DEF FinalAborted, FinalClear, FinalBusy, Finish, Control, HoldPC, ReturnPC
<1>11. CASE TxStart
  BY <1>11 DEF TxStart, Finish, Control, HoldPC
<1>12. CASE TxPollDone \/ TxPollTimeout
  BY <1>12 DEF TxPollDone, Move, TxPollTimeout, Control, HoldPC
<1>13. CASE TxDone \/ TxTimeout
  BY <1>13 DEF TxDone, TxTimeout, Finish, Control, HoldPC
<1> QED BY <1>1, <1>2, <1>3, <1>4, <1>5, <1>6, <1>7, <1>8, <1>9, <1>10, <1>11,
       <1>12, <1>13 DEF LoopStep

(* The other steps keep Control.                                           *)
LEMMA ControlStepOther ==
  Control /\ (RadioStep \/ ClockStep \/ OtherInterrupt) => Control'
<1> SUFFICES ASSUME Control, RadioStep \/ ClockStep \/ OtherInterrupt PROVE Control'
  OBVIOUS
<1>1. /\ pc' = pc \/ (pc = "asleep" /\ pc' = "expire")
      /\ UNCHANGED <<ret, pkt, aborted, txQueue>>
  BY DEF RadioStep, ClockStep, AirPreamble, AirHeader, AirEnd, FalsePreamble,
     TxComplete, OnDio1Rise, ReceptionGrowsLate, Elapse, OtherInterrupt, Move, loopVars
<1> QED BY <1>1 DEF Control, HoldPC

(***************************************************************************)
(* Every pending packet is in one place.  One lemma per way a step can     *)
(* move a packet; every other step leaves packets where they are.          *)
(***************************************************************************)
LEMMA InitPlace == Init => InOnePlace
BY RadioLoopAssumption DEF Init, InOnePlace, Held, Queued, Distinct

(* InOnePlace depends on the queue, the loop's hand and the outcomes only. *)
LEMMA PlaceStays ==
  ASSUME InOnePlace, Held' = Held, UNCHANGED <<txQueue, txState>>
  PROVE  InOnePlace'
BY DEF InOnePlace

(* The packets in the queue are packets to send.                           *)
LEMMA QueuedType ==
  ASSUME TypeOK PROVE Queued(txQueue) \subseteq TxPkts
BY DEF TypeOK, Queued

(* A new packet enters the queue; what is shifted out is recorded.         *)
LEMMA PlaceEnqueued ==
  ASSUME TypeOK, InOnePlace, NEW t \in TxPkts, Enqueue(t), Held = None, Held' = None
  PROVE  InOnePlace'
<1>1. t \notin Queued(txQueue)
  BY DEF Enqueue, InOnePlace
<1>2. /\ Queued(txQueue') = (Queued(txQueue) \ QueueShiftedOut(txQueue)) \cup {t}
      /\ Distinct(txQueue')
      /\ QueueShiftedOut(txQueue) \subseteq Queued(txQueue)
  BY <1>1, QueueAddContents DEF Enqueue, InOnePlace, TypeOK
<1>3. \A p \in TxPkts : txState'[p] = IF p = t THEN "pending"
                                     ELSE IF p \in QueueShiftedOut(txQueue)
                                     THEN "evicted" ELSE txState[p]
  BY DEF Enqueue
<1>4. None \notin Queued(txQueue')
  BY <1>2, QueuedType, RadioLoopAssumption
<1> QED BY <1>1, <1>2, <1>3, <1>4, RadioLoopAssumption DEF InOnePlace

(* The loop takes a new packet in hand, or the periodic ADVERT.            *)
LEMMA PlaceTaken ==
  ASSUME TypeOK, InOnePlace, NEW t \in TxPkts, txState[t] = "fresh",
         txState' = [txState EXCEPT ![t] = "pending"],
         UNCHANGED txQueue, Held = None, Held' = t
  PROVE  InOnePlace'
BY RadioLoopAssumption DEF InOnePlace, TypeOK

(* An ADVERT that the loop prepares is in its hands.                       *)
LEMMA PlaceAdvert ==
  ASSUME TypeOK, InOnePlace, UNCHANGED <<txQueue, txState>>, Held = None, Held' = Advert
  PROVE  InOnePlace'
BY QueuedType, RadioLoopAssumption DEF InOnePlace

(* The packet in hand is finished with.                                    *)
LEMMA PlaceFinished ==
  ASSUME TypeOK, InOnePlace, NEW outcome \in {"sent", "failed", "abandoned"},
         Finish(outcome), UNCHANGED txQueue, Held = pkt, Held' = None
  PROVE  InOnePlace'
BY QueuedType, RadioLoopAssumption DEF InOnePlace, Finish, TypeOK

(* A reboot leaves no packet without an outcome.                           *)
LEMMA PlaceReset ==
  ASSUME TypeOK, Control, InOnePlace, Reset PROVE InOnePlace'
<1>1. txQueue' = <<>> /\ Held' = None
  BY DEF Reset, Held
<1>2. \A t \in TxPkts : txState'[t] # "pending"
  BY DEF Reset
<1> QED BY <1>1, <1>2, RadioLoopAssumption DEF InOnePlace, Queued, Distinct

(* The steps of the loop keep InOnePlace.                                  *)
LEMMA PlaceStepLoop == TypeOK /\ Control /\ InOnePlace /\ LoopStep => InOnePlace'
<1> SUFFICES ASSUME TypeOK, Control, InOnePlace, LoopStep PROVE InOnePlace'
  OBVIOUS
<1> USE DEF hardware
<1>1. CASE \/ TempRadioStays \/ AgcNotDue \/ NoReboot \/ SerialIdle
           \/ SerialAlertFails \/ NoFlag \/ ReadIrq \/ ProcessPlain
           \/ ProcessDone \/ NothingToSend \/ WaitElapses \/ TxPollDone
           \/ BeaconNotDue \/ HealthDone \/ SleepDeep \/ SleepLightOrNot
           \/ EnterDeepSleep
  <2>1. /\ \E from, to \in PC : Move(from, to)
        /\ pc # "final" /\ (pc' = "final" => pc = "wait")
    BY <1>1 DEF TempRadioStays, AgcNotDue, NoReboot, SerialIdle, SerialAlertFails,
       NoFlag, ReadIrq, ProcessPlain, ProcessDone, NothingToSend, WaitElapses,
       TxPollDone, BeaconNotDue, HealthDone, SleepDeep, SleepLightOrNot,
       EnterDeepSleep, Move, PC
  <2> QED BY <2>1, PlaceStays DEF Move, Held, Control
<1>2. CASE TempRadioExpires \/ SerialTempRadio \/ ProcessTempRadio
           \/ AgcRestart \/ Rearm \/ TxEnd
  <2>1. \E from, to \in PC \ HoldPC : RestartReceiver(from, to)
    BY <1>2 DEF TempRadioExpires, SerialTempRadio, ProcessTempRadio,
       TempRadioCommand, AgcRestart, Rearm, TxEnd, PC, HoldPC, ReturnPC, Control
  <2> QED BY <2>1, PlaceStays DEF RestartReceiver, StartReceive, Held, HoldPC
<1>3. CASE PendingReboot \/ SerialReboot \/ ErrorReboot
  BY <1>3, PlaceReset DEF PendingReboot, SerialReboot, ErrorReboot
<1>4. ASSUME NEW t \in TxPkts,
             SerialAlertQueued(t) \/ HealthAlertQueued(t) \/ ProcessQueue(t)
               \/ ProcessReboot(t)
      PROVE  InOnePlace'
  <2>1. Enqueue(t) /\ Held = None /\ Held' = None
    BY <1>4 DEF SerialAlertQueued, HealthAlertQueued, ProcessQueue, QueueAlert,
       ProcessReboot, Held, Control, HoldPC
  <2> QED BY <2>1, PlaceEnqueued
<1>5. ASSUME NEW t \in TxPkts, SerialSend(t) \/ ProcessSend(t) PROVE InOnePlace'
  BY <1>5, PlaceTaken DEF SerialSend, ProcessSend, SendDirectly, Held, Control, HoldPC
<1>6. CASE SerialAlert \/ BeaconPostSync \/ BeaconInterval \/ HealthAlert
  BY <1>6, PlaceAdvert DEF SerialAlert, BeaconPostSync, BeaconInterval,
     HealthAlert, SendAdvert, Held, Control, HoldPC
<1>7. CASE \/ AgcReset \/ TakeFlag \/ ReadOk \/ ReadBad \/ ReadFails \/ ProcessSync
           \/ WaitQuiet \/ FinalClear \/ TxPollTimeout
  <2>1. Held' = Held /\ UNCHANGED <<txQueue, txState>>
    BY <1>7 DEF AgcReset, TakeFlag, ReadOk, ReadBad, ReadFails, ProcessSync,
       WaitQuiet, FinalClear, TxPollTimeout, Held
  <2> QED BY <2>1, PlaceStays
<1>8. CASE PopPacket
  <2>1. Held = None /\ Held' = QueueFront(txQueue) /\ txQueue' = QueueRest(txQueue)
        /\ txState' = txState /\ txQueue # <<>> /\ txQueue \in Seq(TxPkts)
    BY <1>8 DEF PopPacket, Held, Control, HoldPC, TypeOK
  <2>2. /\ Queued(txQueue) = Queued(txQueue') \cup {Held'}
        /\ Held' \notin Queued(txQueue')
        /\ Distinct(txQueue')
    BY <2>1, QueuePopContents DEF InOnePlace
  <2> QED BY <2>1, <2>2, RadioLoopAssumption DEF InOnePlace
<1>9. CASE WaitBusy
  <2>1. /\ Held = pkt /\ Held' = None /\ pkt \in TxPkts
        /\ txQueue' = QueueAdd(txQueue, pkt) /\ txQueue \in Seq(TxPkts)
        /\ Len(txQueue) <= QueueSize
    BY <1>9 DEF WaitBusy, Held, Control, TypeOK
  <2>2. /\ Queued(txQueue') = (Queued(txQueue) \ QueueShiftedOut(txQueue)) \cup {pkt}
        /\ Distinct(txQueue')
        /\ QueueShiftedOut(txQueue) \subseteq Queued(txQueue)
    BY <2>1, QueueAddContents DEF InOnePlace
  <2>3. \A t \in TxPkts : txState'[t] = IF t \in QueueShiftedOut(txQueue)
                                       THEN "evicted" ELSE txState[t]
    BY <1>9 DEF WaitBusy
  <2>4. Held' \notin Queued(txQueue')
    BY <2>1, <2>2, QueuedType, RadioLoopAssumption
  <2> QED BY <2>1, <2>2, <2>3, <2>4, RadioLoopAssumption DEF InOnePlace
<1>10. CASE FinalAborted
  BY <1>10, PlaceStays DEF FinalAborted, Held
<1>11. CASE FinalBusy
  BY <1>11, PlaceFinished DEF FinalBusy, Finish, Held
<1>12. CASE TxStart
  <2>1. CASE UNCHANGED <<pkt, txState>> /\ pc' = "txPoll"
    BY <1>12, <2>1, PlaceStays DEF TxStart, Held
  <2>2. CASE Finish("failed") /\ pc' = "txEnd"
    BY <1>12, <2>2, PlaceFinished DEF TxStart, Finish, Held
  <2> QED BY <1>12, <2>1, <2>2 DEF TxStart
<1>13. CASE TxDone \/ TxTimeout
  BY <1>13, PlaceFinished DEF TxDone, TxTimeout, Finish, Held
<1> QED BY <1>1, <1>2, <1>3, <1>4, <1>5, <1>6, <1>7, <1>8, <1>9, <1>10, <1>11,
       <1>12, <1>13 DEF LoopStep

(* The other steps keep InOnePlace.                                        *)
LEMMA PlaceStepOther ==
  InOnePlace /\ (RadioStep \/ ClockStep \/ OtherInterrupt) => InOnePlace'
<1> SUFFICES ASSUME InOnePlace, RadioStep \/ ClockStep \/ OtherInterrupt
             PROVE  InOnePlace'
  OBVIOUS
<1>1. /\ pc' = pc \/ (pc = "asleep" /\ pc' = "expire")
      /\ UNCHANGED <<pkt, aborted, txQueue, txState>>
  BY DEF RadioStep, ClockStep, AirPreamble, AirHeader, AirEnd, FalsePreamble,
     TxComplete, OnDio1Rise, ReceptionGrowsLate, Elapse, OtherInterrupt, Move, loopVars
<1> QED BY <1>1, PlaceStays DEF Held

(***************************************************************************)
(* The status register and the radio's buffer.                             *)
(***************************************************************************)
LEMMA InitBuffer == Init => Buffer
BY DEF Init, Buffer

(* Buffer depends on the radio, its status and the packets received only.  *)
LEMMA BufferStays ==
  ASSUME Buffer, UNCHANGED <<irq, rxState>>, pc' # "read", pc \in ReadPC => pc' \in ReadPC
  PROVE  Buffer'
BY DEF Buffer

(* Restarting the receiver and transmitting clear the status register.     *)
LEMMA BufferCleared ==
  ASSUME irq' = {}, pc' # "read" PROVE Buffer'
BY DEF Buffer

(* The steps of the loop keep Buffer.                                      *)
LEMMA BufferStepLoop == TypeOK /\ Control /\ Buffer /\ LoopStep => Buffer'
<1> SUFFICES ASSUME TypeOK, Control, Buffer, LoopStep PROVE Buffer'
  OBVIOUS
<1> USE DEF hardware
<1>1. CASE \/ TempRadioStays \/ AgcNotDue \/ NoReboot \/ SerialIdle
           \/ SerialAlertFails \/ NoFlag \/ ProcessPlain
           \/ ProcessDone \/ NothingToSend \/ WaitElapses \/ TxPollDone
           \/ BeaconNotDue \/ HealthDone \/ SleepDeep \/ SleepLightOrNot
           \/ EnterDeepSleep
  <2>1. /\ UNCHANGED <<irq, rxState>>
        /\ pc' # "read" /\ (pc \in ReadPC => pc' \in ReadPC)
    BY <1>1 DEF TempRadioStays, AgcNotDue, NoReboot, SerialIdle, SerialAlertFails,
       NoFlag, ProcessPlain, ProcessDone, NothingToSend, WaitElapses, TxPollDone,
       BeaconNotDue, HealthDone, SleepDeep, SleepLightOrNot, EnterDeepSleep,
       Move, ReadPC
  <2> QED BY <2>1, BufferStays
<1>2. CASE ReadIrq
  BY <1>2 DEF ReadIrq, Move, Buffer, ReadPC
<1>3. CASE \/ TempRadioExpires \/ SerialTempRadio \/ ProcessTempRadio
           \/ AgcRestart \/ Rearm \/ TxEnd \/ TxStart
  <2>1. irq' = {} /\ pc' # "read"
    BY <1>3 DEF TempRadioExpires, SerialTempRadio, ProcessTempRadio,
       TempRadioCommand, AgcRestart, Rearm, TxEnd, TxStart, RestartReceiver,
       StartReceive, Control, ReturnPC
  <2> QED BY <2>1, BufferCleared
<1>4. CASE PendingReboot \/ SerialReboot \/ ErrorReboot
  <2>1. irq' = {} /\ pc' # "read"
    BY <1>4 DEF PendingReboot, SerialReboot, ErrorReboot, Reset, StartReceive
  <2> QED BY <2>1, BufferCleared
<1>5. ASSUME NEW t \in TxPkts,
             \/ SerialAlertQueued(t) \/ HealthAlertQueued(t) \/ ProcessQueue(t)
             \/ ProcessReboot(t) \/ SerialSend(t) \/ ProcessSend(t)
      PROVE  Buffer'
  <2>1. /\ UNCHANGED <<irq, rxState>>
        /\ pc' # "read" /\ (pc \in ReadPC => pc' \in ReadPC)
    BY <1>5 DEF SerialAlertQueued, HealthAlertQueued, ProcessQueue, QueueAlert,
       ProcessReboot, SerialSend, ProcessSend, SendDirectly, ReadPC
  <2> QED BY <2>1, BufferStays
<1>6. CASE \/ SerialAlert \/ BeaconPostSync \/ BeaconInterval \/ HealthAlert
           \/ AgcReset \/ TakeFlag \/ ProcessSync \/ PopPacket \/ WaitBusy
           \/ FinalAborted \/ FinalClear \/ FinalBusy \/ TxPollTimeout
           \/ TxDone \/ TxTimeout
  <2>1. /\ UNCHANGED <<irq, rxState>>
        /\ pc' # "read" /\ (pc \in ReadPC => pc' \in ReadPC)
    BY <1>6 DEF SerialAlert, BeaconPostSync, BeaconInterval, HealthAlert,
       SendAdvert, AgcReset, TakeFlag, ProcessSync, PopPacket, WaitBusy,
       FinalAborted, FinalClear, FinalBusy, TxPollTimeout, TxDone, TxTimeout, ReadPC
  <2> QED BY <2>1, BufferStays
<1>7. CASE WaitQuiet
  BY <1>7, BufferStays DEF WaitQuiet, ReadPC
<1>8. CASE ReadOk \/ ReadBad \/ ReadFails
  <2>1. pc' \in {"fatal", "process", "rearm", "halted"}
    BY <1>8 DEF ReadOk, ReadBad, ReadFails
  <2> QED BY <2>1 DEF Buffer, ReadPC
<1> QED BY <1>1, <1>2, <1>3, <1>4, <1>5, <1>6, <1>7, <1>8 DEF LoopStep

(* The other steps keep Buffer.                                            *)
LEMMA BufferStepOther ==
  TypeOK /\ Buffer /\ (RadioStep \/ ClockStep \/ OtherInterrupt) => Buffer'
<1> SUFFICES ASSUME TypeOK, Buffer, RadioStep \/ ClockStep \/ OtherInterrupt
             PROVE  Buffer'
  OBVIOUS
<1> USE DEF loopVars, hardware
<1>1. ASSUME NEW p \in RxPkts, AirPreamble(p) \/ AirHeader(p) PROVE Buffer'
  BY <1>1 DEF AirPreamble, AirHeader, Buffer, TypeOK
<1>2. ASSUME NEW p \in RxPkts, AirEnd(p) PROVE Buffer'
  BY <1>2 DEF AirEnd, OnDio1Rise, Buffer, TypeOK
<1>3. CASE FalsePreamble
  BY <1>3 DEF FalsePreamble, Buffer
<1>4. CASE TxComplete
  BY <1>4 DEF TxComplete, OnDio1Rise, Buffer, ReadPC
<1>5. CASE ClockStep
  BY <1>5, BufferStays DEF ClockStep, ReceptionGrowsLate, Elapse, Buffer
<1>6. CASE OtherInterrupt
  BY <1>6, BufferStays DEF OtherInterrupt, Move, ReadPC
<1> QED BY <1>1, <1>2, <1>3, <1>4, <1>5, <1>6 DEF RadioStep

(***************************************************************************)
(* The announcement of a packet in the buffer.                             *)
(***************************************************************************)
LEMMA InitAnnounced == Init => Announced
BY DEF Init, Announced

(* Announced depends on the flag, the status and the packets received      *)
(* only.                                                                   *)
LEMMA AnnouncedStays ==
  ASSUME Announced, UNCHANGED <<irq, rxState, dio1Flag>>, pc \notin {"irq", "read"}
  PROVE  Announced'
BY DEF Announced

(* Without a packet in the buffer Announced holds.                         *)
LEMMA AnnouncedNone ==
  ASSUME \A p \in RxPkts : rxState'[p] # "fifo" PROVE Announced'
BY DEF Announced

(* A reception that was lost is not in the buffer any more.                *)
LEMMA NothingKept ==
  ASSUME TypeOK, rxState' = LoseReception PROVE \A p \in RxPkts : rxState'[p] # "fifo"
BY DEF TypeOK, LoseReception

(* The steps of the loop keep Announced.                                   *)
LEMMA AnnouncedStepLoop == TypeOK /\ Announced /\ LoopStep => Announced'
<1> SUFFICES ASSUME TypeOK, Announced, LoopStep PROVE Announced'
  OBVIOUS
<1> USE DEF hardware
<1>1. CASE \/ TempRadioStays \/ AgcNotDue \/ NoReboot \/ SerialIdle
           \/ SerialAlertFails \/ NoFlag \/ ProcessPlain
           \/ ProcessDone \/ NothingToSend \/ WaitElapses \/ TxPollDone
           \/ BeaconNotDue \/ HealthDone \/ SleepDeep \/ SleepLightOrNot
           \/ EnterDeepSleep
  <2>1. UNCHANGED <<irq, rxState, dio1Flag>> /\ pc \notin {"irq", "read"}
    BY <1>1 DEF TempRadioStays, AgcNotDue, NoReboot, SerialIdle, SerialAlertFails,
       NoFlag, ProcessPlain, ProcessDone, NothingToSend, WaitElapses, TxPollDone,
       BeaconNotDue, HealthDone, SleepDeep, SleepLightOrNot, EnterDeepSleep, Move
  <2> QED BY <2>1, AnnouncedStays
<1>2. CASE ReadIrq
  BY <1>2 DEF ReadIrq, Move, Announced
<1>3. CASE \/ TempRadioExpires \/ SerialTempRadio \/ ProcessTempRadio
           \/ AgcRestart \/ Rearm \/ TxEnd \/ TxStart
           \/ PendingReboot \/ SerialReboot \/ ErrorReboot
  <2>1. rxState' = LoseReception
    BY <1>3 DEF TempRadioExpires, SerialTempRadio, ProcessTempRadio,
       TempRadioCommand, AgcRestart, Rearm, TxEnd, TxStart, RestartReceiver,
       PendingReboot, SerialReboot, ErrorReboot, Reset, StartReceive
  <2> QED BY <2>1, NothingKept, AnnouncedNone
<1>4. ASSUME NEW t \in TxPkts,
             \/ SerialAlertQueued(t) \/ HealthAlertQueued(t) \/ ProcessQueue(t)
             \/ ProcessReboot(t) \/ SerialSend(t) \/ ProcessSend(t)
      PROVE  Announced'
  <2>1. UNCHANGED <<irq, rxState, dio1Flag>> /\ pc \notin {"irq", "read"}
    BY <1>4 DEF SerialAlertQueued, HealthAlertQueued, ProcessQueue, QueueAlert,
       ProcessReboot, SerialSend, ProcessSend
  <2> QED BY <2>1, AnnouncedStays
<1>5. CASE \/ SerialAlert \/ BeaconPostSync \/ BeaconInterval \/ HealthAlert
           \/ AgcReset \/ ProcessSync \/ PopPacket \/ WaitBusy \/ WaitQuiet
           \/ FinalAborted \/ FinalClear \/ FinalBusy \/ TxPollTimeout
           \/ TxDone \/ TxTimeout
  <2>1. UNCHANGED <<irq, rxState, dio1Flag>> /\ pc \notin {"irq", "read"}
    BY <1>5 DEF SerialAlert, BeaconPostSync, BeaconInterval, HealthAlert, AgcReset,
       ProcessSync, PopPacket, WaitBusy, WaitQuiet, FinalAborted, FinalClear,
       FinalBusy, TxPollTimeout, TxDone, TxTimeout
  <2> QED BY <2>1, AnnouncedStays
<1>6. CASE TakeFlag
  BY <1>6 DEF TakeFlag, Announced
<1>7. CASE ReadOk \/ ReadBad \/ ReadFails
  <2>1. \A p \in RxPkts : rxState'[p] # "fifo"
    BY <1>7 DEF ReadOk, ReadBad, ReadFails, TypeOK
  <2> QED BY <2>1, AnnouncedNone
<1> QED BY <1>1, <1>2, <1>3, <1>4, <1>5, <1>6, <1>7 DEF LoopStep

(* The other steps keep Announced.                                         *)
LEMMA AnnouncedStepOther ==
  TypeOK /\ Announced /\ (RadioStep \/ ClockStep \/ OtherInterrupt) => Announced'
<1> SUFFICES ASSUME TypeOK, Announced, RadioStep \/ ClockStep \/ OtherInterrupt
             PROVE  Announced'
  OBVIOUS
<1> USE DEF loopVars, hardware
<1>1. ASSUME NEW p \in RxPkts, AirPreamble(p) \/ AirHeader(p) PROVE Announced'
  BY <1>1 DEF AirPreamble, AirHeader, Announced, TypeOK
<1>2. ASSUME NEW p \in RxPkts, AirEnd(p) PROVE Announced'
  BY <1>2 DEF AirEnd, OnDio1Rise, Announced, TypeOK
<1>3. CASE FalsePreamble
  BY <1>3 DEF FalsePreamble, Announced
<1>4. CASE TxComplete
  BY <1>4 DEF TxComplete, OnDio1Rise, Announced
<1>5. CASE ClockStep
  BY <1>5 DEF ClockStep, ReceptionGrowsLate, Elapse, Announced
<1>6. CASE OtherInterrupt
  BY <1>6, AnnouncedStays DEF OtherInterrupt, Move
<1> QED BY <1>1, <1>2, <1>3, <1>4, <1>5, <1>6 DEF RadioStep

(***************************************************************************)
(* The theorems.                                                           *)
(***************************************************************************)
(* The inductive invariant holds in every reachable state, for any number  *)
(* of packets, any queue size and any number of faults.                    *)
THEOREM Invariance == Spec => []IInv
<1>1. Init => IInv
  BY InitType, InitControl, InitPlace, InitBuffer, InitAnnounced DEF IInv
<1>2. IInv /\ [Next]_vars => IInv'
  <2> SUFFICES ASSUME IInv, [Next]_vars PROVE IInv'
    OBVIOUS
  <2>1. CASE UNCHANGED vars
    <3>1. TypeOK'
      BY <2>1 DEF IInv, TypeOK, vars, loopVars
    <3>2. Control' /\ Buffer' /\ Announced'
      BY <2>1 DEF IInv, Control, Buffer, Announced, vars, loopVars
    <3>3. InOnePlace'
      BY <2>1 DEF IInv, InOnePlace, Held, vars, loopVars
    <3> QED BY <3>1, <3>2, <3>3 DEF IInv
  <2>2. CASE LoopStep
    BY <2>2, TypeStepLoop, ControlStepLoop, PlaceStepLoop, BufferStepLoop,
       AnnouncedStepLoop DEF IInv
  <2>3. CASE RadioStep \/ ClockStep \/ OtherInterrupt
    BY <2>3, TypeStepOther, ControlStepOther, PlaceStepOther, BufferStepOther,
       AnnouncedStepOther DEF IInv
  <2> QED BY <2>1, <2>2, <2>3 DEF Next
<1> QED BY <1>1, <1>2, PTL DEF Spec

(* Type correctness, with the bound on the length of the transmit queue.   *)
THEOREM TypeCorrect == Spec => []TypeOK
<1>1. IInv => TypeOK
  BY DEF IInv
<1> QED BY <1>1, Invariance, PTL

(* No packet is duplicated, sent twice or forgotten by the re-queue and    *)
(* the transmit block of loop.                                             *)
THEOREM OnePlace == Spec => []InOnePlace
<1>1. IInv => InOnePlace
  BY DEF IInv
<1> QED BY <1>1, Invariance, PTL

(* The loop never reads the radio's buffer without a new packet in it.     *)
THEOREM NeverReadsTwice == Spec => []ReadsAnUnreadPacket
<1>1. IInv => ReadsAnUnreadPacket
  BY DEF IInv, Buffer, ReadsAnUnreadPacket, ReadPC
<1> QED BY <1>1, Invariance, PTL

(* Putting a packet back after a busy channel evicts none: the pop made    *)
(* room, and nothing is queued while the loop waits.                       *)
THEOREM NoRequeueEviction == Spec => RequeueNeverEvicts
<1> DEFINE Kept == pc = "wait" => \A t \in TxPkts : txState'[t] = txState[t]
<1>1. IInv /\ [Next]_vars => [Kept]_vars
  <2> SUFFICES ASSUME IInv, Next, pc = "wait", NEW t \in TxPkts
               PROVE  txState'[t] = txState[t]
    OBVIOUS
  <2>1. CASE WaitBusy
    <3>1. Len(txQueue) < QueueSize /\ Len(txQueue) \in Nat
      BY DEF IInv, Control, TypeOK
    <3>2. QueueShiftedOut(txQueue) = {}
      BY <3>1, QueueSizeAssumption DEF QueueShiftedOut
    <3> QED BY <2>1, <3>2 DEF WaitBusy
  <2>2. CASE WaitQuiet \/ WaitElapses
    BY <2>2 DEF WaitQuiet, WaitElapses, Move
  <2>3. CASE RadioStep \/ ClockStep \/ OtherInterrupt
    BY <2>3 DEF RadioStep, ClockStep, AirPreamble, AirHeader, AirEnd, FalsePreamble,
       TxComplete, ReceptionGrowsLate, Elapse, OtherInterrupt, Move
  <2>4. LoopStep => WaitBusy \/ WaitQuiet \/ WaitElapses
    BY DEF LoopStep, TempRadioExpires, TempRadioStays, AgcReset, AgcNotDue,
       AgcRestart, PendingReboot, NoReboot, SerialIdle, SerialAlert, SerialReboot,
       SerialTempRadio, SerialAlertFails, SerialSend, SerialAlertQueued, TakeFlag,
       NoFlag, ReadIrq, ReadOk, ReadBad, ReadFails, ErrorReboot, ProcessPlain,
       ProcessTempRadio, ProcessSync, ProcessDone, ProcessSend, ProcessReboot,
       ProcessQueue, Rearm, PopPacket, NothingToSend, FinalAborted, FinalClear,
       FinalBusy, TxStart, TxPollDone, TxPollTimeout, TxDone, TxTimeout, TxEnd,
       BeaconPostSync, BeaconInterval, BeaconNotDue, HealthAlert, HealthDone,
       HealthAlertQueued, SleepDeep, SleepLightOrNot, EnterDeepSleep,
       TempRadioCommand, QueueAlert, RestartReceiver, Move
  <2> QED BY <2>1, <2>2, <2>3, <2>4 DEF Next
<1> QED BY <1>1, Invariance, PTL DEF Spec, RequeueNeverEvicts

(* A packet in the radio's buffer is discarded only while the flag that    *)
(* announced it still stands, or at the read itself: once the loop has     *)
(* taken the flag, the buffer is read before anything discards it.         *)
THEOREM NeverDiscardsSeen == Spec => DiscardsOnlyUnseen
<1> DEFINE Unseen == \A p \in RxPkts :
             rxState[p] = "fifo" /\ rxState'[p] = "lost" => dio1Flag \/ pc = "read"
<1>1. IInv /\ [Next]_vars => [Unseen]_vars
  <2> SUFFICES ASSUME IInv, Next, NEW p \in RxPkts, rxState[p] = "fifo",
                      rxState'[p] # "fifo", pc = "irq"
               PROVE  FALSE
    BY DEF IInv, Announced
  <2>1. CASE RadioStep \/ ClockStep \/ OtherInterrupt
    BY <2>1 DEF RadioStep, ClockStep, AirPreamble, AirHeader, AirEnd, FalsePreamble,
       TxComplete, ReceptionGrowsLate, Elapse, OtherInterrupt, Move, hardware,
       IInv, TypeOK
  <2>2. LoopStep => ReadIrq
    BY DEF LoopStep, TempRadioExpires, TempRadioStays, AgcReset, AgcNotDue,
       AgcRestart, PendingReboot, NoReboot, SerialIdle, SerialAlert, SerialReboot,
       SerialTempRadio, SerialAlertFails, SerialSend, SerialAlertQueued, TakeFlag,
       NoFlag, ReadIrq, ReadOk, ReadBad, ReadFails, ErrorReboot, ProcessPlain,
       ProcessTempRadio, ProcessSync, ProcessDone, ProcessSend, ProcessReboot,
       ProcessQueue, Rearm, PopPacket, NothingToSend, WaitBusy, WaitQuiet,
       WaitElapses, FinalAborted, FinalClear, FinalBusy, TxStart, TxPollDone,
       TxPollTimeout, TxDone, TxTimeout, TxEnd, BeaconPostSync, BeaconInterval,
       BeaconNotDue, HealthAlert, HealthDone, HealthAlertQueued, SleepDeep,
       SleepLightOrNot, EnterDeepSleep, TempRadioCommand, QueueAlert,
       RestartReceiver, Move
  <2>3. ~ReadIrq
    BY DEF ReadIrq, Move, hardware
  <2> QED BY <2>1, <2>2, <2>3 DEF Next
<1> QED BY <1>1, Invariance, PTL DEF Spec, DiscardsOnlyUnseen

(***************************************************************************)
(* The node is not deaf.  While a packet is handled or sent the receiver   *)
(* may be off; between taking the flag and reading the status register it  *)
(* is on unless the register has RX_DONE.                                  *)
(***************************************************************************)
HandlingPC == {"irq", "read", "process", "queueing", "rearm", "tx", "txPoll", "txStatus",
               "txEnd"}

Listening ==
  faults = 0 =>
    /\ pc # "halted"
    /\ pc = "irq" => radio = "rx" \/ "RX_DONE" \in irq
    /\ pc \notin HandlingPC => radio = "rx" \/ (dio1Flag /\ "RX_DONE" \in irq)

(* A step that starts the receiver, if nothing fails.                      *)
LEMMA StartListening ==
  ASSUME faults \in Nat, NEW next, next # "halted", StartReceive(next)
  PROVE  Listening'
BY DEF StartReceive, Listening, Fault

(* A fault is the end of the promise.                                      *)
LEMMA FaultListening == ASSUME faults \in Nat, Fault PROVE Listening'
BY DEF Fault, Listening

(* A step that leaves radio, status and flag alone, and does not begin to  *)
(* read the register.                                                      *)
LEMMA QuietListening ==
  ASSUME Listening, UNCHANGED <<radio, irq, dio1Flag, faults>>,
         pc' = pc \/ pc' \in HandlingPC \ {"irq"}
           \/ (pc \notin HandlingPC /\ pc' \notin {"irq", "halted"})
  PROVE  Listening'
BY DEF Listening, HandlingPC

(* Each step of the loop leaves the receiver on or a packet announced.     *)
LEMMA LoopListening ==
  ASSUME IInv, Listening, LoopStep
  PROVE  Listening'
<1>1. faults \in Nat /\ ret \in ReturnPC
  BY DEF IInv, TypeOK, Control
<1>2. CASE TempRadioExpires \/ AgcRestart \/ Rearm \/ TxEnd \/ SerialTempRadio \/ ProcessTempRadio
  <2>1. PICK next : next # "halted" /\ StartReceive(next)
    BY <1>1, <1>2 DEF TempRadioExpires, AgcRestart, Rearm, TxEnd, SerialTempRadio,
       ProcessTempRadio, TempRadioCommand, RestartReceiver, ReturnPC
  <2> QED BY <1>1, <2>1, StartListening
<1>3. CASE PendingReboot \/ SerialReboot \/ ErrorReboot
  <2>1. StartReceive("expire")
    BY <1>3 DEF PendingReboot, SerialReboot, ErrorReboot, Reset
  <2> QED BY <1>1, <2>1, StartListening
<1>4. CASE ReadBad \/ ReadFails \/ TxPollTimeout
  <2>1. Fault
    BY <1>4 DEF ReadBad, ReadFails, TxPollTimeout
  <2> QED BY <1>1, <2>1, FaultListening
<1>5. CASE TakeFlag
  BY <1>5 DEF TakeFlag, Listening, HandlingPC, hardware
<1>6. CASE ReadIrq
  <2>1. pc = "irq" /\ UNCHANGED <<radio, irq, dio1Flag, faults>>
    BY <1>6 DEF ReadIrq, Move, hardware
  <2>2. \/ pc' \in {"read", "rearm"}
        \/ pc' = "txCheck" /\ "RX_DONE" \notin irq
    BY <1>6 DEF ReadIrq, Move
  <2> QED BY <2>1, <2>2 DEF Listening, HandlingPC
<1>7. CASE TxStart
  <2>1. CASE Fault
    BY <1>1, <2>1, FaultListening
  <2>2. CASE pc' = "txPoll" /\ faults' = faults
    BY <2>2 DEF Listening, HandlingPC
  <2> QED BY <1>7, <2>1, <2>2 DEF TxStart
<1>8. CASE \/ ReadOk \/ ProcessPlain \/ ProcessSync \/ ProcessDone
           \/ \E t \in TxPkts : ProcessSend(t) \/ ProcessReboot(t) \/ ProcessQueue(t) \/ SerialSend(t)
           \/ SerialAlert \/ FinalAborted \/ FinalClear \/ FinalBusy \/ TxPollDone \/ TxDone
           \/ TxTimeout \/ BeaconPostSync \/ BeaconInterval \/ HealthAlert
  <2>1. UNCHANGED <<radio, irq, dio1Flag, faults>>
    BY <1>8 DEF ReadOk, ProcessPlain, ProcessSync, ProcessDone, ProcessSend, ProcessReboot,
       ProcessQueue, QueueAlert, SerialSend, SerialAlert, FinalAborted, FinalClear, FinalBusy,
       TxPollDone, TxDone, TxTimeout, BeaconPostSync, BeaconInterval, HealthAlert, Move,
       hardware
  <2>2. pc' \in HandlingPC \ {"irq"}
    BY <1>8 DEF ReadOk, ProcessPlain, ProcessSync, ProcessDone, ProcessSend, ProcessReboot,
       ProcessQueue, QueueAlert, SerialSend, SerialAlert, FinalAborted, FinalClear, FinalBusy,
       TxPollDone, TxDone, TxTimeout, BeaconPostSync, BeaconInterval, HealthAlert, Move,
       SendDirectly, SendAdvert, HandlingPC
  <2> QED BY <2>1, <2>2, QuietListening
<1>9. CASE \/ TempRadioStays \/ AgcReset \/ AgcNotDue \/ NoReboot \/ SerialIdle
           \/ SerialAlertFails \/ NoFlag \/ PopPacket \/ NothingToSend
           \/ WaitBusy \/ WaitQuiet \/ WaitElapses \/ BeaconNotDue \/ HealthDone
           \/ \E t \in TxPkts : SerialAlertQueued(t) \/ HealthAlertQueued(t)
           \/ SleepDeep \/ SleepLightOrNot \/ EnterDeepSleep
  <2>1. UNCHANGED <<radio, irq, dio1Flag, faults>>
    BY <1>9 DEF TempRadioStays, AgcReset, AgcNotDue, NoReboot, SerialIdle, SerialAlertFails,
       NoFlag, PopPacket, NothingToSend, WaitBusy, WaitQuiet, WaitElapses, BeaconNotDue,
       HealthDone, SerialAlertQueued, HealthAlertQueued, QueueAlert, SleepDeep,
       SleepLightOrNot, EnterDeepSleep, Move, hardware
  <2>2. pc \notin HandlingPC /\ pc' \notin {"irq", "halted"}
    BY <1>9 DEF TempRadioStays, AgcReset, AgcNotDue, NoReboot, SerialIdle, SerialAlertFails,
       NoFlag, PopPacket, NothingToSend, WaitBusy, WaitQuiet, WaitElapses, BeaconNotDue,
       HealthDone, SerialAlertQueued, HealthAlertQueued, QueueAlert, SleepDeep,
       SleepLightOrNot, EnterDeepSleep, Move, HandlingPC
  <2> QED BY <2>1, <2>2, QuietListening
<1> QED BY <1>2, <1>3, <1>4, <1>5, <1>6, <1>7, <1>8, <1>9 DEF LoopStep

(* The radio, the interrupt and the clock.                                 *)
LEMMA RadioListening ==
  ASSUME IInv, Listening, RadioStep \/ ClockStep \/ OtherInterrupt \/ UNCHANGED vars
  PROVE  Listening'
<1>1. faults \in Nat
  BY DEF IInv, TypeOK
<1>2. CASE \E p \in RxPkts : AirPreamble(p) \/ AirHeader(p)
  <2>1. UNCHANGED <<pc, radio, dio1Flag, faults>> /\ irq \subseteq irq'
    BY <1>2 DEF AirPreamble, AirHeader, loopVars
  <2> QED BY <2>1 DEF Listening
<1>3. CASE \E p \in RxPkts : AirEnd(p)
  <2>1. dio1Flag' = TRUE /\ "RX_DONE" \in irq' /\ faults' = faults
        /\ (pc' = pc \/ pc' = "expire")
    BY <1>3 DEF AirEnd, OnDio1Rise
  <2> QED BY <2>1 DEF Listening
<1>4. CASE TxComplete
  <2>1. /\ radio = "tx" /\ dio1Flag' = TRUE /\ irq \subseteq irq' /\ faults' = faults
        /\ pc' = pc \/ (pc = "asleep" /\ pc' = "expire")
    BY <1>4 DEF TxComplete, OnDio1Rise
  <2> QED BY <2>1 DEF Listening, HandlingPC
<1>5. CASE FalsePreamble
  BY <1>1, <1>5, FaultListening DEF FalsePreamble
<1>6. CASE ClockStep \/ UNCHANGED vars
  <2>1. UNCHANGED <<pc, radio, irq, dio1Flag, faults>>
    BY <1>6 DEF ClockStep, ReceptionGrowsLate, Elapse, vars, loopVars
  <2> QED BY <2>1 DEF Listening
<1>7. CASE OtherInterrupt
  <2>1. pc = "asleep" /\ pc' = "expire" /\ UNCHANGED <<radio, irq, dio1Flag, faults>>
    BY <1>7 DEF OtherInterrupt, Move, hardware
  <2> QED BY <2>1 DEF Listening, HandlingPC
<1> QED BY <1>2, <1>3, <1>4, <1>5, <1>6, <1>7 DEF RadioStep

(* Without a fault no path through loop(), and no interrupt at any place   *)
(* of it, leaves the node deaf.                                            *)
THEOREM NeverDeaf == Spec => []ListensOrHasPacket
<1>1. Init => Listening
  BY DEF Init, Listening
<1>2. IInv /\ Listening /\ [Next]_vars => Listening'
  BY LoopListening, RadioListening DEF Next
<1>3. Listening => ListensOrHasPacket
  BY DEF Listening, ListensOrHasPacket, HandlingPC
<1> QED BY <1>1, <1>2, <1>3, Invariance, PTL DEF Spec

-----------------------------------------------------------------------------
(***************************************************************************)
(* RadioLoop implements Outbox: the initial fates are the initial ones of  *)
(* Outbox and every step of the loop, the radio or the clock accepts one   *)
(* packet, settles one, restarts, or changes no fate.  The capacity needs  *)
(* InOnePlace: what is pending is in the queue, once, or in hand.          *)
(***************************************************************************)
PendingPackets == {t \in TxPkts : txState[t] = "pending"}

fates == [t \in TxPkts |-> FateOf(t)]

(* The place of a pending packet: its position in the queue, or the last   *)
(* one for the packet in hand.                                             *)
LEMMA PendingFits ==
  TypeOK /\ InOnePlace => Out!Fits(PendingPackets)
<1> SUFFICES ASSUME TypeOK, InOnePlace PROVE Out!Fits(PendingPackets)
  OBVIOUS
<1> DEFINE Index(t) == CHOOSE i \in 1 .. Len(txQueue) : txQueue[i] = t
           place == [t \in PendingPackets |-> IF t = Held THEN QueueSize + 1
                                                         ELSE Index(t)]
<1>1. Len(txQueue) \in Nat /\ Len(txQueue) <= QueueSize /\ QueueSize \in Nat
  BY QueueSizeAssumption DEF TypeOK
<1>2. ASSUME NEW t \in PendingPackets, t # Held
      PROVE  Index(t) \in 1 .. Len(txQueue) /\ txQueue[Index(t)] = t
  <2>1. \E i \in 1 .. Len(txQueue) : txQueue[i] = t
    BY <1>2 DEF PendingPackets, InOnePlace, Queued
  <2> QED BY <2>1
<1> HIDE DEF Index
<1>3. place \in [PendingPackets -> 1 .. QueueSize + 1]
  BY <1>1, <1>2
<1>4. ASSUME NEW p \in PendingPackets, NEW q \in PendingPackets, place[p] = place[q]
      PROVE  p = q
  BY <1>1, <1>2, <1>4
<1> QED BY <1>3, <1>4 DEF Out!Fits

(* What is pending is the same in both specifications.                     *)
LEMMA PendingSame == Out!Pending = PendingPackets
BY DEF Out!Pending, PendingPackets, FateOf

(* A step that moves no packet is a stutter of Outbox.                     *)
LEMMA NothingSettled ==
  ASSUME UNCHANGED txState PROVE UNCHANGED fates
BY DEF fates, FateOf

(* A packet put into the queue is accepted, whichever one it shifts out.   *)
LEMMA EnqueueAccepts ==
  ASSUME TypeOK, InOnePlace, TypeOK', InOnePlace', NEW t \in TxPkts, Enqueue(t)
  PROVE  Out!Accept(t)
<1>1. FateOf(t) = "fresh"
  BY DEF Enqueue, FateOf
<1>2. QueueShiftedOut(txQueue) \in {{}} \cup {{q} : q \in Out!Pending}
  <2>1. CASE Len(txQueue) >= QueueSize
    <3>1. Len(txQueue) \in Nat \ {0} /\ txQueue # <<>>
      BY <2>1, QueueSizeAssumption DEF TypeOK
    <3>2. Head(txQueue) = txQueue[1] /\ 1 \in 1 .. Len(txQueue) /\ txQueue[1] \in TxPkts
      BY <3>1 DEF TypeOK
    <3>3. Head(txQueue) \in Out!Pending
      BY <3>2, PendingSame DEF Queued, InOnePlace, PendingPackets
    <3> QED BY <2>1, <3>3 DEF QueueShiftedOut
  <2>2. CASE ~(Len(txQueue) >= QueueSize)
    BY <2>2 DEF QueueShiftedOut
  <2> QED BY <2>1, <2>2
<1>3. fates' = [q \in TxPkts |->
                  IF q = t THEN "pending"
                  ELSE IF q \in QueueShiftedOut(txQueue) THEN "dropped"
                  ELSE fates[q]]
  <2> SUFFICES ASSUME NEW q \in TxPkts
               PROVE  FateOf(q)' = IF q = t THEN "pending"
                        ELSE IF q \in QueueShiftedOut(txQueue) THEN "dropped"
                        ELSE FateOf(q)
    BY DEF fates
  <2>1. txState'[q] = IF q = t THEN "pending"
                      ELSE IF q \in QueueShiftedOut(txQueue) THEN "evicted"
                      ELSE txState[q]
    BY DEF Enqueue
  <2> QED BY <2>1 DEF FateOf
<1>4. Out!Fits(Out!Pending')
  <2>1. Out!Fits(PendingPackets)'
    BY PendingFits, PTL
  <2>2. PendingPackets' = Out!Pending'
    BY DEF Out!Pending, PendingPackets, FateOf
  <2> QED BY <2>1, <2>2 DEF Out!Fits
<1>5. /\ fates[t] = "fresh"
      /\ \E dropped \in {{}} \cup {{q} : q \in Out!Pending} :
           fates' = [q \in TxPkts |-> IF q = t THEN "pending"
                                     ELSE IF q \in dropped THEN "dropped"
                                     ELSE fates[q]]
  <2>1. fates[t] = "fresh"
    BY <1>1 DEF fates
  <2> QED BY <2>1, <1>2, <1>3
<1> QED BY <1>4, <1>5 DEF Out!Accept, fates

(* A packet that becomes pending and shifts none out is accepted.          *)
LEMMA TakeAccepts ==
  ASSUME TypeOK', InOnePlace', NEW t \in TxPkts, txState[t] = "fresh",
         txState' = [txState EXCEPT ![t] = "pending"], TypeOK
  PROVE  Out!Accept(t)
<1>1. fates[t] = "fresh"
  BY DEF fates, FateOf
<1>2. fates' = [q \in TxPkts |-> IF q = t THEN "pending"
                                ELSE IF q \in {} THEN "dropped"
                                ELSE fates[q]]
  BY DEF fates, FateOf, TypeOK
<1>3. \E dropped \in {{}} \cup {{q} : q \in Out!Pending} :
        fates' = [q \in TxPkts |-> IF q = t THEN "pending"
                                  ELSE IF q \in dropped THEN "dropped"
                                  ELSE fates[q]]
  <2>1. {} \in {{}} \cup {{q} : q \in Out!Pending}
    OBVIOUS
  <2> WITNESS {} \in {{}} \cup {{q} : q \in Out!Pending}
  <2> QED BY <1>2
<1>4. Out!Fits(Out!Pending')
  <2>1. Out!Fits(PendingPackets)'
    BY PendingFits, PTL
  <2>2. PendingPackets' = Out!Pending'
    BY DEF Out!Pending, PendingPackets, FateOf
  <2> QED BY <2>1, <2>2 DEF Out!Fits
<1> QED BY <1>1, <1>3, <1>4 DEF Out!Accept, fates

(* The end of transmitPacket, and the failed wait.                         *)
LEMMA FinishSettles ==
  ASSUME TypeOK, InOnePlace, Held = pkt,
         NEW outcome \in {"sent", "failed", "abandoned"}, Finish(outcome)
  PROVE  UNCHANGED fates \/ \E t \in TxPkts : Out!Settle(t)
<1>1. CASE pkt \in TxPkts
  <2>1. txState[pkt] = "pending"
    BY <1>1 DEF InOnePlace
  <2> DEFINE settled == IF outcome = "sent" THEN "sent" ELSE "dropped"
  <2>2. fates[pkt] = "pending" /\ settled \in {"sent", "dropped"}
    BY <1>1, <2>1 DEF fates, FateOf
  <2>3. fates' = [fates EXCEPT ![pkt] = settled]
    BY <1>1 DEF fates, FateOf, Finish
  <2> HIDE DEF settled
  <2>4. Out!Settle(pkt)
    BY <2>2, <2>3 DEF Out!Settle, fates
  <2> QED BY <1>1, <2>4
<1>2. CASE pkt \notin TxPkts
  BY <1>2 DEF Finish, fates, FateOf
<1> QED BY <1>1, <1>2

(* A reboot drops what is pending.                                         *)
LEMMA ResetRestarts ==
  ASSUME Reset PROVE Out!Restart
BY DEF Reset, Out!Restart, FateOf

(* Nothing is evicted when the loop puts a packet back.                    *)
LEMMA RequeueKeeps ==
  ASSUME TypeOK, Control, WaitBusy PROVE UNCHANGED fates
<1>1. Len(txQueue) < QueueSize /\ Len(txQueue) \in Nat
  BY DEF WaitBusy, Control, TypeOK
<1>2. QueueShiftedOut(txQueue) = {}
  BY <1>1, QueueSizeAssumption DEF QueueShiftedOut
<1> QED BY <1>2 DEF WaitBusy, fates, FateOf

(* Each step of the loop is a step of Outbox or a stutter.                 *)
LEMMA LoopImplements ==
  IInv /\ IInv' /\ LoopStep => Out!Next \/ UNCHANGED fates
<1> SUFFICES ASSUME IInv, IInv', LoopStep PROVE Out!Next \/ UNCHANGED fates
  OBVIOUS
<1>0. TypeOK /\ Control /\ InOnePlace /\ TypeOK' /\ InOnePlace'
  BY DEF IInv
<1> USE DEF hardware
<1>1. CASE \/ TempRadioStays \/ AgcNotDue \/ NoReboot \/ SerialIdle
           \/ SerialAlertFails \/ NoFlag \/ ReadIrq \/ ProcessPlain
           \/ ProcessDone \/ NothingToSend \/ WaitElapses \/ TxPollDone
           \/ BeaconNotDue \/ HealthDone \/ SleepDeep \/ SleepLightOrNot
           \/ EnterDeepSleep
  BY <1>1, NothingSettled DEF TempRadioStays, AgcNotDue, NoReboot, SerialIdle,
     SerialAlertFails, NoFlag, ReadIrq, ProcessPlain, ProcessDone, NothingToSend,
     WaitElapses, TxPollDone, BeaconNotDue, HealthDone, SleepDeep,
     SleepLightOrNot, EnterDeepSleep, Move
<1>2. CASE TempRadioExpires \/ SerialTempRadio \/ ProcessTempRadio
           \/ AgcRestart \/ Rearm \/ TxEnd
  BY <1>2, NothingSettled DEF TempRadioExpires, SerialTempRadio, ProcessTempRadio,
     TempRadioCommand, AgcRestart, Rearm, TxEnd, RestartReceiver
<1>3. CASE \/ SerialAlert \/ BeaconPostSync \/ BeaconInterval \/ HealthAlert
           \/ AgcReset \/ TakeFlag \/ ReadOk \/ ReadBad \/ ReadFails
           \/ ProcessSync \/ PopPacket \/ WaitQuiet \/ FinalAborted
           \/ FinalClear \/ TxPollTimeout
  BY <1>3, NothingSettled DEF SerialAlert, BeaconPostSync, BeaconInterval,
     HealthAlert, SendAdvert, AgcReset, TakeFlag, ReadOk, ReadBad, ReadFails,
     ProcessSync, PopPacket, WaitQuiet, FinalAborted, FinalClear, TxPollTimeout
<1>4. CASE PendingReboot \/ SerialReboot \/ ErrorReboot
  BY <1>4, ResetRestarts DEF PendingReboot, SerialReboot, ErrorReboot, Out!Next
<1>5. ASSUME NEW t \in TxPkts,
             SerialAlertQueued(t) \/ HealthAlertQueued(t) \/ ProcessQueue(t)
               \/ ProcessReboot(t)
      PROVE  Out!Next
  <2>1. Enqueue(t)
    BY <1>5 DEF SerialAlertQueued, HealthAlertQueued, ProcessQueue, QueueAlert,
       ProcessReboot
  <2> QED BY <1>0, <2>1, EnqueueAccepts DEF Out!Next
<1>6. ASSUME NEW t \in TxPkts, SerialSend(t) \/ ProcessSend(t) PROVE Out!Next
  <2>1. txState[t] = "fresh" /\ txState' = [txState EXCEPT ![t] = "pending"]
    BY <1>6 DEF SerialSend, ProcessSend, SendDirectly
  <2> QED BY <1>0, <2>1, TakeAccepts DEF Out!Next
<1>7. CASE WaitBusy
  BY <1>0, <1>7, RequeueKeeps
<1>8. CASE FinalBusy \/ TxDone \/ TxTimeout \/ TxStart
  <2>1. Held = pkt
    BY <1>8 DEF FinalBusy, TxDone, TxTimeout, TxStart, Held
  <2>2. UNCHANGED txState \/ \E outcome \in {"sent", "failed", "abandoned"} :
                               Finish(outcome)
    BY <1>8 DEF FinalBusy, TxDone, TxTimeout, TxStart
  <2> QED BY <1>0, <2>1, <2>2, NothingSettled, FinishSettles DEF Out!Next
<1> QED BY <1>1, <1>2, <1>3, <1>4, <1>5, <1>6, <1>7, <1>8 DEF LoopStep

(* Seen from those who give packets to the node, the loop, its queue, its  *)
(* radio and its interrupts behave as Outbox: no path sends a packet that  *)
(* was dropped, settles one twice, or keeps more than the queue and one.   *)
THEOREM ImplementsOutbox == Spec => KeepsPromise
<1>1. Init => Out!Init
  BY DEF Init, Out!Init, FateOf
<1>2. IInv /\ IInv' /\ [Next]_vars => [Out!Next]_fates
  <2> SUFFICES ASSUME IInv, IInv', [Next]_vars PROVE Out!Next \/ UNCHANGED fates
    BY DEF fates
  <2>1. CASE UNCHANGED vars
    BY <2>1, NothingSettled DEF vars
  <2>2. CASE LoopStep
    BY <2>2, LoopImplements
  <2>3. CASE RadioStep \/ ClockStep \/ OtherInterrupt
    BY <2>3, NothingSettled DEF RadioStep, ClockStep, AirPreamble, AirHeader,
       AirEnd, FalsePreamble, TxComplete, ReceptionGrowsLate, Elapse,
       OtherInterrupt, Move
  <2> QED BY <2>1, <2>2, <2>3 DEF Next
<1>3. IInv /\ IInv' /\ [Next]_vars => [Out!Next]_([t \in TxPkts |-> FateOf(t)])
  BY <1>2 DEF fates
<1> QED BY <1>1, <1>3, Invariance, PTL DEF Spec, KeepsPromise, Out!Spec
=============================================================================
