------------------------------ MODULE RadioLoop ------------------------------
(***************************************************************************)
(* One node's main loop (setup, loop, transmitPacket, startReceive, ... in *)
(* src/main.cpp), its SX1262 radio, and the DIO1 interrupt that connects   *)
(* them.  The loop is a single thread; onDio1Rise runs between any two of  *)
(* its steps and only sets dio1Flag.  The radio has one buffer: restarting *)
(* the receiver or transmitting discards what the loop has not read yet.   *)
(*                                                                         *)
(* What a packet contains does not matter here.  RxPkts are the packets    *)
(* the neighbours send, TxPkts the ones this node forwards, answers or     *)
(* originates; each is used once, so that its fate can be followed.  The   *)
(* periodic ADVERT is one more value, Advert, which may be sent for ever.  *)
(***************************************************************************)
EXTENDS TxQueue, FiniteSets

CONSTANTS
  RxPkts,          \* packets the neighbours put on the air
  TxPkts,          \* packets this node creates, except the periodic ADVERT
  Advert,          \* the periodic ADVERT
  None,            \* no packet
  Commands,        \* what serial and remote commands are in use, see CommandKinds
  AgcEnabled,      \* configAgcResetInterval > 0
  DeepSleep,       \* deepSleepEnabled and powerSaveMode >= 1
  MaxRadioErrors,  \* MC_MAX_RADIO_ERRORS
  MaxTotalErrors,  \* MC_MAX_TOTAL_ERRORS
  MaxFaults        \* bound: how often the radio may misbehave

CommandKinds == {"send", "alert", "reboot", "tempRadio", "sync"}

ASSUME RadioLoopAssumption ==
  /\ Commands \subseteq CommandKinds
  /\ AgcEnabled \in BOOLEAN
  /\ DeepSleep \in BOOLEAN
  /\ MaxRadioErrors \in Nat \ {0}
  /\ MaxTotalErrors \in Nat \ {0}
  /\ MaxFaults \in Nat
  /\ Advert # None
  /\ Advert \notin TxPkts
  /\ None \notin TxPkts

VARIABLES
  pc,                  \* where the loop is
  ret,                 \* where transmitPacket's caller goes on
  dio1Flag,            \* set by the interrupt, cleared by the loop
  activeReceiveStart,  \* "zero", or set "running", or set long ago "late"
  txQueue,             \* global queue
  pkt,                 \* packet the loop popped or built and has not sent yet
  aborted,             \* local of loop: the wait ended with a re-queue
  timer,               \* deadlines compared with millis()
  radioErrorCount,
  errCount,
  radio,               \* hardware: "rx", "tx" or "standby"
  irq,                 \* hardware: the interrupt status register
  faults,              \* bound: faults so far
  rxState,             \* history: where each packet of RxPkts is
  txState              \* history: what became of each packet of TxPkts

loopVars == <<pc, ret, dio1Flag, activeReceiveStart, txQueue, pkt, aborted,
              timer, radioErrorCount, errCount>>
vars == <<loopVars, radio, irq, faults, rxState, txState>>

Timers == {"agc", "advert", "postSync", "tempRadio", "reboot"}

PC == {"expire", "agc", "agcRestart", "reboot", "serial", "serialAlert",
       "rxCheck", "irq", "read", "fatal", "process", "queueing", "rearm", "txCheck",
       "wait", "final", "tx", "txPoll", "txStatus", "txEnd", "beacon",
       "cleanup", "cleanupAlert", "sleepCheck", "goSleep", "asleep",
       "halted"}

(***************************************************************************)
(* The radio.                                                              *)
(***************************************************************************)
Fault == faults < MaxFaults /\ faults' = faults + 1

(* What was being received, or was received and not read, is discarded.    *)
LoseReception ==
  [p \in RxPkts |-> IF rxState[p] \in {"air", "fifo"} THEN "lost"
                                                      ELSE rxState[p]]

(* Mutant: startReceive without clearing dio1Flag and the status register. *)
StartReceive_KeepsFlag(next) ==
  /\ activeReceiveStart' = "zero"
  /\ rxState' = LoseReception
  /\ \/ radio' = "rx" /\ pc' = next /\ UNCHANGED faults
     \/ radio' = "standby" /\ pc' \in {next, "halted"} /\ Fault
  /\ UNCHANGED <<dio1Flag, irq>>

(* startReceive.  When startReceiveDutyCycleAuto fails, the radio is reset *)
(* and set up again, which leaves it in standby; setupRadio never returns  *)
(* if radio.begin fails.                                                   *)
StartReceive(next) ==
  /\ dio1Flag' = FALSE
  /\ activeReceiveStart' = "zero"
  /\ irq' = {}
  /\ rxState' = LoseReception
  /\ \/ radio' = "rx" /\ pc' = next /\ UNCHANGED faults
     \/ radio' = "standby" /\ pc' \in {next, "halted"} /\ Fault

(* Preamble, header, end of a packet, and a preamble that is noise.        *)
AirPreamble(p) ==
  /\ radio = "rx"
  /\ rxState[p] = "unsent"
  /\ \A q \in RxPkts : rxState[q] # "air"
  /\ rxState' = [rxState EXCEPT ![p] = "air"]
  /\ irq' = irq \cup {"PREAMBLE"}
  /\ UNCHANGED <<loopVars, radio, faults, txState>>

AirHeader(p) ==
  /\ rxState[p] = "air"
  /\ "HEADER" \notin irq
  /\ irq' = irq \cup {"HEADER"}
  /\ UNCHANGED <<loopVars, radio, faults, rxState, txState>>

(* onDio1Rise: the interrupt sets the flag and ends a sleep.               *)
OnDio1Rise ==
  /\ dio1Flag' = TRUE
  /\ pc' = IF pc = "asleep" THEN "expire" ELSE pc
  /\ UNCHANGED <<ret, activeReceiveStart, txQueue, pkt, aborted, timer,
                 radioErrorCount, errCount>>

(* After RX_DONE a duty-cycle receiver stays in standby.                   *)
AirEnd(p) ==
  /\ rxState[p] = "air"
  /\ "HEADER" \in irq
  /\ rxState' = [rxState EXCEPT ![p] = "fifo"]
  /\ irq' = irq \cup {"RX_DONE"}
  /\ radio' = "standby"
  /\ OnDio1Rise
  /\ UNCHANGED <<faults, txState>>

FalsePreamble ==
  /\ radio = "rx"
  /\ "PREAMBLE" \notin irq
  /\ Fault
  /\ irq' = irq \cup {"PREAMBLE"}
  /\ UNCHANGED <<loopVars, radio, rxState, txState>>

TxComplete ==
  /\ radio = "tx"
  /\ irq' = irq \cup {"TX_DONE"}
  /\ radio' = "standby"
  /\ OnDio1Rise
  /\ UNCHANGED <<faults, rxState, txState>>

(***************************************************************************)
(* Time.  A deadline is armed, then passes; activeReceiveStart grows old.  *)
(***************************************************************************)
Elapse(t) ==
  /\ timer[t] = "armed"
  /\ timer' = [timer EXCEPT ![t] = "due"]
  /\ UNCHANGED <<pc, ret, dio1Flag, activeReceiveStart, txQueue, pkt, aborted,
                 radioErrorCount, errCount, radio, irq, faults, rxState, txState>>

ReceptionGrowsLate ==
  /\ activeReceiveStart = "running"
  /\ activeReceiveStart' = "late"
  /\ UNCHANGED <<pc, ret, dio1Flag, txQueue, pkt, aborted, timer,
                 radioErrorCount, errCount, radio, irq, faults, rxState, txState>>

(* isActivelyReceiving: its possible results and new activeReceiveStart.   *)
(* Detection without a header is given up after two preambles; with one,   *)
(* after the longest packet (which "late" may or may not have reached).    *)
ActivelyReceiving ==
  IF irq \cap {"PREAMBLE", "HEADER"} = {}
  THEN {[busy |-> FALSE, start |-> activeReceiveStart]}
  ELSE IF activeReceiveStart # "late"
  THEN {[busy |-> TRUE, start |-> "running"]}
  ELSE {[busy |-> FALSE, start |-> "zero"]}
         \cup (IF "HEADER" \in irq THEN {[busy |-> TRUE, start |-> "late"]}
                                   ELSE {})

(***************************************************************************)
(* Creating, queueing and directly sending packets.                        *)
(***************************************************************************)
Enqueue(t) ==
  /\ txState[t] = "fresh"
  /\ txQueue' = QueueAdd(txQueue, t)
  /\ txState' = [p \in TxPkts |->
                   IF p = t THEN "pending"
                   ELSE IF p \in QueueShiftedOut(txQueue) THEN "evicted"
                   ELSE txState[p]]

(* sendPing, sendDirectedPing, sendDirectedTrace, sendAdvert: the packet   *)
(* skips the queue and the wait.                                           *)
SendDirectly(t, next) ==
  /\ txState[t] = "fresh"
  /\ txState' = [txState EXCEPT ![t] = "pending"]
  /\ pkt' = t
  /\ pc' = "tx"
  /\ ret' = next

SendAdvert(next) ==
  /\ pkt' = Advert
  /\ pc' = "tx"
  /\ ret' = next
  /\ UNCHANGED txState

(* The last lines of transmitPacket: the packet is sent or it is dropped.  *)
Finish(outcome) ==
  /\ pkt' = None
  /\ txState' = [t \in TxPkts |-> IF t = pkt THEN outcome ELSE txState[t]]

(* A reset of the microcontroller, then setup().                           *)
TimersAtBoot ==
  [t \in Timers |-> IF t = "agc" /\ AgcEnabled THEN "armed" ELSE "off"]

Reset ==
  /\ ret' = "beacon"
  /\ txQueue' = <<>>
  /\ pkt' = None
  /\ aborted' = FALSE
  /\ timer' = TimersAtBoot
  /\ radioErrorCount' = 0
  /\ errCount' = 0
  /\ txState' = [t \in TxPkts |-> IF txState[t] = "pending" THEN "reset"
                                                            ELSE txState[t]]
  /\ StartReceive("expire")

(***************************************************************************)
(* loop(), from top to bottom.                                             *)
(***************************************************************************)
hardware == <<radio, irq, faults, rxState>>

(* A step that only moves on.                                              *)
Move(from, to) ==
  /\ pc = from
  /\ pc' = to
  /\ UNCHANGED <<ret, dio1Flag, activeReceiveStart, txQueue, pkt, aborted,
                 timer, radioErrorCount, errCount, hardware, txState>>

(* A step that only restarts the receiver.                                 *)
RestartReceiver(from, to) ==
  /\ pc = from
  /\ StartReceive(to)
  /\ UNCHANGED <<ret, txQueue, pkt, aborted, radioErrorCount, errCount, txState>>

(* tempRadioExpireTime.                                                    *)
TempRadioExpires ==
  /\ timer["tempRadio"] = "due"
  /\ timer' = [timer EXCEPT !["tempRadio"] = "off"]
  /\ RestartReceiver("expire", "agc")

TempRadioStays ==
  /\ timer["tempRadio"] # "due"
  /\ Move("expire", "agc")

(* Mutant: the timer is not set again after a reset.                       *)
AgcReset_Once ==
  /\ pc = "agc"
  /\ timer["agc"] = "due"
  /\ timer' = [timer EXCEPT !["agc"] = "off"]
  /\ pc' = IF dio1Flag THEN "reboot" ELSE "agcRestart"
  /\ UNCHANGED <<ret, dio1Flag, activeReceiveStart, txQueue, pkt, aborted,
                 radioErrorCount, errCount, hardware, txState>>

(* The AGC reset restarts the receiver unless a packet waits; the test and *)
(* the restart are two steps, an interrupt fits between them.              *)
AgcReset ==
  /\ pc = "agc"
  /\ timer["agc"] = "due"
  /\ timer' = [timer EXCEPT !["agc"] = "armed"]
  /\ pc' = IF dio1Flag THEN "reboot" ELSE "agcRestart"
  /\ UNCHANGED <<ret, dio1Flag, activeReceiveStart, txQueue, pkt, aborted,
                 radioErrorCount, errCount, hardware, txState>>

AgcNotDue == timer["agc"] # "due" /\ Move("agc", "reboot")

AgcRestart == RestartReceiver("agcRestart", "reboot") /\ UNCHANGED timer

(* pendingReboot and rebootTime.                                           *)
PendingReboot == pc = "reboot" /\ timer["reboot"] = "due" /\ Reset

NoReboot == timer["reboot"] # "due" /\ Move("reboot", "serial")

(* checkSerial.                                                            *)
SerialIdle == Move("serial", "rxCheck")

SerialSend(t) ==
  /\ pc = "serial"
  /\ "send" \in Commands
  /\ SendDirectly(t, "rxCheck")
  /\ UNCHANGED <<dio1Flag, activeReceiveStart, txQueue, aborted, timer,
                 radioErrorCount, errCount, hardware>>

(* "alert test": sendAlertAsChatNode sends an ADVERT, then queues the text.*)
SerialAlert ==
  /\ pc = "serial"
  /\ "alert" \in Commands
  /\ timer["advert"] # "off"
  /\ SendAdvert("serialAlert")
  /\ UNCHANGED <<dio1Flag, activeReceiveStart, txQueue, aborted, timer,
                 radioErrorCount, errCount, hardware>>

SerialReboot == pc = "serial" /\ "reboot" \in Commands /\ Reset

TempRadioCommand(from, to) ==
  /\ "tempRadio" \in Commands
  /\ timer["tempRadio"] = "off"
  /\ timer' = [timer EXCEPT !["tempRadio"] = "armed"]
  /\ RestartReceiver(from, to)

SerialTempRadio == TempRadioCommand("serial", "rxCheck")

(* sendEncryptedToAdmin, the second half of an alert.                      *)
QueueAlert(t, from, to) ==
  /\ pc = from
  /\ pc' = to
  /\ Enqueue(t)
  /\ UNCHANGED <<ret, dio1Flag, activeReceiveStart, pkt, aborted, timer,
                 radioErrorCount, errCount, hardware>>

SerialAlertQueued(t) == QueueAlert(t, "serialAlert", "rxCheck")
SerialAlertFails     == Move("serialAlert", "rxCheck")

(* The received-packet block: the flag is cleared first, then the status   *)
(* register is read.                                                       *)
TakeFlag ==
  /\ pc = "rxCheck"
  /\ dio1Flag
  /\ dio1Flag' = FALSE
  /\ pc' = "irq"
  /\ UNCHANGED <<ret, activeReceiveStart, txQueue, pkt, aborted, timer,
                 radioErrorCount, errCount, hardware, txState>>

NoFlag == ~dio1Flag /\ Move("rxCheck", "txCheck")

(* Mutant: only TX_DONE is looked at.                                      *)
ReadIrq_IgnoresRx ==
  Move("irq", IF "TX_DONE" \in irq THEN "rearm" ELSE "txCheck")

ReadIrq ==
  Move("irq", IF "RX_DONE" \in irq THEN "read"
              ELSE IF "TX_DONE" \in irq THEN "rearm" ELSE "txCheck")

(* readData and deserialize succeed: the packet is in memory.              *)
ReadOk ==
  /\ pc = "read"
  /\ pc' = "process"
  /\ activeReceiveStart' = "zero"
  /\ radioErrorCount' = 0
  /\ rxState' = [p \in RxPkts |-> IF rxState[p] = "fifo" THEN "read"
                                                         ELSE rxState[p]]
  /\ UNCHANGED <<ret, dio1Flag, txQueue, pkt, aborted, timer, errCount,
                 radio, irq, faults, txState>>

(* A CRC mismatch, which counts nothing here, or a packet deserialize      *)
(* rejects, which counts one error.                                        *)
ReadBad ==
  /\ pc = "read"
  /\ Fault
  /\ pc' = "rearm"
  /\ activeReceiveStart' = "zero"
  /\ rxState' = [p \in RxPkts |-> IF rxState[p] = "fifo" THEN "bad"
                                                         ELSE rxState[p]]
  /\ \/ UNCHANGED <<radioErrorCount, errCount>>
     \/ radioErrorCount' = 0 /\ errCount' = errCount + 1
  /\ UNCHANGED <<ret, dio1Flag, txQueue, pkt, aborted, timer, radio, irq,
                 txState>>

(* readData fails: handleRadioError counts, sets the radio up again at the *)
(* one limit (setupRadio may not return), and resets the node at the other.*)
RadioErrorLimit == radioErrorCount + 1 >= MaxRadioErrors
TotalErrorLimit == errCount + 1 >= MaxTotalErrors

ReadFails ==
  /\ pc = "read"
  /\ Fault
  /\ errCount' = errCount + 1
  /\ radioErrorCount' = IF RadioErrorLimit THEN 0 ELSE radioErrorCount + 1
  /\ irq' = IF RadioErrorLimit THEN {} ELSE irq
  /\ pc' \in {IF TotalErrorLimit THEN "fatal" ELSE "rearm"}
              \cup (IF RadioErrorLimit THEN {"halted"} ELSE {})
  /\ activeReceiveStart' = "zero"
  /\ rxState' = [p \in RxPkts |-> IF rxState[p] = "fifo" THEN "bad"
                                                         ELSE rxState[p]]
  /\ UNCHANGED <<ret, dio1Flag, txQueue, pkt, aborted, timer, radio, txState>>

(* handleRadioError at the other limit.                                    *)
ErrorReboot == pc = "fatal" /\ Reset

(* processReceivedPacket.  It queues any number of packets: a forwarded    *)
(* one, an answer, mail for a node that came back.  Some packets carry a   *)
(* command that does more before the answer is queued.                     *)
ProcessPlain == Move("process", "queueing")

ProcessSend(t) ==
  /\ pc = "process"
  /\ "send" \in Commands
  /\ SendDirectly(t, "queueing")
  /\ UNCHANGED <<dio1Flag, activeReceiveStart, txQueue, aborted, timer,
                 radioErrorCount, errCount, hardware>>

ProcessTempRadio == TempRadioCommand("process", "queueing")

(* The answer to reboot is queued and the reboot scheduled 500 ms ahead.   *)
ProcessReboot(t) ==
  /\ pc = "process"
  /\ "reboot" \in Commands
  /\ Enqueue(t)
  /\ timer' = [timer EXCEPT !["reboot"] = "armed"]
  /\ pc' = "queueing"
  /\ UNCHANGED <<ret, dio1Flag, activeReceiveStart, pkt, aborted,
                 radioErrorCount, errCount, hardware>>

(* An ADVERT that synchronises the clock schedules our own ADVERT.         *)
ProcessSync ==
  /\ pc = "process"
  /\ "sync" \in Commands
  /\ timer' = [timer EXCEPT !["postSync"] = "armed",
                            !["advert"] = IF @ = "off" THEN "armed" ELSE @]
  /\ pc' = "queueing"
  /\ UNCHANGED <<ret, dio1Flag, activeReceiveStart, txQueue, pkt, aborted,
                 radioErrorCount, errCount, hardware, txState>>

ProcessQueue(t) == QueueAlert(t, "queueing", "queueing")

ProcessDone == Move("queueing", "rearm")

Rearm == RestartReceiver("rearm", "txCheck") /\ UNCHANGED timer

(* The TX block: take the oldest packet, wait, look again, transmit.       *)
PopPacket ==
  /\ pc = "txCheck"
  /\ txQueue # <<>>
  /\ ~dio1Flag
  /\ pkt' = QueueFront(txQueue)
  /\ txQueue' = QueueRest(txQueue)
  /\ activeReceiveStart' = "zero"
  /\ aborted' = FALSE
  /\ pc' = "wait"
  /\ UNCHANGED <<ret, dio1Flag, timer, radioErrorCount, errCount, hardware, txState>>

NothingToSend == (txQueue = <<>> \/ dio1Flag) /\ Move("txCheck", "beacon")

(* dio1Flag || isActivelyReceiving(), the second evaluated only if needed. *)
ChannelBusy ==
  \/ dio1Flag /\ UNCHANGED activeReceiveStart
  \/ /\ ~dio1Flag
     /\ \E a \in ActivelyReceiving : a.busy /\ activeReceiveStart' = a.start

ChannelQuiet ==
  /\ ~dio1Flag
  /\ \E a \in ActivelyReceiving : ~a.busy /\ activeReceiveStart' = a.start

(* Mutant: the wait is abandoned without putting the packet back.          *)
WaitBusy_NoRequeue ==
  /\ pc = "wait"
  /\ ChannelBusy
  /\ aborted' = TRUE
  /\ pc' = "final"
  /\ UNCHANGED <<ret, dio1Flag, txQueue, txState, pkt, timer, radioErrorCount,
                 errCount, hardware>>

(* The channel is busy: the packet goes back into the queue.  The local    *)
(* copy stays until the end of the block.                                  *)
WaitBusy ==
  /\ pc = "wait"
  /\ ChannelBusy
  /\ txQueue' = QueueAdd(txQueue, pkt)
  /\ txState' = [t \in TxPkts |-> IF t \in QueueShiftedOut(txQueue)
                                  THEN "evicted" ELSE txState[t]]
  /\ aborted' = TRUE
  /\ pc' = "final"
  /\ UNCHANGED <<ret, dio1Flag, pkt, timer, radioErrorCount, errCount, hardware>>

WaitQuiet ==
  /\ pc = "wait"
  /\ ChannelQuiet
  /\ UNCHANGED <<pc, ret, dio1Flag, txQueue, pkt, aborted, timer,
                 radioErrorCount, errCount, hardware, txState>>

WaitElapses == Move("wait", "final")

(* The test after the wait.  When it fails without an abort, the packet    *)
(* has been popped and is dropped.                                         *)
FinalAborted ==
  /\ pc = "final"
  /\ aborted
  /\ pkt' = None
  /\ pc' = "txEnd"
  /\ ret' = "beacon"
  /\ UNCHANGED <<dio1Flag, activeReceiveStart, txQueue, aborted, timer,
                 radioErrorCount, errCount, hardware, txState>>

(* Mutant: transmits although the packet was put back into the queue.      *)
FinalClear_AfterAbort ==
  /\ pc = "final"
  /\ ChannelQuiet
  /\ pc' = "tx"
  /\ ret' = "beacon"
  /\ UNCHANGED <<dio1Flag, txQueue, pkt, aborted, timer, radioErrorCount,
                 errCount, hardware, txState>>

FinalClear ==
  /\ pc = "final"
  /\ ~aborted
  /\ ChannelQuiet
  /\ pc' = "tx"
  /\ ret' = "beacon"
  /\ UNCHANGED <<dio1Flag, txQueue, pkt, aborted, timer, radioErrorCount,
                 errCount, hardware, txState>>

FinalBusy ==
  /\ pc = "final"
  /\ ~aborted
  /\ ChannelBusy
  /\ Finish("abandoned")
  /\ pc' = "txEnd"
  /\ ret' = "beacon"
  /\ UNCHANGED <<dio1Flag, txQueue, aborted, timer, radioErrorCount, errCount, hardware>>

(* transmitPacket: finishTransmit, startTransmit, poll for DIO1 or the     *)
(* timeout, read the status.  serialize fails for no packet the node makes *)
(* or accepts.                                                             *)
TxStart ==
  /\ pc = "tx"
  /\ dio1Flag' = FALSE
  /\ irq' = {}
  /\ rxState' = LoseReception
  /\ \/ radio' = "tx" /\ pc' = "txPoll" /\ UNCHANGED <<faults, pkt, txState>>
     \/ radio' = "standby" /\ pc' = "txEnd" /\ Fault /\ Finish("failed")
  /\ UNCHANGED <<ret, activeReceiveStart, txQueue, aborted, timer,
                 radioErrorCount, errCount>>

TxPollDone == dio1Flag /\ Move("txPoll", "txStatus")

TxPollTimeout ==
  /\ pc = "txPoll"
  /\ Fault
  /\ pc' = "txStatus"
  /\ UNCHANGED <<ret, dio1Flag, activeReceiveStart, txQueue, pkt, aborted, timer,
                 radioErrorCount, errCount, radio, irq, rxState, txState>>

(* Success; for the periodic ADVERT also markSent.                         *)
TxDone ==
  /\ pc = "txStatus"
  /\ "TX_DONE" \in irq
  /\ Finish("sent")
  /\ timer' = IF pkt = Advert /\ timer["advert"] = "due"
              THEN [timer EXCEPT !["advert"] = "armed"] ELSE timer
  /\ pc' = "txEnd"
  /\ UNCHANGED <<ret, dio1Flag, activeReceiveStart, txQueue, aborted,
                 radioErrorCount, errCount, hardware>>

TxTimeout ==
  /\ pc = "txStatus"
  /\ "TX_DONE" \notin irq
  /\ Finish("failed")
  /\ errCount' = errCount + 1
  /\ pc' = "txEnd"
  /\ UNCHANGED <<ret, dio1Flag, activeReceiveStart, txQueue, aborted, timer,
                 radioErrorCount, hardware>>

(* Mutant: a transmission ends without startReceive.                       *)
TxEnd_NoRestart == Move("txEnd", ret)

(* Every transmission, and every failed wait, ends with startReceive.      *)
TxEnd == RestartReceiver("txEnd", ret) /\ UNCHANGED timer

(* checkAdvertBeacon.                                                      *)
BeaconPostSync ==
  /\ pc = "beacon"
  /\ timer["postSync"] = "due"
  /\ timer' = [timer EXCEPT !["postSync"] = "off"]
  /\ SendAdvert("cleanup")
  /\ UNCHANGED <<dio1Flag, activeReceiveStart, txQueue, aborted,
                 radioErrorCount, errCount, hardware>>

BeaconInterval ==
  /\ pc = "beacon"
  /\ timer["postSync"] # "due"
  /\ timer["advert"] = "due"
  /\ SendAdvert("cleanup")
  /\ UNCHANGED <<dio1Flag, activeReceiveStart, txQueue, aborted, timer,
                 radioErrorCount, errCount, hardware>>

BeaconNotDue ==
  /\ timer["postSync"] # "due"
  /\ timer["advert"] # "due"
  /\ Move("beacon", "cleanup")

(* healthCheck: for each node found offline an ADVERT, then an alert.      *)
HealthAlert ==
  /\ pc = "cleanup"
  /\ "alert" \in Commands
  /\ timer["advert"] # "off"
  /\ \E t \in TxPkts : txState[t] = "fresh"
  /\ SendAdvert("cleanupAlert")
  /\ UNCHANGED <<dio1Flag, activeReceiveStart, txQueue, aborted, timer,
                 radioErrorCount, errCount, hardware>>

HealthAlertQueued(t) == QueueAlert(t, "cleanupAlert", "cleanup")

HealthDone == Move("cleanup", "sleepCheck")

(* Power saving.  The flag is read, then the processor sleeps until an     *)
(* interrupt: of DIO1, or of a timer or the UART.                          *)
SleepDeep ==
  DeepSleep /\ txQueue = <<>> /\ ~dio1Flag /\ Move("sleepCheck", "goSleep")

SleepLightOrNot == Move("sleepCheck", "expire")

EnterDeepSleep == Move("goSleep", "asleep")

OtherInterrupt == Move("asleep", "expire")

(***************************************************************************)
(* The specification.                                                      *)
(***************************************************************************)
LoopStep ==
  \/ TempRadioExpires \/ TempRadioStays
  \/ AgcReset \/ AgcNotDue \/ AgcRestart
  \/ PendingReboot \/ NoReboot
  \/ SerialIdle \/ SerialAlert \/ SerialReboot \/ SerialTempRadio
  \/ SerialAlertFails
  \/ \E t \in TxPkts : SerialSend(t) \/ SerialAlertQueued(t)
  \/ TakeFlag \/ NoFlag \/ ReadIrq
  \/ ReadOk \/ ReadBad \/ ReadFails \/ ErrorReboot
  \/ ProcessPlain \/ ProcessTempRadio \/ ProcessSync \/ ProcessDone
  \/ \E t \in TxPkts : ProcessSend(t) \/ ProcessReboot(t) \/ ProcessQueue(t)
  \/ Rearm
  \/ PopPacket \/ NothingToSend
  \/ WaitBusy \/ WaitQuiet \/ WaitElapses
  \/ FinalAborted \/ FinalClear \/ FinalBusy
  \/ TxStart \/ TxPollDone \/ TxPollTimeout \/ TxDone \/ TxTimeout \/ TxEnd
  \/ BeaconPostSync \/ BeaconInterval \/ BeaconNotDue
  \/ HealthAlert \/ HealthDone
  \/ \E t \in TxPkts : HealthAlertQueued(t)
  \/ SleepDeep \/ SleepLightOrNot \/ EnterDeepSleep

RadioStep ==
  \/ \E p \in RxPkts : AirPreamble(p) \/ AirHeader(p) \/ AirEnd(p)
  \/ FalsePreamble
  \/ TxComplete

ClockStep == ReceptionGrowsLate \/ \E t \in Timers : Elapse(t)

Next == LoopStep \/ RadioStep \/ ClockStep \/ OtherInterrupt

(* setup() ends with startReceive; the loop then runs from its top.        *)
Init ==
  /\ pc = "expire"
  /\ ret = "beacon"
  /\ dio1Flag = FALSE
  /\ activeReceiveStart = "zero"
  /\ txQueue = <<>>
  /\ pkt = None
  /\ aborted = FALSE
  /\ timer = TimersAtBoot
  /\ radioErrorCount = 0
  /\ errCount = 0
  /\ radio = "rx"
  /\ irq = {}
  /\ faults = 0
  /\ rxState = [p \in RxPkts |-> "unsent"]
  /\ txState = [t \in TxPkts |-> "fresh"]

Spec == Init /\ [][Next]_vars

(* The loop never stops by itself, time passes, and a transmission, ours   *)
(* or a neighbour's, ends.  Nobody has to send, and no fault has to occur. *)
Fairness ==
  /\ WF_vars(LoopStep)
  /\ WF_vars(TxComplete)
  /\ \A t \in Timers : WF_vars(Elapse(t))
  /\ \A p \in RxPkts : WF_vars(AirHeader(p)) /\ WF_vars(AirEnd(p))

FairSpec == Spec /\ Fairness

(***************************************************************************)
(* Properties.                                                             *)
(***************************************************************************)
TypeOK ==
  /\ pc \in PC /\ ret \in PC
  /\ dio1Flag \in BOOLEAN /\ aborted \in BOOLEAN
  /\ activeReceiveStart \in {"zero", "running", "late"}
  /\ txQueue \in Seq(TxPkts) /\ Len(txQueue) <= QueueSize
  /\ pkt \in TxPkts \cup {Advert, None}
  /\ timer \in [Timers -> {"off", "armed", "due"}]
  /\ radioErrorCount \in Nat /\ errCount \in Nat
  /\ radio \in {"rx", "tx", "standby"}
  /\ irq \subseteq {"PREAMBLE", "HEADER", "RX_DONE", "TX_DONE"}
  /\ faults \in 0 .. MaxFaults
  /\ rxState \in [RxPkts -> {"unsent", "air", "fifo", "read", "bad", "lost"}]
  /\ txState \in [TxPkts -> {"fresh", "pending", "sent", "failed", "evicted",
                             "abandoned", "reset"}]

(* The packet the loop still has to deal with.                             *)
Held == IF pc = "final" /\ aborted THEN None ELSE pkt

(* A packet this node undertook to send is in exactly one place: waiting   *)
(* in the queue once, or held by the loop.  So no packet is both re-queued *)
(* and transmitted, none is sent twice, and none disappears without one of *)
(* the recorded outcomes (the re-queue and the TX block of loop).          *)
InOnePlace ==
  /\ \A t \in TxPkts :
       txState[t] = "pending" <=> (t \in Queued(txQueue) \/ t = Held)
  /\ Held \notin Queued(txQueue)
  /\ Distinct(txQueue)

(* While the loop holds a packet nothing else can be queued, so putting it *)
(* back never shifts another packet out (the re-queue of loop).            *)
RequeueNeverEvicts ==
  [][pc = "wait" => \A t \in TxPkts : txState'[t] = txState[t]]_vars

(* Whenever the loop reads the radio's buffer, the buffer holds a packet   *)
(* that was not read before: a stale flag or status never makes the node   *)
(* process a packet twice (the flag and status handling around readData).  *)
ReadsAnUnreadPacket == pc = "read" => \E p \in RxPkts : rxState[p] = "fifo"

(* The loop discards a packet only while its interrupt is still pending:   *)
(* once it has seen the flag it reads the buffer before anything restarts  *)
(* the radio, unless reading fails (the received-packet block,             *)
(* startReceive, transmitPacket).                                          *)
DiscardsOnlyUnseen ==
  [][\A p \in RxPkts :
       rxState[p] = "fifo" /\ rxState'[p] = "lost" => dio1Flag \/ pc = "read"]_vars

(* Without a fault the node is never deaf: outside a transmission and the  *)
(* handling of a received packet, the receiver is on, or a packet waits    *)
(* and the flag says so.  So no path through loop forgets to restart the   *)
(* receiver, and no path clears the flag without reading or restarting.    *)
ListensOrHasPacket ==
  faults = 0 /\ pc \notin {"irq", "read", "process", "queueing", "rearm", "tx",
                          "txPoll", "txStatus", "txEnd"}
    => radio = "rx" \/ (dio1Flag /\ "RX_DONE" \in irq)

(* Every packet the node undertook to send is eventually sent or dropped:  *)
(* re-queueing on a busy channel does not go on for ever when the channel  *)
(* does not stay busy for ever (the re-queue of loop).                     *)
QueueDrains ==
  \A t \in TxPkts : txState[t] = "pending" ~> (txState[t] # "pending" \/ pc = "halted")

(* The receiver is on again and again, whatever fails (startReceive,       *)
(* handleRadioError and, when enabled, the AGC reset).                     *)
HearsAgain == []<>(radio = "rx" \/ pc = "halted")

(* The transmit path keeps the promise of Outbox: each packet is accepted  *)
(* once and settled once, one at a time except when a full queue takes a   *)
(* new one or the node restarts, and no more are in its hands than the     *)
(* queue has slots and one (the queue, the TX block of loop and            *)
(* transmitPacket together).                                               *)
FateOf(t) ==
  IF txState[t] \in {"fresh", "pending", "sent"} THEN txState[t] ELSE "dropped"

Out == INSTANCE Outbox WITH
  Packets <- TxPkts, Capacity <- QueueSize + 1,
  fate <- [t \in TxPkts |-> FateOf(t)]

KeepsPromise == Out!Spec
=============================================================================
