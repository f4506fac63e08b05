------------------------------ MODULE Mailbox ------------------------------
(***************************************************************************)
(* The store-and-forward mailbox (mesh/Mailbox.h) with its users: the      *)
(* packet handler that stores for nodes that are away, the ADVERT handler  *)
(* that delivers when one comes back, the clean-up every minute, and the   *)
(* EEPROM, which it shares with the region map (mesh/RegionMap.h).         *)
(*                                                                         *)
(* A packet is a record: its destination (dest), its content (body), the   *)
(* path it came by (path) and its serialized length (len).  The ADVERT     *)
(* handler and the clean-up are one step for each commit() and each packet *)
(* queued, and power may be lost between any two; a commit() may fail, and *)
(* the mailbox never looks at its result.                                  *)
(***************************************************************************)
EXTENDS Eeprom, Integers, FiniteSetsExt, TxQueue

CONSTANTS
  Scenes,       \* records: packets for other nodes that this node may
                \* receive, regions (region maps that the owner may configure),
                \* and bounds: stores, on how often a packet is stored, until,
                \* on the clock, failures, on the commits that fail, and
                \* others, on what is queued besides deliveries
  Nothing,      \* an empty slot, an empty region map
  RamSlots,     \* MAILBOX_RAM_SLOTS
  Alignment,    \* how the compiler aligns a uint32_t
  KnownAt,      \* packets after which a node counts as known (2)
  TTL           \* MAILBOX_TTL_SEC, in units of the clock

ASSUME MailboxAssumption ==
  /\ RamSlots \in Nat \ {0}
  /\ Alignment \in {1, 2, 4}
  /\ KnownAt \in Nat \ {0} /\ TTL \in Nat
  /\ Blank \notin Nat
  /\ \A s \in Scenes :
       /\ \A p \in s.packets : p.len \in Nat
       /\ Nothing \notin s.regions
       /\ Nothing \notin [pkt : s.packets, time : 0 .. s.until]
       /\ Nothing \notin [pkt : s.packets, damaged : BOOLEAN]
       /\ s.stores \in Nat /\ s.until \in Nat /\ s.failures \in Nat /\ s.others \in Nat

VARIABLES
  slots,        \* the slots in RAM: first the two that the EEPROM has too
  count,        \* header.count
  tail,         \* what slot 2 holds in RAM where the region map starts
  eeprom,       \* the EEPROM's buffer and its flash
  regionMap,    \* regionMap in RAM: its first 12 saved bytes and the others
  now, synced,  \* timeSync.getTimestamp(), isSynchronized()
  heard, quiet, \* seenNodes: packets heard (to KnownAt), silent for long
  txq,          \* txQueue
  task,         \* what the handler or the clean-up is in the middle of
  failures,     \* how many commits failed so far
  scene,        \* the scene, which never changes
  stored,       \* history: how often store() took each packet
  queued,       \* history: how often each went undamaged to txQueue
  undone,       \* history: restarts that found less than what was put
  saved,        \* history: the region map last saved
  overlaid      \* history: packets in slot 2 when the region map was saved

mailbox == <<slots, count, tail>>
memory  == <<eeprom, failures>>
clock   == <<now, synced>>
nodes   == <<heard, quiet>>
regions == <<regionMap, saved, overlaid>>
counts  == <<stored, queued>>

vars == <<mailbox, memory, clock, nodes, regions, counts, undone, txq, task, scene>>

(***************************************************************************)
(* The layout of the EEPROM, in bytes.                                     *)
(***************************************************************************)
AlignUp(n)  == ((n + Alignment - 1) \div Alignment) * Alignment

(* MailboxSlot: destHash, timestamp, pktLen, pktData[76], padding.         *)
PktDataAt == AlignUp(1) + 5
SlotSize  == AlignUp(PktDataAt + 76)
SlotAt(i) == 340 + 8 + (i - 1) * SlotSize
RegionAt  == 512

(* Whether writing slot 2 writes over the region map's first bytes, and    *)
(* whether a packet in slot 2 extends into them.                           *)
SlotsReachRegion == SlotAt(3) > RegionAt
IsLong(p) == SlotAt(2) + PktDataAt + p.len > RegionAt

Dests == {p.dest : p \in scene.packets}

(* The bytes that both claim.                                              *)
Zero       == <<"zero", Nothing>>
TailOf(p)  == <<"packet", p>>
HeadOf(r)  == <<"region", r>>

(* A region map is saved as a head, the bytes that slot 2 reaches, and the *)
(* rest; the two may come from different saves.                            *)
RegionMapOf(r) == [head |-> r, rest |-> r]
NoRegions      == RegionMapOf(Nothing)

(***************************************************************************)
(* Slots: the places 1 and 2 are in the EEPROM too, the others in RAM only.*)
(***************************************************************************)
InEeprom == 1 .. 2
InRam    == 3 .. 2 + RamSlots
Places   == InEeprom \cup InRam

Slot(p) == [pkt |-> p, time |-> now]
Full(s) == s # Nothing

(* How many of the slots of an EEPROM are in use.                          *)
Used(s) == Cardinality({i \in InEeprom : Full(s[i])})

(* Whether place i holds other bytes than those of the packet that was     *)
(* stored there, t being what slot 2 has where the region map starts.      *)
Damaged(s, t, i) == i = 2 /\ IsLong(s[i].pkt) /\ t # TailOf(s[i].pkt)
Holds(s, t, i, p) == Full(s[i]) /\ s[i].pkt = p /\ ~Damaged(s, t, i)

IsDuplicate(p) == \E i \in Places : Holds(slots, tail, i, p)

(***************************************************************************)
(* Writing.  The callers ignore what commit() returns, so that the buffer  *)
(* is ahead of the flash until a later commit, whoever's, succeeds.        *)
(***************************************************************************)
Commit(e) ==
  \/ eeprom' = Flushed(e) /\ UNCHANGED failures
  \/ failures < scene.failures /\ eeprom' = e /\ failures' = failures + 1

(* A put of slot 2 also puts its last bytes, whatever its pktLen.          *)
WithSlot(mem, i, slot, c, t) ==
  [mem EXCEPT !.slots[i] = slot, !.count = c,
              !.shared = IF i = 2 /\ SlotsReachRegion THEN t ELSE @]

(* writeSlot: the slot, then the header.                                   *)
WriteSlot(i, slot, c, t) ==
  Commit([eeprom EXCEPT !.buffer = WithSlot(@, i, slot, c, t)])

(* clear, and load without a header: header and both slots.                *)
Emptied(mem) ==
  [mem EXCEPT !.slots = <<Nothing, Nothing>>, !.count = 0,
              !.shared = IF SlotsReachRegion THEN Zero ELSE @]

(* Mutant: the EEPROM keeps what is popped or expired.                     *)
Take_RamOnly(i) ==
  /\ slots' = [slots EXCEPT ![i] = Nothing]
  /\ count' = IF i \in InEeprom /\ count > 0 THEN count - 1 ELSE count
  /\ UNCHANGED <<tail, memory>>

(* Mutant: header.count is not decremented.                                *)
Take_KeepsCount(i) ==
  /\ slots' = [slots EXCEPT ![i] = Nothing]
  /\ UNCHANGED <<tail, count>>
  /\ IF i \in InEeprom THEN WriteSlot(i, Nothing, count, tail) ELSE UNCHANGED memory

(* Emptying a place: its pktLen, the count, the EEPROM.                    *)
Take(i) ==
  /\ slots' = [slots EXCEPT ![i] = Nothing]
  /\ UNCHANGED tail
  /\ IF i \in InEeprom
     THEN /\ count' = IF count > 0 THEN count - 1 ELSE 0
          /\ WriteSlot(i, Nothing, count', tail)
     ELSE UNCHANGED <<count, memory>>

(***************************************************************************)
(* Mailbox::store.                                                         *)
(***************************************************************************)
EepromPlace == IF Full(slots[1]) THEN 2 ELSE 1

(* Mutant: the end of a long packet is not copied into slot 2.             *)
NewTail_Kept(p) == tail

NewTail(p) == IF EepromPlace = 2 /\ IsLong(p) THEN TailOf(p) ELSE tail

StoreEeprom(p) ==
  /\ ~Full(slots[1]) \/ ~Full(slots[2])
  /\ slots' = [slots EXCEPT ![EepromPlace] = Slot(p)]
  /\ tail' = NewTail(p)
  /\ count' = count + 1
  /\ WriteSlot(EepromPlace, Slot(p), count + 1, NewTail(p))

(* storeInArray's choice when no slot is empty.                            *)
Oldest ==
  CHOOSE i \in InRam : \A j \in InRam :
    slots[i].time < slots[j].time \/ (slots[i].time = slots[j].time /\ i <= j)

(* Mutant: the first slot is overwritten though another is empty.          *)
RamPlace_First == 3

RamPlace ==
  LET empty == {i \in InRam : ~Full(slots[i])}
  IN  IF empty # {} THEN Min(empty) ELSE Oldest

StoreRam(p) ==
  /\ Full(slots[1]) /\ Full(slots[2])
  /\ slots' = [slots EXCEPT ![RamPlace] = Slot(p)]
  /\ UNCHANGED <<count, tail, memory>>

Accepts(p) == p.len <= 76 /\ ~IsDuplicate(p)

Store(p) ==
  IF Accepts(p)
  THEN /\ StoreEeprom(p) \/ StoreRam(p)
       /\ stored' = [stored EXCEPT ![p] = @ + 1]
  ELSE UNCHANGED <<mailbox, memory, stored>>

(***************************************************************************)
(* The packet handler.  What it queues besides deliveries (relays, answers,*)
(* alerts) is one value, and whether it does is left to Mesh and Links.    *)
(***************************************************************************)
Other == [pkt |-> Nothing, damaged |-> FALSE]

QueueOther ==
  /\ Cardinality({i \in 1 .. Len(txq) : txq[i] = Other}) < scene.others
  /\ txq' = QueueAdd(txq, Other)

MayQueueOther == UNCHANGED txq \/ QueueOther

(* Nothing under way, an ADVERT, the clean-up.                             *)
Idle     == [job |-> "none", for |-> Nothing, hand |-> Nothing, due |-> <<>>]
Expiring == [Idle EXCEPT !.job = "expire"]

(* Store when the destination was known and has been silent for half an    *)
(* hour, then relay.                                                       *)
Away(d) == heard[d] = KnownAt /\ quiet[d]

ReceivePacket(p) ==
  /\ task.job = "none"
  /\ stored[p] < scene.stores
  /\ IF Away(p.dest) /\ synced THEN Store(p) ELSE UNCHANGED <<mailbox, memory, stored>>
  /\ MayQueueOther
  /\ UNCHANGED <<scene, task, regions, clock, nodes, queued, undone>>

(* seenNodes.update.                                                       *)
HearFrom(d) ==
  /\ heard' = [heard EXCEPT ![d] = IF @ = KnownAt THEN @ ELSE @ + 1]
  /\ quiet' = [quiet EXCEPT ![d] = FALSE]

(* Any other packet of d, which may be relayed or answered.                *)
ReceiveOther(d) ==
  /\ task.job = "none"
  /\ HearFrom(d)
  /\ MayQueueOther
  /\ UNCHANGED <<scene, task, mailbox, memory, regions, clock, counts, undone>>

(***************************************************************************)
(* The ADVERT handler: time, seenNodes with the alert of a new node, then  *)
(* popFor and txQueue.add until popFor finds none, then the relay.         *)
(***************************************************************************)
Waiting(d) == {i \in Places : Full(slots[i]) /\ slots[i].pkt.dest = d}

Copy(i) == [pkt |-> slots[i].pkt, damaged |-> Damaged(slots, tail, i)]

ReceiveAdvert(d, t) ==
  /\ task.job = "none"
  /\ (now' = t /\ synced' = TRUE) \/ UNCHANGED clock
  /\ HearFrom(d)
  /\ UNCHANGED txq \/ (heard[d] = 0 /\ QueueOther)
  /\ task' = [job |-> "deliver", for |-> d, hand |-> Nothing,
              due |-> [i \in Waiting(d) |-> Copy(i)]]
  /\ UNCHANGED <<scene, mailbox, memory, regions, counts, undone>>

(* popFor, with its commit, comes before the packet is queued.             *)
Pop ==
  /\ task.job = "deliver" /\ task.hand = Nothing
  /\ Waiting(task.for) # {}
  /\ Take(Min(Waiting(task.for)))
  /\ task' = [task EXCEPT !.hand = Copy(Min(Waiting(task.for)))]
  /\ UNCHANGED <<scene, txq, regions, clock, nodes, counts, undone>>

QueuePopped ==
  /\ task.hand # Nothing
  /\ txq' = QueueAdd(txq, task.hand)
  /\ task' = [task EXCEPT !.hand = Nothing]
  /\ queued' = IF task.hand.damaged THEN queued ELSE [queued EXCEPT ![task.hand.pkt] = @ + 1]
  /\ UNCHANGED <<scene, mailbox, memory, regions, clock, nodes, stored, undone>>

(* The ADVERT itself is relayed behind what it set free.                   *)
FinishAdvert ==
  /\ task.job = "deliver" /\ task.hand = Nothing
  /\ Waiting(task.for) = {}
  /\ MayQueueOther
  /\ task' = Idle
  /\ UNCHANGED <<scene, mailbox, memory, regions, clock, nodes, counts, undone>>

(***************************************************************************)
(* The clean-up (expireOld, one place for each step), the commands, the    *)
(* passing of time.                                                        *)
(***************************************************************************)
Expired ==
  {i \in Places : Full(slots[i]) /\ now > slots[i].time /\ now - slots[i].time > TTL}

Cleanup ==
  /\ task.job \in {"none", "expire"}
  /\ synced
  /\ Expired # {}
  /\ Take(Min(Expired))
  /\ task' = IF Expired = {Min(Expired)} THEN Idle ELSE Expiring
  /\ UNCHANGED <<scene, txq, regions, clock, nodes, counts, undone>>

(* "mailbox clear" also clears the unused bytes.                           *)
ClearMailbox ==
  /\ task.job = "none"
  /\ slots' = [i \in Places |-> Nothing]
  /\ count' = 0
  /\ tail' = Zero
  /\ Commit([eeprom EXCEPT !.buffer = Emptied(@)])
  /\ UNCHANGED <<scene, task, txq, regions, clock, nodes, counts, undone>>

(* "region put", "region remove" and the like.                             *)
RegionEdit(r) ==
  /\ task.job = "none"
  /\ regionMap' = RegionMapOf(r)
  /\ UNCHANGED <<scene, task, txq, mailbox, memory, saved, overlaid, clock, nodes, counts, undone>>

(* "region save" writes all of its bytes.                                  *)
RegionSave ==
  /\ task.job = "none"
  /\ Commit([eeprom EXCEPT !.buffer = [@ EXCEPT !.shared = HeadOf(regionMap.head),
                                                !.region = regionMap.rest]])
  /\ saved' = regionMap
  /\ overlaid' = IF Full(slots[2]) THEN overlaid \cup {slots[2].pkt} ELSE overlaid
  /\ UNCHANGED <<scene, task, txq, mailbox, regionMap, clock, nodes, counts, undone>>

(* RegionMap::load, at boot and for "region load": the magic number is in  *)
(* the head; without it, or after an erase, the map in RAM stays.          *)
LoadedRegions(mem, inRam) ==
  IF mem.shared[1] = "region"
  THEN [head |-> mem.shared[2], rest |-> mem.region] ELSE inRam

RegionLoad ==
  /\ task.job = "none"
  /\ regionMap' = LoadedRegions(eeprom.buffer, regionMap)
  /\ UNCHANGED <<scene, task, txq, mailbox, memory, saved, overlaid, clock, nodes, counts, undone>>

(* A commit for configuration, identity or statistics writes all there is. *)
OtherCommit ==
  /\ task.job = "none"
  /\ eeprom' = Flushed(eeprom)
  /\ UNCHANGED <<scene, task, txq, mailbox, failures, regions, clock, nodes, counts, undone>>

(* The clock of a node that is not synchronized is not read.               *)
Tick ==
  /\ task.job = "none"
  /\ synced
  /\ now < scene.until
  /\ now' = now + 1
  /\ UNCHANGED <<scene, task, txq, mailbox, memory, regions, synced, nodes, counts, undone>>

(* The command "time", or an ADVERT that tells the time and no name.       *)
SetClock(t) ==
  /\ task.job = "none"
  /\ now' = t /\ synced' = TRUE
  /\ UNCHANGED <<scene, task, txq, mailbox, memory, regions, nodes, counts, undone>>

(* Half an hour without a packet; of an unknown node it has no effect.    *)
FallSilent(d) ==
  /\ task.job = "none"
  /\ heard[d] = KnownAt
  /\ ~quiet[d]
  /\ quiet' = [quiet EXCEPT ![d] = TRUE]
  /\ UNCHANGED <<scene, task, txq, mailbox, memory, regions, clock, heard, counts, undone>>

(* A report to the owner, an alert of the health check.                    *)
SendOther ==
  /\ task.job = "none"
  /\ QueueOther
  /\ UNCHANGED <<scene, task, mailbox, memory, regions, clock, nodes, counts, undone>>

Transmit ==
  /\ task.job = "none"
  /\ txq # <<>>
  /\ txq' = QueueRest(txq)
  /\ UNCHANGED <<scene, task, mailbox, memory, regions, clock, nodes, counts, undone>>

(***************************************************************************)
(* Restart, at any moment: EEPROM.begin, Mailbox::load, RegionMap::load.   *)
(***************************************************************************)
LoadMailbox(mem) ==
  /\ slots' = [i \in Places |-> IF i \in InEeprom THEN mem.slots[i] ELSE Nothing]
  /\ count' = mem.count
  /\ tail' = IF SlotsReachRegion THEN mem.shared ELSE Zero

Reboot ==
  /\ IF eeprom.flash.count = Blank
     THEN /\ LoadMailbox(Emptied(eeprom.flash))
          /\ Commit([Mounted(eeprom) EXCEPT !.buffer = Emptied(@)])
     ELSE /\ LoadMailbox(eeprom.flash)
          /\ eeprom' = Mounted(eeprom)
          /\ UNCHANGED failures
  /\ regionMap' = LoadedRegions(eeprom'.buffer, NoRegions)
  /\ now' = 0
  /\ synced' = FALSE
  /\ heard' = [d \in Dests |-> 0]
  /\ quiet' = [d \in Dests |-> FALSE]
  /\ txq' = <<>>
  /\ task' = Idle
  /\ undone' = IF eeprom.buffer = eeprom.flash THEN undone ELSE undone + 1
  /\ UNCHANGED <<scene, saved, overlaid, counts>>

Next ==
  \/ \E p \in scene.packets : ReceivePacket(p)
  \/ \E d \in Dests : ReceiveOther(d) \/ FallSilent(d)
  \/ \E d \in Dests, t \in 0 .. scene.until : ReceiveAdvert(d, t)
  \/ \E t \in 0 .. scene.until : SetClock(t)
  \/ \E r \in scene.regions : RegionEdit(r)
  \/ Pop \/ QueuePopped \/ FinishAdvert \/ Cleanup \/ ClearMailbox
  \/ RegionSave \/ RegionLoad \/ OtherCommit \/ Tick \/ SendOther \/ Transmit \/ Reboot

(* The first boot: load() found no header and wrote an empty mailbox.      *)
Virgin == [count |-> Blank, slots |-> <<Nothing, Nothing>>, shared |-> Zero, region |-> Nothing]

Init ==
  /\ scene \in Scenes
  /\ slots = [i \in Places |-> Nothing]
  /\ count = 0
  /\ tail = Zero
  /\ \/ /\ eeprom = [buffer |-> Emptied(Virgin), flash |-> Emptied(Virgin)]
        /\ failures = 0
     \/ /\ eeprom = [buffer |-> Emptied(Virgin), flash |-> Virgin]
        /\ failures = 1 /\ scene.failures > 0
  /\ regionMap = NoRegions /\ saved = NoRegions /\ overlaid = {}
  /\ now = 0 /\ synced = FALSE
  /\ heard = [d \in Dests |-> 0]
  /\ quiet = [d \in Dests |-> FALSE]
  /\ txq = <<>>
  /\ task = Idle
  /\ stored = [p \in scene.packets |-> 0]
  /\ queued = [p \in scene.packets |-> 0]
  /\ undone = 0

Spec == Init /\ [][Next]_vars

(***************************************************************************)
(* Properties.                                                             *)
(***************************************************************************)
SlotType == [pkt : scene.packets, time : 0 .. scene.until]
CopyType == [pkt : scene.packets, damaged : BOOLEAN]

TypeOK ==
  /\ slots \in [Places -> SlotType \cup {Nothing}]
  /\ count \in 0 .. 2
  /\ now \in 0 .. scene.until /\ synced \in BOOLEAN
  /\ heard \in [Dests -> 0 .. KnownAt] /\ quiet \in [Dests -> BOOLEAN]
  /\ txq \in Seq(CopyType \cup {Other}) /\ Len(txq) <= QueueSize
  /\ task.job \in {"none", "deliver", "expire"}
  /\ task.hand \in CopyType \cup {Nothing}
  /\ task.hand # Nothing => task.job = "deliver"

(* The count in the header is the number of slots in use, in RAM, in the   *)
(* buffer and in the flash, whose state is one that the buffer has had: a  *)
(* restart between any two commits finds a mailbox that agrees with itself *)
(* (writeSlot, load), and the present one as long as no commit has failed. *)
CountAgrees ==
  /\ count = Used(slots)
  /\ eeprom.buffer.count = count
  /\ \A i \in InEeprom : eeprom.buffer.slots[i] = slots[i]
  /\ eeprom.flash.count \in {Blank, Used(eeprom.flash.slots)}
  /\ failures = 0 => eeprom.flash = eeprom.buffer

(* The mailbox is well formed, and a restart finds it so.                  *)
Consistent == TypeOK /\ CountAgrees

(* No packet takes two slots (isDuplicate).                                *)
NoDoubleStore ==
  \A i, j \in Places : \A p \in scene.packets :
    Holds(slots, tail, i, p) /\ Holds(slots, tail, j, p) => i = j

(* One or none.                                                            *)
One(is) == IF is THEN 1 ELSE 0

(* A packet is given out, waits or is in between at most once each time it *)
(* was stored, and once more for each restart that found a failed write    *)
(* undone: popFor clears the EEPROM before the packet is queued, but does  *)
(* not see whether it did.                                                 *)
AtMostOnce ==
  \A p \in scene.packets :
    queued[p] + One(\E i \in Places : Holds(slots, tail, i, p))
              + One(task.hand = [pkt |-> p, damaged |-> FALSE])
      <= stored[p] + undone

(* Copies that arrive again, power that fails between removing and queueing*)
(* and a clock that jumps never make the mailbox keep or deliver a packet  *)
(* twice; only a restart after a failed commit does.                       *)
NeverTwice == NoDoubleStore /\ AtMostOnce

(* Storing costs another packet its slot only when all slots are in use,   *)
(* in the EEPROM and in RAM, and then the oldest of those in RAM (store,   *)
(* storeInArray).                                                          *)
EvictsOnlyWhenFull ==
  [][stored' # stored =>
       \A i \in Places :
         Full(slots[i]) /\ slots'[i] # slots[i] =>
           /\ i \in InRam
           /\ \A j \in Places : Full(slots[j])
           /\ \A j \in InRam : slots[i].time <= slots[j].time]_vars

(* When the handler of an ADVERT ends, and fewer packets waited for its    *)
(* node than the queue has places, all of them are in the queue, also if   *)
(* the ADVERT itself was relayed behind them.  With as many as places the  *)
(* relay shifts the first of them out.                                     *)
DeliveredTogether ==
  [][FinishAdvert /\ Cardinality(DOMAIN task.due) < QueueSize =>
       \A i \in DOMAIN task.due : task.due[i] \in Queued(txq')]_vars

(* Only a lack of room costs a packet its place, in the slots or on the    *)
(* way out.                                                                *)
LosesOnlyForRoom == EvictsOnlyWhenFull /\ DeliveredTogether

(* A stored packet is the one that was received, bit for bit, in its slot, *)
(* after any restart and in the transmit queue, unless the region map was  *)
(* saved over it.                                                          *)
DamagedOnlyByOverlap ==
  /\ \A i \in Places : Full(slots[i]) /\ Damaged(slots, tail, i) => slots[i].pkt \in overlaid
  /\ task.hand # Nothing /\ task.hand.damaged => task.hand.pkt \in overlaid
  /\ \A c \in Queued(txq) : c.damaged => c.pkt \in overlaid

(* The region map that was saved is the one that the EEPROM holds.         *)
RegionMapPersists ==
  saved # NoRegions =>
    eeprom.flash.shared = HeadOf(saved.head) /\ eeprom.flash.region = saved.rest
=============================================================================
