--------------------------- MODULE Mailbox_proofs ---------------------------
(***************************************************************************)
(* Proofs about Mailbox, for any number of slots in RAM, any packets, any  *)
(* alignment, any bounds and any commits that fail: RAM, buffer and flash  *)
(* each agree with themselves, no packet takes two slots or is given out   *)
(* more often than it was stored unless a restart undid a failed write,    *)
(* one is lost only for want of room and damaged only by the region map.   *)
(***************************************************************************)
EXTENDS Mailbox, TxQueue_proofs, FiniteSetTheorems, WellFoundedInduction

(* What a place of a slot may hold.                                        *)
PlaceIn(sc) == {s \in [pkt : sc.packets, time : 0 .. sc.until] : s.pkt.len <= 76} \cup {Nothing}

(* No two of some places hold the same packet.                             *)
ApartIn(s, t, some) ==
  \A i, j \in some :
    Full(s[i]) /\ Full(s[j]) /\ s[i].pkt = s[j].pkt /\ ~Damaged(s, t, i) /\ ~Damaged(s, t, j)
      => i = j

(* Only a region map damages slot 2.                                       *)
Excused(s, t, ov) == Full(s[2]) /\ Damaged(s, t, 2) => s[2].pkt \in ov

(* The slots in RAM, a copy of the EEPROM, and the two together.           *)
RamOK(s, t, sc, ov) ==
  s \in [Places -> PlaceIn(sc)] /\ ApartIn(s, t, Places) /\ Excused(s, t, ov)

Shaped(m) == m = [count |-> m.count, slots |-> m.slots, shared |-> m.shared, region |-> m.region]

MemOK(m, sc, ov) ==
  /\ Shaped(m)
  /\ m.slots \in [InEeprom -> PlaceIn(sc)]
  /\ m.count = Used(m.slots)
  /\ ApartIn(m.slots, m.shared, InEeprom)
  /\ Excused(m.slots, m.shared, ov)

Match(m, s, c, t) ==
  /\ m.count = c
  /\ \A i \in InEeprom : m.slots[i] = s[i]
  /\ SlotsReachRegion => m.shared = t \/ \E r : m.shared = HeadOf(r)

(* The flash has no mailbox yet, or one that the buffer has had.           *)
Backup(m, sc, ov) == Shaped(m) /\ (m.count = Blank \/ MemOK(m, sc, ov))

Mail ==
  /\ scene \in Scenes
  /\ RamOK(slots, tail, scene, overlaid)
  /\ count = Used(slots)
  /\ eeprom = [buffer |-> eeprom.buffer, flash |-> eeprom.flash]
  /\ MemOK(eeprom.buffer, scene, overlaid)
  /\ Match(eeprom.buffer, slots, count, tail)
  /\ Backup(eeprom.flash, scene, overlaid)
  /\ failures \in Nat
  /\ failures = 0 => eeprom.flash = eeprom.buffer

-----------------------------------------------------------------------------
(* How many of two.                                                        *)
Ones(a, b) == One(a) + One(b)

(* The places of the EEPROM are two, and places of the mailbox.            *)
LEMMA EepromPlaces ==
  /\ InEeprom = {1, 2} /\ 1 \in Places /\ 2 \in Places
  /\ InEeprom \subseteq Places /\ 1 \notin InRam /\ 2 \notin InRam
BY MailboxAssumption DEF InEeprom, Places, InRam

(* The slots in use of the two in the EEPROM.                              *)
LEMMA UsedOfTwo ==
  ASSUME NEW s
  PROVE  Used(s) = Ones(Full(s[1]), Full(s[2]))
<1> DEFINE S == {i \in InEeprom : Full(s[i])}
<1>1. S = {} \/ S = {1} \/ S = {2} \/ S = {1, 2}
  BY EepromPlaces
<1>2. CASE S = {}
  <2>1. ~Full(s[1]) /\ ~Full(s[2])
    BY <1>2, EepromPlaces
  <2> QED BY <1>2, <2>1, FS_EmptySet DEF Ones, One, Used
<1>3. CASE S = {1}
  <2>1. Full(s[1]) /\ ~Full(s[2])
    BY <1>3, EepromPlaces
  <2> QED BY <1>3, <2>1, FS_Singleton DEF Ones, One, Used
<1>4. CASE S = {2}
  <2>1. ~Full(s[1]) /\ Full(s[2])
    BY <1>4, EepromPlaces
  <2> QED BY <1>4, <2>1, FS_Singleton DEF Ones, One, Used
<1>5. CASE S = {1, 2}
  <2>1. Full(s[1]) /\ Full(s[2])
    BY <1>5
  <2>2. IsFiniteSet({1}) /\ Cardinality({1}) = 1
    BY FS_Singleton
  <2>3. Cardinality({1} \cup {2}) = 2
    BY <2>2, FS_AddElement
  <2>4. Cardinality(S) = 2
    BY <1>5, <2>3
  <2> QED BY <2>1, <2>4 DEF Ones, One, Used
<1> QED BY <1>1, <1>2, <1>3, <1>4, <1>5

(* A packet that fits into a slot reaches the region map only if the slots *)
(* do.                                                                     *)
LEMMA LongReaches ==
  ASSUME NEW p, p.len \in Nat, p.len <= 76, IsLong(p)
  PROVE  SlotsReachRegion
<1>1. PICK n \in Nat : n = p.len
  OBVIOUS
<1>2. n <= 76 /\ SlotAt(2) + PktDataAt + n > RegionAt
  BY <1>1 DEF IsLong
<1>3. Alignment \in {1, 2, 4}
  BY MailboxAssumption
<1>4. CASE Alignment = 1
  BY <1>2, <1>4 DEF SlotsReachRegion, SlotAt, SlotSize, PktDataAt, AlignUp, RegionAt
<1>5. CASE Alignment = 2
  BY <1>5 DEF SlotsReachRegion, SlotAt, SlotSize, PktDataAt, AlignUp, RegionAt
<1>6. CASE Alignment = 4
  BY <1>6 DEF SlotsReachRegion, SlotAt, SlotSize, PktDataAt, AlignUp, RegionAt
<1> QED BY <1>3, <1>4, <1>5, <1>6

(* The slots in EEPROM reach into the region map exactly when the compiler *)
(* aligns them (MailboxSlot is not packed): with one byte they would fit.  *)
THEOREM OnlyPackedFits == SlotsReachRegion <=> Alignment # 1
<1>1. Alignment \in {1, 2, 4}
  BY MailboxAssumption
<1>2. CASE Alignment = 1
  BY <1>2 DEF SlotsReachRegion, SlotAt, SlotSize, PktDataAt, AlignUp, RegionAt
<1>3. CASE Alignment = 2
  BY <1>3 DEF SlotsReachRegion, SlotAt, SlotSize, PktDataAt, AlignUp, RegionAt
<1>4. CASE Alignment = 4
  BY <1>4 DEF SlotsReachRegion, SlotAt, SlotSize, PktDataAt, AlignUp, RegionAt
<1> QED BY <1>1, <1>2, <1>3, <1>4

(* What a place holds, and that it fits.                                   *)
LEMMA PlaceHolds ==
  ASSUME NEW sc \in Scenes, NEW s \in PlaceIn(sc), Full(s)
  PROVE  /\ s.pkt \in sc.packets /\ s.time \in 0 .. sc.until
         /\ s.pkt.len \in Nat /\ s.pkt.len <= 76
<1>1. s \in [pkt : sc.packets, time : 0 .. sc.until] /\ s.pkt.len <= 76
  BY DEF PlaceIn, Full
<1> QED BY <1>1, MailboxAssumption

(* A place may be empty.                                                   *)
LEMMA PlaceHasNothing == ASSUME NEW sc PROVE Nothing \in PlaceIn(sc) /\ ~Full(Nothing)
BY DEF PlaceIn, Full

(* A packet's bytes are never those of a region map.                       *)
LEMMA TailIsNoHead == ASSUME NEW p, NEW r PROVE TailOf(p) # HeadOf(r)
<1>1. TailOf(p)[1] = "packet" /\ HeadOf(r)[1] = "region"
  BY DEF TailOf, HeadOf
<1> QED BY <1>1

(* The EEPROM's slots hold the same packet twice only if those in RAM do.  *)
LEMMA MatchApart ==
  ASSUME NEW sc \in Scenes, NEW s \in [Places -> PlaceIn(sc)], NEW t, NEW m, NEW c,
         ApartIn(s, t, Places), Match(m, s, c, t)
  PROVE  ApartIn(m.slots, m.shared, InEeprom)
<1>1. \A i \in InEeprom : m.slots[i] = s[i]
  BY DEF Match
<1>2. ASSUME Full(m.slots[2]), ~Damaged(m.slots, m.shared, 2)
      PROVE  ~Damaged(s, t, 2)
  <2>1. SUFFICES ASSUME IsLong(s[2].pkt) PROVE t = TailOf(s[2].pkt)
    BY DEF Damaged
  <2>2. m.slots[2] = s[2] /\ s[2] \in PlaceIn(sc) /\ Full(s[2])
    BY <1>1, <1>2, EepromPlaces
  <2>3. SlotsReachRegion
    BY <2>1, <2>2, PlaceHolds, LongReaches
  <2>4. m.shared = TailOf(s[2].pkt)
    BY <1>2, <2>1, <2>2 DEF Damaged
  <2> QED BY <2>3, <2>4, TailIsNoHead DEF Match
<1>3. ASSUME NEW i \in InEeprom, NEW j \in InEeprom,
             Full(m.slots[i]), Full(m.slots[j]), m.slots[i].pkt = m.slots[j].pkt,
             ~Damaged(m.slots, m.shared, i), ~Damaged(m.slots, m.shared, j)
      PROVE  i = j
  <2>1. m.slots[i] = s[i] /\ m.slots[j] = s[j] /\ i \in Places /\ j \in Places
    BY <1>1, EepromPlaces
  <2>2. ~Damaged(s, t, i) /\ ~Damaged(s, t, j)
    BY <1>2, <1>3 DEF Damaged
  <2> QED BY <1>3, <2>1, <2>2 DEF ApartIn
<1> QED BY <1>3, Zenon DEF ApartIn

(* What may be in the flash may be there when more was written over.       *)
LEMMA MoreExcused ==
  ASSUME NEW m, NEW sc, NEW ov, NEW more, ov \subseteq more, Backup(m, sc, ov)
  PROVE  Backup(m, sc, more)
BY DEF Backup, MemOK, Excused

(* A commit, be it done or not, of a buffer that matches the slots.        *)
LEMMA CommitKeeps ==
  ASSUME Mail, NEW m, UNCHANGED scene, overlaid \subseteq overlaid',
         MemOK(m, scene, overlaid'), Match(m, slots', count', tail'),
         RamOK(slots', tail', scene, overlaid'), count' = Used(slots'),
         Commit([eeprom EXCEPT !.buffer = m])
  PROVE  Mail'
<1>1. PICK b, f : eeprom = [buffer |-> b, flash |-> f]
  BY DEF Mail
<1>2. [eeprom EXCEPT !.buffer = m] = [buffer |-> m, flash |-> f]
  BY <1>1
<1>3. failures \in Nat
  BY DEF Mail
<1>4. Backup(f, scene, overlaid')
  BY <1>1, MoreExcused DEF Mail
<1>5. Backup(m, scene, overlaid')
  BY DEF Backup, MemOK
<1>6. scene' \in Scenes
  BY DEF Mail
<1>7. CASE eeprom' = Flushed([eeprom EXCEPT !.buffer = m]) /\ UNCHANGED failures
  <2>1. eeprom' = [buffer |-> m, flash |-> m]
    BY <1>2, <1>7 DEF Flushed
  <2>2. eeprom'.buffer = m /\ eeprom'.flash = m
    BY <2>1
  <2> QED BY <1>3, <1>5, <1>6, <1>7, <2>1, <2>2 DEF Mail
<1>8. CASE eeprom' = [eeprom EXCEPT !.buffer = m] /\ failures' = failures + 1
  <2>1. eeprom'.buffer = m /\ eeprom'.flash = f /\ eeprom' = [buffer |-> m, flash |-> f]
    BY <1>2, <1>8
  <2>2. failures' \in Nat /\ failures' # 0
    BY <1>3, <1>8
  <2> QED BY <1>4, <1>6, <2>1, <2>2 DEF Mail
<1> QED BY <1>7, <1>8 DEF Commit

(* What a put of one slot makes of a copy of the EEPROM.                   *)
PutMakes(w, m, i, x, c, t, T) ==
  /\ Shaped(w) /\ w.slots \in [InEeprom -> T] /\ w.count = c
  /\ \A j \in InEeprom : w.slots[j] = IF j = i THEN x ELSE m.slots[j]
  /\ w.shared = IF i = 2 /\ SlotsReachRegion THEN t ELSE m.shared

(* The buffer after a put of one slot.                                     *)
LEMMA WithSlotIs ==
  ASSUME NEW m, Shaped(m), NEW T, m.slots \in [InEeprom -> T], NEW i \in InEeprom,
         NEW x \in T, NEW c, NEW t
  PROVE  PutMakes(WithSlot(m, i, x, c, t), m, i, x, c, t, T)
<1> DEFINE w == WithSlot(m, i, x, c, t)
           y == IF i = 2 /\ SlotsReachRegion THEN t ELSE m.shared
           z == [m.slots EXCEPT ![i] = x]
<1>1. PICK a, b, d, e : m = [count |-> a, slots |-> b, shared |-> d, region |-> e]
  BY DEF Shaped
<1>2. w = [m EXCEPT !.slots[i] = x, !.count = c, !.shared = y]
  BY <1>1 DEF WithSlot
<1> HIDE DEF w, y
<1>3. w = [count |-> c, slots |-> [m.slots EXCEPT ![i] = x], shared |-> y, region |-> m.region]
  BY <1>1, <1>2
<1>4. z \in [InEeprom -> T] /\ \A j \in InEeprom : z[j] = IF j = i THEN x ELSE m.slots[j]
  OBVIOUS
<1> HIDE DEF z
<1>5. w = [count |-> c, slots |-> z, shared |-> y, region |-> m.region]
  BY <1>3 DEF z
<1>6. w.count = c /\ w.slots = z /\ w.shared = y /\ w.region = m.region
  BY <1>5
<1>7. Shaped(w)
  BY <1>5, <1>6 DEF Shaped
<1>8. PutMakes(w, m, i, x, c, t, T)
  BY <1>4, <1>6, <1>7 DEF y, PutMakes
<1> QED BY <1>8 DEF w

-----------------------------------------------------------------------------
(* Putting one slot, in RAM and in the EEPROM.                             *)
LEMMA PutKeeps ==
  ASSUME Mail, UNCHANGED <<scene, overlaid>>, NEW i \in InEeprom, NEW x \in PlaceIn(scene),
         slots' = [slots EXCEPT ![i] = x], RamOK(slots', tail', scene, overlaid),
         count' = Used(slots'), i # 2 => tail' = tail,
         WriteSlot(i, x, count', tail')
  PROVE  Mail'
<1> DEFINE m == WithSlot(eeprom.buffer, i, x, count', tail')
<1>1. scene \in Scenes /\ slots \in [Places -> PlaceIn(scene)]
      /\ MemOK(eeprom.buffer, scene, overlaid) /\ Match(eeprom.buffer, slots, count, tail)
  BY DEF Mail, RamOK
<1>0. PutMakes(m, eeprom.buffer, i, x, count', tail', PlaceIn(scene))
  <2>1. Shaped(eeprom.buffer) /\ eeprom.buffer.slots \in [InEeprom -> PlaceIn(scene)]
    BY <1>1 DEF MemOK
  <2> QED BY <2>1, WithSlotIs
<1>3. Commit([eeprom EXCEPT !.buffer = m])
  BY DEF WriteSlot
<1> HIDE DEF m
<1>2. /\ Shaped(m) /\ m.slots \in [InEeprom -> PlaceIn(scene)] /\ m.count = count'
      /\ \A j \in InEeprom : m.slots[j] = IF j = i THEN x ELSE eeprom.buffer.slots[j]
      /\ m.shared = IF i = 2 /\ SlotsReachRegion THEN tail' ELSE eeprom.buffer.shared
  BY <1>0, Zenon DEF PutMakes
<1>4. \A j \in InEeprom : m.slots[j] = slots'[j]
  BY <1>1, <1>2, EepromPlaces DEF Match
<1>5. Match(m, slots', count', tail')
  <2>1. SlotsReachRegion => m.shared = tail' \/ \E r : m.shared = HeadOf(r)
    BY <1>1, <1>2 DEF Match
  <2> QED BY <1>2, <1>4, <2>1 DEF Match
<1>6. slots' \in [Places -> PlaceIn(scene)] /\ ApartIn(slots', tail', Places)
      /\ Excused(slots', tail', overlaid)
  BY DEF RamOK
<1>7. ApartIn(m.slots, m.shared, InEeprom)
  BY <1>1, <1>5, <1>6, MatchApart
<1>8. m.count = Used(m.slots)
  <2>1. m.slots[1] = slots'[1] /\ m.slots[2] = slots'[2]
    BY <1>4, EepromPlaces
  <2> QED BY <1>2, <2>1, UsedOfTwo
<1>9. Excused(m.slots, m.shared, overlaid)
  <2>1. SUFFICES ASSUME Full(m.slots[2]), IsLong(m.slots[2].pkt), m.shared # TailOf(m.slots[2].pkt)
                 PROVE  m.slots[2].pkt \in overlaid
    BY DEF Excused, Damaged
  <2>2. m.slots[2] = slots'[2] /\ slots'[2] \in PlaceIn(scene)
    BY <1>4, <1>6, EepromPlaces
  <2>3. SlotsReachRegion
    BY <1>1, <2>1, <2>2, PlaceHolds, LongReaches
  <2>4. CASE i = 2
    <3>1. Full(slots'[2]) /\ Damaged(slots', tail', 2)
      BY <1>2, <2>1, <2>2, <2>3, <2>4 DEF Damaged
    <3> QED BY <1>6, <2>2, <3>1 DEF Excused
  <2>5. CASE i # 2
    <3>1. m.slots[2] = eeprom.buffer.slots[2] /\ m.shared = eeprom.buffer.shared
      BY <1>2, <2>5, EepromPlaces
    <3> QED BY <1>1, <2>1, <3>1 DEF MemOK, Excused, Damaged
  <2> QED BY <2>4, <2>5
<1>10. MemOK(m, scene, overlaid')
  BY <1>2, <1>7, <1>8, <1>9 DEF MemOK
<1> QED BY <1>3, <1>5, <1>10, CommitKeeps

(* Emptying a place keeps the slots in order.                              *)
LEMMA EmptyingKeeps ==
  ASSUME NEW sc, NEW ov, NEW t, NEW s, RamOK(s, t, sc, ov), NEW i \in Places
  PROVE  RamOK([s EXCEPT ![i] = Nothing], t, sc, ov)
<1> DEFINE r == [s EXCEPT ![i] = Nothing]
<1>1. s \in [Places -> PlaceIn(sc)]
  BY DEF RamOK
<1>2. r \in [Places -> PlaceIn(sc)]
  BY <1>1, PlaceHasNothing
<1>3. \A j \in Places : r[j] = IF j = i THEN Nothing ELSE s[j]
  BY <1>1
<1> HIDE DEF r
<1>4. \A j \in Places : Full(r[j]) => r[j] = s[j]
  BY <1>3, PlaceHasNothing
<1>5. \A j \in Places : Full(r[j]) => (Damaged(r, t, j) <=> Damaged(s, t, j))
  BY <1>4 DEF Damaged
<1>6. ApartIn(r, t, Places)
  BY <1>4, <1>5 DEF RamOK, ApartIn
<1>7. Excused(r, t, ov)
  BY <1>4, <1>5, EepromPlaces DEF RamOK, Excused
<1> QED BY <1>2, <1>6, <1>7 DEF RamOK, r

(* Emptying a place that is full.                                          *)
LEMMA TakeKeeps ==
  ASSUME Mail, UNCHANGED <<scene, overlaid>>, NEW i \in Places, Full(slots[i]), Take(i)
  PROVE  Mail'
<1>1. slots' = [slots EXCEPT ![i] = Nothing] /\ tail' = tail
      /\ slots \in [Places -> PlaceIn(scene)] /\ count = Used(slots)
  BY DEF Take, Mail, RamOK
<1>2. RamOK(slots', tail', scene, overlaid)
  BY <1>1, EmptyingKeeps DEF Mail
<1>3. \A j \in Places : slots'[j] = IF j = i THEN Nothing ELSE slots[j]
  BY <1>1
<1>4. CASE i \in InEeprom
  <2>1. count' = Used(slots')
    <3>1. count = Ones(Full(slots[1]), Full(slots[2])) /\ i \in {1, 2}
      BY <1>1, <1>4, UsedOfTwo, EepromPlaces
    <3>2. Used(slots') = Ones(Full(slots'[1]), Full(slots'[2]))
      BY UsedOfTwo
    <3>3. count' = IF count > 0 THEN count - 1 ELSE 0
      BY <1>4 DEF Take
    <3>4. \A j \in {1, 2} : Full(slots'[j]) <=> Full(slots[j]) /\ j # i
      BY <1>3, EepromPlaces, PlaceHasNothing
    <3> QED BY <3>1, <3>2, <3>3, <3>4 DEF Ones, One
  <2>2. WriteSlot(i, Nothing, count', tail')
    BY <1>1, <1>4 DEF Take
  <2> QED BY <1>1, <1>2, <1>4, <2>1, <2>2, PlaceHasNothing, PutKeeps
<1>5. CASE i \notin InEeprom
  <2>1. UNCHANGED <<count, eeprom, failures>>
    BY <1>5 DEF Take, memory
  <2>2. \A j \in InEeprom : slots'[j] = slots[j]
    BY <1>3, <1>5, EepromPlaces
  <2>3. Used(slots') = Used(slots)
    BY <2>2, UsedOfTwo, EepromPlaces
  <2>4. Match(eeprom.buffer, slots', count', tail')
    BY <1>1, <2>1, <2>2 DEF Mail, Match
  <2> QED BY <1>1, <1>2, <2>1, <2>3, <2>4 DEF Mail
<1> QED BY <1>4, <1>5

-----------------------------------------------------------------------------
(* A new slot.                                                             *)
LEMMA NewSlot ==
  ASSUME scene \in Scenes, now \in 0 .. scene.until, NEW p \in scene.packets, p.len <= 76
  PROVE  Slot(p) \in PlaceIn(scene) /\ Full(Slot(p)) /\ Slot(p).pkt = p /\ Slot(p).time = now
<1>1. Slot(p) \in [pkt : scene.packets, time : 0 .. scene.until] /\ Slot(p).pkt = p
      /\ Slot(p).time = now
  BY DEF Slot
<1>2. Full(Slot(p))
  BY <1>1, MailboxAssumption DEF Full
<1> QED BY <1>1, <1>2 DEF PlaceIn

(* Storing a packet that no slot has, at a place where it is whole.        *)
LEMMA FillingKeeps ==
  ASSUME NEW sc, NEW ov, NEW s, NEW t, NEW u, RamOK(s, t, sc, ov), NEW i \in Places,
         NEW x \in PlaceIn(sc), Full(x), i # 2 => u = t,
         i = 2 /\ IsLong(x.pkt) => u = TailOf(x.pkt),
         \A j \in Places : ~Holds(s, t, j, x.pkt)
  PROVE  RamOK([s EXCEPT ![i] = x], u, sc, ov)
<1> DEFINE r == [s EXCEPT ![i] = x]
<1>1. s \in [Places -> PlaceIn(sc)]
  BY DEF RamOK
<1>2. r \in [Places -> PlaceIn(sc)]
  BY <1>1
<1>3. \A j \in Places : r[j] = IF j = i THEN x ELSE s[j]
  BY <1>1
<1> HIDE DEF r
<1>4. ~Damaged(r, u, i)
  BY <1>3 DEF Damaged
<1>5. \A j \in Places : j # i => (Damaged(r, u, j) <=> Damaged(s, t, j))
  BY <1>3 DEF Damaged
<1>6. \A j \in Places : j # i /\ Full(r[j]) /\ ~Damaged(r, u, j) => r[j].pkt # x.pkt
  BY <1>3, <1>5 DEF Holds
<1>7. ASSUME NEW j \in Places, NEW k \in Places, Full(r[j]), Full(r[k]), r[j].pkt = r[k].pkt,
             ~Damaged(r, u, j), ~Damaged(r, u, k)
      PROVE  j = k
  <2>1. CASE j = i \/ k = i
    BY <1>3, <1>6, <1>7, <2>1
  <2>2. CASE j # i /\ k # i
    BY <1>3, <1>5, <1>7, <2>2 DEF RamOK, ApartIn
  <2> QED BY <2>1, <2>2
<1>8. ApartIn(r, u, Places)
  BY <1>7, Zenon DEF ApartIn
<1>9. Excused(r, u, ov)
  BY <1>3, <1>4, <1>5, EepromPlaces DEF RamOK, Excused
<1> QED BY <1>2, <1>8, <1>9 DEF RamOK, r

(* Every set of numbers has a smallest one, if it has one at all.          *)
LEMMA Least ==
  ASSUME NEW T, T \subseteq Nat, T # {}
  PROVE  \E x \in T : \A y \in T : x <= y
<1>1. PICK x \in T : \A y \in T : ~(<<y, x>> \in OpToRel(<, Nat))
  BY NatLessThanWellFounded, WFMin
<1>2. ASSUME NEW y \in T PROVE x <= y
  <2>1. x \in Nat /\ y \in Nat
    OBVIOUS
  <2>2. ~(y < x)
    BY <1>1, <2>1 DEF OpToRel
  <2> QED BY <2>1, <2>2
<1> QED BY <1>2

(* And Min is it.                                                          *)
LEMMA MinIs ==
  ASSUME NEW T, T \subseteq Nat, T # {}
  PROVE  Min(T) \in T
<1>1. \E x \in T : \A y \in T : x <= y
  BY Least
<1> QED BY <1>1, Zenon DEF Min

(* Places are numbers.                                                     *)
LEMMA PlacesAreNumbers == Places \subseteq Nat /\ InRam \subseteq Nat /\ InRam \subseteq Places /\ InRam # {}
<1>1. PICK n \in Nat \ {0} : n = RamSlots
  BY MailboxAssumption
<1>2. 3 \in 3 .. 2 + n
  BY <1>1
<1> QED BY <1>1, <1>2 DEF Places, InRam, InEeprom

(* Oldest is a place of the RAM with the smallest time.                    *)
LEMMA OldestIs ==
  ASSUME \A i \in InRam : slots[i].time \in Nat
  PROVE  Oldest \in InRam /\ \A j \in InRam : slots[Oldest].time <= slots[j].time
<1> DEFINE T == {slots[i].time : i \in InRam}
           P(i) == \A j \in InRam :
                     slots[i].time < slots[j].time \/ (slots[i].time = slots[j].time /\ i <= j)
<1>0. InRam \subseteq Nat /\ InRam # {}
  BY PlacesAreNumbers
<1>1. PICK t \in T : \A u \in T : t <= u
  BY <1>0, Least
<1>2. t \in Nat /\ \A j \in InRam : t <= slots[j].time
  BY <1>1
<1> DEFINE S == {i \in InRam : slots[i].time = t}
<1>3. S # {} /\ S \subseteq Nat
  BY <1>0, <1>1
<1>4. PICK i \in S : \A j \in S : i <= j
  BY <1>3, Least
<1>5. ASSUME NEW j \in InRam
      PROVE  slots[i].time < slots[j].time \/ (slots[i].time = slots[j].time /\ i <= j)
  <2>1. CASE slots[j].time = t
    BY <1>4, <2>1
  <2>2. CASE slots[j].time # t
    BY <1>2, <1>4, <2>2
  <2> QED BY <2>1, <2>2
<1>6. i \in InRam /\ P(i)
  BY <1>4, <1>5
<1>7. Oldest = CHOOSE x \in InRam : P(x)
  BY Zenon DEF Oldest
<1> HIDE DEF P, S
<1>8. Oldest \in InRam /\ P(Oldest)
  BY <1>6, <1>7
<1>9. ASSUME NEW j \in InRam PROVE slots[Oldest].time <= slots[j].time
  <2>1. slots[Oldest].time < slots[j].time \/ slots[Oldest].time = slots[j].time
    BY <1>8, <1>9 DEF P
  <2>2. slots[Oldest].time \in Nat /\ slots[j].time \in Nat
    BY <1>8, <1>9
  <2> QED BY <2>1, <2>2
<1> QED BY <1>8, <1>9

(* Where the RAM takes a packet: an empty slot, or else the oldest one.    *)
LEMMA RamPlaceIs ==
  ASSUME Mail
  PROVE  /\ RamPlace \in InRam
         /\ Full(slots[RamPlace]) =>
              \A j \in InRam : Full(slots[j]) /\ slots[RamPlace].time <= slots[j].time
<1> DEFINE empty == {i \in InRam : ~Full(slots[i])}
<1>1. CASE empty # {}
  <2>1. RamPlace = Min(empty)
    BY <1>1 DEF RamPlace
  <2>2. empty \subseteq Nat
    BY PlacesAreNumbers
  <2> HIDE DEF empty
  <2>3. Min(empty) \in empty
    BY <1>1, <2>2, MinIs
  <2> QED BY <2>1, <2>3 DEF empty
<1>2. CASE empty = {}
  <2>1. RamPlace = Oldest /\ \A j \in InRam : Full(slots[j])
    BY <1>2 DEF RamPlace
  <2>2. \A j \in InRam : slots[j].time \in Nat
    BY <2>1, PlaceHolds, PlacesAreNumbers, MailboxAssumption DEF Mail, RamOK
  <2> QED BY <2>1, <2>2, OldestIs
<1> QED BY <1>1, <1>2

-----------------------------------------------------------------------------
(* Mailbox::store in an empty slot of the EEPROM.                          *)
LEMMA StoreEepromKeeps ==
  ASSUME Mail, UNCHANGED <<scene, overlaid>>, now \in 0 .. scene.until,
         NEW p \in scene.packets, Accepts(p), StoreEeprom(p)
  PROVE  Mail'
<1> DEFINE i == EepromPlace
<1>1. scene \in Scenes /\ RamOK(slots, tail, scene, overlaid) /\ count = Used(slots)
      /\ slots \in [Places -> PlaceIn(scene)]
  BY DEF Mail, RamOK
<1>2. p.len <= 76 /\ \A j \in Places : ~Holds(slots, tail, j, p)
  BY DEF Accepts, IsDuplicate
<1>3. Slot(p) \in PlaceIn(scene) /\ Full(Slot(p)) /\ Slot(p).pkt = p
  BY <1>1, <1>2, NewSlot
<1>4. i \in InEeprom /\ i \in Places /\ ~Full(slots[i])
  BY EepromPlaces DEF StoreEeprom, EepromPlace
<1>5. /\ slots' = [slots EXCEPT ![i] = Slot(p)] /\ tail' = NewTail(p) /\ count' = count + 1
      /\ WriteSlot(i, Slot(p), count', tail')
  BY DEF StoreEeprom
<1>6. (i # 2 => tail' = tail) /\ (i = 2 /\ IsLong(p) => tail' = TailOf(p))
  BY <1>5 DEF NewTail
<1> HIDE DEF i
<1>7. RamOK(slots', tail', scene, overlaid)
  <2>1. PICK x \in PlaceIn(scene) : x = Slot(p)
    BY <1>3
  <2>2. Full(x) /\ (i = 2 /\ IsLong(x.pkt) => tail' = TailOf(x.pkt))
        /\ \A j \in Places : ~Holds(slots, tail, j, x.pkt)
    BY <1>2, <1>3, <1>6, <2>1
  <2>3. RamOK([slots EXCEPT ![i] = x], tail', scene, overlaid)
    BY <1>1, <1>4, <1>6, <2>2, FillingKeeps
  <2> QED BY <1>5, <2>1, <2>3
<1>8. count' = Used(slots')
  <2>1. \A j \in InEeprom : Full(slots'[j]) <=> Full(slots[j]) \/ j = i
    BY <1>1, <1>3, <1>4, <1>5, EepromPlaces
  <2>2. count = Ones(Full(slots[1]), Full(slots[2])) /\ Used(slots') = Ones(Full(slots'[1]), Full(slots'[2]))
    BY <1>1, UsedOfTwo
  <2> QED BY <1>4, <1>5, <2>1, <2>2, EepromPlaces DEF Ones, One
<1> QED BY <1>3, <1>4, <1>5, <1>6, <1>7, <1>8, PutKeeps

(* What leaves the slots of the EEPROM and the EEPROM itself alone.        *)
LEMMA RamKeeps ==
  ASSUME Mail, UNCHANGED <<scene, overlaid, count, tail, memory>>,
         RamOK(slots', tail', scene, overlaid), \A j \in InEeprom : slots'[j] = slots[j]
  PROVE  Mail'
<1>1. Used(slots') = Used(slots)
  BY UsedOfTwo, EepromPlaces
<1>2. Match(eeprom.buffer, slots', count', tail')
  BY DEF Mail, Match
<1> QED BY <1>1, <1>2 DEF Mail, memory

(* Mailbox::store in RAM.                                                  *)
LEMMA StoreRamKeeps ==
  ASSUME Mail, UNCHANGED <<scene, overlaid>>, now \in 0 .. scene.until,
         NEW p \in scene.packets, Accepts(p), StoreRam(p)
  PROVE  Mail'
<1> DEFINE i == RamPlace
<1>1. scene \in Scenes /\ RamOK(slots, tail, scene, overlaid)
      /\ slots \in [Places -> PlaceIn(scene)]
  BY DEF Mail, RamOK
<1>2. p.len <= 76 /\ \A j \in Places : ~Holds(slots, tail, j, p)
  BY DEF Accepts, IsDuplicate
<1>3. Slot(p) \in PlaceIn(scene) /\ Full(Slot(p)) /\ Slot(p).pkt = p
  BY <1>1, <1>2, NewSlot
<1>4. i \in InRam /\ i \in Places /\ i # 2
  BY RamPlaceIs, PlacesAreNumbers, EepromPlaces
<1>5. slots' = [slots EXCEPT ![i] = Slot(p)] /\ UNCHANGED <<count, tail, memory>>
  BY DEF StoreRam
<1> HIDE DEF i
<1>6. RamOK(slots', tail', scene, overlaid)
  <2>1. PICK x \in PlaceIn(scene) : x = Slot(p)
    BY <1>3
  <2>2. Full(x) /\ \A j \in Places : ~Holds(slots, tail, j, x.pkt)
    BY <1>2, <1>3, <2>1
  <2>3. RamOK([slots EXCEPT ![i] = x], tail, scene, overlaid)
    BY <1>1, <1>4, <2>2, FillingKeeps
  <2> QED BY <1>5, <2>1, <2>3
<1>7. \A j \in InEeprom : slots'[j] = slots[j]
  BY <1>1, <1>4, <1>5, EepromPlaces
<1> QED BY <1>5, <1>6, <1>7, RamKeeps

(* Nothing of the mailbox, the EEPROM or the map's history changes.        *)
LEMMA SameMail ==
  ASSUME Mail, UNCHANGED <<scene, overlaid, mailbox, memory>>
  PROVE  Mail'
BY DEF Mail, mailbox, memory

(* Mailbox::store.                                                         *)
LEMMA StoreKeeps ==
  ASSUME Mail, UNCHANGED <<scene, overlaid>>, now \in 0 .. scene.until,
         NEW p \in scene.packets, Store(p)
  PROVE  Mail'
<1>1. CASE Accepts(p)
  BY <1>1, StoreEepromKeeps, StoreRamKeeps DEF Store
<1>2. CASE ~Accepts(p)
  BY <1>2, SameMail DEF Store
<1> QED BY <1>1, <1>2

(* The empty mailbox, in RAM.                                              *)
LEMMA EmptyRam ==
  ASSUME NEW sc, NEW ov, NEW t, NEW s, s = [i \in Places |-> Nothing]
  PROVE  RamOK(s, t, sc, ov) /\ Used(s) = 0 /\ \A i \in InEeprom : s[i] = Nothing
<1>1. \A i \in Places : s[i] = Nothing /\ ~Full(s[i])
  BY PlaceHasNothing
<1>2. s \in [Places -> PlaceIn(sc)]
  BY PlaceHasNothing
<1>3. ApartIn(s, t, Places) /\ Excused(s, t, ov)
  BY <1>1, EepromPlaces DEF ApartIn, Excused
<1>4. Used(s) = 0
  BY <1>1, UsedOfTwo, EepromPlaces DEF Ones, One
<1> QED BY <1>1, <1>2, <1>3, <1>4, EepromPlaces DEF RamOK

(* What Emptied makes of a copy of the EEPROM.                             *)
LEMMA EmptiedIs ==
  ASSUME NEW m, Shaped(m), NEW sc, NEW ov
  PROVE  /\ MemOK(Emptied(m), sc, ov) /\ Emptied(m).slots = <<Nothing, Nothing>>
         /\ Emptied(m).count = 0 /\ (SlotsReachRegion => Emptied(m).shared = Zero)
<1> DEFINE w == Emptied(m)
<1>1. PICK a, b, d, e : m = [count |-> a, slots |-> b, shared |-> d, region |-> e]
  BY DEF Shaped
<1>2. w = [m EXCEPT !.slots = <<Nothing, Nothing>>, !.count = 0,
                    !.shared = IF SlotsReachRegion THEN Zero ELSE d]
  BY <1>1 DEF Emptied
<1> HIDE DEF w
<1>3. w = [count |-> 0, slots |-> <<Nothing, Nothing>>,
           shared |-> IF SlotsReachRegion THEN Zero ELSE d, region |-> e]
  BY <1>1, <1>2
<1>4. w.count = 0 /\ w.slots = <<Nothing, Nothing>>
      /\ (SlotsReachRegion => w.shared = Zero) /\ Shaped(w)
  BY <1>3 DEF Shaped
<1>5. \A i \in InEeprom : w.slots[i] = Nothing /\ ~Full(w.slots[i])
  BY <1>4, EepromPlaces, PlaceHasNothing
<1>6. w.slots \in [InEeprom -> PlaceIn(sc)]
  <2>1. <<Nothing, Nothing>> \in [1 .. 2 -> {Nothing}]
    OBVIOUS
  <2> QED BY <2>1, <1>4, PlaceHasNothing DEF InEeprom
<1>7. w.count = Used(w.slots)
  BY <1>4, <1>5, UsedOfTwo, EepromPlaces DEF Ones, One
<1>8. ApartIn(w.slots, w.shared, InEeprom) /\ Excused(w.slots, w.shared, ov)
  BY <1>5, EepromPlaces DEF ApartIn, Excused
<1>9. MemOK(w, sc, ov)
  BY <1>4, <1>6, <1>7, <1>8 DEF MemOK
<1> QED BY <1>4, <1>9 DEF w

(* Mailbox::clear.                                                         *)
LEMMA ClearKeeps ==
  ASSUME Mail, ClearMailbox
  PROVE  Mail'
<1> DEFINE m == Emptied(eeprom.buffer)
<1>1. slots' = [i \in Places |-> Nothing] /\ count' = 0 /\ tail' = Zero
      /\ UNCHANGED <<scene, overlaid>> /\ Commit([eeprom EXCEPT !.buffer = m])
  BY DEF ClearMailbox, regions
<1>2. RamOK(slots', tail', scene, overlaid) /\ count' = Used(slots')
      /\ \A i \in InEeprom : slots'[i] = Nothing
  BY <1>1, EmptyRam
<1>3. MemOK(m, scene, overlaid) /\ m.slots = <<Nothing, Nothing>>
      /\ m.count = 0 /\ (SlotsReachRegion => m.shared = Zero)
  BY EmptiedIs DEF Mail, MemOK
<1> HIDE DEF m
<1>4. Match(m, slots', count', tail')
  BY <1>1, <1>2, <1>3, EepromPlaces DEF Match
<1> QED BY <1>1, <1>2, <1>3, <1>4, CommitKeeps

(* "region save": what is in slot 2 then is excused, and no longer whole.  *)
LEMMA SaveKeeps ==
  ASSUME Mail, RegionSave
  PROVE  Mail'
<1>1. /\ scene \in Scenes /\ slots \in [Places -> PlaceIn(scene)]
      /\ ApartIn(slots, tail, Places) /\ Excused(slots, tail, overlaid)
      /\ MemOK(eeprom.buffer, scene, overlaid) /\ Match(eeprom.buffer, slots, count, tail)
      /\ count = Used(slots)
  BY DEF Mail, RamOK
<1>2. UNCHANGED <<scene, slots, count, tail>>
  BY DEF RegionSave, mailbox
<1>3. overlaid \subseteq overlaid' /\ (Full(slots[2]) => slots[2].pkt \in overlaid')
  BY DEF RegionSave
<1>4. PICK b, f : eeprom = [buffer |-> b, flash |-> f]
  BY DEF Mail
<1>5. b = eeprom.buffer /\ Shaped(b)
  BY <1>1, <1>4 DEF MemOK
<1>6. PICK c, s, d, e : b = [count |-> c, slots |-> s, shared |-> d, region |-> e]
  BY <1>5 DEF Shaped
<1>7. PICK h, r : h = HeadOf(regionMap.head) /\ r = regionMap.rest
  OBVIOUS
<1> DEFINE m == [count |-> c, slots |-> s, shared |-> h, region |-> r]
<1>8. Commit([eeprom EXCEPT !.buffer = m])
  <2>1. [b EXCEPT !.shared = h, !.region = r] = m
    <3>1. [b EXCEPT !.shared = h] = [count |-> c, slots |-> s, shared |-> h, region |-> e]
      BY <1>6
    <3>2. [[count |-> c, slots |-> s, shared |-> h, region |-> e] EXCEPT !.region = r] = m
      OBVIOUS
    <3>3. [[b EXCEPT !.shared = h] EXCEPT !.region = r] = m
      BY <3>1, <3>2, Zenon
    <3> QED BY <3>3
  <2>2. Commit([eeprom EXCEPT !.buffer = [@ EXCEPT !.shared = h, !.region = r]])
    BY <1>7 DEF RegionSave
  <2>3. [eeprom EXCEPT !.buffer = [@ EXCEPT !.shared = h, !.region = r]]
        = [eeprom EXCEPT !.buffer = [b EXCEPT !.shared = h, !.region = r]]
    BY <1>5
  <2> QED BY <2>1, <2>2, <2>3
<1>9. m.slots = eeprom.buffer.slots /\ m.count = eeprom.buffer.count /\ m.shared = h /\ Shaped(m)
  BY <1>5, <1>6 DEF Shaped
<1> HIDE DEF m
<1>10. Match(m, slots, count, tail)
  BY <1>1, <1>7, <1>9 DEF Match
<1>11. ApartIn(m.slots, m.shared, InEeprom)
  BY <1>1, <1>10, MatchApart
<1>12. m.slots[2] = slots[2]
  BY <1>10, EepromPlaces DEF Match
<1>13. MemOK(m, scene, overlaid')
  <2>1. Excused(m.slots, m.shared, overlaid')
    BY <1>3, <1>12 DEF Excused
  <2>2. m.slots \in [InEeprom -> PlaceIn(scene)] /\ m.count = Used(m.slots)
    BY <1>1, <1>9 DEF MemOK
  <2> QED BY <1>9, <1>11, <2>1, <2>2 DEF MemOK
<1>14. RamOK(slots', tail', scene, overlaid')
  BY <1>1, <1>2, <1>3 DEF RamOK, Excused
<1> QED BY <1>1, <1>2, <1>3, <1>8, <1>10, <1>13, <1>14, CommitKeeps

(* A commit of another section.                                            *)
LEMMA OtherCommitKeeps ==
  ASSUME Mail, OtherCommit
  PROVE  Mail'
<1>1. PICK b, f : eeprom = [buffer |-> b, flash |-> f]
  BY DEF Mail
<1>2. eeprom' = [buffer |-> b, flash |-> b]
  BY <1>1 DEF OtherCommit, Flushed
<1>3. eeprom'.buffer = b /\ eeprom'.flash = b /\ b = eeprom.buffer
  BY <1>1, <1>2
<1>4. UNCHANGED <<scene, slots, count, tail, overlaid, failures>>
  BY DEF OtherCommit, mailbox, regions
<1>5. Backup(b, scene, overlaid)
  BY <1>3 DEF Mail, Backup, MemOK
<1> QED BY <1>2, <1>3, <1>4, <1>5 DEF Mail

(* Mailbox::load of a copy of the EEPROM that has a mailbox.               *)
LEMMA LoadKeeps ==
  ASSUME scene \in Scenes, NEW m, MemOK(m, scene, overlaid), LoadMailbox(m)
  PROVE  /\ RamOK(slots', tail', scene, overlaid) /\ count' = Used(slots')
         /\ Match(m, slots', count', tail')
<1>1. /\ m.slots \in [InEeprom -> PlaceIn(scene)] /\ m.count = Used(m.slots)
      /\ ApartIn(m.slots, m.shared, InEeprom) /\ Excused(m.slots, m.shared, overlaid)
  BY DEF MemOK
<1>2. /\ slots' = [i \in Places |-> IF i \in InEeprom THEN m.slots[i] ELSE Nothing]
      /\ count' = m.count /\ tail' = IF SlotsReachRegion THEN m.shared ELSE Zero
  BY DEF LoadMailbox
<1>3. \A i \in Places : slots'[i] = IF i \in InEeprom THEN m.slots[i] ELSE Nothing
  BY <1>2
<1>4. slots' \in [Places -> PlaceIn(scene)]
  BY <1>1, <1>2, PlaceHasNothing
<1>5. \A i \in InEeprom : slots'[i] = m.slots[i]
  BY <1>3, EepromPlaces
<1>6. \A i \in Places : Full(slots'[i]) => i \in InEeprom
  BY <1>3, PlaceHasNothing
<1>7. Full(slots'[2]) => (Damaged(slots', tail', 2) <=> Damaged(m.slots, m.shared, 2))
  <2>1. SUFFICES ASSUME Full(slots'[2]), IsLong(slots'[2].pkt)
                 PROVE  tail' = m.shared
    BY <1>5, EepromPlaces DEF Damaged
  <2>2. slots'[2] \in PlaceIn(scene)
    BY <1>4, EepromPlaces
  <2>3. SlotsReachRegion
    BY <2>1, <2>2, PlaceHolds, LongReaches
  <2> QED BY <1>2, <2>3
<1>8. ApartIn(slots', tail', Places)
  <2>1. ASSUME NEW i \in Places, NEW j \in Places, Full(slots'[i]), Full(slots'[j]),
               slots'[i].pkt = slots'[j].pkt,
               ~Damaged(slots', tail', i), ~Damaged(slots', tail', j)
        PROVE  i = j
    <3>1. i \in InEeprom /\ j \in InEeprom /\ slots'[i] = m.slots[i] /\ slots'[j] = m.slots[j]
      BY <1>5, <1>6, <2>1
    <3>2. ~Damaged(m.slots, m.shared, i) /\ ~Damaged(m.slots, m.shared, j)
      BY <1>7, <2>1 DEF Damaged
    <3> QED BY <1>1, <2>1, <3>1, <3>2 DEF ApartIn
  <2> QED BY <2>1, Zenon DEF ApartIn
<1>9. Excused(slots', tail', overlaid)
  BY <1>1, <1>5, <1>7, EepromPlaces DEF Excused
<1>10. count' = Used(slots')
  BY <1>1, <1>2, <1>5, EepromPlaces, UsedOfTwo
<1>11. Match(m, slots', count', tail')
  BY <1>2, <1>5 DEF Match
<1> QED BY <1>4, <1>8, <1>9, <1>10, <1>11 DEF RamOK

(* A restart, with or without a mailbox in the flash.                      *)
LEMMA RebootKeeps ==
  ASSUME Mail, Reboot
  PROVE  Mail'
<1>1. PICK b, f : eeprom = [buffer |-> b, flash |-> f]
  BY DEF Mail
<1>2. eeprom.flash = f /\ Backup(f, scene, overlaid) /\ UNCHANGED <<scene, overlaid>>
      /\ scene \in Scenes /\ failures \in Nat /\ b = eeprom.buffer
  BY <1>1 DEF Mail, Reboot
<1>3. CASE f.count = Blank
  <2> DEFINE m == Emptied(f)
  <2>1. MemOK(m, scene, overlaid)
    BY <1>2, EmptiedIs DEF Backup
  <2>2. LoadMailbox(m)
    BY <1>2, <1>3 DEF Reboot
  <2>3. Commit([eeprom EXCEPT !.buffer = m])
    <3>1. Mounted(eeprom) = [buffer |-> f, flash |-> f]
      BY <1>1 DEF Mounted
    <3>2. [Mounted(eeprom) EXCEPT !.buffer = Emptied(@)] = [buffer |-> m, flash |-> f]
      BY <3>1
    <3> HIDE DEF m
    <3>3. [eeprom EXCEPT !.buffer = m] = [buffer |-> m, flash |-> f]
      BY <1>1
    <3>4. Commit([Mounted(eeprom) EXCEPT !.buffer = Emptied(@)])
      BY <1>2, <1>3 DEF Reboot
    <3> QED BY <3>2, <3>3, <3>4
  <2> HIDE DEF m
  <2>4. RamOK(slots', tail', scene, overlaid) /\ count' = Used(slots')
        /\ Match(m, slots', count', tail')
    BY <1>2, <2>1, <2>2, LoadKeeps
  <2> QED BY <1>2, <2>1, <2>3, <2>4, CommitKeeps
<1>4. CASE f.count # Blank
  <2>1. MemOK(f, scene, overlaid)
    BY <1>2, <1>4 DEF Backup
  <2>2. LoadMailbox(f) /\ eeprom' = Mounted(eeprom) /\ UNCHANGED failures
    BY <1>2, <1>4 DEF Reboot
  <2>3. eeprom' = [buffer |-> f, flash |-> f]
    BY <1>1, <2>2 DEF Mounted
  <2>4. eeprom'.buffer = f /\ eeprom'.flash = f
    BY <2>3
  <2>5. RamOK(slots', tail', scene, overlaid) /\ count' = Used(slots')
        /\ Match(f, slots', count', tail')
    BY <1>2, <2>1, <2>2, LoadKeeps
  <2> QED BY <1>2, <2>1, <2>2, <2>3, <2>4, <2>5 DEF Mail
<1> QED BY <1>3, <1>4

-----------------------------------------------------------------------------
(* What may be given out, and be queued.                                   *)
CopyIn(sc) == [pkt : sc.packets, damaged : BOOLEAN]

(* What the handler or the clean-up is in the middle of.                   *)
TaskOK(t, sc) ==
  /\ t = [job |-> t.job, for |-> t.for, hand |-> t.hand, due |-> t.due]
  /\ t.job \in {"none", "deliver", "expire"}
  /\ t.hand \in CopyIn(sc) \cup {Nothing}
  /\ t.hand # Nothing => t.job = "deliver"

QueueOK(q, sc) == q \in Seq(CopyIn(sc) \cup {Other}) /\ Len(q) <= QueueSize

(* The clock, the seen nodes, the queue and the task.                      *)
Types ==
  /\ now \in 0 .. scene.until /\ synced \in BOOLEAN
  /\ heard \in [Dests -> 0 .. KnownAt] /\ quiet \in [Dests -> BOOLEAN]
  /\ QueueOK(txq, scene)
  /\ TaskOK(task, scene)

(* An idle task, and the clean-up's.                                       *)
LEMMA IdleIs ==
  /\ Idle.job = "none" /\ Idle.hand = Nothing /\ Expiring.job = "expire" /\ Expiring.hand = Nothing
  /\ \A sc : TaskOK(Idle, sc) /\ TaskOK(Expiring, sc)
<1>1. Expiring = [job |-> "expire", for |-> Nothing, hand |-> Nothing, due |-> <<>>]
  BY DEF Expiring, Idle
<1> QED BY <1>1 DEF Idle, TaskOK

(* TxQueue::add of what the queue may hold.                                *)
LEMMA QueueAddOK ==
  ASSUME NEW sc, NEW q, QueueOK(q, sc), NEW c \in CopyIn(sc) \cup {Other}
  PROVE  QueueOK(QueueAdd(q, c), sc)
BY QueueAddType DEF QueueOK

(* Queueing something else.                                                *)
LEMMA OtherKeepsQueue ==
  ASSUME QueueOK(txq, scene), MayQueueOther
  PROVE  QueueOK(txq', scene)
<1>1. CASE UNCHANGED txq
  BY <1>1
<1>2. CASE QueueOther
  BY <1>2, QueueAddOK DEF QueueOther
<1> QED BY <1>1, <1>2 DEF MayQueueOther

(* seenNodes.update.                                                       *)
LEMMA HeardKeeps ==
  ASSUME heard \in [Dests -> 0 .. KnownAt], quiet \in [Dests -> BOOLEAN],
         NEW d \in Dests, HearFrom(d)
  PROVE  heard' \in [Dests -> 0 .. KnownAt] /\ quiet' \in [Dests -> BOOLEAN]
<1>1. KnownAt \in Nat /\ heard[d] \in 0 .. KnownAt
  BY MailboxAssumption
<1>2. (IF heard[d] = KnownAt THEN heard[d] ELSE heard[d] + 1) \in 0 .. KnownAt
  BY <1>1
<1> QED BY <1>2 DEF HearFrom

(* The mailbox of a place, its packet as it would be given out.            *)
LEMMA CopyIs ==
  ASSUME Mail, NEW i \in Places, Full(slots[i])
  PROVE  Copy(i) \in CopyIn(scene) /\ Copy(i) # Nothing /\ Copy(i).pkt = slots[i].pkt
         /\ Copy(i).damaged = Damaged(slots, tail, i)
<1>1. slots[i].pkt \in scene.packets /\ scene \in Scenes
  BY PlaceHolds DEF Mail, RamOK
<1>2. Damaged(slots, tail, i) \in BOOLEAN
  BY DEF Damaged
<1>3. Copy(i) \in CopyIn(scene) /\ Copy(i).pkt = slots[i].pkt
      /\ Copy(i).damaged = Damaged(slots, tail, i)
  BY <1>1, <1>2, Zenon DEF Copy, CopyIn
<1> QED BY <1>1, <1>3, MailboxAssumption DEF CopyIn

(* A place that waits for a node: one that is full.                        *)
LEMMA NextWaiting ==
  ASSUME NEW d, Waiting(d) # {}
  PROVE  Min(Waiting(d)) \in Waiting(d) /\ Min(Waiting(d)) \in Places /\ Full(slots[Min(Waiting(d))])
<1>1. Waiting(d) \subseteq Nat
  BY PlacesAreNumbers DEF Waiting
<1>2. Min(Waiting(d)) \in Waiting(d)
  BY <1>1, MinIs
<1> QED BY <1>2 DEF Waiting

(* And one that expires.                                                   *)
LEMMA NextExpired ==
  ASSUME Expired # {}
  PROVE  Min(Expired) \in Places /\ Full(slots[Min(Expired)])
<1>1. Expired \subseteq Nat
  BY PlacesAreNumbers DEF Expired
<1>2. Min(Expired) \in Expired
  BY <1>1, MinIs
<1> QED BY <1>2 DEF Expired

(* Every step but RegionSave leaves the history of its maps alone.         *)
LEMMA MailStep == Types /\ Mail /\ [Next]_vars => Mail'
<1> SUFFICES ASSUME Types, Mail, [Next]_vars PROVE Mail'
  OBVIOUS
<1> USE DEF regions
<1>1. ASSUME NEW p \in scene.packets, ReceivePacket(p) PROVE Mail'
  <2>1. CASE Away(p.dest) /\ synced
    BY <1>1, <2>1, StoreKeeps DEF ReceivePacket, Types
  <2>2. CASE ~(Away(p.dest) /\ synced)
    BY <1>1, <2>2, SameMail DEF ReceivePacket
  <2> QED BY <2>1, <2>2
<1>2. ASSUME NEW d \in Dests, ReceiveOther(d) \/ FallSilent(d) PROVE Mail'
  BY <1>2, SameMail DEF ReceiveOther, FallSilent
<1>3. ASSUME NEW d \in Dests, NEW t \in 0 .. scene.until, ReceiveAdvert(d, t) PROVE Mail'
  BY <1>3, SameMail DEF ReceiveAdvert
<1>4. ASSUME NEW t \in 0 .. scene.until, SetClock(t) PROVE Mail'
  BY <1>4, SameMail DEF SetClock
<1>5. ASSUME NEW r \in scene.regions, RegionEdit(r) PROVE Mail'
  BY <1>5, SameMail DEF RegionEdit
<1>6. CASE Pop
  BY <1>6, NextWaiting, TakeKeeps DEF Pop
<1>7. CASE QueuePopped \/ FinishAdvert \/ RegionLoad \/ Tick \/ SendOther \/ Transmit
  BY <1>7, SameMail DEF QueuePopped, FinishAdvert, RegionLoad, Tick, SendOther, Transmit
<1>8. CASE Cleanup
  BY <1>8, NextExpired, TakeKeeps DEF Cleanup
<1>9. CASE UNCHANGED vars
  BY <1>9, SameMail DEF vars
<1> QED
  BY <1>1, <1>2, <1>3, <1>4, <1>5, <1>6, <1>7, <1>8, <1>9,
     ClearKeeps, SaveKeeps, OtherCommitKeeps, RebootKeeps DEF Next

(* Each step keeps the clock, the nodes, the queue and the task in range.  *)
LEMMA TypesStep == Types /\ Mail /\ [Next]_vars => Types'
<1> SUFFICES ASSUME Types, Mail, [Next]_vars PROVE Types'
  OBVIOUS
<1>1. scene' = scene /\ Dests' = Dests
  BY DEF Next, ReceivePacket, ReceiveOther, FallSilent, ReceiveAdvert, SetClock, RegionEdit, Pop,
         QueuePopped, FinishAdvert, Cleanup, ClearMailbox, RegionSave, RegionLoad, OtherCommit,
         Tick, SendOther, Transmit, Reboot, vars, Dests
<1>2. scene.until \in Nat /\ KnownAt \in Nat
  BY MailboxAssumption DEF Mail
<1>3. /\ now \in 0 .. scene.until /\ synced \in BOOLEAN
      /\ heard \in [Dests -> 0 .. KnownAt] /\ quiet \in [Dests -> BOOLEAN]
      /\ QueueOK(txq, scene) /\ TaskOK(task, scene)
  BY DEF Types
<1>4. (now' \in 0 .. scene.until /\ synced' \in BOOLEAN)
  <2>1. CASE UNCHANGED clock
    BY <1>3, <2>1 DEF clock
  <2>2. ASSUME NEW d \in Dests, NEW t \in 0 .. scene.until, ReceiveAdvert(d, t)
        PROVE  now' \in 0 .. scene.until /\ synced' \in BOOLEAN
    BY <1>3, <2>2 DEF ReceiveAdvert, clock
  <2>3. ASSUME NEW t \in 0 .. scene.until, SetClock(t)
        PROVE  now' \in 0 .. scene.until /\ synced' \in BOOLEAN
    BY <2>3 DEF SetClock
  <2>4. CASE Tick
    <3>1. PICK u \in Nat : u = scene.until
      BY <1>2
    <3> QED BY <1>3, <2>4, <3>1 DEF Tick
  <2>5. CASE Reboot
    <3>1. PICK u \in Nat : u = scene.until
      BY <1>2
    <3>2. now' = 0 /\ synced' = FALSE
      BY <2>5 DEF Reboot
    <3>3. now' \in 0 .. scene.until
      BY <3>1, <3>2
    <3>4. synced' \in BOOLEAN
      BY <3>2, Zenon
    <3> QED BY <3>3, <3>4
  <2> QED BY <2>1, <2>2, <2>3, <2>4, <2>5
       DEF Next, ReceivePacket, ReceiveOther, FallSilent, RegionEdit, Pop, QueuePopped,
           FinishAdvert, Cleanup, ClearMailbox, RegionSave, RegionLoad, OtherCommit,
           SendOther, Transmit, vars
<1>5. heard' \in [Dests -> 0 .. KnownAt] /\ quiet' \in [Dests -> BOOLEAN]
  <2>1. CASE UNCHANGED nodes
    BY <1>3, <2>1 DEF nodes
  <2>2. ASSUME NEW d \in Dests, HearFrom(d)
        PROVE  heard' \in [Dests -> 0 .. KnownAt] /\ quiet' \in [Dests -> BOOLEAN]
    BY <1>3, <2>2, HeardKeeps
  <2>3. ASSUME NEW d \in Dests, FallSilent(d)
        PROVE  heard' \in [Dests -> 0 .. KnownAt] /\ quiet' \in [Dests -> BOOLEAN]
    BY <1>3, <2>3 DEF FallSilent
  <2>4. CASE Reboot
    BY <1>2, <2>4 DEF Reboot
  <2> QED BY <2>1, <2>2, <2>3, <2>4
       DEF Next, ReceivePacket, ReceiveOther, ReceiveAdvert, SetClock, RegionEdit, Pop,
           QueuePopped, FinishAdvert, Cleanup, ClearMailbox, RegionSave, RegionLoad, OtherCommit,
           Tick, SendOther, Transmit, vars
<1>6. QueueOK(txq', scene)
  <2>1. CASE MayQueueOther
    BY <1>3, <2>1, OtherKeepsQueue
  <2>2. CASE QueuePopped
    BY <1>3, <2>2, QueueAddOK DEF QueuePopped, TaskOK
  <2>3. CASE Transmit
    <3>1. PICK S : S = CopyIn(scene) \cup {Other}
      OBVIOUS
    <3>2. txq \in Seq(S) /\ Len(txq) <= QueueSize /\ txq # <<>> /\ txq' = QueueRest(txq)
      BY <1>3, <2>3, <3>1 DEF Transmit, QueueOK
    <3>3. txq' \in Seq(S) /\ Len(txq') < QueueSize
      BY <3>2, QueuePopType
    <3>4. Len(txq') <= QueueSize
      BY <3>3, QueueSizeAssumption
    <3> QED BY <3>1, <3>3, <3>4 DEF QueueOK
  <2>4. CASE Reboot
    <3>1. txq' = <<>>
      BY <2>4 DEF Reboot
    <3>2. <<>> \in Seq(CopyIn(scene) \cup {Other}) /\ Len(<<>>) <= QueueSize
      BY QueueSizeAssumption
    <3> QED BY <3>1, <3>2 DEF QueueOK
  <2> QED BY <2>1, <2>2, <2>3, <2>4
       DEF Next, ReceivePacket, ReceiveOther, FallSilent, ReceiveAdvert, SetClock, RegionEdit,
           Pop, FinishAdvert, Cleanup, ClearMailbox, RegionSave, RegionLoad, OtherCommit,
           Tick, SendOther, vars, MayQueueOther
<1>7. TaskOK(task', scene)
  <2>1. CASE UNCHANGED task
    BY <1>3, <2>1
  <2>2. ASSUME NEW d \in Dests, NEW t \in 0 .. scene.until, ReceiveAdvert(d, t)
        PROVE  TaskOK(task', scene)
    BY <2>2 DEF ReceiveAdvert, TaskOK
  <2>3. CASE Pop
    <3>1. Copy(Min(Waiting(task.for))) \in CopyIn(scene)
      BY <2>3, NextWaiting, CopyIs DEF Pop
    <3>2. PICK a, b, c, e : task = [job |-> a, for |-> b, hand |-> c, due |-> e]
      BY <1>3 DEF TaskOK
    <3>3. PICK x \in CopyIn(scene) : x = Copy(Min(Waiting(task.for)))
      BY <3>1
    <3>4. task' = [job |-> a, for |-> b, hand |-> x, due |-> e] /\ a = "deliver"
      BY <2>3, <3>2, <3>3 DEF Pop
    <3> QED BY <3>4 DEF TaskOK
  <2>4. CASE QueuePopped
    <3>1. PICK a, b, c, e : task = [job |-> a, for |-> b, hand |-> c, due |-> e]
      BY <1>3 DEF TaskOK
    <3>2. task' = [job |-> a, for |-> b, hand |-> Nothing, due |-> e] /\ a = task.job
      BY <2>4, <3>1 DEF QueuePopped
    <3> QED BY <1>3, <3>2 DEF TaskOK
  <2>5. CASE FinishAdvert \/ Cleanup \/ Reboot
    BY <2>5, IdleIs DEF FinishAdvert, Cleanup, Reboot
  <2> QED BY <2>1, <2>2, <2>3, <2>4, <2>5
       DEF Next, ReceivePacket, ReceiveOther, FallSilent, SetClock, RegionEdit, ClearMailbox,
           RegionSave, RegionLoad, OtherCommit, Tick, SendOther, Transmit, vars
<1> QED BY <1>1, <1>4, <1>5, <1>6, <1>7 DEF Types

(* The first boot.                                                         *)
LEMMA MailStart == Init => Types /\ Mail
<1> SUFFICES ASSUME Init PROVE Types /\ Mail
  OBVIOUS
<1>1. scene \in Scenes /\ slots = [i \in Places |-> Nothing] /\ count = 0 /\ overlaid = {}
  BY DEF Init
<1>2. PICK u \in Nat : u = scene.until
  BY <1>1, MailboxAssumption
<1> DEFINE m == Emptied(Virgin)
<1>3. Shaped(Virgin) /\ Virgin.count = Blank
  BY DEF Shaped, Virgin
<1>4. /\ MemOK(m, scene, overlaid) /\ m.slots = <<Nothing, Nothing>>
      /\ m.count = 0 /\ (SlotsReachRegion => m.shared = Zero)
  BY <1>3, EmptiedIs
<1> HIDE DEF m
<1>5. RamOK(slots, tail, scene, overlaid) /\ count = Used(slots)
      /\ \A i \in InEeprom : slots[i] = Nothing
  BY <1>1, EmptyRam
<1>6. Match(m, slots, count, tail)
  <2>1. tail = Zero
    BY DEF Init
  <2> QED BY <1>1, <1>4, <1>5, <2>1, EepromPlaces DEF Match
<1>7. Backup(m, scene, overlaid) /\ Backup(Virgin, scene, overlaid)
  BY <1>3, <1>4 DEF Backup, MemOK
<1>8. \/ eeprom = [buffer |-> m, flash |-> m] /\ failures = 0
      \/ eeprom = [buffer |-> m, flash |-> Virgin] /\ failures = 1
  BY DEF Init, m
<1>9. Mail
  BY <1>1, <1>4, <1>5, <1>6, <1>7, <1>8 DEF Mail
<1>10. now \in 0 .. scene.until /\ heard \in [Dests -> 0 .. KnownAt]
  <2>1. now = 0 /\ heard = [d \in Dests |-> 0] /\ 0 \in 0 .. KnownAt
    BY MailboxAssumption DEF Init
  <2> QED BY <1>2, <2>1
<1>11. synced \in BOOLEAN /\ quiet \in [Dests -> BOOLEAN]
  <2>1. synced = FALSE /\ quiet = [d \in Dests |-> FALSE]
    BY DEF Init
  <2> QED BY <2>1
<1>12. QueueOK(txq, scene)
  <2>1. txq = <<>>
    BY DEF Init
  <2>2. <<>> \in Seq(CopyIn(scene) \cup {Other}) /\ Len(<<>>) <= QueueSize
    BY QueueSizeAssumption
  <2> QED BY <2>1, <2>2 DEF QueueOK
<1>13. TaskOK(task, scene)
  BY IdleIs DEF Init
<1> QED BY <1>9, <1>10, <1>11, <1>12, <1>13 DEF Types

(* The invariant.                                                          *)
LEMMA MailInvariant == Spec => [](Types /\ Mail)
<1>1. Types /\ Mail /\ [Next]_vars => Types' /\ Mail'
  BY MailStep, TypesStep
<1> QED BY <1>1, MailStart, PTL DEF Spec

(* RAM, the EEPROM's buffer and its flash each have a count that fits      *)
(* their slots; the buffer has the slots that the RAM has, and so has the  *)
(* flash while no commit has failed: at whatever moment power is lost, the *)
(* mailbox found after it is whole (writeSlot, load).                      *)
THEOREM AlwaysConsistent == Spec => []Consistent
<1>1. Types /\ Mail => Consistent
  <2> SUFFICES ASSUME Types, Mail PROVE TypeOK /\ CountAgrees
    BY DEF Consistent
  <2>1. slots \in [Places -> SlotType \cup {Nothing}]
    BY DEF Mail, RamOK, PlaceIn, SlotType
  <2>2. count \in 0 .. 2
    BY UsedOfTwo DEF Mail, Ones, One
  <2>3. TypeOK
    <3>1. CopyIn(scene) = CopyType
      BY DEF CopyIn, CopyType
    <3> QED BY <2>1, <2>2, <3>1 DEF TypeOK, Types, QueueOK, TaskOK
  <2>4. CountAgrees
    BY DEF CountAgrees, Mail, Match, Backup, MemOK
  <2> QED BY <2>3, <2>4
<1> QED BY <1>1, MailInvariant, PTL

(* No packet takes two slots, with whatever copies that arrive, restarts,  *)
(* commits that fail and clocks that jump (isDuplicate).                   *)
THEOREM NeverStoredTwice == Spec => []NoDoubleStore
<1>1. Mail => NoDoubleStore
  BY DEF Mail, RamOK, ApartIn, NoDoubleStore, Holds
<1> QED BY <1>1, MailInvariant, PTL

-----------------------------------------------------------------------------
(***************************************************************************)
(* What damages a packet.                                                  *)
(***************************************************************************)
OkCopy(c, ov) == c.damaged => c.pkt \in ov

Excuses ==
  /\ task.hand # Nothing => OkCopy(task.hand, overlaid)
  /\ \A c \in Queued(txq) : OkCopy(c, overlaid)

(* TxQueue::add of what is sound or excused.                               *)
LEMMA QueueAddExcused ==
  ASSUME QueueOK(txq, scene), NEW c \in CopyIn(scene) \cup {Other}, NEW ov,
         \A b \in Queued(txq) : OkCopy(b, ov), OkCopy(c, ov)
  PROVE  \A b \in Queued(QueueAdd(txq, c)) : OkCopy(b, ov)
<1>1. PICK S : S = CopyIn(scene) \cup {Other}
  OBVIOUS
<1>2. txq \in Seq(S) /\ Len(txq) <= QueueSize /\ c \in S
  BY <1>1 DEF QueueOK
<1>3. Queued(QueueAdd(txq, c)) \subseteq Queued(txq) \cup {c}
  BY <1>2, QueueAddShifts DEF IsAdded
<1> QED BY <1>3

(* What is given out is the packet as it was stored, or one that the       *)
(* region map was saved over.                                              *)
LEMMA ExcusesStep == Types /\ Mail /\ Excuses /\ [Next]_vars => Excuses'
<1> SUFFICES ASSUME Types, Mail, Excuses, [Next]_vars PROVE Excuses'
  OBVIOUS
<1>1. QueueOK(txq, scene) /\ TaskOK(task, scene)
  BY DEF Types
<1>2. /\ task.hand # Nothing => OkCopy(task.hand, overlaid)
      /\ \A c \in Queued(txq) : OkCopy(c, overlaid)
  BY DEF Excuses
<1>3. overlaid \subseteq overlaid'
  BY DEF Next, ReceivePacket, ReceiveOther, FallSilent, ReceiveAdvert, SetClock, RegionEdit, Pop,
         QueuePopped, FinishAdvert, Cleanup, ClearMailbox, RegionSave, RegionLoad, OtherCommit,
         Tick, SendOther, Transmit, Reboot, vars, regions
<1>4. \A c : OkCopy(c, overlaid) => OkCopy(c, overlaid')
  BY <1>3 DEF OkCopy
<1>5. OkCopy(Other, overlaid')
  BY DEF OkCopy, Other
<1>6. task'.hand # Nothing => OkCopy(task'.hand, overlaid')
  <2>1. CASE UNCHANGED task
    BY <1>2, <1>4, <2>1
  <2>2. ASSUME NEW d \in Dests, NEW t \in 0 .. scene.until, ReceiveAdvert(d, t)
        PROVE  task'.hand = Nothing
    BY <2>2 DEF ReceiveAdvert
  <2>3. CASE Pop
    <3> DEFINE i == Min(Waiting(task.for))
    <3>1. i \in Places /\ Full(slots[i])
      BY <2>3, NextWaiting DEF Pop
    <3>2. task'.hand = Copy(i)
      BY <1>1, <2>3 DEF Pop, TaskOK
    <3> HIDE DEF i
    <3>3. Copy(i).pkt = slots[i].pkt /\ Copy(i).damaged = Damaged(slots, tail, i)
      BY <3>1, CopyIs
    <3>4. Damaged(slots, tail, i) => slots[i].pkt \in overlaid
      <4>1. Damaged(slots, tail, i) => i = 2
        BY DEF Damaged
      <4> QED BY <3>1, <4>1 DEF Mail, RamOK, Excused
    <3>5. OkCopy(Copy(i), overlaid)
      BY <3>3, <3>4, Zenon DEF OkCopy
    <3> QED BY <1>4, <3>2, <3>5
  <2>4. CASE QueuePopped
    BY <1>1, <2>4 DEF QueuePopped, TaskOK
  <2>5. CASE FinishAdvert \/ Cleanup \/ Reboot
    BY <2>5, IdleIs DEF FinishAdvert, Cleanup, Reboot
  <2> QED BY <2>1, <2>2, <2>3, <2>4, <2>5
       DEF Next, ReceivePacket, ReceiveOther, FallSilent, SetClock, RegionEdit, ClearMailbox,
           RegionSave, RegionLoad, OtherCommit, Tick, SendOther, Transmit, vars
<1>7. \A c \in Queued(txq') : OkCopy(c, overlaid')
  <2>0. \A c \in Queued(txq) : OkCopy(c, overlaid')
    BY <1>2, <1>4
  <2>1. CASE MayQueueOther
    <3>1. \A c \in Queued(QueueAdd(txq, Other)) : OkCopy(c, overlaid')
      BY <1>1, <1>5, <2>0, QueueAddExcused
    <3> QED BY <2>0, <2>1, <3>1 DEF MayQueueOther, QueueOther
  <2>2. CASE QueuePopped
    <3>1. txq' = QueueAdd(txq, task.hand) /\ OkCopy(task.hand, overlaid') /\ task.hand \in CopyIn(scene)
      BY <1>1, <1>2, <1>4, <2>2 DEF QueuePopped, TaskOK
    <3> QED BY <1>1, <2>0, <3>1, QueueAddExcused
  <2>3. CASE Transmit
    <3>1. PICK S : S = CopyIn(scene) \cup {Other}
      OBVIOUS
    <3>2. txq \in Seq(S) /\ txq # <<>> /\ txq' = QueueRest(txq)
      BY <1>1, <2>3, <3>1 DEF Transmit, QueueOK
    <3> QED BY <2>0, <3>2, QueuePopHolds
  <2>4. CASE Reboot
    BY <2>4 DEF Reboot, Queued
  <2> QED BY <2>1, <2>2, <2>3, <2>4
       DEF Next, ReceivePacket, ReceiveOther, FallSilent, ReceiveAdvert, SetClock, RegionEdit,
           Pop, FinishAdvert, Cleanup, ClearMailbox, RegionSave, RegionLoad, OtherCommit,
           Tick, SendOther, vars, MayQueueOther
<1> QED BY <1>6, <1>7 DEF Excuses

(* The bytes of a stored packet are those that were received, in its slot, *)
(* after any restart and on the way out, unless the region map was saved   *)
(* while the packet was in slot 2: nothing else in the shared EEPROM, and  *)
(* no failed commit, damages one (Mailbox.h:52, RegionMap::save).          *)
THEOREM AlwaysDamagedOnlyByOverlap == Spec => []DamagedOnlyByOverlap
<1>1. Init => Excuses
  BY IdleIs DEF Init, Excuses, Queued
<1>2. Mail /\ Excuses => DamagedOnlyByOverlap
  BY DEF DamagedOnlyByOverlap, Mail, RamOK, Excused, Excuses, OkCopy, Damaged
<1> QED BY <1>1, <1>2, MailInvariant, ExcusesStep, PTL DEF Spec

-----------------------------------------------------------------------------
(***************************************************************************)
(* How often a packet is given out.                                        *)
(***************************************************************************)
Sound(p) == [pkt |-> p, damaged |-> FALSE]
Kept(p)  == \E i \in Places : Holds(slots, tail, i, p)

Tally(p) == queued[p] + One(Kept(p)) + One(task.hand = Sound(p)) <= stored[p] + undone

Delivery ==
  /\ stored \in [scene.packets -> Nat] /\ queued \in [scene.packets -> Nat] /\ undone \in Nat
  /\ \A p \in scene.packets : Tally(p)

(* A sound copy is something.                                              *)
LEMMA SoundIs ==
  ASSUME scene \in Scenes, NEW p \in scene.packets
  PROVE  Sound(p) # Nothing /\ Sound(p).pkt = p /\ Sound(p).damaged = FALSE
<1>1. Sound(p).pkt = p /\ Sound(p).damaged = FALSE
      /\ Sound(p) \in [pkt : scene.packets, damaged : BOOLEAN]
  BY Zenon DEF Sound
<1>2. Nothing \notin [pkt : scene.packets, damaged : BOOLEAN]
  BY MailboxAssumption
<1> QED BY <1>1, <1>2

(* A step that counts nothing and after which no more packets are kept.    *)
LEMMA FewerCounts ==
  ASSUME Mail, Delivery, UNCHANGED <<scene, counts, undone>>,
         task'.hand = task.hand \/ task'.hand = Nothing,
         \A p \in scene.packets : Kept(p)' => Kept(p)
  PROVE  Delivery'
<1>1. /\ scene \in Scenes
      /\ stored \in [scene.packets -> Nat] /\ queued \in [scene.packets -> Nat] /\ undone \in Nat
      /\ scene' = scene /\ stored' = stored /\ queued' = queued /\ undone' = undone
  BY DEF Mail, Delivery, counts
<1>2. ASSUME NEW p \in scene.packets PROVE Tally(p)'
  <2>1. task'.hand = Sound(p) => task.hand = Sound(p)
    BY <1>1, SoundIs
  <2>2. Kept(p)' => Kept(p)
    OBVIOUS
  <2>3. One(Kept(p)') <= One(Kept(p)) /\ One(Kept(p)') \in Nat /\ One(Kept(p)) \in Nat
    BY <2>2 DEF One
  <2>4. One(task'.hand = Sound(p)) <= One(task.hand = Sound(p))
        /\ One(task'.hand = Sound(p)) \in Nat /\ One(task.hand = Sound(p)) \in Nat
    BY <2>1 DEF One
  <2>5. queued[p] \in Nat /\ stored[p] \in Nat
    BY <1>1
  <2>6. queued[p] + One(Kept(p)) + One(task.hand = Sound(p)) <= stored[p] + undone
    BY DEF Delivery, Tally
  <2>7. queued[p] + One(Kept(p)') + One(task'.hand = Sound(p)) <= stored[p] + undone
    BY <1>1, <2>3, <2>4, <2>5, <2>6
  <2> QED BY <1>1, <2>7 DEF Tally, Sound
<1> QED BY <1>1, <1>2 DEF Delivery

(* The mailbox as it was.                                                  *)
LEMMA SameKept ==
  ASSUME UNCHANGED <<slots, tail>>, NEW p
  PROVE  Kept(p)' <=> Kept(p)
BY DEF Kept, Holds, Damaged

(* An emptied place keeps nothing, and only what it held is gone.          *)
LEMMA EmptiedKeeps ==
  ASSUME Mail, NEW i \in Places, slots' = [slots EXCEPT ![i] = Nothing], UNCHANGED tail, NEW p
  PROVE  Kept(p)' => \E j \in Places : j # i /\ Holds(slots, tail, j, p)
<1>1. \A j \in Places : slots'[j] = IF j = i THEN Nothing ELSE slots[j]
  BY DEF Mail, RamOK
<1>2. SUFFICES ASSUME NEW j \in Places, Holds(slots', tail', j, p)
               PROVE  j # i /\ Holds(slots, tail, j, p)
  BY DEF Kept
<1> QED BY <1>1, <1>2, PlaceHasNothing DEF Holds, Damaged

(* A packet counted as stored is in one place more.                        *)
LEMMA StoreCounts ==
  ASSUME Mail, Types, Delivery, NEW p \in scene.packets, Store(p),
         UNCHANGED <<scene, task, queued, undone>>
  PROVE  Delivery'
<1>1. /\ scene \in Scenes
      /\ stored \in [scene.packets -> Nat] /\ queued \in [scene.packets -> Nat] /\ undone \in Nat
      /\ slots \in [Places -> PlaceIn(scene)]
  BY DEF Mail, RamOK, Delivery
<1>2. CASE ~Accepts(p)
  <2>1. UNCHANGED <<slots, tail, stored>>
    BY <1>2 DEF Store, mailbox
  <2> QED BY <2>1, SameKept, FewerCounts DEF counts
<1>3. CASE Accepts(p)
  <2>1. stored' = [stored EXCEPT ![p] = @ + 1] /\ (StoreEeprom(p) \/ StoreRam(p))
    BY <1>3 DEF Store
  <2>2. PICK k \in Places : /\ slots' = [slots EXCEPT ![k] = Slot(p)]
                            /\ tail' = tail \/ (k = 2 /\ tail' = NewTail(p))
    <3>1. CASE StoreEeprom(p)
      <4>1. EepromPlace \in Places /\ (EepromPlace # 2 => tail' = tail)
        BY <3>1, EepromPlaces DEF EepromPlace, StoreEeprom, NewTail
      <4> QED BY <3>1, <4>1 DEF StoreEeprom
    <3>2. CASE StoreRam(p)
      <4>1. RamPlace \in Places
        BY RamPlaceIs, PlacesAreNumbers
      <4> QED BY <3>2, <4>1 DEF StoreRam
    <3> QED BY <2>1, <3>1, <3>2
  <2>3. Slot(p).pkt = p
    BY DEF Slot
  <2>4. \A j \in Places : slots'[j] = IF j = k THEN Slot(p) ELSE slots[j]
    BY <1>1, <2>2
  <2>5. ASSUME NEW r \in scene.packets, r # p PROVE Kept(r)' => Kept(r)
    <3>1. SUFFICES ASSUME NEW j \in Places, Holds(slots', tail', j, r)
                   PROVE  Holds(slots, tail, j, r)
      BY DEF Kept
    <3>2. j # k /\ slots'[j] = slots[j]
      BY <2>3, <2>4, <2>5, <3>1 DEF Holds
    <3>3. Damaged(slots', tail', j) <=> Damaged(slots, tail, j)
      BY <2>2, <3>2 DEF Damaged
    <3> QED BY <3>1, <3>2, <3>3 DEF Holds
  <2>6. ~Kept(p)
    BY <1>3 DEF Accepts, IsDuplicate, Kept
  <2>7. stored' \in [scene.packets -> Nat]
        /\ \A r \in scene.packets : stored'[r] = IF r = p THEN stored[r] + 1 ELSE stored[r]
    BY <1>1, <2>1
  <2>8. ASSUME NEW r \in scene.packets PROVE Tally(r)'
    <3>1. queued[r] \in Nat /\ stored[r] \in Nat /\ stored'[r] = (IF r = p THEN stored[r] + 1 ELSE stored[r])
      BY <1>1, <2>7
    <3>2. PICK h \in Nat : h = One(task.hand = Sound(r))
      BY DEF One
    <3>3. One(Kept(r)') <= One(Kept(r)) + (IF r = p THEN 1 ELSE 0)
      BY <2>5, <2>6 DEF One
    <3>4. One(Kept(r)') \in Nat /\ One(Kept(r)) \in Nat
      BY DEF One
    <3>5. queued[r] + One(Kept(r)) + h <= stored[r] + undone
      BY <3>2 DEF Delivery, Tally
    <3>6. queued[r] + One(Kept(r)') + h <= stored'[r] + undone
      BY <1>1, <3>1, <3>3, <3>4, <3>5
    <3> QED BY <3>2, <3>6 DEF Tally, Sound
  <2> QED BY <1>1, <2>7, <2>8 DEF Delivery
<1> QED BY <1>2, <1>3

(* popFor moves a packet from its slot into the handler's hand.            *)
LEMMA PopCounts ==
  ASSUME Mail, Types, Delivery, Pop
  PROVE  Delivery'
<1> DEFINE i == Min(Waiting(task.for))
<1>1. i \in Places /\ Full(slots[i])
  BY NextWaiting DEF Pop
<1>2. /\ slots' = [slots EXCEPT ![i] = Nothing] /\ tail' = tail
      /\ task.hand = Nothing /\ task'.hand = Copy(i)
      /\ UNCHANGED <<scene, stored, queued, undone>>
  BY DEF Pop, Take, Types, TaskOK, counts
<1> HIDE DEF i
<1>3. Copy(i).pkt = slots[i].pkt /\ Copy(i).damaged = Damaged(slots, tail, i)
  BY <1>1, CopyIs
<1>4. /\ scene \in Scenes
      /\ stored \in [scene.packets -> Nat] /\ queued \in [scene.packets -> Nat] /\ undone \in Nat
  BY DEF Mail, Delivery
<1>5. ASSUME NEW p \in scene.packets PROVE Tally(p)'
  <2>1. task.hand # Sound(p)
    BY <1>2, <1>4, SoundIs
  <2>2. Kept(p)' => \E j \in Places : j # i /\ Holds(slots, tail, j, p)
    BY <1>1, <1>2, EmptiedKeeps
  <2>3. task'.hand = Sound(p) => Holds(slots, tail, i, p)
    BY <1>1, <1>2, <1>3, <1>4, SoundIs DEF Holds
  <2>4. \A j, k \in Places : Holds(slots, tail, j, p) /\ Holds(slots, tail, k, p) => j = k
    BY DEF Mail, RamOK, ApartIn, Holds
  <2>5. ~(Kept(p)' /\ task'.hand = Sound(p)) /\ (Kept(p)' \/ task'.hand = Sound(p) => Kept(p))
    BY <1>1, <2>2, <2>3, <2>4 DEF Kept
  <2>6. One(Kept(p)') + One(task'.hand = Sound(p)) <= One(Kept(p))
    BY <2>5 DEF One
  <2>7. One(Kept(p)') \in Nat /\ One(task'.hand = Sound(p)) \in Nat /\ One(Kept(p)) \in Nat
    BY DEF One
  <2>8. queued[p] + One(Kept(p)) + 0 <= stored[p] + undone
    BY <2>1 DEF Delivery, Tally, One
  <2>9. queued[p] \in Nat /\ stored[p] \in Nat
    BY <1>4
  <2>10. queued[p] + One(Kept(p)') + One(task'.hand = Sound(p)) <= stored[p] + undone
    BY <1>4, <2>6, <2>7, <2>8, <2>9
  <2> QED BY <1>2, <2>10 DEF Tally, Sound
<1> QED BY <1>2, <1>4, <1>5 DEF Delivery

(* Queueing it counts it as given out.                                     *)
LEMMA QueuePoppedCounts ==
  ASSUME Mail, Types, Delivery, QueuePopped
  PROVE  Delivery'
<1>1. /\ task'.hand = Nothing /\ UNCHANGED <<scene, slots, tail, stored, undone>>
      /\ queued' = IF task.hand.damaged THEN queued ELSE [queued EXCEPT ![task.hand.pkt] = @ + 1]
  BY DEF QueuePopped, Types, TaskOK, mailbox
<1>2. /\ scene \in Scenes
      /\ stored \in [scene.packets -> Nat] /\ queued \in [scene.packets -> Nat] /\ undone \in Nat
  BY DEF Mail, Delivery
<1>3. task.hand \in CopyIn(scene)
  BY DEF QueuePopped, Types, TaskOK
<1>4. queued' \in [scene.packets -> Nat]
  BY <1>1, <1>2, <1>3 DEF CopyIn
<1>5. ASSUME NEW p \in scene.packets PROVE Tally(p)'
  <2>1. task'.hand # Sound(p)
    BY <1>1, <1>2, SoundIs
  <2>2. queued'[p] = queued[p] \/ (queued'[p] = queued[p] + 1 /\ task.hand = Sound(p))
    <3>1. CASE task.hand.damaged
      BY <1>1, <3>1
    <3>2. CASE ~task.hand.damaged
      <4>1. task.hand = Sound(task.hand.pkt)
        BY <1>3, <3>2 DEF CopyIn, Sound
      <4>2. queued'[p] = IF p = task.hand.pkt THEN queued[p] + 1 ELSE queued[p]
        BY <1>1, <1>2, <3>2
      <4> QED BY <4>1, <4>2
    <3> QED BY <3>1, <3>2
  <2>3. Kept(p)' <=> Kept(p)
    BY <1>1, SameKept
  <2>4. PICK k \in Nat : k = One(Kept(p)) /\ k = One(Kept(p)')
    BY <2>3 DEF One
  <2>5. queued[p] + k + One(task.hand = Sound(p)) <= stored[p] + undone
    BY <2>4 DEF Delivery, Tally
  <2>6. queued[p] \in Nat /\ stored[p] \in Nat
    BY <1>2
  <2>7. queued'[p] + k + 0 <= stored[p] + undone
    BY <1>2, <2>2, <2>5, <2>6 DEF One
  <2>8. One(task'.hand = Sound(p)) = 0
    BY <2>1 DEF One
  <2> QED BY <1>1, <2>4, <2>7, <2>8 DEF Tally, Sound
<1> QED BY <1>1, <1>2, <1>4, <1>5 DEF Delivery

(* A restart that finds what was put in has no more than there was.        *)
LEMMA RebootFinds ==
  ASSUME Mail, Reboot, eeprom.buffer = eeprom.flash, NEW p \in scene.packets, Kept(p)'
  PROVE  Kept(p)
<1> DEFINE m == eeprom.flash
<1>1. /\ scene \in Scenes /\ slots \in [Places -> PlaceIn(scene)]
      /\ Match(m, slots, count, tail) /\ m.count = count /\ count = Used(slots)
  BY DEF Mail, RamOK, Match
<1>2. m.count # Blank
  <2>1. Used(slots) \in Nat
    BY UsedOfTwo DEF Ones, One
  <2> QED BY <1>1, <2>1, MailboxAssumption
<1>3. LoadMailbox(m)
  BY <1>2 DEF Reboot
<1> HIDE DEF m
<1>4. /\ \A i \in Places : slots'[i] = IF i \in InEeprom THEN m.slots[i] ELSE Nothing
      /\ tail' = IF SlotsReachRegion THEN m.shared ELSE Zero
  BY <1>3 DEF LoadMailbox
<1>5. PICK j \in Places : Holds(slots', tail', j, p)
  BY DEF Kept
<1>6. j \in InEeprom /\ slots'[j] = slots[j] /\ Full(slots[j]) /\ slots[j].pkt = p
  BY <1>1, <1>4, <1>5, PlaceHasNothing DEF Match, Holds
<1>7. ~Damaged(slots, tail, j)
  <2>1. SUFFICES ASSUME j = 2, IsLong(p) PROVE tail = TailOf(p)
    BY <1>6 DEF Damaged
  <2>2. SlotsReachRegion
    <3>1. p.len \in Nat /\ p.len <= 76
      BY <1>1, <1>6, PlaceHolds
    <3> QED BY <2>1, <3>1, LongReaches
  <2>3. tail' = TailOf(p) /\ tail' = m.shared
    BY <1>4, <1>5, <1>6, <2>1, <2>2 DEF Holds, Damaged
  <2> QED BY <1>1, <2>2, <2>3, TailIsNoHead DEF Match
<1> QED BY <1>6, <1>7 DEF Kept, Holds

(* One that finds less, or more, is counted.                               *)
LEMMA RebootCounts ==
  ASSUME Mail, Delivery, Reboot
  PROVE  Delivery'
<1>1. /\ scene \in Scenes /\ task'.hand = Nothing /\ UNCHANGED <<scene, stored, queued>>
      /\ stored \in [scene.packets -> Nat] /\ queued \in [scene.packets -> Nat] /\ undone \in Nat
      /\ undone' = IF eeprom.buffer = eeprom.flash THEN undone ELSE undone + 1
  BY IdleIs DEF Mail, Delivery, Reboot, counts
<1>2. CASE eeprom.buffer = eeprom.flash
  BY <1>1, <1>2, RebootFinds, FewerCounts DEF counts
<1>3. CASE eeprom.buffer # eeprom.flash
  <2>1. ASSUME NEW p \in scene.packets PROVE Tally(p)'
    <3>1. task'.hand # Sound(p)
      BY <1>1, SoundIs
    <3>2. One(task'.hand = Sound(p)) = 0 /\ One(Kept(p)') \in {0, 1}
          /\ One(Kept(p)) \in Nat /\ One(task.hand = Sound(p)) \in Nat
      BY <3>1 DEF One
    <3>3. queued[p] \in Nat /\ stored[p] \in Nat
      BY <1>1
    <3>4. queued[p] + One(Kept(p)) + One(task.hand = Sound(p)) <= stored[p] + undone
      BY DEF Delivery, Tally
    <3>5. queued[p] + One(Kept(p)') + One(task'.hand = Sound(p)) <= stored[p] + (undone + 1)
      BY <1>1, <3>2, <3>3, <3>4
    <3> QED BY <1>1, <1>3, <3>5 DEF Tally, Sound
  <2> QED BY <1>1, <1>3, <2>1 DEF Delivery
<1> QED BY <1>2, <1>3

(* Every step keeps the tally.                                             *)
LEMMA DeliveryStep == Types /\ Mail /\ Delivery /\ [Next]_vars => Delivery'
<1> SUFFICES ASSUME Types, Mail, Delivery, [Next]_vars PROVE Delivery'
  OBVIOUS
<1>1. ASSUME NEW p \in scene.packets, ReceivePacket(p) PROVE Delivery'
  <2>1. CASE Away(p.dest) /\ synced
    BY <1>1, <2>1, StoreCounts DEF ReceivePacket
  <2>2. CASE ~(Away(p.dest) /\ synced)
    <3>1. UNCHANGED <<scene, slots, tail, counts, undone, task>>
      BY <1>1, <2>2 DEF ReceivePacket, mailbox, counts
    <3> QED BY <3>1, SameKept, FewerCounts
  <2> QED BY <2>1, <2>2
<1>2. CASE UNCHANGED <<scene, slots, tail, counts, undone, task>>
  BY <1>2, SameKept, FewerCounts
<1>3. ASSUME NEW d \in Dests, NEW t \in 0 .. scene.until, ReceiveAdvert(d, t) PROVE Delivery'
  <2>1. UNCHANGED <<scene, slots, tail, counts, undone>> /\ task'.hand = Nothing
    BY <1>3 DEF ReceiveAdvert, mailbox
  <2> QED BY <2>1, SameKept, FewerCounts
<1>4. CASE FinishAdvert
  <2>1. UNCHANGED <<scene, slots, tail, counts, undone>> /\ task'.hand = Nothing
    BY <1>4, IdleIs DEF FinishAdvert, mailbox
  <2> QED BY <2>1, SameKept, FewerCounts
<1>5. CASE Cleanup
  <2> DEFINE i == Min(Expired)
  <2>1. i \in Places /\ Full(slots[i])
    BY <1>5, NextExpired DEF Cleanup
  <2>2. slots' = [slots EXCEPT ![i] = Nothing] /\ UNCHANGED <<tail, scene, counts, undone>>
        /\ task'.hand = Nothing
    BY <1>5, IdleIs DEF Cleanup, Take
  <2> HIDE DEF i
  <2>3. \A p \in scene.packets : Kept(p)' => Kept(p)
    BY <2>1, <2>2, EmptiedKeeps DEF Kept
  <2> QED BY <2>2, <2>3, FewerCounts
<1>6. CASE ClearMailbox
  <2>1. UNCHANGED <<scene, counts, undone, task>> /\ \A i \in Places : ~Full(slots'[i])
    BY <1>6, PlaceHasNothing DEF ClearMailbox
  <2>2. \A p \in scene.packets : ~Kept(p)'
    BY <2>1 DEF Kept, Holds
  <2> QED BY <2>1, <2>2, FewerCounts
<1> QED
  BY <1>1, <1>2, <1>3, <1>4, <1>5, <1>6, PopCounts, QueuePoppedCounts, RebootCounts
     DEF Next, ReceiveOther, FallSilent, SetClock, RegionEdit, RegionSave, RegionLoad,
         OtherCommit, Tick, SendOther, Transmit, vars, mailbox

(* Nothing is stored at the first boot.                                    *)
LEMMA DeliveryStart == Init => Delivery
<1> SUFFICES ASSUME Init PROVE Delivery
  OBVIOUS
<1>1. /\ scene \in Scenes /\ task.hand = Nothing /\ undone = 0
      /\ stored = [p \in scene.packets |-> 0] /\ queued = [p \in scene.packets |-> 0]
      /\ \A i \in Places : ~Full(slots[i])
  BY IdleIs, PlaceHasNothing DEF Init
<1>2. ASSUME NEW p \in scene.packets PROVE Tally(p)
  <2>1. ~Kept(p) /\ task.hand # Sound(p)
    BY <1>1, SoundIs DEF Kept, Holds
  <2> QED BY <1>1, <2>1 DEF Tally, One
<1> QED BY <1>1, <1>2 DEF Delivery

(* A packet is given out at most once for each time that it was stored,    *)
(* and once more for each restart that found the flash behind the buffer;  *)
(* without such a restart never more often, wherever power fails between   *)
(* popFor and txQueue.add (main.cpp:3088-3090).                            *)
THEOREM AlwaysNeverTwice == Spec => []NeverTwice
<1>1. Mail /\ Delivery => NeverTwice
  <2>1. Mail => NoDoubleStore
    BY DEF Mail, RamOK, ApartIn, NoDoubleStore, Holds
  <2>2. Delivery => AtMostOnce
    BY DEF Delivery, AtMostOnce, Tally, Kept, Sound
  <2> QED BY <2>1, <2>2 DEF NeverTwice
<1>2. Types /\ Mail /\ Delivery /\ [Next]_vars => Delivery'
  BY DeliveryStep
<1> QED BY <1>1, <1>2, DeliveryStart, MailInvariant, PTL DEF Spec

-----------------------------------------------------------------------------
(***************************************************************************)
(* What a packet may be lost for.  Of the packets that waited when the     *)
(* ADVERT came, those that left their slots are in the handler's hand or   *)
(* so many places from the queue's end as were queued behind them.         *)
(***************************************************************************)
Left == DOMAIN task.due \ Waiting(task.for)

Near(k) ==
  \E n \in Nat : /\ n + One(task.hand # Nothing) < Cardinality(Left)
                 /\ n < Len(txq) /\ txq[Len(txq) - n] = k

Dues ==
  task.job = "deliver" =>
    /\ DOMAIN task.due \subseteq Places
    /\ Waiting(task.for) \subseteq DOMAIN task.due
    /\ \A i \in Waiting(task.for) : task.due[i] = Copy(i)
    /\ \A i \in DOMAIN task.due : task.due[i] # Nothing
    /\ Cardinality(DOMAIN task.due) < QueueSize =>
         \A i \in Left : task.hand = task.due[i] \/ Near(task.due[i])

(* The places are finitely many.                                           *)
LEMMA PlacesFinite == IsFiniteSet(Places)
<1>1. PICK n \in Int : n = 2 + RamSlots
  BY MailboxAssumption
<1>2. 1 \in Int /\ 2 \in Int /\ 3 \in Int
  OBVIOUS
<1>3. IsFiniteSet(1 .. 2)
  BY <1>2, FS_Interval
<1>4. IsFiniteSet(3 .. n)
  BY <1>2, FS_Interval
<1> QED BY <1>1, <1>3, <1>4, FS_Union DEF Places, InEeprom, InRam

(* What left is at most what was due.                                      *)
LEMMA LeftFinite ==
  ASSUME NEW D, D \subseteq Places, NEW L, L \subseteq D
  PROVE  /\ IsFiniteSet(L) /\ Cardinality(L) \in Nat /\ Cardinality(D) \in Nat
         /\ Cardinality(L) <= Cardinality(D)
<1>1. IsFiniteSet(D)
  BY PlacesFinite, FS_Subset
<1> QED BY <1>1, FS_Subset, FS_CardinalityType

(* The handler begins with all of them waiting.                            *)
LEMMA AdvertDues ==
  ASSUME Mail, NEW d \in Dests, NEW t \in 0 .. scene.until, ReceiveAdvert(d, t)
  PROVE  Dues'
<1>1. /\ task' = [job |-> "deliver", for |-> d, hand |-> Nothing,
                  due |-> [i \in Waiting(d) |-> Copy(i)]]
      /\ UNCHANGED <<slots, tail>>
  BY DEF ReceiveAdvert, mailbox
<1>2. task'.for = d /\ task'.due = [i \in Waiting(d) |-> Copy(i)]
  BY <1>1
<1>3. DOMAIN task'.due = Waiting(d) /\ \A i \in Waiting(d) : task'.due[i] = Copy(i)
  BY <1>2
<1>4. Waiting(d)' = Waiting(d) /\ Waiting(d) \subseteq Places
  BY <1>1 DEF Waiting
<1>5. \A i \in Places : Copy(i)' = Copy(i)
  BY <1>1 DEF Copy, Damaged
<1>6. Waiting(task.for)' = Waiting(d)
  BY <1>1, <1>2 DEF Waiting
<1>7. Left' = {}
  BY <1>3, <1>6 DEF Left
<1>8. \A i \in Waiting(d) : Copy(i) # Nothing
  BY CopyIs DEF Waiting
<1> QED BY <1>3, <1>4, <1>5, <1>6, <1>7, <1>8 DEF Dues

(* popFor: one less waits, and it is in hand.                              *)
LEMMA PopDues ==
  ASSUME Mail, Types, Dues, Pop
  PROVE  Dues'
<1> DEFINE i == Min(Waiting(task.for))
           W == Waiting(task.for)
           D == DOMAIN task.due
<1>1. i \in Places /\ Full(slots[i]) /\ i \in W
  BY NextWaiting DEF Pop
<1>2. PICK x : x = Copy(i)
  OBVIOUS
<1>3. x # Nothing
  BY <1>1, <1>2, CopyIs
<1>4. /\ slots' = [slots EXCEPT ![i] = Nothing] /\ tail' = tail /\ txq' = txq
      /\ task.job = "deliver" /\ task.hand = Nothing
      /\ task' = [task EXCEPT !.hand = x]
  BY <1>2 DEF Pop, Take
<1> HIDE DEF i
<1>5. task'.for = task.for /\ task'.due = task.due /\ task'.hand = x /\ task'.job = "deliver"
  BY <1>4 DEF Types, TaskOK
<1>6. /\ D \subseteq Places /\ W \subseteq D /\ \A j \in W : task.due[j] = Copy(j)
      /\ \A j \in D : task.due[j] # Nothing
      /\ Cardinality(D) < QueueSize => \A j \in Left : task.hand = task.due[j] \/ Near(task.due[j])
  BY <1>4 DEF Dues
<1>7. \A j \in Places : slots'[j] = IF j = i THEN Nothing ELSE slots[j]
  BY <1>4 DEF Mail, RamOK
<1>8. Waiting(task.for)' = W \ {i}
  BY <1>5, <1>7, PlaceHasNothing DEF Waiting
<1>9. \A j \in Places : j # i => Copy(j)' = Copy(j)
  BY <1>4, <1>7 DEF Copy, Damaged
<1>10. \A j \in W \ {i} : task.due[j] = Copy(j)'
  BY <1>6, <1>9
<1>11. Left' = Left \cup {i} /\ i \notin Left /\ i \in D
  BY <1>1, <1>5, <1>6, <1>8 DEF Left
<1>12. Cardinality(Left') = Cardinality(Left) + 1 /\ Cardinality(Left) \in Nat
  <2>1. Left \subseteq D
    BY DEF Left
  <2>2. IsFiniteSet(Left) /\ Cardinality(Left) \in Nat
    BY <1>6, <2>1, LeftFinite
  <2> QED BY <1>11, <2>2, FS_AddElement
<1>13. ASSUME Cardinality(D) < QueueSize, NEW j \in Left'
       PROVE  task'.hand = task.due[j] \/ Near(task.due[j])'
  <2>1. CASE j = i
    BY <1>1, <1>2, <1>5, <1>6, <2>1
  <2>2. CASE j # i
    <3>1. j \in Left /\ j \in D /\ task.hand # task.due[j]
      BY <1>4, <1>6, <1>11, <1>13, <2>2 DEF Left
    <3>2. CASE Near(task.due[j])
      <4>1. PICK n \in Nat : /\ n + One(task.hand # Nothing) < Cardinality(Left)
                             /\ n < Len(txq) /\ txq[Len(txq) - n] = task.due[j]
        BY <3>2 DEF Near
      <4>2. One(task.hand # Nothing) = 0 /\ One(task'.hand # Nothing) = 1
        BY <1>3, <1>4, <1>5 DEF One
      <4>3. n + 1 < Cardinality(Left) + 1
        BY <1>12, <4>1, <4>2
      <4> QED BY <1>4, <1>5, <1>12, <4>1, <4>2, <4>3 DEF Near
    <3> QED BY <1>6, <1>13, <3>1, <3>2
  <2> QED BY <2>1, <2>2
<1> QED BY <1>5, <1>6, <1>8, <1>10, <1>13 DEF Dues

(* A packet in the queue is one place further from its end when another is *)
(* added, and still there.                                                 *)
LEMMA AddedBehind ==
  ASSUME QueueOK(txq, scene), NEW c \in CopyIn(scene) \cup {Other}, NEW n \in Nat,
         n < Len(txq), n + 1 < QueueSize, NEW q, q = QueueAdd(txq, c)
  PROVE  n + 1 < Len(q) /\ q[Len(q) - (n + 1)] = txq[Len(txq) - n]
<1>1. PICK S : S = CopyIn(scene) \cup {Other}
  OBVIOUS
<1>2. txq \in Seq(S) /\ Len(txq) <= QueueSize /\ c \in S
  BY <1>1 DEF QueueOK
<1>3. IsAdded(q, txq, c)
  BY <1>2, QueueAddShifts
<1> QED BY <1>3 DEF IsAdded

(* And the one that is added is the last.                                  *)
LEMMA AddedLast ==
  ASSUME QueueOK(txq, scene), NEW c \in CopyIn(scene) \cup {Other}, NEW q, q = QueueAdd(txq, c)
  PROVE  0 < Len(q) /\ q[Len(q)] = c /\ Len(q) \in Nat
<1>1. PICK S : S = CopyIn(scene) \cup {Other}
  OBVIOUS
<1>2. txq \in Seq(S) /\ Len(txq) <= QueueSize /\ c \in S
  BY <1>1 DEF QueueOK
<1>3. q \in Seq(S) /\ Len(q) > 0 /\ q[Len(q)] = c
  BY <1>2, QueueAddShifts DEF IsAdded
<1> QED BY <1>3

(* txQueue.add of what popFor gave out.                                    *)
LEMMA QueuePoppedDues ==
  ASSUME Types, Dues, QueuePopped
  PROVE  Dues'
<1> DEFINE W == Waiting(task.for)
           D == DOMAIN task.due
           h == task.hand
<1>1. /\ task.job = "deliver" /\ h # Nothing /\ h \in CopyIn(scene) \cup {Other}
      /\ QueueOK(txq, scene) /\ txq' = QueueAdd(txq, h)
      /\ UNCHANGED <<slots, tail>>
  BY DEF QueuePopped, Types, TaskOK, mailbox
<1>2. task'.for = task.for /\ task'.due = task.due /\ task'.hand = Nothing /\ task'.job = "deliver"
  BY <1>1 DEF Types, TaskOK, QueuePopped
<1>3. /\ D \subseteq Places /\ W \subseteq D /\ \A j \in W : task.due[j] = Copy(j)
      /\ \A j \in D : task.due[j] # Nothing
      /\ Cardinality(D) < QueueSize => \A j \in Left : h = task.due[j] \/ Near(task.due[j])
  BY <1>1 DEF Dues
<1>4. Waiting(task.for)' = W /\ Left' = Left /\ \A j \in W : Copy(j)' = Copy(j)
  BY <1>1, <1>2 DEF Waiting, Left, Copy, Damaged
<1>5. Left \subseteq D /\ IsFiniteSet(Left) /\ Cardinality(Left) \in Nat /\ Cardinality(D) \in Nat
      /\ Cardinality(Left) <= Cardinality(D)
  <2>1. Left \subseteq D
    BY DEF Left
  <2> QED BY <1>3, <2>1, LeftFinite
<1>6. One(h # Nothing) = 1 /\ One(task'.hand # Nothing) = 0
  BY <1>1, <1>2 DEF One
<1>7. ASSUME Cardinality(D) < QueueSize, NEW j \in Left PROVE Near(task.due[j])'
  <2>1. CASE h = task.due[j]
    <3>1. 0 < Len(txq') /\ txq'[Len(txq')] = h /\ Len(txq') \in Nat
      BY <1>1, AddedLast
    <3>2. Cardinality(Left) > 0
      BY <1>5, FS_EmptySet
    <3>3. txq'[Len(txq') - 0] = task.due[j]
      BY <2>1, <3>1
    <3> QED BY <1>2, <1>4, <1>6, <3>1, <3>2, <3>3 DEF Near
  <2>2. CASE Near(task.due[j])
    <3>1. PICK n \in Nat : /\ n + One(h # Nothing) < Cardinality(Left)
                           /\ n < Len(txq) /\ txq[Len(txq) - n] = task.due[j]
      BY <2>2 DEF Near
    <3>2. n + 1 < Cardinality(Left) /\ n + 1 < QueueSize
      BY <1>5, <1>6, <1>7, <3>1, QueueSizeAssumption
    <3>3. n + 1 < Len(txq') /\ txq'[Len(txq') - (n + 1)] = task.due[j]
      BY <1>1, <3>1, <3>2, AddedBehind
    <3>4. n + 1 \in Nat /\ (n + 1) + 0 < Cardinality(Left)
      BY <3>2
    <3> QED BY <1>2, <1>4, <1>6, <3>3, <3>4 DEF Near
  <2> QED BY <1>3, <1>7, <2>1, <2>2
<1> QED BY <1>2, <1>3, <1>4, <1>7 DEF Dues

(* Every step keeps track of what is due.                                  *)
LEMMA DuesStep == Types /\ Mail /\ Dues /\ [Next]_vars => Dues'
<1> SUFFICES ASSUME Types, Mail, Dues, [Next]_vars PROVE Dues'
  OBVIOUS
<1>1. CASE task'.job # "deliver"
  BY <1>1 DEF Dues
<1>2. CASE UNCHANGED vars
  <2>1. UNCHANGED <<slots, tail, txq, task>>
    BY <1>2 DEF vars, mailbox
  <2> QED BY <2>1 DEF Dues, Waiting, Copy, Damaged, Left, Near
<1>3. CASE task.job = "deliver" /\ Next
  BY <1>1, <1>3, IdleIs, PopDues, QueuePoppedDues
     DEF Next, ReceivePacket, ReceiveOther, FallSilent, ReceiveAdvert, SetClock, RegionEdit,
         FinishAdvert, Cleanup, ClearMailbox, RegionSave, RegionLoad, OtherCommit,
         Tick, SendOther, Transmit, Reboot
<1>4. CASE task.job # "deliver" /\ Next
  <2>1. ASSUME NEW d \in Dests, NEW t \in 0 .. scene.until, ReceiveAdvert(d, t) PROVE Dues'
    BY <2>1, AdvertDues
  <2>2. CASE QueuePopped
    BY <1>4, <2>2 DEF QueuePopped, Types, TaskOK
  <2> QED BY <1>1, <1>4, <2>1, <2>2, IdleIs
       DEF Next, ReceivePacket, ReceiveOther, FallSilent, SetClock, RegionEdit, Pop,
           FinishAdvert, Cleanup, ClearMailbox, RegionSave, RegionLoad, OtherCommit,
           Tick, SendOther, Transmit, Reboot
<1> QED BY <1>2, <1>3, <1>4

(* At the handler's end all that was due is in the queue.                  *)
LEMMA AllQueued ==
  ASSUME Types, Dues, FinishAdvert, Cardinality(DOMAIN task.due) < QueueSize,
         NEW i \in DOMAIN task.due
  PROVE  task.due[i] \in Queued(txq')
<1>1. task.job = "deliver" /\ task.hand = Nothing /\ Waiting(task.for) = {} /\ MayQueueOther
      /\ QueueOK(txq, scene)
  BY DEF FinishAdvert, Types
<1>2. Left = DOMAIN task.due /\ DOMAIN task.due \subseteq Places /\ task.due[i] # Nothing
  BY <1>1 DEF Dues, Left
<1>3. Near(task.due[i])
  BY <1>1, <1>2 DEF Dues
<1>4. PICK n \in Nat : /\ n + One(task.hand # Nothing) < Cardinality(Left)
                       /\ n < Len(txq) /\ txq[Len(txq) - n] = task.due[i]
  BY <1>3 DEF Near
<1>5. Len(txq) \in Nat /\ Cardinality(Left) \in Nat
  <2>1. Len(txq) \in Nat
    BY <1>1 DEF QueueOK
  <2> QED BY <1>2, <2>1, LeftFinite
<1>6. CASE txq' = txq
  <2>1. Len(txq) - n \in 1 .. Len(txq)
    BY <1>4, <1>5
  <2> QED BY <1>4, <1>6, <2>1 DEF Queued
<1>7. CASE txq' = QueueAdd(txq, Other)
  <2>1. One(task.hand # Nothing) = 0
    BY <1>1 DEF One
  <2>2. n + 1 < QueueSize
    BY <1>2, <1>4, <1>5, <2>1, QueueSizeAssumption
  <2>3. n + 1 < Len(txq') /\ txq'[Len(txq') - (n + 1)] = task.due[i]
    BY <1>1, <1>4, <1>7, <2>2, AddedBehind
  <2>4. Len(txq') \in Nat
    BY <1>1, <1>7, AddedLast
  <2>5. Len(txq') - (n + 1) \in 1 .. Len(txq')
    BY <2>3, <2>4
  <2> QED BY <2>3, <2>5 DEF Queued
<1> QED BY <1>1, <1>6, <1>7 DEF MayQueueOther, QueueOther

(* What storing changes: an empty slot, or the oldest in RAM when none is. *)
LEMMA EvictionStep ==
  ASSUME Mail, [Next]_vars, stored' # stored, NEW i \in Places, Full(slots[i]), slots'[i] # slots[i]
  PROVE  /\ i \in InRam /\ \A j \in Places : Full(slots[j])
         /\ \A j \in InRam : slots[i].time <= slots[j].time
<1>1. PICK p \in scene.packets : StoreEeprom(p) \/ StoreRam(p)
  BY DEF Next, ReceivePacket, Store, ReceiveOther, FallSilent, ReceiveAdvert, SetClock, RegionEdit,
         Pop, QueuePopped, FinishAdvert, Cleanup, ClearMailbox, RegionSave, RegionLoad, OtherCommit,
         Tick, SendOther, Transmit, Reboot, vars, counts
<1>2. slots \in [Places -> PlaceIn(scene)]
  BY DEF Mail, RamOK
<1>3. CASE StoreEeprom(p)
  <2>1. ~Full(slots[EepromPlace]) /\ slots' = [slots EXCEPT ![EepromPlace] = Slot(p)]
    BY <1>3 DEF StoreEeprom, EepromPlace
  <2> QED BY <1>2, <2>1
<1>4. CASE StoreRam(p)
  <2>1. Full(slots[1]) /\ Full(slots[2]) /\ slots' = [slots EXCEPT ![RamPlace] = Slot(p)]
    BY <1>4 DEF StoreRam
  <2>2. i = RamPlace
    BY <1>2, <2>1
  <2>3. i \in InRam /\ \A j \in InRam : Full(slots[j]) /\ slots[i].time <= slots[j].time
    BY <2>2, RamPlaceIs
  <2> QED BY <2>1, <2>3, EepromPlaces DEF Places
<1> QED BY <1>1, <1>3, <1>4

(* A packet in the EEPROM never makes room for another, one in RAM only    *)
(* when all slots are in use and none in RAM is older; and when the        *)
(* handler of an ADVERT ends, and fewer packets waited than the queue has  *)
(* places, all of them are in the queue, whatever else was queued before   *)
(* them and with the relay of the ADVERT behind them (main.cpp:3085-3195). *)
THEOREM AlwaysLosesOnlyForRoom == Spec => LosesOnlyForRoom
<1>1. Types /\ Mail /\ Dues /\ [Next]_vars =>
        [stored' # stored =>
           \A i \in Places :
             Full(slots[i]) /\ slots'[i] # slots[i] =>
               /\ i \in InRam
               /\ \A j \in Places : Full(slots[j])
               /\ \A j \in InRam : slots[i].time <= slots[j].time]_vars
  BY EvictionStep
<1>2. Types /\ Mail /\ Dues /\ [Next]_vars =>
        [FinishAdvert /\ Cardinality(DOMAIN task.due) < QueueSize =>
           \A i \in DOMAIN task.due : task.due[i] \in Queued(txq')]_vars
  BY AllQueued
<1>3. Init => Dues
  BY IdleIs DEF Init, Dues
<1>4. Types /\ Mail /\ Dues /\ [Next]_vars => Dues'
  BY DuesStep
<1> QED BY <1>1, <1>2, <1>3, <1>4, MailInvariant, PTL
        DEF Spec, LosesOnlyForRoom, EvictsOnlyWhenFull, DeliveredTogether
=============================================================================
