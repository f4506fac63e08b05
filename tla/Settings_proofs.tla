--------------------------- MODULE Settings_proofs ---------------------------
(***************************************************************************)
(* Proofs about Settings, for any number of fields, values, keys, failing  *)
(* commits and boots.  The inductive invariant relates the three copies of *)
(* each section, in RAM, in the library's buffer and in the flash, in each *)
(* phase of setup(), to what the histories say.                            *)
(***************************************************************************)
EXTENDS Settings, FiniteSetTheorems, TLAPS

Stored == Config \cup Identity \cup Statistics \cup {Blank}

Life ==
  [put : BOOLEAN, kept : BOOLEAN, earlier : Nat, saves : Nat, at : Nat,
   uptime : Nat, counted : Nat, log : Seq(Nat)]

(* The shape of the memory and of the history.                             *)
Shape ==
  /\ eeprom \in [buffer : [Sections -> Stored], flash : [Sections -> Stored]]
  /\ life \in Life
  /\ failures \in Nat
  /\ committed \in BOOLEAN

(* Config of those that a configuration may be.                            *)
HasDest(c) ==
  /\ c.report => c.reportDest # NoKey
  /\ c.alert => c.alertDest # NoKey

Destinations ==
  /\ boot # "config" => HasDest(conf)
  /\ eeprom.buffer["config"] # Blank => HasDest(eeprom.buffer["config"])
  /\ eeprom.flash["config"] # Blank => HasDest(eeprom.flash["config"])

(* RAM and buffer agree, and buffer and flash after a commit.              *)
Copies ==
  /\ boot # "config" => eeprom.buffer["config"] = conf
  /\ boot = "up" => eeprom.buffer["identity"] = ident
  /\ boot # "config" /\ committed => eeprom.flash = eeprom.buffer

Promised ==
  promise # Blank =>
    /\ promise.conf # Blank /\ promise.ident # Blank
    /\ boot # "up" =>
         /\ eeprom.flash["config"] = promise.conf
         /\ eeprom.flash["identity"] = promise.ident
    /\ boot \in {"stats", "identity"} =>
         /\ eeprom.buffer["config"] = promise.conf
         /\ eeprom.buffer["identity"] = promise.ident

(* The number of boots that statistics s have, or none.                    *)
BootsIn(s) == IF s = Blank THEN 0 ELSE s.boots

BootCounts ==
  /\ life.kept => life.put
  /\ boot \in {"config", "stats"} => ~life.put
  /\ boot \in {"identity", "up"} => stats.boots = life.earlier + 1
  /\ BootsIn(eeprom.flash["stats"]) = life.earlier + (IF life.kept THEN 1 ELSE 0)
  /\ boot # "config" =>
       BootsIn(eeprom.buffer["stats"]) = life.earlier + (IF life.put THEN 1 ELSE 0)

(* The time of the first boot in statistics s, or 0.                       *)
FirstIn(s) == IF s = Blank THEN 0 ELSE s.first

FirstKept ==
  /\ boot # "config" /\ FirstIn(eeprom.flash["stats"]) # 0 =>
       FirstIn(eeprom.buffer["stats"]) = FirstIn(eeprom.flash["stats"])
  /\ boot \in {"identity", "up"} /\ FirstIn(eeprom.buffer["stats"]) # 0 =>
       stats.first = FirstIn(eeprom.buffer["stats"])

SettingsInv ==
  /\ SettingsTypeOK /\ Shape
  /\ Destinations /\ Copies /\ Promised /\ BootCounts /\ FirstKept

-----------------------------------------------------------------------------
(* Times that wrap: the remainders of two times tell how far they are      *)
(* apart.                                                                  *)
LEMMA DivMod ==
  ASSUME NEW W \in Nat \ {0}, NEW a \in Int
  PROVE  \E q \in Int, r \in 0 .. W - 1 : r = a % W /\ a = W * q + r
<1>1. a \div W \in Int /\ a % W \in 0 .. W - 1
  OBVIOUS
<1>2. PICK q \in Int, r \in Int : q = a \div W /\ r = a % W
  BY <1>1
<1>3. a = W * q + r
  BY <1>2
<1> QED BY <1>1, <1>2, <1>3

(* Quotient and remainder are unique.                                      *)
LEMMA ModIs ==
  ASSUME NEW W \in Nat \ {0}, NEW a \in Int, NEW q \in Int, NEW r \in 0 .. W - 1, a = W * q + r
  PROVE  a % W = r
OBVIOUS

(* A time d ahead of a looks as if it were Wrap - d ago.                   *)
LEMMA Ahead ==
  ASSUME NEW W \in Nat \ {0}, NEW a \in Int, NEW d \in 1 .. W - 1
  PROVE  ((a % W) - ((a + d) % W)) % W = W - d
<1>1. PICK q \in Int, r \in 0 .. W - 1 : r = a % W /\ a = W * q + r
  BY DivMod
<1>2. CASE r + d < W
  <2>1. a + d = W * q + (r + d)
    BY <1>1
  <2>2. r + d \in 0 .. W - 1 /\ a + d \in Int
    BY <1>2
  <2>3. (a + d) % W = r + d
    BY <2>1, <2>2, ModIs
  <2>4. -d = W * (-1) + (W - d) /\ W - d \in 0 .. W - 1 /\ -d \in Int
    OBVIOUS
  <2>5. (-d) % W = W - d
    BY <2>4, ModIs
  <2>6. r - (r + d) = -d
    OBVIOUS
  <2> QED BY <1>1, <2>3, <2>5, <2>6
<1>3. CASE r + d >= W
  <2>1. W * (q + 1) = W * q + W
    OBVIOUS
  <2>2. a + d = W * (q + 1) + (r + d - W)
    BY <1>1, <2>1
  <2>3. r + d - W \in 0 .. W - 1 /\ a + d \in Int /\ q + 1 \in Int
    BY <1>3
  <2>4. (a + d) % W = r + d - W
    BY <2>2, <2>3, ModIs
  <2>5. W - d = W * 0 + (W - d) /\ W - d \in 0 .. W - 1
    OBVIOUS
  <2>6. (W - d) % W = W - d
    BY <2>5, ModIs
  <2>7. r - (r + d - W) = W - d
    OBVIOUS
  <2> QED BY <1>1, <2>4, <2>6, <2>7
<1> QED BY <1>2, <1>3

(* Less than half of the wrap ahead is more than half of it ago.           *)
LEMMA HalfWay ==
  ASSUME NEW W \in Nat \ {0}, NEW d \in 1 .. (W \div 2) - 1
  PROVE  ~(W - d < W \div 2) /\ d \in 1 .. W - 1
<1>1. PICK h \in Int, r \in Int : h = W \div 2 /\ r = W % 2
  OBVIOUS
<1>2. W = 2 * h + r /\ r \in 0 .. 1
  BY <1>1
<1> QED BY <1>1, <1>2
-----------------------------------------------------------------------------
(* EEPROM.put and EEPROM.commit change the section in the buffer, and      *)
(* nothing else of it; the flash becomes the buffer or stays.              *)
LEMMA StoreWrites ==
  ASSUME NEW e \in [buffer : [Sections -> Stored], flash : [Sections -> Stored]],
         NEW section \in Sections, NEW content \in Stored,
         failures \in Nat,
         Store(e, section, content)
  PROVE  /\ eeprom' \in [buffer : [Sections -> Stored], flash : [Sections -> Stored]]
         /\ eeprom'.buffer = [e.buffer EXCEPT ![section] = content]
         /\ eeprom'.flash = IF committed' THEN eeprom'.buffer ELSE e.flash
         /\ failures' \in Nat /\ committed' \in BOOLEAN
<1> DEFINE M == [buffer : [Sections -> Stored], flash : [Sections -> Stored]]
           b == [e.buffer EXCEPT ![section] = content]
           put == Put(e, section, content)
<1>1. e = [buffer |-> e.buffer, flash |-> e.flash]
  OBVIOUS
<1>2. b \in [Sections -> Stored] /\ e.flash \in [Sections -> Stored]
  OBVIOUS
<1>3. put = [buffer |-> b, flash |-> e.flash]
  BY <1>1 DEF Put
<1>4. Flushed(put) = [buffer |-> b, flash |-> b]
  BY <1>3 DEF Flushed
<1>5. CASE eeprom' = Flushed(put) /\ committed' = TRUE /\ UNCHANGED failures
  BY <1>2, <1>4, <1>5
<1>6. CASE eeprom' = put /\ committed' = FALSE /\ Fails
  <2>1. failures' \in Nat
    BY <1>6 DEF Fails
  <2>2. eeprom'.buffer = b /\ eeprom'.flash = e.flash /\ eeprom' \in M
    BY <1>2, <1>3, <1>6
  <2> QED BY <1>6, <2>1, <2>2
<1> QED BY <1>5, <1>6 DEF Store

(* A commit keeps what was put before it, too.                             *)
LEMMA KeptByLife ==
  ASSUME NEW l \in Life, NEW p \in BOOLEAN, committed' \in BOOLEAN
  PROVE  /\ KeptBy(l, p) \in Life
         /\ KeptBy(l, p).earlier = l.earlier
         /\ KeptBy(l, p).put = (l.put \/ p)
         /\ KeptBy(l, p).kept = (l.kept \/ (committed' /\ (l.put \/ p)))
BY DEF KeptBy, Life

(* The sections, and the mark of one that holds nothing.                   *)
LEMMA Phases == Sections = {"config", "identity", "stats"} /\ Blank \in Stored
BY DEF Sections, Stored

(* What a section may hold is something that is stored.                    *)
LEMMA ContentsStored ==
  ASSUME NEW s \in Sections PROVE Contents[s] \subseteq Stored
BY Phases DEF Contents, Stored

(* What a step may do to the history that no invariant speaks of.          *)
SameLife(l) == l \in Life /\ l.put = life.put /\ l.kept = life.kept /\ l.earlier = life.earlier

(* Statistics s may replace those in RAM.                                  *)
GoodStats(s) ==
  /\ s \in Statistics
  /\ s.boots = stats.boots
  /\ stats.first # 0 => s.first = stats.first

Times3 == {session, lastSave} \subseteq 0 .. Wrap - 1 /\ now \in Nat /\ unix \in Nat

(* While the node is up: steps that write nothing.                         *)
LEMMA UpQuiet ==
  ASSUME SettingsInv, boot = "up",
         UNCHANGED <<boot, conf, ident, memory, scene, promise>>,
         SameLife(life'), GoodStats(stats'), Times3'
  PROVE  SettingsInv'
<1> USE DEF memory
<1>1. SettingsTypeOK'
  BY DEF SettingsInv, SettingsTypeOK, GoodStats, Times3
<1>2. Shape'
  BY DEF SettingsInv, Shape, SameLife
<1>3. Destinations' /\ Copies' /\ Promised'
  BY DEF SettingsInv, Destinations, Copies, Promised, HasDest
<1>4. BootCounts'
  BY DEF SettingsInv, BootCounts, SameLife, GoodStats, BootsIn
<1>5. FirstKept'
  BY DEF SettingsInv, FirstKept, FirstIn, GoodStats
<1> QED BY <1>1, <1>2, <1>3, <1>4, <1>5 DEF SettingsInv

(* While the node is up: steps that write a section.                       *)
LEMMA UpWrite ==
  ASSUME SettingsInv, boot = "up", UNCHANGED <<boot, scene, promise>>,
         NEW section \in Sections, NEW content \in Contents[section], content # Blank,
         NEW l, SameLife(l), NEW p \in BOOLEAN, p <=> section = "stats",
         Store(eeprom, section, content), life' = KeptBy(l, p),
         conf' = (IF section = "config" THEN content ELSE conf),
         ident' = (IF section = "identity" THEN content ELSE ident),
         section = "stats" => stats' = content,
         section = "config" => HasDest(content),
         GoodStats(stats'), Times3'
  PROVE  SettingsInv'
<1>1. content \in Stored
  BY ContentsStored
<1>2. /\ eeprom' \in [buffer : [Sections -> Stored], flash : [Sections -> Stored]]
      /\ eeprom'.buffer = [eeprom.buffer EXCEPT ![section] = content]
      /\ eeprom'.flash = IF committed' THEN eeprom'.buffer ELSE eeprom.flash
      /\ failures' \in Nat /\ committed' \in BOOLEAN
  BY <1>1, StoreWrites DEF SettingsInv, Shape
<1>3. /\ life' \in Life
      /\ life'.earlier = life.earlier
      /\ life'.put = (life.put \/ p)
      /\ life'.kept = (life.kept \/ (committed' /\ (life.put \/ p)))
  BY <1>2, KeptByLife DEF SameLife
<1>4. eeprom.buffer \in [Sections -> Stored] /\ eeprom.flash \in [Sections -> Stored]
  BY DEF SettingsInv, Shape
<1>5. \A s \in Sections :
        eeprom'.buffer[s] = IF s = section THEN content ELSE eeprom.buffer[s]
  BY <1>2, <1>4
<1>6. SettingsTypeOK'
  <2>1. \A s \in Sections : eeprom'.buffer[s] \in Contents[s]
    BY <1>5 DEF SettingsInv, SettingsTypeOK
  <2>2. \A s \in Sections : eeprom'.flash[s] \in Contents[s]
    BY <1>2, <2>1 DEF SettingsInv, SettingsTypeOK
  <2>3. conf' \in Config /\ ident' \in Identity
    BY DEF SettingsInv, SettingsTypeOK, Contents
  <2> QED BY <2>1, <2>2, <2>3 DEF SettingsInv, SettingsTypeOK, GoodStats, Times3
<1>7. Shape'
  BY <1>2, <1>3 DEF Shape
<1>8. Destinations'
  <2>1. HasDest(conf')
    BY DEF SettingsInv, Destinations
  <2>2. eeprom'.buffer["config"] # Blank => HasDest(eeprom'.buffer["config"])
    BY <1>5, Phases DEF SettingsInv, Destinations
  <2>3. eeprom'.flash["config"] # Blank => HasDest(eeprom'.flash["config"])
    BY <1>2, <2>2 DEF SettingsInv, Destinations
  <2> QED BY <2>1, <2>2, <2>3 DEF Destinations, HasDest
<1>9. Copies'
  BY <1>2, <1>5, Phases DEF SettingsInv, Copies
<1>10. Promised'
  BY DEF SettingsInv, Promised
<1>11. BootCounts'
  <2>1. BootsIn(eeprom'.buffer["stats"]) = life'.earlier + (IF life'.put THEN 1 ELSE 0)
    <3>1. CASE section = "stats"
      <4>1. eeprom'.buffer["stats"] = content /\ life'.put
        BY <1>3, <1>5, <3>1, Phases
      <4>2. content.boots = life.earlier + 1
        BY <3>1 DEF SettingsInv, BootCounts, GoodStats
      <4> QED BY <1>3, <4>1, <4>2 DEF BootsIn
    <3>2. CASE section # "stats"
      <4>1. eeprom'.buffer["stats"] = eeprom.buffer["stats"]
        BY <1>5, <3>2, Phases
      <4>2. (life'.put <=> life.put) /\ life'.earlier = life.earlier
        <5>1. life.put \in BOOLEAN /\ ~p
          BY <3>2 DEF SettingsInv, Shape, Life
        <5> QED BY <1>3, <5>1
      <4>3. BootsIn(eeprom.buffer["stats"]) = life.earlier + (IF life.put THEN 1 ELSE 0)
        BY DEF SettingsInv, BootCounts
      <4> QED BY <4>1, <4>2, <4>3
    <3> QED BY <3>1, <3>2
  <2>2. BootsIn(eeprom'.flash["stats"]) = life'.earlier + (IF life'.kept THEN 1 ELSE 0)
    BY <1>2, <1>3, <2>1 DEF SettingsInv, BootCounts
  <2>3. life'.kept => life'.put
    BY <1>3 DEF SettingsInv, BootCounts
  <2> QED BY <1>3, <2>1, <2>2, <2>3 DEF SettingsInv, BootCounts, BootsIn, GoodStats
<1>12. FirstKept'
  <2>1. FirstIn(eeprom.buffer["stats"]) # 0 =>
          FirstIn(eeprom'.buffer["stats"]) = FirstIn(eeprom.buffer["stats"])
    BY <1>5, Phases DEF SettingsInv, FirstKept, FirstIn, GoodStats
  <2>2. FirstIn(eeprom'.buffer["stats"]) # 0 => stats'.first = FirstIn(eeprom'.buffer["stats"])
    BY <1>5, Phases DEF SettingsInv, FirstKept, FirstIn, GoodStats
  <2> QED BY <1>2, <2>1, <2>2 DEF SettingsInv, FirstKept, FirstIn
<1> QED BY <1>6, <1>7, <1>8, <1>9, <1>10, <1>11, <1>12 DEF SettingsInv

-----------------------------------------------------------------------------
(* setup().                                                                *)
LEMMA MountedReads ==
  ASSUME NEW e \in [buffer : [Sections -> Stored], flash : [Sections -> Stored]]
  PROVE  /\ Mounted(e) \in [buffer : [Sections -> Stored], flash : [Sections -> Stored]]
         /\ Mounted(e).buffer = e.flash /\ Mounted(e).flash = e.flash
BY DEF Mounted

(* The defaults are a configuration without a report to nobody.            *)
LEMMA DefaultIsConfig ==
  defaultConfig \in Config /\ HasDest(defaultConfig) /\ defaultConfig # Blank
<1>1. defaultConfig \in Config
  BY SettingsAssumption DEF defaultConfig, Config
<1>2. HasDest(defaultConfig)
  BY DEF HasDest, defaultConfig
<1> QED BY <1>1, <1>2, BlankAssumption

(* Loading the configuration keeps the invariant.                          *)
LEMMA LoadConfigInv ==
  ASSUME SettingsInv, LoadConfig PROVE SettingsInv'
<1> DEFINE e == Mounted(eeprom)
<1>1. /\ e \in [buffer : [Sections -> Stored], flash : [Sections -> Stored]]
      /\ e.buffer = eeprom.flash /\ e.flash = eeprom.flash
  BY MountedReads DEF SettingsInv, Shape
<1>2. boot = "config" /\ boot' = "stats" /\ UNCHANGED <<ident, counts, clock, scene, promise, life>>
  BY DEF LoadConfig
<1>3. eeprom.flash \in [Sections -> Stored] /\ \A s \in Sections : eeprom.flash[s] \in Contents[s]
  BY DEF SettingsInv, Shape, SettingsTypeOK
<1> HIDE DEF e
<1>4. /\ eeprom' \in [buffer : [Sections -> Stored], flash : [Sections -> Stored]]
      /\ \A s \in Sections \ {"config"} : eeprom'.buffer[s] = eeprom.flash[s]
      /\ \A s \in Sections \ {"config"} : eeprom'.flash[s] = eeprom.flash[s]
      /\ eeprom'.buffer["config"] = conf'
      /\ eeprom'.flash["config"] \in {eeprom.flash["config"], conf'}
      /\ committed' => eeprom'.flash = eeprom'.buffer
      /\ committed' \in BOOLEAN /\ failures' \in Nat
      /\ conf' \in Config /\ HasDest(conf')
      /\ eeprom.flash["config"] # Blank =>
           conf' = eeprom.flash["config"] /\ eeprom'.flash["config"] = conf'
  <2>1. CASE eeprom.flash["config"] # Blank
    <3>1. conf' = eeprom.flash["config"] /\ eeprom' = e /\ committed' = TRUE /\ failures' = failures
      BY <1>1, <2>1 DEF LoadConfig, e
    <3>2. conf' \in Config /\ HasDest(conf')
      BY <1>3, <2>1, <3>1, Phases DEF SettingsInv, Destinations, Contents
    <3> QED BY <1>1, <3>1, <3>2, <2>1 DEF SettingsInv, Shape
  <2>2. CASE eeprom.flash["config"] = Blank
    <3>1. conf' = defaultConfig /\ Store(e, "config", defaultConfig)
      BY <1>1, <2>2 DEF LoadConfig, e
    <3>2. defaultConfig \in Stored /\ "config" \in Sections
      BY DefaultIsConfig, Phases DEF Stored
    <3>3. /\ eeprom' \in [buffer : [Sections -> Stored], flash : [Sections -> Stored]]
          /\ eeprom'.buffer = [e.buffer EXCEPT !["config"] = defaultConfig]
          /\ eeprom'.flash = IF committed' THEN eeprom'.buffer ELSE e.flash
          /\ failures' \in Nat /\ committed' \in BOOLEAN
      BY <1>1, <3>1, <3>2, StoreWrites DEF SettingsInv, Shape
    <3> QED BY <1>1, <1>3, <2>2, <3>1, <3>2, <3>3, DefaultIsConfig
  <2> QED BY <2>1, <2>2
<1>5. SettingsTypeOK'
  <2>1. \A s \in Sections : eeprom'.buffer[s] \in Contents[s] /\ eeprom'.flash[s] \in Contents[s]
    BY <1>3, <1>4, Phases DEF Contents
  <2> QED BY <1>2, <1>4, <2>1 DEF SettingsInv, SettingsTypeOK, counts, clock
<1>6. Shape'
  BY <1>2, <1>4 DEF SettingsInv, Shape
<1>7. Destinations'
  BY <1>4 DEF SettingsInv, Destinations, HasDest
<1>8. Copies'
  BY <1>2, <1>4 DEF Copies
<1>9. Promised'
  BY <1>2, <1>4, Phases DEF SettingsInv, Promised
<1>10. BootCounts'
  BY <1>2, <1>4, Phases DEF SettingsInv, BootCounts, BootsIn
<1>11. FirstKept'
  BY <1>2, <1>4, Phases DEF FirstKept, FirstIn
<1> QED BY <1>5, <1>6, <1>7, <1>8, <1>9, <1>10, <1>11 DEF SettingsInv

(* millis() is below the wrap.                                             *)
LEMMA MillisInRange ==
  ASSUME now \in Nat PROVE millis \in 0 .. Wrap - 1
BY SettingsAssumption DEF millis

(* The statistics of a first boot are statistics.                          *)
LEMMA FreshIsStatistics == FreshStats \in Statistics /\ FreshStats # Blank
BY BlankAssumption DEF FreshStats, Statistics

(* The history of a boot begins as one.                                    *)
LEMMA BornIsLife ==
  ASSUME NEW b \in Nat, NEW t \in Nat, NEW u \in Nat, NEW c \in Nat
  PROVE  /\ Born(b, t, u, c) \in Life /\ Born(b, t, u, c).earlier = b
         /\ ~Born(b, t, u, c).put /\ ~Born(b, t, u, c).kept
BY DEF Born, Life

(* Loading the statistics keeps the invariant.                             *)
LEMMA LoadStatsInv ==
  ASSUME SettingsInv, LoadStats PROVE SettingsInv'
<1>1. boot = "stats" /\ boot' = "identity" /\ UNCHANGED <<conf, ident, clock, scene, promise>>
  BY DEF LoadStats
<1>2. now \in Nat /\ life.earlier \in Nat /\ ~life.put /\ ~life.kept
  BY <1>1 DEF SettingsInv, SettingsTypeOK, Shape, Life, BootCounts
<1>3. session' \in 0 .. Wrap - 1 /\ lastSave' \in 0 .. Wrap - 1
  BY <1>2, MillisInRange DEF LoadStats, SettingsInv, SettingsTypeOK, StoreStats
<1>4. CASE eeprom.buffer["stats"] # Blank
  <2> DEFINE s == eeprom.buffer["stats"]
  <2>1. s \in Statistics
    BY <1>4, Phases DEF SettingsInv, SettingsTypeOK, Contents
  <2>2. stats' = [s EXCEPT !.boots = @ + 1] /\ UNCHANGED memory
        /\ life' = Born(life.earlier, now, s.uptime, s.counted)
    BY <1>4 DEF LoadStats
  <2>3. stats' \in Statistics /\ stats'.boots = s.boots + 1 /\ stats'.first = s.first
    BY <2>1, <2>2 DEF Statistics
  <2>4. life' \in Life /\ life'.earlier = life.earlier /\ ~life'.put /\ ~life'.kept
    <3>1. s.uptime \in Nat /\ s.counted \in Nat
      BY <2>1 DEF Statistics
    <3> QED BY <1>2, <2>2, <3>1, BornIsLife
  <2>5. SettingsTypeOK' /\ Shape'
    BY <1>1, <1>3, <2>2, <2>3, <2>4 DEF SettingsInv, SettingsTypeOK, Shape, clock, memory
  <2>6. Destinations' /\ Copies' /\ Promised'
    BY <1>1, <2>2 DEF SettingsInv, Destinations, HasDest, Copies, Promised, memory
  <2>7. BootCounts'
    BY <1>1, <1>2, <1>4, <2>1, <2>2, <2>3, <2>4
      DEF SettingsInv, BootCounts, BootsIn, memory
  <2>8. FirstKept'
    BY <1>1, <1>4, <2>2, <2>3 DEF SettingsInv, FirstKept, FirstIn, memory
  <2> QED BY <2>5, <2>6, <2>7, <2>8 DEF SettingsInv
<1>5. CASE eeprom.buffer["stats"] = Blank
  <2> DEFINE l == Born(life.earlier, now, 0, 0)
  <2>1. stats' = FreshStats /\ Store(eeprom, "stats", FreshStats) /\ life' = KeptBy(l, TRUE)
    BY <1>5 DEF LoadStats
  <2>2. FreshStats \in Stored /\ "stats" \in Sections
    BY FreshIsStatistics, Phases DEF Stored
  <2>3. /\ eeprom' \in [buffer : [Sections -> Stored], flash : [Sections -> Stored]]
        /\ eeprom'.buffer = [eeprom.buffer EXCEPT !["stats"] = FreshStats]
        /\ eeprom'.flash = IF committed' THEN eeprom'.buffer ELSE eeprom.flash
        /\ failures' \in Nat /\ committed' \in BOOLEAN
    BY <2>1, <2>2, StoreWrites DEF SettingsInv, Shape
  <2>4. l \in Life /\ l.earlier = life.earlier /\ ~l.put /\ ~l.kept
    BY <1>2, BornIsLife
  <2> HIDE DEF l
  <2>5. life' \in Life /\ life'.earlier = life.earlier /\ life'.put /\ (life'.kept <=> committed')
    BY <2>1, <2>3, <2>4, KeptByLife
  <2>6. \A s \in Sections :
          eeprom'.buffer[s] = IF s = "stats" THEN FreshStats ELSE eeprom.buffer[s]
    BY <2>3 DEF SettingsInv, Shape
  <2>7. FreshStats \in Statistics /\ FreshStats # Blank
        /\ FreshStats.boots = 1 /\ FreshStats.first = 0
    BY FreshIsStatistics DEF FreshStats
  <2>8. SettingsTypeOK'
    <3>1. \A s \in Sections : eeprom'.buffer[s] \in Contents[s]
      BY <2>6, <2>7, Phases DEF SettingsInv, SettingsTypeOK, Contents
    <3>2. \A s \in Sections : eeprom'.flash[s] \in Contents[s]
      BY <2>3, <3>1 DEF SettingsInv, SettingsTypeOK
    <3> QED BY <1>1, <1>3, <2>1, <2>7, <3>1, <3>2 DEF SettingsInv, SettingsTypeOK, clock
  <2>9. Shape'
    BY <2>3, <2>5 DEF Shape
  <2>10. Destinations' /\ Copies'
    BY <1>1, <2>3, <2>6, Phases DEF SettingsInv, Destinations, HasDest, Copies
  <2>11. Promised'
    BY <1>1, <2>3, <2>6, Phases DEF SettingsInv, Promised
  <2>12. BootCounts'
    <3>1. life.earlier = 0
      BY <1>1, <1>2, <1>5 DEF SettingsInv, BootCounts, BootsIn
    <3>2. BootsIn(eeprom.flash["stats"]) = 0
      BY <1>2, <3>1 DEF SettingsInv, BootCounts
    <3>3. BootsIn(eeprom'.buffer["stats"]) = 1
      BY <2>6, <2>7, Phases DEF BootsIn
    <3>4. BootsIn(eeprom'.flash["stats"]) = IF committed' THEN 1 ELSE 0
      BY <2>3, <3>2, <3>3
    <3>5. BootsIn(eeprom'.buffer["stats"]) = life'.earlier + (IF life'.put THEN 1 ELSE 0)
      BY <2>5, <3>1, <3>3
    <3>6. BootsIn(eeprom'.flash["stats"]) = life'.earlier + (IF life'.kept THEN 1 ELSE 0)
      BY <2>5, <3>1, <3>4
    <3>7. stats'.boots = life'.earlier + 1
      <4>1. stats'.boots = 1
        BY <2>1, <2>7
      <4>2. life'.earlier = 0
        BY <2>5, <3>1
      <4> QED BY <4>1, <4>2
    <3> QED BY <1>1, <2>5, <3>5, <3>6, <3>7 DEF BootCounts
  <2>13. FirstKept'
    <3>1. FirstIn(eeprom'.buffer["stats"]) = 0
      BY <2>6, <2>7, Phases DEF FirstIn
    <3>2. FirstIn(eeprom'.flash["stats"]) = 0
      BY <1>1, <1>5, <2>3, <3>1 DEF SettingsInv, FirstKept, FirstIn
    <3> QED BY <3>1, <3>2 DEF FirstKept
  <2> QED BY <2>8, <2>9, <2>10, <2>11, <2>12, <2>13 DEF SettingsInv
<1> QED BY <1>4, <1>5

(* A new identity is one.                                                  *)
LEMMA GeneratedIsIdentity ==
  ASSUME NEW key \in OwnKeys PROVE Generated(key) \in Identity /\ Generated(key) # Blank
<1>1. Generated(key) \in Identity
  BY SettingsAssumption DEF Generated, Identity
<1> QED BY <1>1, BlankAssumption

(* Loading the identity keeps the invariant, and ends setup().             *)
LEMMA LoadIdentityInv ==
  ASSUME SettingsInv, LoadIdentity PROVE SettingsInv'
<1>1. boot = "identity" /\ boot' = "up" /\ UNCHANGED <<conf, counts, clock, scene, promise>>
  BY DEF LoadIdentity
<1>2. CASE eeprom.buffer["identity"] # Blank
  <2>1. ident' = eeprom.buffer["identity"] /\ UNCHANGED <<memory, life>>
    BY <1>2 DEF LoadIdentity
  <2>2. ident' \in Identity
    BY <1>2, <2>1, Phases DEF SettingsInv, SettingsTypeOK, Contents
  <2>3. SettingsTypeOK' /\ Shape'
    BY <1>1, <2>1, <2>2 DEF SettingsInv, SettingsTypeOK, Shape, counts, clock, memory
  <2>4. Destinations' /\ Copies' /\ Promised'
    BY <1>1, <2>1 DEF SettingsInv, Destinations, HasDest, Copies, Promised, memory
  <2>5. BootCounts' /\ FirstKept'
    BY <1>1, <2>1
      DEF SettingsInv, BootCounts, BootsIn, FirstKept, FirstIn, memory, counts
  <2> QED BY <2>3, <2>4, <2>5 DEF SettingsInv
<1>3. CASE eeprom.buffer["identity"] = Blank
  <2>1. PICK key \in OwnKeys : SaveIdentity(Generated(key))
    BY <1>3 DEF LoadIdentity
  <2> DEFINE i == Generated(key)
  <2>2. i \in Identity /\ i # Blank /\ i \in Stored /\ "identity" \in Sections
    BY GeneratedIsIdentity, Phases DEF Stored
  <2> HIDE DEF i
  <2>3. ident' = i /\ Store(eeprom, "identity", i) /\ life' = KeptBy(life, FALSE)
    BY <2>1 DEF SaveIdentity, i
  <2>4. /\ eeprom' \in [buffer : [Sections -> Stored], flash : [Sections -> Stored]]
        /\ eeprom'.buffer = [eeprom.buffer EXCEPT !["identity"] = i]
        /\ eeprom'.flash = IF committed' THEN eeprom'.buffer ELSE eeprom.flash
        /\ failures' \in Nat /\ committed' \in BOOLEAN
    BY <2>2, <2>3, StoreWrites DEF SettingsInv, Shape
  <2>5. /\ life' \in Life /\ life'.earlier = life.earlier /\ life'.put = life.put
        /\ life'.kept = (life.kept \/ (committed' /\ life.put))
    BY <2>3, <2>4, KeptByLife DEF SettingsInv, Shape, Life
  <2>6. \A s \in Sections :
          eeprom'.buffer[s] = IF s = "identity" THEN i ELSE eeprom.buffer[s]
    BY <2>4 DEF SettingsInv, Shape
  <2>7. SettingsTypeOK'
    <3>1. \A s \in Sections : eeprom'.buffer[s] \in Contents[s]
      BY <2>2, <2>6, Phases DEF SettingsInv, SettingsTypeOK, Contents
    <3>2. \A s \in Sections : eeprom'.flash[s] \in Contents[s]
      BY <2>4, <3>1 DEF SettingsInv, SettingsTypeOK
    <3> QED BY <1>1, <2>2, <2>3, <3>1, <3>2 DEF SettingsInv, SettingsTypeOK, clock, counts
  <2>8. Shape'
    BY <2>4, <2>5 DEF Shape
  <2>9. Destinations' /\ Copies'
    BY <1>1, <2>3, <2>4, <2>6, Phases DEF SettingsInv, Destinations, HasDest, Copies
  <2>10. Promised'
    BY <1>1 DEF SettingsInv, Promised
  <2>11. BootCounts'
    <3>1. BootsIn(eeprom'.buffer["stats"]) = life'.earlier + (IF life'.put THEN 1 ELSE 0)
      BY <1>1, <2>5, <2>6, Phases DEF SettingsInv, BootCounts, BootsIn
    <3>2. BootsIn(eeprom'.flash["stats"]) = life'.earlier + (IF life'.kept THEN 1 ELSE 0)
      BY <2>4, <2>5, <3>1 DEF SettingsInv, BootCounts
    <3> QED BY <1>1, <2>5, <3>1, <3>2 DEF SettingsInv, BootCounts, counts
  <2>12. FirstKept'
    BY <1>1, <2>4, <2>6, Phases DEF SettingsInv, FirstKept, FirstIn, counts
  <2> QED BY <2>7, <2>8, <2>9, <2>10, <2>11, <2>12 DEF SettingsInv
<1> QED BY <1>2, <1>3

(* A power failure keeps it, in whichever phase.                           *)
LEMMA PowerLossInv ==
  ASSUME SettingsInv, PowerLoss PROVE SettingsInv'
<1>1. /\ boot' = "config" /\ conf' = Blank /\ ident' = Blank /\ stats' = FreshStats
      /\ now' = 0 /\ unix' = 0 /\ lastSave' = 0 /\ session' = 0
      /\ UNCHANGED <<eeprom, committed, failures, scene>>
  BY DEF PowerLoss, memory
<1> DEFINE b == IF life.kept THEN life.earlier + 1 ELSE life.earlier
<1>2. b \in Nat /\ life' = Born(b, 0, 0, 0)
  BY DEF PowerLoss, SettingsInv, Shape, Life
<1>3. life' \in Life /\ life'.earlier = b /\ ~life'.put /\ ~life'.kept
  <2> HIDE DEF b
  <2> QED BY <1>2, BornIsLife
<1>4. SettingsTypeOK' /\ Shape'
  BY <1>1, <1>3, FreshIsStatistics, SettingsAssumption
    DEF SettingsInv, SettingsTypeOK, Shape
<1>5. Destinations' /\ Copies' /\ FirstKept'
  BY <1>1 DEF SettingsInv, Destinations, HasDest, Copies, FirstKept
<1>6. Promised'
  <2>1. CASE boot # "up"
    BY <1>1, <2>1 DEF PowerLoss, SettingsInv, Promised
  <2>2. CASE boot = "up" /\ ~committed
    BY <1>1, <2>2 DEF PowerLoss, Promised
  <2>3. CASE boot = "up" /\ committed
    <3>1. promise' = [conf |-> conf, ident |-> ident]
      BY <2>3 DEF PowerLoss
    <3>2. conf # Blank /\ ident # Blank
      BY <2>3, BlankAssumption DEF SettingsInv, SettingsTypeOK
    <3>3. eeprom.flash["config"] = conf /\ eeprom.flash["identity"] = ident
      BY <2>3 DEF SettingsInv, Copies
    <3> QED BY <1>1, <3>1, <3>2, <3>3 DEF Promised
  <2> QED BY <2>1, <2>2, <2>3
<1>7. BootCounts'
  BY <1>1, <1>3 DEF SettingsInv, BootCounts, BootsIn, Shape, Life
<1> QED BY <1>4, <1>5, <1>6, <1>7 DEF SettingsInv

-----------------------------------------------------------------------------
(* The commands.                                                           *)
LEMMA UpFacts ==
  ASSUME SettingsInv, boot = "up"
  PROVE  /\ conf \in Config /\ HasDest(conf)
         /\ ident \in Identity /\ stats \in Statistics
         /\ SameLife(life) /\ GoodStats(stats) /\ Times3
BY DEF SettingsInv, SettingsTypeOK, Destinations, Shape, SameLife, GoodStats, Times3

(* A command that saves the configuration keeps it.                        *)
LEMMA ConfigureInv ==
  ASSUME SettingsInv, NEW c \in Config, HasDest(c), Configure(c)
  PROVE  SettingsInv'
<1>1. /\ boot = "up" /\ conf' = c /\ Store(eeprom, "config", c) /\ life' = KeptBy(life, FALSE)
      /\ UNCHANGED <<boot, ident, counts, clock, scene, promise>>
  BY DEF Configure, SaveConfig
<1>2. GoodStats(stats') /\ Times3'
  BY <1>1, UpFacts DEF counts, clock, GoodStats, Times3
<1>3. "config" \in Sections /\ c \in Contents["config"] /\ c # Blank
  BY BlankAssumption, Phases DEF Contents
<1>4. SameLife(life)
  BY <1>1, UpFacts
<1> QED BY <1>1, <1>2, <1>3, <1>4, UpWrite

(* A command that saves the identity keeps it.                             *)
LEMMA IdentifyInv ==
  ASSUME SettingsInv, NEW i \in Identity, Identify(i)
  PROVE  SettingsInv'
<1>1. /\ boot = "up" /\ ident' = i /\ Store(eeprom, "identity", i)
      /\ life' = KeptBy(life, FALSE)
      /\ UNCHANGED <<boot, conf, counts, clock, scene, promise>>
  BY DEF Identify, SaveIdentity
<1>2. GoodStats(stats') /\ Times3'
  BY <1>1, UpFacts DEF counts, clock, GoodStats, Times3
<1>3. "identity" \in Sections /\ i \in Contents["identity"] /\ i # Blank
  BY BlankAssumption, Phases DEF Contents
<1>4. SameLife(life)
  BY <1>1, UpFacts
<1> QED BY <1>1, <1>2, <1>3, <1>4, UpWrite

(* Counting a packet leaves the rest of the history alone.                 *)
LEMMA LoggedSameLife ==
  ASSUME SettingsInv PROVE SameLife(Logged)
<1>1. life \in Life /\ now \in Nat
  BY DEF SettingsInv, SettingsTypeOK, Shape
<1>2. life.log \in Seq(Nat)
  BY <1>1 DEF Life
<1>3. Append(life.log, now) \in Seq(Nat)
  BY <1>1, <1>2
<1> QED BY <1>1, <1>3 DEF Logged, SameLife, Life

(* A packet counted leaves the boots alone.                                *)
LEMMA CountedGood ==
  ASSUME SettingsInv, boot = "up", Counted
  PROVE  GoodStats(stats') /\ UNCHANGED <<session, lastSave>>
BY UpFacts DEF Counted, GoodStats, Statistics

(* An administrator's login, which saves only once, keeps it.              *)
LEMMA AdminLoginInv ==
  ASSUME SettingsInv, NEW k \in Keys, AdminLogin(k) PROVE SettingsInv'
<1>1. boot = "up" /\ UNCHANGED <<boot, ident, clock, scene, promise>>
      /\ GoodStats(stats') /\ UNCHANGED <<session, lastSave>>
  BY CountedGood DEF AdminLogin
<1>2. Times3'
  BY <1>1, UpFacts DEF clock, Times3
<1>3. CASE conf.reportDest = k
  <2>1. life' = Logged /\ UNCHANGED <<conf, memory>>
    BY <1>3 DEF AdminLogin
  <2>2. SameLife(life')
    BY <2>1, LoggedSameLife
  <2> QED BY <1>1, <1>2, <2>1, <2>2, UpQuiet
<1>4. CASE conf.reportDest # k
  <2> DEFINE c == [conf EXCEPT !.reportDest = k]
  <2>1. c \in Config /\ HasDest(c)
    BY <1>1, UpFacts, SettingsAssumption DEF Config, HasDest
  <2>2. conf' = c /\ Store(eeprom, "config", c) /\ life' = KeptBy(Logged, FALSE)
    BY <1>4 DEF AdminLogin
  <2>3. "config" \in Sections /\ c \in Contents["config"] /\ c # Blank
    BY <2>1, BlankAssumption, Phases DEF Contents
  <2> HIDE DEF c
  <2> QED BY <1>1, <1>2, <2>1, <2>2, <2>3, LoggedSameLife, UpWrite
<1> QED BY <1>3, <1>4

(* Saving the statistics keeps it.                                         *)
LEMMA SaveStatsInv ==
  ASSUME SettingsInv, SaveStats PROVE SettingsInv'
<1> DEFINE saved == [stats EXCEPT !.uptime = @ + Since(session) \div Second]
           l == [life EXCEPT !.saves = @ + (IF Since(session) = 0 THEN 0 ELSE 1)]
<1>1. /\ boot = "up" /\ UNCHANGED <<boot, conf, ident, clock, scene, promise>>
      /\ stats' = saved /\ Store(eeprom, "stats", saved) /\ session' = millis
      /\ lastSave' = (IF committed' THEN millis ELSE lastSave)
      /\ life' = KeptBy(l, TRUE)
  BY DEF SaveStats, StoreStats
<1>2. stats \in Statistics /\ SameLife(life) /\ Times3
  BY <1>1, UpFacts
<1>3. Since(session) \in Nat /\ Since(session) \div Second \in Nat
  BY <1>2, SettingsAssumption, MillisInRange DEF Since, Times3
<1>4. saved \in Statistics /\ saved.boots = stats.boots /\ saved.first = stats.first
  BY <1>2, <1>3 DEF Statistics
<1>5. SameLife(l)
  <2>1. life \in Life /\ life.saves + (IF Since(session) = 0 THEN 0 ELSE 1) \in Nat
    BY <1>2 DEF SameLife, Life
  <2> QED BY <2>1 DEF SameLife, Life
<1>6. "stats" \in Sections /\ saved \in Contents["stats"] /\ saved # Blank
  BY <1>4, BlankAssumption, Phases DEF Contents
<1> HIDE DEF saved, l
<1>7. GoodStats(stats')
  BY <1>1, <1>4 DEF GoodStats
<1>8. Times3'
  BY <1>1, <1>2, MillisInRange DEF Times3, clock
<1> QED BY <1>1, <1>4, <1>5, <1>6, <1>7, <1>8, UpWrite

(* So do counting, the clock and its synchronisation.                      *)
LEMMA TimeInv ==
  ASSUME SettingsInv,
         \/ Record \/ ForgetTime \/ Tick
         \/ \E t \in scene.times : Sync(t) \/ SetTime(t)
  PROVE  SettingsInv'
<1>1. scene.times \subseteq Times /\ Times \subseteq Nat \ {0}
  BY SettingsAssumption DEF SettingsInv, SettingsTypeOK
<1>2. CASE Record
  <2>1. boot = "up" /\ life' = Logged /\ GoodStats(stats')
        /\ UNCHANGED <<boot, conf, ident, memory, clock, scene, promise, session, lastSave>>
    BY <1>2, CountedGood DEF Record
  <2>2. Times3'
    BY <2>1, UpFacts DEF Times3, clock
  <2> QED BY <2>1, <2>2, LoggedSameLife, UpQuiet
<1>3. CASE ForgetTime \/ Tick \/ \E t \in scene.times : SetTime(t)
  <2>1. boot = "up"
        /\ UNCHANGED <<boot, conf, ident, counts, memory, scene, promise, life>>
    BY <1>3 DEF ForgetTime, Tick, SetTime
  <2>2. now' \in Nat /\ unix' \in Nat
    <3>1. now \in Nat /\ unix \in Nat
      BY <2>1, UpFacts DEF Times3
    <3>2. CASE ForgetTime
      BY <3>1, <3>2 DEF ForgetTime
    <3>3. CASE Tick
      BY <3>1, <3>3 DEF Tick
    <3>4. CASE \E t \in scene.times : SetTime(t)
      BY <1>1, <3>1, <3>4 DEF SetTime
    <3> QED BY <1>3, <3>2, <3>3, <3>4
  <2>3. Times3' /\ GoodStats(stats') /\ SameLife(life')
    BY <2>1, <2>2, UpFacts DEF Times3, GoodStats, SameLife, counts
  <2> QED BY <2>1, <2>3, UpQuiet
<1>4. CASE \E t \in scene.times : Sync(t)
  <2>1. PICK t \in scene.times : Sync(t)
    BY <1>4
  <2>2. boot = "up" /\ unix' = t /\ stats' = [stats EXCEPT !.first = FirstBootTime(t)]
        /\ UNCHANGED <<boot, conf, ident, session, lastSave, memory, now, scene, promise, life>>
    BY <2>1 DEF Sync
  <2>3. GoodStats(stats')
    BY <1>1, <2>2, UpFacts DEF GoodStats, Statistics, FirstBootTime
  <2>4. Times3' /\ SameLife(life')
    BY <1>1, <2>2, UpFacts DEF Times3, SameLife
  <2> QED BY <2>2, <2>3, <2>4, UpQuiet
<1> QED BY <1>2, <1>3, <1>4

(* Switches and destinations, each with a configuration that HasDest.      *)
LEMMA CommandInv ==
  ASSUME SettingsInv,
         \/ ReportOn \/ ReportOff \/ ReportClear \/ AlertOn \/ AlertOff \/ AlertClear
         \/ Save \/ FactoryReset
         \/ \E k \in Keys : ReportDest(k) \/ AlertDest(k)
         \/ \E s \in scene.sets : SetField(s.field, s.value)
  PROVE  SettingsInv'
<1>1. boot = "up"
  BY DEF ReportOn, ReportOff, ReportClear, AlertOn, AlertOff, AlertClear, Save,
         FactoryReset, ReportDest, AlertDest, SetField, Configure
<1>2. conf \in Config /\ HasDest(conf)
  BY <1>1, UpFacts
<1> DEFINE Good(c) == c \in Config /\ HasDest(c)
<1>3. /\ conf.reportDest # NoKey => Good([conf EXCEPT !.report = TRUE])
      /\ conf.alertDest # NoKey => Good([conf EXCEPT !.alert = TRUE])
  BY <1>2 DEF Config, HasDest
<1>4. /\ Good([conf EXCEPT !.report = FALSE])
      /\ Good([conf EXCEPT !.report = FALSE, !.reportDest = NoKey])
      /\ Good([conf EXCEPT !.alert = FALSE])
      /\ Good([conf EXCEPT !.alert = FALSE, !.alertDest = NoKey])
  BY <1>2 DEF Config, HasDest
<1>5. \A k \in Keys :
        Good([conf EXCEPT !.reportDest = k]) /\ Good([conf EXCEPT !.alertDest = k])
  BY <1>2, SettingsAssumption DEF Config, HasDest
<1>6. \A s \in scene.sets : Good([conf EXCEPT !.set[s.field] = s.value])
  <2>1. scene.sets \subseteq [field : Fields, value : Values]
    BY SettingsAssumption DEF SettingsInv, SettingsTypeOK
  <2>2. TAKE s \in scene.sets
  <2>3. conf.set \in [Fields -> Values] /\ s.field \in Fields /\ s.value \in Values
    BY <1>2, <2>1 DEF Config
  <2>4. [conf.set EXCEPT ![s.field] = s.value] \in [Fields -> Values]
    BY <2>3
  <2> QED BY <1>2, <2>4 DEF Config, HasDest
<1>7. Good(conf) /\ Good(defaultConfig)
  BY <1>2, DefaultIsConfig
<1> HIDE DEF Good
<1>8. \A c : Good(c) /\ Configure(c) => SettingsInv'
  BY ConfigureInv DEF Good
<1>9. CASE ReportOn \/ AlertOn
  BY <1>3, <1>8, <1>9 DEF ReportOn, AlertOn
<1>10. CASE ReportOff \/ ReportClear \/ AlertOff \/ AlertClear
  BY <1>4, <1>8, <1>10 DEF ReportOff, ReportClear, AlertOff, AlertClear
<1>11. CASE Save \/ FactoryReset
  BY <1>7, <1>8, <1>11 DEF Save, FactoryReset
<1>12. CASE \E k \in Keys : ReportDest(k) \/ AlertDest(k)
  BY <1>5, <1>8, <1>12 DEF ReportDest, AlertDest
<1>13. CASE \E s \in scene.sets : SetField(s.field, s.value)
  BY <1>6, <1>8, <1>13 DEF SetField
<1> QED BY <1>9, <1>10, <1>11, <1>12, <1>13

(* So do all commands about the identity.                                  *)
LEMMA IdentityInv ==
  ASSUME SettingsInv,
         \/ \E n \in scene.names : SetName(n)
         \/ \E d \in scene.degrees : SetLat(d) \/ SetLon(d)
         \/ \E t \in {"chat", "repeater"} : NodeType(t)
         \/ NewId
  PROVE  SettingsInv'
<1>1. boot = "up"
  BY DEF SetName, SetLat, SetLon, NodeType, NewId, Identify
<1>2. ident \in Identity
  BY <1>1, UpFacts
<1>3. scene.names \subseteq Names /\ scene.degrees \subseteq Degrees
  BY SettingsAssumption DEF SettingsInv, SettingsTypeOK
<1>4. \A n \in scene.names : [ident EXCEPT !.name = n] \in Identity
  BY <1>2, <1>3 DEF Identity
<1>5. \A d \in scene.degrees :
        [ident EXCEPT !.lat = d] \in Identity /\ [ident EXCEPT !.lon = d] \in Identity
  BY <1>2, <1>3 DEF Identity
<1>6. \A t \in {"chat", "repeater"} : [ident EXCEPT !.type = t] \in Identity
  BY <1>2 DEF Identity
<1>7. \A i \in Identity : Identify(i) => SettingsInv'
  BY IdentifyInv
<1>8. CASE \E n \in scene.names : SetName(n)
  BY <1>4, <1>7, <1>8 DEF SetName
<1>9. CASE \E d \in scene.degrees : SetLat(d) \/ SetLon(d)
  BY <1>5, <1>7, <1>9 DEF SetLat, SetLon
<1>10. CASE \E t \in {"chat", "repeater"} : NodeType(t)
  BY <1>6, <1>7, <1>10 DEF NodeType
<1>11. CASE NewId
  BY <1>7, <1>11, GeneratedIsIdentity DEF NewId
<1> QED BY <1>8, <1>9, <1>10, <1>11

(* Every step keeps the invariant.                                         *)
LEMMA SettingsStep ==
  SettingsInv /\ [SettingsNext]_settings => SettingsInv'
<1> SUFFICES ASSUME SettingsInv, [SettingsNext]_settings PROVE SettingsInv'
  OBVIOUS
<1>1. CASE LoadConfig
  BY <1>1, LoadConfigInv
<1>2. CASE LoadStats
  BY <1>2, LoadStatsInv
<1>3. CASE LoadIdentity
  BY <1>3, LoadIdentityInv
<1>4. CASE PowerLoss
  BY <1>4, PowerLossInv
<1>5. CASE \/ ReportOn \/ ReportOff \/ ReportClear \/ AlertOn \/ AlertOff \/ AlertClear
           \/ Save \/ FactoryReset
           \/ \E k \in Keys : ReportDest(k) \/ AlertDest(k)
           \/ \E s \in scene.sets : SetField(s.field, s.value)
  BY <1>5, CommandInv
<1>6. CASE \E k \in scene.keys : AdminLogin(k)
  BY <1>6, AdminLoginInv, SettingsAssumption DEF SettingsInv, SettingsTypeOK
<1>7. CASE \/ \E n \in scene.names : SetName(n)
           \/ \E d \in scene.degrees : SetLat(d) \/ SetLon(d)
           \/ \E t \in {"chat", "repeater"} : NodeType(t)
           \/ NewId
  BY <1>7, IdentityInv
<1>8. CASE CheckStatsSave \/ SaveStats
  BY <1>8, SaveStatsInv DEF CheckStatsSave
<1>9. CASE \/ Record \/ ForgetTime \/ Tick
           \/ \E t \in scene.times : Sync(t) \/ SetTime(t)
  BY <1>9, TimeInv
<1>10. CASE UNCHANGED settings
  <2>1. UNCHANGED <<boot, conf, ident, counts, memory, clock, scene, promise, life>>
    BY <1>10 DEF settings
  <2>2. SettingsTypeOK' /\ Shape'
    BY <2>1 DEF SettingsInv, SettingsTypeOK, Shape, counts, memory, clock
  <2>3. Destinations' /\ Copies' /\ Promised'
    BY <2>1 DEF SettingsInv, Destinations, HasDest, Copies, Promised, memory
  <2>4. BootCounts' /\ FirstKept'
    BY <2>1 DEF SettingsInv, BootCounts, BootsIn, FirstKept, FirstIn, counts, memory
  <2> QED BY <2>2, <2>3, <2>4 DEF SettingsInv
<1> QED BY <1>1, <1>2, <1>3, <1>4, <1>5, <1>6, <1>7, <1>8, <1>9, <1>10
         DEF SettingsNext, Startup

(* The invariant holds at first.                                           *)
LEMMA SettingsStart == SettingsInit => SettingsInv
<1> SUFFICES ASSUME SettingsInit PROVE SettingsInv
  OBVIOUS
<1>1. /\ eeprom.buffer = [s \in Sections |-> Blank]
      /\ eeprom.flash = [s \in Sections |-> Blank]
      /\ eeprom \in [buffer : [Sections -> Stored], flash : [Sections -> Stored]]
  BY Phases DEF SettingsInit, Erased
<1>2. life \in Life /\ life.earlier = 0 /\ ~life.put /\ ~life.kept
  BY BornIsLife DEF SettingsInit
<1>3. SettingsTypeOK
  BY <1>1, FreshIsStatistics, SettingsAssumption, Phases DEF SettingsInit, SettingsTypeOK, Contents
<1>4. Shape
  BY <1>1, <1>2 DEF SettingsInit, Shape
<1>5. Destinations /\ Copies /\ Promised
  BY <1>1, Phases DEF SettingsInit, Destinations, Copies, Promised
<1>6. BootCounts /\ FirstKept
  BY <1>1, <1>2, Phases DEF SettingsInit, BootCounts, BootsIn, FirstKept
<1> QED BY <1>3, <1>4, <1>5, <1>6 DEF SettingsInv

-----------------------------------------------------------------------------
(* In every behaviour of the settings the three copies of each section     *)
(* agree as setup(), the commands and failing commits leave them.          *)
THEOREM SettingsInvariant == SettingsSpec => []SettingsInv
BY SettingsStart, SettingsStep, PTL DEF SettingsSpec

(* What the runs check follows from it.                                    *)
LEMMA InvGivesProperties ==
  SettingsInv => SettingsTypeOK /\ ReportsHaveDest /\ BootsCounted
<1> SUFFICES ASSUME SettingsInv PROVE SettingsTypeOK /\ ReportsHaveDest /\ BootsCounted
  OBVIOUS
<1>1. SettingsTypeOK
  BY DEF SettingsInv
<1>2. ReportsHaveDest
  BY DEF SettingsInv, Destinations, HasDest, ReportsHaveDest
<1>3. BootsCounted
  BY DEF SettingsInv, BootCounts, BootsCounted
<1> QED BY <1>1, <1>2, <1>3

(* The end of setup() brings back what was promised when the power failed. *)
LEMMA RebootStep ==
  SettingsInv /\ [SettingsNext]_settings =>
    (boot = "identity" /\ boot' = "up" /\ promise # Blank =>
       conf' = promise.conf /\ ident' = promise.ident)
<1> SUFFICES ASSUME SettingsInv, [SettingsNext]_settings,
                    boot = "identity", boot' = "up", promise # Blank
             PROVE  conf' = promise.conf /\ ident' = promise.ident
  OBVIOUS
<1>1. LoadIdentity
  BY DEF SettingsNext, settings, Startup, LoadConfig, LoadStats, PowerLoss, ReportOn, ReportOff,
     ReportClear, AlertOn, AlertOff, AlertClear, Save, FactoryReset, ReportDest, AlertDest,
     SetField, Configure, AdminLogin, SetName, SetLat, SetLon, NodeType, NewId, Identify,
     CheckStatsSave, SaveStats, Record, Sync, SetTime, ForgetTime, Tick
<1>2. eeprom.buffer["config"] = promise.conf /\ eeprom.buffer["identity"] = promise.ident
      /\ promise.ident # Blank
  BY DEF SettingsInv, Promised
<1>3. conf = promise.conf
  BY <1>2 DEF SettingsInv, Copies
<1> QED BY <1>1, <1>2, <1>3 DEF LoadIdentity

(* The time of the first boot that the flash has stays.                    *)
FirstStays ==
  FirstIn(eeprom.flash["stats"]) # 0 =>
    FirstIn(eeprom'.flash["stats"]) = FirstIn(eeprom.flash["stats"])

(* Writing a section that has the same first boot, or none, keeps it.      *)
LEMMA StoreKeepsFirst ==
  ASSUME SettingsInv, boot # "config",
         NEW section \in Sections, NEW content \in Stored, Store(eeprom, section, content),
         section = "stats" /\ FirstIn(eeprom.buffer["stats"]) # 0 =>
           FirstIn(content) = FirstIn(eeprom.buffer["stats"])
  PROVE  FirstStays
<1>1. /\ eeprom'.buffer = [eeprom.buffer EXCEPT ![section] = content]
      /\ eeprom'.flash = IF committed' THEN eeprom'.buffer ELSE eeprom.flash
  BY StoreWrites DEF SettingsInv, Shape
<1>2. eeprom'.buffer["stats"] = IF section = "stats" THEN content ELSE eeprom.buffer["stats"]
  BY <1>1, Phases DEF SettingsInv, Shape
<1>3. FirstIn(eeprom.flash["stats"]) # 0 =>
        FirstIn(eeprom.buffer["stats"]) = FirstIn(eeprom.flash["stats"])
  BY DEF SettingsInv, FirstKept
<1>4. FirstIn(eeprom.flash["stats"]) # 0 =>
        FirstIn(eeprom'.buffer["stats"]) = FirstIn(eeprom.flash["stats"])
  BY <1>2, <1>3 DEF FirstIn
<1> QED BY <1>1, <1>4 DEF FirstStays

(* No step changes the time of the first boot that is in flash.            *)
LEMMA FirstStep ==
  SettingsInv /\ [SettingsNext]_settings => FirstStays
<1> SUFFICES ASSUME SettingsInv, [SettingsNext]_settings PROVE FirstStays
  OBVIOUS
<1>1. SettingsInv'
  BY SettingsStep
<1>2. CASE eeprom'.flash = eeprom.flash
  BY <1>2 DEF FirstStays
<1>3. CASE LoadConfig
  <2>1. Mounted(eeprom).flash = eeprom.flash /\ Mounted(eeprom).buffer = eeprom.flash
    BY MountedReads DEF SettingsInv, Shape
  <2>2. CASE eeprom' = Mounted(eeprom)
    BY <2>1, <2>2 DEF FirstStays
  <2>3. CASE Store(Mounted(eeprom), "config", defaultConfig)
    <3>1. defaultConfig \in Stored /\ "config" \in Sections
      BY DefaultIsConfig, Phases DEF Stored
    <3>2. /\ eeprom'.buffer = [eeprom.flash EXCEPT !["config"] = defaultConfig]
          /\ eeprom'.flash = IF committed' THEN eeprom'.buffer ELSE eeprom.flash
      BY <2>1, <2>3, <3>1, StoreWrites, MountedReads DEF SettingsInv, Shape
    <3>3. eeprom'.flash["stats"] = eeprom.flash["stats"]
      BY <3>2, Phases DEF SettingsInv, Shape
    <3> QED BY <3>3 DEF FirstStays
  <2> QED BY <1>3, <2>2, <2>3 DEF LoadConfig
<1>4. CASE LoadStats
  <2>1. CASE UNCHANGED memory
    BY <2>1 DEF FirstStays, memory
  <2>2. CASE eeprom.buffer["stats"] = Blank /\ Store(eeprom, "stats", FreshStats)
    <3>1. FreshStats \in Stored /\ "stats" \in Sections
      BY FreshIsStatistics, Phases DEF Stored
    <3>2. FirstIn(eeprom.buffer["stats"]) = 0
      BY <2>2 DEF FirstIn
    <3> QED BY <1>4, <2>2, <3>1, <3>2, StoreKeepsFirst DEF LoadStats
  <2> QED BY <1>4, <2>1, <2>2 DEF LoadStats
<1>5. CASE boot # "config" /\ boot' = "up" /\ Store(eeprom, "config", conf')
  <2>1. conf' \in Stored /\ "config" \in Sections
    BY <1>1, <1>5, Phases DEF SettingsInv, SettingsTypeOK, Stored
  <2> QED BY <1>5, <2>1, StoreKeepsFirst
<1>6. CASE boot # "config" /\ boot' = "up" /\ Store(eeprom, "identity", ident')
  <2>1. ident' \in Stored /\ "identity" \in Sections
    BY <1>1, <1>6, Phases DEF SettingsInv, SettingsTypeOK, Stored
  <2> QED BY <1>6, <2>1, StoreKeepsFirst
<1>7. CASE SaveStats
  <2>1. boot = "up" /\ boot' = boot /\ Store(eeprom, "stats", stats')
        /\ stats' = [stats EXCEPT !.uptime = @ + Since(session) \div Second]
    BY <1>7 DEF SaveStats, StoreStats
  <2>2. stats' \in Statistics /\ stats' \in Stored /\ "stats" \in Sections
    BY <1>1, Phases DEF SettingsInv, SettingsTypeOK, Stored
  <2>3. stats'.first = stats.first /\ stats' # Blank
    BY <2>1, <2>2, BlankAssumption DEF SettingsInv, SettingsTypeOK, Statistics
  <2>4. FirstIn(eeprom.buffer["stats"]) # 0 => FirstIn(stats') = FirstIn(eeprom.buffer["stats"])
    BY <2>1, <2>3 DEF SettingsInv, FirstKept, FirstIn
  <2> QED BY <2>1, <2>2, <2>4, StoreKeepsFirst
<1>8. \A c : Configure(c) => boot # "config" /\ boot' = "up" /\ Store(eeprom, "config", conf')
  BY DEF Configure, SaveConfig
<1>9. \A i : Identify(i) => boot # "config" /\ boot' = "up" /\ Store(eeprom, "identity", ident')
  BY DEF Identify, SaveIdentity
<1>10. CASE \/ ReportOn \/ ReportOff \/ ReportClear \/ AlertOn \/ AlertOff \/ AlertClear
            \/ Save \/ FactoryReset
            \/ \E k \in Keys : ReportDest(k) \/ AlertDest(k)
            \/ \E s \in scene.sets : SetField(s.field, s.value)
  BY <1>5, <1>8, <1>10
    DEF ReportOn, ReportOff, ReportClear, AlertOn, AlertOff, AlertClear, Save,
        FactoryReset, ReportDest, AlertDest, SetField
<1>11. CASE \/ \E n \in scene.names : SetName(n)
            \/ \E d \in scene.degrees : SetLat(d) \/ SetLon(d)
            \/ \E t \in {"chat", "repeater"} : NodeType(t)
            \/ NewId
  BY <1>6, <1>9, <1>11 DEF SetName, SetLat, SetLon, NodeType, NewId
<1>12. CASE LoadIdentity
  <2>1. CASE UNCHANGED memory
    BY <1>2, <2>1 DEF memory
  <2>2. CASE \E key \in OwnKeys : SaveIdentity(Generated(key))
    BY <1>6, <1>12, <2>2 DEF LoadIdentity, SaveIdentity
  <2> QED BY <1>12, <2>1, <2>2 DEF LoadIdentity
<1>13. CASE \E k \in scene.keys : AdminLogin(k)
  <2>1. CASE UNCHANGED memory
    BY <1>2, <2>1 DEF memory
  <2>2. CASE boot # "config" /\ boot' = "up" /\ Store(eeprom, "config", conf')
    BY <1>5, <2>2
  <2> QED BY <1>13, <2>1, <2>2 DEF AdminLogin
<1>14. CASE \/ PowerLoss \/ Record \/ ForgetTime \/ Tick \/ UNCHANGED settings
            \/ \E t \in scene.times : Sync(t) \/ SetTime(t)
  BY <1>2, <1>14 DEF PowerLoss, Record, ForgetTime, Tick, Sync, SetTime, memory, settings
<1> QED BY <1>3, <1>4, <1>7, <1>10, <1>11, <1>12, <1>13, <1>14
         DEF SettingsNext, Startup, CheckStatsSave

(* The action property about the first boot, from the invariant.           *)
LEMMA FirstStaysOnce ==
  SettingsInv /\ FirstStays =>
    (eeprom.flash["stats"] # Blank /\ eeprom.flash["stats"].first # 0 =>
       eeprom'.flash["stats"].first = eeprom.flash["stats"].first)
BY DEF FirstStays, FirstIn

(* Whatever fails or reboots, the settings keep their types.               *)
THEOREM SettingsTypeCorrect == SettingsSpec => []SettingsTypeOK
BY SettingsInvariant, InvGivesProperties, PTL

(* A switched on report or alert has a destination.                        *)
THEOREM ReportsAlwaysHaveDest == SettingsSpec => []ReportsHaveDest
BY SettingsInvariant, InvGivesProperties, PTL

(* The boots are counted exactly, whichever saves fail.                    *)
THEOREM BootsAlwaysCounted == SettingsSpec => []BootsCounted
BY SettingsInvariant, InvGivesProperties, PTL

(* A reboot keeps what the last write before it kept.                      *)
THEOREM RebootAlwaysKeepsSettings == SettingsSpec => RebootKeepsSettings
<1>1. SettingsInv /\ [SettingsNext]_settings =>
        [boot = "identity" /\ boot' = "up" /\ promise # Blank =>
           conf' = promise.conf /\ ident' = promise.ident]_settings
  BY RebootStep
<1> QED BY <1>1, SettingsInvariant, PTL DEF SettingsSpec, RebootKeepsSettings

(* The time of the first boot is kept for good.                            *)
THEOREM FirstBootIsOnce == SettingsSpec => FirstBootOnce
<1>1. SettingsInv /\ [SettingsNext]_settings =>
        [eeprom.flash["stats"] # Blank /\ eeprom.flash["stats"].first # 0 =>
           eeprom'.flash["stats"].first = eeprom.flash["stats"].first]_settings
  BY FirstStep, FirstStaysOnce
<1> QED BY <1>1, SettingsInvariant, PTL DEF SettingsSpec, FirstBootOnce

(* What was saved is there after any number of reboots and failures.       *)
THEOREM SavedIsKept == SettingsSpec => KeepsWhatWasSaved
BY RebootAlwaysKeepsSettings, FirstBootIsOnce DEF KeepsWhatWasSaved
-----------------------------------------------------------------------------
(***************************************************************************)
(* Uptime and counts.  The clock wraps, so the starts of the session and   *)
(* of the save interval are remainders; the invariant gives each the time  *)
(* it stands for, and the packets of the boot that the flash knows.        *)
(***************************************************************************)

(* l is when the statistics were last saved, s when uptime was last added. *)
ClocksSay(l, s) ==
  /\ lastSave = l % Wrap /\ session = s % Wrap
  /\ l <= s /\ s <= now /\ now - l <= SaveInterval

(* The uptime up to s falls behind by less than a second for each save.    *)
UptimeSays(s) ==
  /\ Second * (stats.uptime - life.uptime) <= s - life.at
  /\ s - life.at <= Second * (stats.uptime - life.uptime) + life.saves * (Second - 1)

(* The flash has counted the first k packets of the boot; the others came  *)
(* after l.                                                                *)
FlashSays(l, k) ==
  failures = 0 =>
    /\ eeprom.flash["stats"] # Blank
    /\ eeprom.flash["stats"].counted = life.counted + k
    /\ \A i \in DOMAIN life.log : i > k => life.log[i] >= l

StatsInv ==
  /\ failures = 0 => committed
  /\ boot # "up" => now = 0
  /\ boot \in {"config", "stats"} => lastSave = 0 /\ session = 0
  /\ boot \in {"identity", "up"} =>
       /\ stats.counted = life.counted + Len(life.log)
       /\ \E l, s, k \in Nat :
            k <= Len(life.log) /\ ClocksSay(l, s) /\ UptimeSays(s) /\ FlashSays(l, k)

(* Until the wrap is over, the difference of the remainders is the time    *)
(* that has passed.                                                        *)
LEMMA SinceSays ==
  ASSUME NEW a \in Nat, NEW b \in Nat, a <= b, b - a < Wrap
  PROVE  ((b % Wrap) - (a % Wrap)) % Wrap = b - a
<1>0. Wrap \in Nat \ {0} /\ a \in Int /\ b \in Int
  BY SettingsAssumption
<1>1. PICK q \in Int, r \in 0 .. Wrap - 1 : r = a % Wrap /\ a = Wrap * q + r
  BY <1>0, DivMod
<1>2. PICK u \in Int, v \in 0 .. Wrap - 1 : v = b % Wrap /\ b = Wrap * u + v
  BY <1>0, DivMod
<1>3. v - r \in Int /\ b - a \in 0 .. Wrap - 1 /\ q - u \in Int
  BY <1>0
<1>4. Wrap * (q - u) = Wrap * q - Wrap * u
  BY <1>0
<1>5. v - r = Wrap * (q - u) + (b - a)
  BY <1>0, <1>1, <1>2, <1>4
<1>6. (v - r) % Wrap = b - a
  BY <1>0, <1>3, <1>5, ModIs
<1> QED BY <1>1, <1>2, <1>6

(* Writing the configuration or the identity leaves the statistics in the  *)
(* flash alone.                                                            *)
LEMMA StoreLeavesStats ==
  ASSUME SettingsInv, StatsInv, boot # "config",
         NEW section \in Sections \ {"stats"}, NEW content \in Stored,
         Store(eeprom, section, content)
  PROVE  /\ failures' = 0 => failures = 0 /\ committed'
         /\ failures' = 0 => eeprom'.flash["stats"] = eeprom.flash["stats"]
<1>1. /\ eeprom'.buffer = [eeprom.buffer EXCEPT ![section] = content]
      /\ eeprom'.flash = IF committed' THEN eeprom'.buffer ELSE eeprom.flash
  BY StoreWrites DEF SettingsInv, Shape
<1>2. eeprom'.buffer["stats"] = eeprom.buffer["stats"]
  BY <1>1, Phases DEF SettingsInv, Shape
<1>3. failures' = 0 => failures = 0 /\ committed'
  BY DEF Store, Fails, SettingsInv, Shape
<1>4. failures = 0 => eeprom.flash = eeprom.buffer
  BY DEF StatsInv, SettingsInv, Copies
<1> QED BY <1>1, <1>2, <1>3, <1>4

(* What a step that counts no time and no packet keeps of the history.     *)
SameCounts(l) ==
  /\ l.uptime = life.uptime /\ l.at = life.at /\ l.saves = life.saves
  /\ l.counted = life.counted /\ l.log = life.log

(* A commit changes nothing that the statistics count.                     *)
LEMMA KeptByCounts ==
  ASSUME NEW l \in Life, NEW p
  PROVE  /\ KeptBy(l, p).uptime = l.uptime /\ KeptBy(l, p).at = l.at
         /\ KeptBy(l, p).saves = l.saves /\ KeptBy(l, p).counted = l.counted
         /\ KeptBy(l, p).log = l.log
BY DEF KeptBy, Life

(* Steps of a node that is up, or becomes it, which count nothing.         *)
LEMMA StatsQuiet ==
  ASSUME SettingsInv, StatsInv, boot \in {"identity", "up"}, boot' \in {"identity", "up"},
         boot' = "up" \/ boot' = boot,
         UNCHANGED <<now, session, lastSave>>, SameCounts(life'),
         stats'.uptime = stats.uptime, stats'.counted = stats.counted,
         failures' = 0 =>
           failures = 0 /\ committed' /\ eeprom'.flash["stats"] = eeprom.flash["stats"]
  PROVE  StatsInv'
<1>1. PICK l, s, k \in Nat :
        k <= Len(life.log) /\ ClocksSay(l, s) /\ UptimeSays(s) /\ FlashSays(l, k)
  BY DEF StatsInv
<1>2. ClocksSay(l, s)' /\ UptimeSays(s)' /\ FlashSays(l, k)' /\ k <= Len(life'.log)
  BY <1>1 DEF ClocksSay, UptimeSays, FlashSays, SameCounts
<1>3. stats'.counted = life'.counted + Len(life'.log)
  BY DEF StatsInv, SameCounts
<1>4. (failures' = 0 => committed') /\ (boot' # "up" => now' = 0)
  BY DEF StatsInv
<1> QED BY <1>2, <1>3, <1>4 DEF StatsInv

(* Steps that save the configuration or the identity.                      *)
LEMMA StatsWrite ==
  ASSUME SettingsInv, StatsInv, boot \in {"identity", "up"}, boot' = "up",
         UNCHANGED <<now, counts>>,
         NEW section \in Sections \ {"stats"}, NEW content \in Contents[section],
         Store(eeprom, section, content), life' = KeptBy(life, FALSE)
  PROVE  StatsInv'
<1>1. content \in Stored
  BY ContentsStored
<1>2. /\ failures' = 0 => failures = 0 /\ committed'
      /\ failures' = 0 => eeprom'.flash["stats"] = eeprom.flash["stats"]
  BY <1>1, StoreLeavesStats
<1>3. SameCounts(life')
  BY KeptByCounts DEF SettingsInv, Shape, SameCounts
<1> QED BY <1>2, <1>3, StatsQuiet DEF counts

(* A packet that is counted comes last, and after the last save.           *)
LEMMA StatsCount ==
  ASSUME SettingsInv, StatsInv, boot = "up", boot' = boot, Counted, UNCHANGED now,
         life' = Logged \/ life' = KeptBy(Logged, FALSE),
         failures' = 0 =>
           failures = 0 /\ committed' /\ eeprom'.flash["stats"] = eeprom.flash["stats"]
  PROVE  StatsInv'
<1>1. life \in Life /\ now \in Nat /\ stats \in Statistics /\ life.log \in Seq(Nat)
  BY DEF SettingsInv, SettingsTypeOK, Shape, Life
<1>2. Logged \in Life
  BY LoggedSameLife DEF SameLife
<1>3. /\ Logged.uptime = life.uptime /\ Logged.at = life.at /\ Logged.saves = life.saves
      /\ Logged.counted = life.counted /\ Logged.log = Append(life.log, now)
  BY <1>1 DEF Logged, Life
<1>4. /\ life'.uptime = life.uptime /\ life'.at = life.at /\ life'.saves = life.saves
      /\ life'.counted = life.counted /\ life'.log = Append(life.log, now)
  <2>1. CASE life' = Logged
    BY <1>3, <2>1
  <2>2. CASE life' = KeptBy(Logged, FALSE)
    BY <1>2, <1>3, <2>2, KeptByCounts
  <2> QED BY <2>1, <2>2
<1>5. /\ stats'.uptime = stats.uptime /\ stats'.counted = stats.counted + 1
      /\ UNCHANGED <<session, lastSave>>
  BY <1>1 DEF Counted, Statistics
<1>6. PICK t, s, k \in Nat :
        k <= Len(life.log) /\ ClocksSay(t, s) /\ UptimeSays(s) /\ FlashSays(t, k)
  BY DEF StatsInv
<1>7. /\ Len(life'.log) = Len(life.log) + 1 /\ Len(life.log) \in Nat
      /\ DOMAIN life'.log = DOMAIN life.log \cup {Len(life.log) + 1}
      /\ \A i \in DOMAIN life.log : life'.log[i] = life.log[i]
      /\ life'.log[Len(life.log) + 1] = now
  BY <1>1, <1>4
<1>8. t <= now
  BY <1>1, <1>6 DEF ClocksSay
<1>9. FlashSays(t, k)'
  BY <1>1, <1>4, <1>6, <1>7, <1>8 DEF FlashSays
<1>10. ClocksSay(t, s)' /\ UptimeSays(s)' /\ k <= Len(life'.log)
  BY <1>4, <1>5, <1>6, <1>7 DEF ClocksSay, UptimeSays
<1>11. stats'.counted = life'.counted + Len(life'.log)
  <2>1. stats.counted = life.counted + Len(life.log)
    BY DEF StatsInv
  <2>2. life'.counted = life.counted /\ life.counted \in Nat
    <3>1. life.counted \in Nat
      BY <1>1 DEF Life
    <3> QED BY <1>4, <3>1
  <2> QED BY <1>5, <1>7, <2>1, <2>2
<1> QED BY <1>9, <1>10, <1>11 DEF StatsInv

(* Saving the statistics adds the time since the last save in whole        *)
(* seconds.                                                                *)
LEMMA UptimeAdds ==
  ASSUME NEW d \in Nat, NEW u \in Int, NEW n \in Nat, NEW x \in Int,
         Second * u <= x, x <= Second * u + n * (Second - 1)
  PROVE  LET v == u + d \div Second
             m == n + (IF d = 0 THEN 0 ELSE 1)
         IN  Second * v <= x + d /\ x + d <= Second * v + m * (Second - 1)
<1>0. Second \in Nat \ {0}
  BY SettingsAssumption
<1>1. PICK q \in Int, r \in Int : q = d \div Second /\ r = d % Second
  BY <1>0
<1>2. d = Second * q + r /\ r \in 0 .. Second - 1
  BY <1>0, <1>1
<1>3. Second * (u + q) = Second * u + Second * q
  BY <1>0
<1>4. CASE d = 0
  <2>1. q = 0
    BY <1>0, <1>1, <1>4
  <2> QED BY <1>1, <1>3, <1>4, <2>1, <1>0
<1>5. CASE d # 0
  <2>1. (n + 1) * (Second - 1) = n * (Second - 1) + (Second - 1)
    BY <1>0
  <2>2. PICK su \in Int, sq \in Int, ns \in Int :
          su = Second * u /\ sq = Second * q /\ ns = n * (Second - 1)
    BY <1>0
  <2>3. su + sq <= x + d /\ x + d <= su + sq + (ns + (Second - 1))
    BY <1>0, <1>2, <2>2
  <2> QED BY <1>0, <1>1, <1>3, <1>5, <2>1, <2>2, <2>3
<1> QED BY <1>4, <1>5

(* While the node is up, the clocks tell how long ago the last saves were. *)
LEMMA SinceClocks ==
  ASSUME NEW l \in Nat, NEW s \in Nat, now \in Nat, ClocksSay(l, s)
  PROVE  Since(lastSave) = now - l /\ Since(session) = now - s
<1>1. SaveInterval \in Nat /\ SaveInterval < Wrap /\ Wrap \in Nat
  BY SettingsAssumption
<1>2. now - l < Wrap /\ now - s < Wrap /\ l <= now /\ s <= now
  BY <1>1 DEF ClocksSay
<1>3. ((now % Wrap) - (l % Wrap)) % Wrap = now - l
  BY <1>2, SinceSays
<1>4. ((now % Wrap) - (s % Wrap)) % Wrap = now - s
  BY <1>2, SinceSays
<1> QED BY <1>3, <1>4 DEF Since, millis, ClocksSay

(* A save that succeeds keeps all packets; one that fails counts as a      *)
(* failure.                                                                *)
LEMMA StatsSave ==
  ASSUME SettingsInv, StatsInv, SaveStats PROVE StatsInv'
<1> DEFINE saved == [stats EXCEPT !.uptime = @ + Since(session) \div Second]
           h == [life EXCEPT !.saves = @ + (IF Since(session) = 0 THEN 0 ELSE 1)]
<1>1. /\ boot = "up" /\ UNCHANGED <<boot, conf, ident, clock, scene, promise>>
      /\ stats' = saved /\ Store(eeprom, "stats", saved) /\ session' = millis
      /\ lastSave' = (IF committed' THEN millis ELSE lastSave)
      /\ life' = KeptBy(h, TRUE)
  BY DEF SaveStats, StoreStats
<1>2. stats \in Statistics /\ life \in Life /\ now \in Nat /\ Times3 /\ life.log \in Seq(Nat)
  BY <1>1, UpFacts DEF SameLife, Times3, Life
<1>3. PICK l, s, k \in Nat :
        k <= Len(life.log) /\ ClocksSay(l, s) /\ UptimeSays(s) /\ FlashSays(l, k)
  BY <1>1 DEF StatsInv
<1>4. Since(session) = now - s /\ now - s \in Nat
  BY <1>2, <1>3, SinceClocks DEF ClocksSay
<1>5. PICK d \in Nat : d = now - s /\ Since(session) = d
  BY <1>4
<1>6. d \div Second \in Nat
  BY SettingsAssumption
<1>7. /\ saved \in Statistics /\ saved.counted = stats.counted
      /\ saved.uptime = stats.uptime + d \div Second
  <2>1. /\ stats = [boots |-> stats.boots, counted |-> stats.counted,
                    uptime |-> stats.uptime, first |-> stats.first]
        /\ stats.uptime \in Nat /\ stats.counted \in Nat /\ stats.boots \in Nat
        /\ stats.first \in Times \cup {0}
    BY <1>2 DEF Statistics
  <2>2. stats.uptime + d \div Second \in Nat
    BY <1>6, <2>1
  <2>3. saved = [stats EXCEPT !.uptime = stats.uptime + d \div Second]
    BY <1>5
  <2> QED BY <2>1, <2>2, <2>3 DEF Statistics
<1>8. /\ h \in Life /\ h.log = life.log /\ h.at = life.at /\ h.uptime = life.uptime
      /\ h.counted = life.counted
      /\ h.saves = life.saves + (IF d = 0 THEN 0 ELSE 1)
  <2>1. life.saves + (IF Since(session) = 0 THEN 0 ELSE 1) \in Nat
    BY <1>2 DEF Life
  <2> QED BY <1>2, <1>5, <2>1 DEF Life
<1> HIDE DEF saved, h
<1>9. /\ life'.log = life.log /\ life'.at = life.at /\ life'.uptime = life.uptime
      /\ life'.counted = life.counted
      /\ life'.saves = life.saves + (IF d = 0 THEN 0 ELSE 1)
  BY <1>1, <1>8, KeptByCounts
<1>10. UptimeSays(now)'
  <2>1. /\ stats.uptime - life.uptime \in Int /\ life.saves \in Nat /\ s - life.at \in Int
        /\ life.uptime \in Nat /\ life.at \in Nat /\ stats.uptime \in Nat
    BY <1>2 DEF Life, Statistics
  <2>2. PICK u \in Int, x \in Int : u = stats.uptime - life.uptime /\ x = s - life.at
    BY <2>1
  <2>3. Second * u <= x /\ x <= Second * u + life.saves * (Second - 1)
    BY <1>3, <2>2 DEF UptimeSays
  <2>4. /\ Second * (u + d \div Second) <= x + d
        /\ x + d <= Second * (u + d \div Second) +
                      (life.saves + (IF d = 0 THEN 0 ELSE 1)) * (Second - 1)
    <3>1. u \in Int /\ x \in Int /\ life.saves \in Nat /\ d \in Nat
      BY <2>1
    <3> QED BY <2>3, <3>1, UptimeAdds
  <2>5. stats'.uptime - life'.uptime = u + d \div Second
    <3>1. stats'.uptime = stats.uptime + d \div Second /\ life'.uptime = life.uptime
      BY <1>1, <1>7, <1>9
    <3>2. PICK q \in Nat : q = d \div Second
      BY <1>6
    <3>3. (stats.uptime + q) - life.uptime = u + q
      BY <2>1, <2>2, <3>2
    <3> QED BY <3>1, <3>2, <3>3
  <2>6. now - life'.at = x + d
    BY <1>2, <1>5, <1>9, <2>1, <2>2
  <2>7. now' = now
    BY <1>1 DEF clock
  <2> QED BY <1>9, <2>4, <2>5, <2>6, <2>7 DEF UptimeSays
<1>11. /\ stats'.counted = life'.counted + Len(life'.log)
       /\ boot' = "up" /\ now' = now /\ now \in Nat
  BY <1>1, <1>2, <1>7, <1>9 DEF StatsInv, clock
<1>12. saved \in Stored /\ "stats" \in Sections /\ saved # Blank
  BY <1>7, Phases, BlankAssumption DEF Stored
<1>13. /\ eeprom'.buffer = [eeprom.buffer EXCEPT !["stats"] = saved]
       /\ eeprom'.flash = IF committed' THEN eeprom'.buffer ELSE eeprom.flash
  BY <1>1, <1>12, StoreWrites DEF SettingsInv, Shape
<1>14. eeprom'.buffer["stats"] = saved
  BY <1>12, <1>13 DEF SettingsInv, Shape
<1>15. failures' = 0 => committed'
  BY <1>1 DEF Store, Fails, SettingsInv, Shape
<1>16. millis = now % Wrap
  BY DEF millis
<1>17. CASE committed'
  <2>1. FlashSays(now, Len(life.log))'
    <3>1. eeprom'.flash["stats"] = saved
      BY <1>13, <1>14, <1>17
    <3>2. saved.counted = life'.counted + Len(life.log)
      BY <1>1, <1>9, <1>11
    <3>3. DOMAIN life'.log = 1 .. Len(life.log)
      BY <1>2, <1>9
    <3>4. \A i \in DOMAIN life'.log : ~(i > Len(life.log))
      BY <3>3, <1>2
    <3> QED BY <1>7, <1>9, <1>11, <1>12, <3>1, <3>2, <3>4 DEF FlashSays
  <2>2. ClocksSay(now, now)'
    <3>1. now - now <= SaveInterval
      BY <1>2, SettingsAssumption
    <3> QED BY <1>1, <1>11, <1>16, <1>17, <3>1 DEF ClocksSay
  <2>3. Len(life.log) \in Nat /\ Len(life.log) <= Len(life'.log)
    BY <1>2, <1>9
  <2> QED BY <1>2, <1>10, <1>11, <1>15, <2>1, <2>2, <2>3 DEF StatsInv
<1>18. CASE ~committed'
  <2>1. FlashSays(l, k)'
    BY <1>15, <1>18 DEF FlashSays
  <2>2. ClocksSay(l, now)'
    BY <1>1, <1>2, <1>3, <1>11, <1>16, <1>18 DEF ClocksSay
  <2>3. k <= Len(life'.log)
    BY <1>3, <1>9
  <2> QED BY <1>2, <1>10, <1>11, <1>15, <2>1, <2>2, <2>3 DEF StatsInv
<1> QED BY <1>17, <1>18

(* Time passes only while no save is due, so never more than the interval. *)
LEMMA StatsTick ==
  ASSUME SettingsInv, StatsInv, Tick PROVE StatsInv'
<1>1. boot = "up" /\ ~SaveDue /\ now' = now + 1
      /\ UNCHANGED <<boot, conf, ident, counts, memory, scene, promise, life>>
  BY DEF Tick
<1>2. now \in Nat /\ life \in Life
  BY <1>1, UpFacts DEF SameLife, Times3
<1>3. PICK l, s, k \in Nat :
        k <= Len(life.log) /\ ClocksSay(l, s) /\ UptimeSays(s) /\ FlashSays(l, k)
  BY <1>1 DEF StatsInv
<1>4. Since(lastSave) = now - l
  BY <1>2, <1>3, SinceClocks
<1>5. now - l < SaveInterval /\ SaveInterval \in Nat
  BY <1>1, <1>2, <1>4, SettingsAssumption DEF SaveDue
<1>6. ClocksSay(l, s)'
  BY <1>1, <1>2, <1>3, <1>5 DEF ClocksSay, counts
<1>7. UptimeSays(s)' /\ FlashSays(l, k)' /\ k <= Len(life'.log)
  BY <1>1, <1>3 DEF UptimeSays, FlashSays, counts, memory
<1> QED BY <1>1, <1>6, <1>7 DEF StatsInv, counts, memory

(* setup() takes no time, and what it reads is where the boot begins.      *)
LEMMA StatsBoot ==
  ASSUME SettingsInv, StatsInv, LoadConfig \/ LoadStats \/ LoadIdentity
  PROVE  StatsInv'
<1>1. CASE LoadConfig
  <2>1. boot = "config" /\ boot' = "stats" /\ UNCHANGED <<counts, clock>>
    BY <1>1 DEF LoadConfig
  <2>2. failures' = 0 => committed'
    BY <1>1 DEF LoadConfig, Store, Fails, SettingsInv, Shape
  <2> QED BY <2>1, <2>2 DEF StatsInv, counts, clock
<1>2. CASE LoadStats
  <2>1. boot = "stats" /\ boot' = "identity" /\ UNCHANGED clock /\ now = 0 /\ lastSave = 0
    BY <1>2 DEF LoadStats, StatsInv
  <2>2. millis = 0 /\ 0 % Wrap = 0 /\ 0 <= SaveInterval
    BY <2>1, SettingsAssumption DEF millis
  <2>3. ClocksSay(0, 0)'
    <3>1. session' = 0 /\ lastSave' = 0 /\ now' = 0
      BY <1>2, <2>1, <2>2 DEF LoadStats, clock
    <3> QED BY <2>2, <3>1 DEF ClocksSay
  <2>4. life \in Life /\ life.earlier \in Nat
    BY DEF SettingsInv, Shape, Life
  <2>5. Second \in Nat
    BY SettingsAssumption
  <2>6. CASE eeprom.buffer["stats"] # Blank
    <3> DEFINE b == eeprom.buffer["stats"]
    <3>1. /\ stats' = [b EXCEPT !.boots = @ + 1]
          /\ life' = Born(life.earlier, now, b.uptime, b.counted) /\ UNCHANGED memory
      BY <1>2, <2>6 DEF LoadStats
    <3>2. b \in Statistics
      BY <2>6, Phases DEF SettingsInv, SettingsTypeOK, Contents
    <3>3. b.uptime \in Nat /\ b.counted \in Nat
      BY <3>2 DEF Statistics
    <3>4. stats'.uptime = b.uptime /\ stats'.counted = b.counted
      BY <3>1, <3>2 DEF Statistics
    <3>5. /\ life'.uptime = b.uptime /\ life'.counted = b.counted /\ life'.at = 0
          /\ life'.saves = 0 /\ life'.log = << >>
      BY <2>1, <3>1 DEF Born
    <3>6. failures = 0 => eeprom.flash = eeprom.buffer
      BY <2>1 DEF StatsInv, SettingsInv, Copies
    <3>7. FlashSays(0, 0)'
      BY <2>6, <3>1, <3>3, <3>5, <3>6 DEF FlashSays, memory
    <3>8. UptimeSays(0)'
      BY <2>5, <3>3, <3>4, <3>5 DEF UptimeSays
    <3>9. stats'.counted = life'.counted + Len(life'.log) /\ 0 <= Len(life'.log)
      BY <3>3, <3>4, <3>5
    <3>10. failures' = 0 => committed'
      BY <3>1 DEF StatsInv, memory
    <3> QED BY <2>1, <2>3, <3>7, <3>8, <3>9, <3>10 DEF StatsInv, clock
  <2>7. CASE eeprom.buffer["stats"] = Blank
    <3> DEFINE h == Born(life.earlier, now, 0, 0)
    <3>1. stats' = FreshStats /\ Store(eeprom, "stats", FreshStats) /\ life' = KeptBy(h, TRUE)
      BY <1>2, <2>7 DEF LoadStats
    <3>2. h \in Life
      BY <2>1, <2>4, BornIsLife
    <3>3. h.uptime = 0 /\ h.counted = 0 /\ h.at = 0 /\ h.saves = 0 /\ h.log = << >>
      BY <2>1 DEF Born
    <3> HIDE DEF h
    <3>4. /\ life'.uptime = 0 /\ life'.counted = 0 /\ life'.at = 0
          /\ life'.saves = 0 /\ life'.log = << >>
      BY <3>1, <3>2, <3>3, KeptByCounts
    <3>5. stats'.uptime = 0 /\ stats'.counted = 0
      BY <3>1 DEF FreshStats
    <3>6. "stats" \in Sections /\ FreshStats \in Stored /\ FreshStats # Blank
      BY FreshIsStatistics, Phases DEF Stored
    <3>7. /\ eeprom'.buffer = [eeprom.buffer EXCEPT !["stats"] = FreshStats]
          /\ eeprom'.flash = IF committed' THEN eeprom'.buffer ELSE eeprom.flash
      BY <3>1, <3>6, StoreWrites DEF SettingsInv, Shape
    <3>8. failures' = 0 => committed'
      BY <3>1 DEF Store, Fails, SettingsInv, Shape
    <3>9. failures' = 0 => eeprom'.flash["stats"] = FreshStats
      BY <3>6, <3>7, <3>8 DEF SettingsInv, Shape
    <3>10. FreshStats.counted = 0
      BY DEF FreshStats
    <3>11. FlashSays(0, 0)'
      BY <3>4, <3>6, <3>9, <3>10 DEF FlashSays
    <3>12. UptimeSays(0)'
      BY <2>5, <3>4, <3>5 DEF UptimeSays
    <3>13. stats'.counted = life'.counted + Len(life'.log) /\ 0 <= Len(life'.log)
      BY <3>4, <3>5
    <3> QED BY <2>1, <2>3, <3>8, <3>11, <3>12, <3>13 DEF StatsInv, clock
  <2> QED BY <2>6, <2>7
<1>3. CASE LoadIdentity
  <2>1. boot = "identity" /\ boot' = "up" /\ UNCHANGED <<conf, counts, clock>>
    BY <1>3 DEF LoadIdentity
  <2>2. CASE UNCHANGED <<memory, life>>
    <3>1. failures' = 0 =>
            failures = 0 /\ committed' /\ eeprom'.flash["stats"] = eeprom.flash["stats"]
      BY <2>2 DEF StatsInv, memory
    <3> QED BY <2>1, <2>2, <3>1, StatsQuiet DEF counts, clock, SameCounts
  <2>3. CASE \E key \in OwnKeys : SaveIdentity(Generated(key))
    <3>1. PICK key \in OwnKeys : SaveIdentity(Generated(key))
      BY <2>3
    <3>2. Generated(key) \in Contents["identity"] /\ "identity" \in Sections \ {"stats"}
      BY GeneratedIsIdentity, Phases DEF Contents
    <3> QED BY <2>1, <3>1, <3>2, StatsWrite DEF SaveIdentity, clock
  <2> QED BY <1>3, <2>2, <2>3 DEF LoadIdentity
<1> QED BY <1>1, <1>2, <1>3

(* Every step keeps what the statistics say.                               *)
LEMMA StatsStep ==
  SettingsInv /\ StatsInv /\ [SettingsNext]_settings => StatsInv'
<1> SUFFICES ASSUME SettingsInv, StatsInv, [SettingsNext]_settings PROVE StatsInv'
  OBVIOUS
<1>1. SettingsInv'
  BY SettingsStep
<1>2. CASE LoadConfig \/ LoadStats \/ LoadIdentity
  BY <1>2, StatsBoot
<1>3. CASE PowerLoss
  <2>1. boot' = "config" /\ now' = 0 /\ lastSave' = 0 /\ session' = 0 /\ UNCHANGED memory
    BY <1>3 DEF PowerLoss
  <2> QED BY <2>1 DEF StatsInv, memory
<1>4. \A c : Configure(c) => StatsInv'
  <2>1. ASSUME NEW c, Configure(c) PROVE StatsInv'
    <3>1. boot = "up" /\ boot' = "up" /\ UNCHANGED <<counts, clock>> /\ conf' = c
          /\ Store(eeprom, "config", c) /\ life' = KeptBy(life, FALSE)
      BY <2>1 DEF Configure, SaveConfig
    <3>2. c \in Contents["config"] /\ "config" \in Sections \ {"stats"}
      BY <1>1, <3>1, Phases DEF SettingsInv, SettingsTypeOK, Contents
    <3> QED BY <3>1, <3>2, StatsWrite DEF clock
  <2> QED BY <2>1
<1>5. \A i : Identify(i) => StatsInv'
  <2>1. ASSUME NEW i, Identify(i) PROVE StatsInv'
    <3>1. boot = "up" /\ boot' = "up" /\ UNCHANGED <<counts, clock>> /\ ident' = i
          /\ Store(eeprom, "identity", i) /\ life' = KeptBy(life, FALSE)
      BY <2>1 DEF Identify, SaveIdentity
    <3>2. i \in Contents["identity"] /\ "identity" \in Sections \ {"stats"}
      BY <1>1, <3>1, Phases DEF SettingsInv, SettingsTypeOK, Contents
    <3> QED BY <3>1, <3>2, StatsWrite DEF clock
  <2> QED BY <2>1
<1>6. CASE \/ ReportOn \/ ReportOff \/ ReportClear \/ AlertOn \/ AlertOff \/ AlertClear
           \/ Save \/ FactoryReset
           \/ \E k \in Keys : ReportDest(k) \/ AlertDest(k)
           \/ \E s \in scene.sets : SetField(s.field, s.value)
  BY <1>4, <1>6
    DEF ReportOn, ReportOff, ReportClear, AlertOn, AlertOff, AlertClear, Save,
        FactoryReset, ReportDest, AlertDest, SetField
<1>7. CASE \/ \E n \in scene.names : SetName(n)
           \/ \E d \in scene.degrees : SetLat(d) \/ SetLon(d)
           \/ \E t \in {"chat", "repeater"} : NodeType(t)
           \/ NewId
  BY <1>5, <1>7 DEF SetName, SetLat, SetLon, NodeType, NewId
<1>8. CASE Record
  <2>1. boot = "up" /\ boot' = boot /\ Counted /\ life' = Logged /\ UNCHANGED <<memory, clock>>
    BY <1>8 DEF Record
  <2>2. failures' = 0 =>
          failures = 0 /\ committed' /\ eeprom'.flash["stats"] = eeprom.flash["stats"]
    BY <2>1 DEF StatsInv, memory
  <2> QED BY <2>1, <2>2, StatsCount DEF clock
<1>9. CASE \E k \in scene.keys : AdminLogin(k)
  <2>1. PICK k \in scene.keys : AdminLogin(k)
    BY <1>9
  <2>2. boot = "up" /\ boot' = boot /\ Counted /\ UNCHANGED clock
    BY <2>1 DEF AdminLogin
  <2>3. CASE life' = Logged /\ UNCHANGED memory
    <3>1. failures' = 0 =>
            failures = 0 /\ committed' /\ eeprom'.flash["stats"] = eeprom.flash["stats"]
      BY <2>3 DEF StatsInv, memory
    <3> QED BY <2>2, <2>3, <3>1, StatsCount DEF clock
  <2>4. CASE Store(eeprom, "config", conf') /\ life' = KeptBy(Logged, FALSE)
    <3>1. conf' \in Stored /\ "config" \in Sections \ {"stats"}
      BY <1>1, <2>2, Phases DEF SettingsInv, SettingsTypeOK, Stored
    <3>2. failures' = 0 =>
            failures = 0 /\ committed' /\ eeprom'.flash["stats"] = eeprom.flash["stats"]
      BY <2>2, <2>4, <3>1, StoreLeavesStats
    <3> QED BY <2>2, <2>4, <3>2, StatsCount DEF clock
  <2> QED BY <2>1, <2>3, <2>4 DEF AdminLogin
<1>10. CASE CheckStatsSave \/ SaveStats
  BY <1>10, StatsSave DEF CheckStatsSave
<1>11. CASE Tick
  BY <1>11, StatsTick
<1>12. CASE \E t \in scene.times : Sync(t)
  <2>1. PICK t \in scene.times : Sync(t)
    BY <1>12
  <2>2. /\ boot = "up" /\ stats' = [stats EXCEPT !.first = FirstBootTime(t)]
        /\ UNCHANGED <<boot, session, lastSave, memory, now, life>>
    BY <2>1 DEF Sync
  <2>3. stats'.uptime = stats.uptime /\ stats'.counted = stats.counted
    BY <2>2 DEF SettingsInv, SettingsTypeOK, Statistics
  <2>4. failures' = 0 =>
          failures = 0 /\ committed' /\ eeprom'.flash["stats"] = eeprom.flash["stats"]
    BY <2>2 DEF StatsInv, memory
  <2> QED BY <2>2, <2>3, <2>4, StatsQuiet DEF SameCounts
<1>13. CASE ForgetTime \/ UNCHANGED settings \/ \E t \in scene.times : SetTime(t)
  <2>1. UNCHANGED <<boot, counts, memory, now, life>>
    BY <1>13 DEF ForgetTime, SetTime, settings, clock
  <2> QED BY <2>1 DEF StatsInv, ClocksSay, UptimeSays, FlashSays, counts, memory
<1> QED BY <1>2, <1>3, <1>6, <1>7, <1>8, <1>9, <1>10, <1>11, <1>12, <1>13
         DEF SettingsNext, Startup

(* What the statistics say gives what the run checks.                      *)
LEMMA StatsGive ==
  SettingsInv /\ StatsInv => StatisticsAddUp
<1> SUFFICES ASSUME SettingsInv, StatsInv PROVE StatisticsAddUp
  OBVIOUS
<1>1. BootsCounted
  BY InvGivesProperties
<1>2. SUFFICES ASSUME boot \in {"identity", "up"} PROVE UptimeExact /\ LosesOnlyRecent
  BY <1>1 DEF StatisticsAddUp, UptimeExact, LosesOnlyRecent
<1>3. /\ stats \in Statistics /\ life \in Life /\ now \in Nat
      /\ stats.uptime \in Nat /\ life.uptime \in Nat /\ life.at \in Nat /\ life.saves \in Nat
      /\ life.log \in Seq(Nat) /\ life.counted \in Nat
  BY DEF SettingsInv, SettingsTypeOK, Shape, Life, Statistics
<1>4. PICK l, s, k \in Nat :
        k <= Len(life.log) /\ ClocksSay(l, s) /\ UptimeSays(s) /\ FlashSays(l, k)
  BY <1>2 DEF StatsInv
<1>5. UptimeExact
  <2>1. Since(session) = now - s
    BY <1>3, <1>4, SinceClocks
  <2>2. Second \in Nat
    BY SettingsAssumption
  <2>3. PICK c \in Int, m \in Int :
          c = Second * (stats.uptime - life.uptime) /\ m = life.saves * (Second - 1)
    BY <1>3, <2>2
  <2>4. c <= s - life.at /\ s - life.at <= c + m
    BY <1>4, <2>3 DEF UptimeSays
  <2>5. c + (now - s) <= now - life.at /\ now - life.at <= c + (now - s) + m
    BY <1>3, <2>4
  <2> QED BY <2>1, <2>3, <2>5 DEF UptimeExact
<1>6. LosesOnlyRecent
  <2>1. SUFFICES ASSUME boot = "up", failures = 0
                 PROVE eeprom.flash["stats"].counted >= life.counted +
                         Cardinality({i \in DOMAIN life.log : now - life.log[i] > SaveInterval})
    BY DEF LosesOnlyRecent
  <2> DEFINE Old == {i \in DOMAIN life.log : now - life.log[i] > SaveInterval}
  <2>2. eeprom.flash["stats"].counted = life.counted + k
        /\ \A i \in DOMAIN life.log : i > k => life.log[i] >= l
    BY <1>4, <2>1 DEF FlashSays
  <2>3. now - l <= SaveInterval /\ SaveInterval \in Nat
    BY <1>4, SettingsAssumption DEF ClocksSay
  <2>4. Old \subseteq 1 .. k
    <3>1. SUFFICES ASSUME NEW i \in Old PROVE i \in 1 .. k
      OBVIOUS
    <3>2. i \in 1 .. Len(life.log) /\ life.log[i] \in Nat /\ now - life.log[i] > SaveInterval
      BY <1>3
    <3>3. life.log[i] < l
      BY <1>3, <2>3, <3>2
    <3> QED BY <2>2, <3>2, <3>3
  <2>5. IsFiniteSet(1 .. k) /\ Cardinality(1 .. k) = k
    <3>1. 1 \in Int /\ k \in Int /\ (IF 1 > k THEN 0 ELSE k - 1 + 1) = k
      OBVIOUS
    <3> QED BY <3>1, FS_Interval
  <2>6. Cardinality(Old) <= k /\ Cardinality(Old) \in Nat
    <3>1. IsFiniteSet(Old) /\ Cardinality(Old) <= Cardinality(1 .. k)
      BY <2>4, <2>5, FS_Subset
    <3> QED BY <2>5, <3>1, FS_CardinalityType
  <2> QED BY <1>3, <2>2, <2>6
<1> QED BY <1>1, <1>5, <1>6 DEF StatisticsAddUp

(* What the statistics say holds at first.                                 *)
LEMMA StatsStart == SettingsInit => StatsInv
BY DEF SettingsInit, StatsInv

(* Boots whose statistics were committed are counted; the uptime is never  *)
(* ahead and falls behind by less than a second for each save; counts are  *)
(* lost to a restart only as far as LosesOnlyRecent allows.                *)
THEOREM StatisticsAlwaysAddUp == SettingsSpec => []StatisticsAddUp
<1>1. SettingsInit => SettingsInv /\ StatsInv
  BY SettingsStart, StatsStart
<1>2. SettingsInv /\ StatsInv /\ [SettingsNext]_settings => (SettingsInv /\ StatsInv)'
  BY SettingsStep, StatsStep
<1> QED BY <1>1, <1>2, StatsGive, PTL DEF SettingsSpec
=============================================================================
