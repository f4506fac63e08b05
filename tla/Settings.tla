------------------------------ MODULE Settings ------------------------------
(***************************************************************************)
(* What a node keeps over a reboot: its configuration (core/Config.cpp),   *)
(* its identity (IdentityManager, mesh/Identity.h) and its statistics      *)
(* (core/Config.cpp), each with a copy in RAM and a section of the EEPROM, *)
(* and the commands that change them.  setup() loads them one after the    *)
(* other; power may fail between any two steps, and a commit may fail.     *)
(***************************************************************************)
EXTENDS Eeprom, Integers, Sequences, FiniteSets

CONSTANTS
  Fields, Values,  \* fields of NodeConfig that one command sets, their values
  DefaultOf,       \* their defaults
  Keys,            \* public keys of others
  OwnKeys,         \* keys the node may generate
  NoKey,           \* 32 zeros
  Names,           \* DefaultName stands for the one made from the key
  DefaultName,
  Degrees,         \* latitudes and longitudes, in millionths of a degree
  Times,           \* seconds since the epoch
  SaveInterval,    \* STATS_SAVE_INTERVAL_MS
  Second,          \* 1000 ms
  Wrap,            \* 2^32 ms
  Scenes           \* records: does, sets, keys, names, degrees, times (the
                   \* inputs of the actions), and the bounds counted, on the
                   \* packets counted in a boot, failures, on the commits that
                   \* fail, boots, and until, on now

ASSUME SettingsAssumption ==
  /\ DefaultOf \in [Fields -> Values]
  /\ NoKey \notin Keys
  /\ DefaultName \in Names
  /\ 0 \in Degrees /\ Degrees \subseteq Int
  /\ Times \subseteq Nat \ {0}
  /\ {SaveInterval, Second, Wrap} \subseteq Nat \ {0}
  /\ SaveInterval < Wrap
  /\ \A s \in Scenes :
       /\ s.sets \subseteq [field : Fields, value : Values]
       /\ s.keys \subseteq Keys /\ s.names \subseteq Names
       /\ s.degrees \subseteq Degrees /\ s.times \subseteq Times
       /\ {s.counted, s.failures, s.boots, s.until} \subseteq Nat

VARIABLES
  boot,       \* where setup() is: "config", "stats", "identity"; then "up"
  conf,       \* the configuration in RAM
  ident,      \* IdentityManager::identity
  stats,      \* persistentStats
  session,    \* sessionStartTime
  lastSave,   \* lastStatsSaveTime
  eeprom,
  now,        \* ms since the reset; millis() is this modulo Wrap
  unix,       \* the clock's time, 0 when not synchronised
  scene,      \* the scene, which never changes
  failures,   \* bound: failed commits so far
  committed,  \* history: the last commit succeeded
  promise,    \* history: what a reboot should bring back
  life        \* history: what this boot did, see Born

memory   == <<eeprom, committed, failures>>
counts   == <<stats, session, lastSave>>
clock    == <<now, unix>>
settings == <<boot, conf, ident, counts, memory, clock, scene, promise, life>>

millis == now % Wrap
Since(t) == (millis - t) % Wrap

defaultConfig ==
  [set |-> DefaultOf, report |-> FALSE, reportDest |-> NoKey,
   alert |-> FALSE, alertDest |-> NoKey]

(* life counts, independently of the code: statistics put and kept since   *)
(* the boot, earlier boots that were kept, saves that added time, when and *)
(* with what the boot began, and when each packet was counted.             *)
Born(earlier, at, uptime, counted) ==
  [put |-> FALSE, kept |-> FALSE, earlier |-> earlier, saves |-> 0, at |-> at,
   uptime |-> uptime, counted |-> counted, log |-> <<>>]

(***************************************************************************)
(* Writing.                                                                *)
(***************************************************************************)
Fails == failures < scene.failures /\ failures' = failures + 1

(* Mutant: put without commit.                                             *)
Store_NoCommit(e, section, content) ==
  /\ eeprom' = Put(e, section, content)
  /\ committed' = TRUE
  /\ UNCHANGED failures

(* EEPROM.put and EEPROM.commit.                                           *)
Store(e, section, content) ==
  \/ /\ eeprom' = Flushed(Put(e, section, content))
     /\ committed' = TRUE
     /\ UNCHANGED failures
  \/ /\ eeprom' = Put(e, section, content)
     /\ committed' = FALSE
     /\ Fails

(* What a commit means for the statistics of this boot.                    *)
KeptBy(l, put) ==
  [l EXCEPT !.put = @ \/ put, !.kept = @ \/ (committed' /\ (l.put \/ put))]

(* saveConfig.                                                             *)
SaveConfig(c) ==
  /\ conf' = c
  /\ Store(eeprom, "config", c)
  /\ life' = KeptBy(life, FALSE)

(* IdentityManager::save.                                                  *)
SaveIdentity(i) ==
  /\ ident' = i
  /\ Store(eeprom, "identity", i)
  /\ life' = KeptBy(life, FALSE)

(* Mutant: the start of the session moves only when the commit succeeds.   *)
StoreStats_OnSuccess(s) ==
  LET saved == [s EXCEPT !.uptime = @ + Since(session) \div Second] IN
    /\ stats' = saved
    /\ Store(eeprom, "stats", saved)
    /\ session' = IF committed' THEN millis ELSE session
    /\ lastSave' = IF committed' THEN millis ELSE lastSave
    /\ life' = KeptBy([life EXCEPT !.saves = @ + (IF Since(session) = 0 THEN 0 ELSE 1)], TRUE)

(* savePersistentStats: the uptime since the last save is added, in whole  *)
(* seconds, and a failed commit leaves lastStatsSaveTime behind.           *)
StoreStats(s) ==
  LET saved == [s EXCEPT !.uptime = @ + Since(session) \div Second] IN
    /\ stats' = saved
    /\ Store(eeprom, "stats", saved)
    /\ session' = millis
    /\ lastSave' = IF committed' THEN millis ELSE lastSave
    /\ life' = KeptBy([life EXCEPT !.saves = @ + (IF Since(session) = 0 THEN 0 ELSE 1)], TRUE)

(***************************************************************************)
(* setup().                                                                *)
(***************************************************************************)
(* loadConfig.  A configuration that it reads was written by saveConfig,   *)
(* so the limits on two of its fields change nothing.                      *)
LoadConfig ==
  /\ boot = "config"
  /\ boot' = "stats"
  /\ LET e == Mounted(eeprom) IN
       IF e.buffer["config"] # Blank
       THEN /\ conf' = e.buffer["config"]
            /\ eeprom' = e
            /\ committed' = TRUE
            /\ UNCHANGED failures
       ELSE /\ conf' = defaultConfig
            /\ Store(e, "config", defaultConfig)
  /\ UNCHANGED <<ident, counts, clock, scene, promise, life>>

FreshStats == [boots |-> 1, counted |-> 0, uptime |-> 0, first |-> 0]

(* loadPersistentStats: the boot is counted in RAM only, unless there were *)
(* no statistics yet.                                                      *)
LoadStats ==
  /\ boot = "stats"
  /\ boot' = "identity"
  /\ IF eeprom.buffer["stats"] # Blank
     THEN LET s == eeprom.buffer["stats"] IN
            /\ stats' = [s EXCEPT !.boots = @ + 1]
            /\ session' = millis
            /\ life' = Born(life.earlier, now, s.uptime, s.counted)
            /\ UNCHANGED <<lastSave, memory>>
     ELSE /\ stats' = FreshStats
          /\ session' = millis
          /\ Store(eeprom, "stats", FreshStats)
          /\ lastSave' = IF committed' THEN millis ELSE lastSave
          /\ life' = KeptBy(Born(life.earlier, now, 0, 0), TRUE)
  /\ UNCHANGED <<conf, ident, clock, scene, promise>>

(* IdentityManager::generate.                                              *)
Generated(key) ==
  [key |-> key, name |-> DefaultName, lat |-> 0, lon |-> 0, type |-> "repeater"]

(* IdentityManager::begin.                                                 *)
LoadIdentity ==
  /\ boot = "identity"
  /\ boot' = "up"
  /\ IF eeprom.buffer["identity"] # Blank
     THEN ident' = eeprom.buffer["identity"] /\ UNCHANGED <<memory, life>>
     ELSE \E key \in OwnKeys : SaveIdentity(Generated(key))
  /\ UNCHANGED <<conf, counts, clock, scene, promise>>

(* Power fails, the watchdog bites or a command resets the node.           *)
PowerLoss ==
  /\ life.earlier < scene.boots
  /\ boot' = "config"
  /\ conf' = Blank
  /\ ident' = Blank
  /\ promise' = IF boot # "up" THEN promise
                ELSE IF committed THEN [conf |-> conf, ident |-> ident] ELSE Blank
  /\ life' = Born(IF life.kept THEN life.earlier + 1 ELSE life.earlier, 0, 0, 0)
  /\ now' = 0
  /\ unix' = 0
  /\ lastSave' = 0
  /\ session' = 0
  /\ stats' = FreshStats
  /\ UNCHANGED <<memory, scene>>

(***************************************************************************)
(* Commands, from the owner's terminal or an administrator's client.       *)
(***************************************************************************)
(* A setting takes effect in RAM and the whole configuration is saved.     *)
Configure(c) ==
  /\ boot = "up"
  /\ SaveConfig(c)
  /\ UNCHANGED <<boot, ident, counts, clock, scene, promise>>

(* loop.detect, autoadd.maxhops, rxboost, sleep, mode, powersaving, the    *)
(* passwords and the time of the report.                                   *)
SetField(field, value) == Configure([conf EXCEPT !.set[field] = value])

(* Mutant: without asking for a destination.                               *)
ReportOn_Always == Configure([conf EXCEPT !.report = TRUE])

ReportOn ==
  boot = "up" /\ conf.reportDest # NoKey /\ Configure([conf EXCEPT !.report = TRUE])

ReportOff     == Configure([conf EXCEPT !.report = FALSE])
ReportClear   == Configure([conf EXCEPT !.report = FALSE, !.reportDest = NoKey])
ReportDest(k) == Configure([conf EXCEPT !.reportDest = k])

AlertOn ==
  boot = "up" /\ conf.alertDest # NoKey /\ Configure([conf EXCEPT !.alert = TRUE])

AlertOff      == Configure([conf EXCEPT !.alert = FALSE])
AlertClear    == Configure([conf EXCEPT !.alert = FALSE, !.alertDest = NoKey])
AlertDest(k)  == Configure([conf EXCEPT !.alertDest = k])

Save          == Configure(conf)
FactoryReset  == Configure(defaultConfig)

Identify(i) ==
  /\ boot = "up"
  /\ SaveIdentity(i)
  /\ UNCHANGED <<boot, conf, counts, clock, scene, promise>>

SetName(name)  == Identify([ident EXCEPT !.name = name])
NodeType(type) == Identify([ident EXCEPT !.type = type])

(* setLocationInt, with the other coordinate as it is: the location counts *)
(* as set unless both are 0, and without one both are 0.                   *)
Million     == 1000000
Latitudes   == -90 * Million .. 90 * Million
Longitudes  == -180 * Million .. 180 * Million
SetLat(lat) == lat \in Latitudes /\ Identify([ident EXCEPT !.lat = lat])
SetLon(lon) == lon \in Longitudes /\ Identify([ident EXCEPT !.lon = lon])

(* "newid": the node's name and location go, too.                          *)
NewId == \E key \in OwnKeys : Identify(Generated(key))

(***************************************************************************)
(* Statistics and time.                                                    *)
(***************************************************************************)
(* statsRecordRx and the others: one counter stands for the eight.         *)
Counted ==
  /\ Len(life.log) < scene.counted
  /\ stats' = [stats EXCEPT !.counted = @ + 1]
  /\ UNCHANGED <<session, lastSave>>

Logged == [life EXCEPT !.log = Append(@, now)]

Record ==
  /\ boot = "up"
  /\ Counted
  /\ life' = Logged
  /\ UNCHANGED <<boot, conf, ident, memory, clock, scene, promise>>

(* A login as administrator: its key becomes the destination of reports.   *)
AdminLogin(k) ==
  /\ boot = "up"
  /\ Counted
  /\ IF conf.reportDest = k
     THEN life' = Logged /\ UNCHANGED <<conf, memory>>
     ELSE /\ conf' = [conf EXCEPT !.reportDest = k]
          /\ Store(eeprom, "config", conf')
          /\ life' = KeptBy(Logged, FALSE)
  /\ UNCHANGED <<boot, ident, clock, scene, promise>>

SaveDue == boot = "up" /\ Since(lastSave) >= SaveInterval

SaveStats ==
  /\ boot = "up"
  /\ StoreStats(stats)
  /\ UNCHANGED <<boot, conf, ident, clock, scene, promise>>

CheckStatsSave == SaveDue /\ SaveStats

(* statsSetFirstBootTime.                                                  *)
FirstBootTime(t) == IF stats.first = 0 THEN t ELSE stats.first

(* The first ADVERT with a time.                                           *)
Sync(t) ==
  /\ boot = "up"
  /\ unix = 0
  /\ unix' = t
  /\ stats' = [stats EXCEPT !.first = FirstBootTime(t)]
  /\ UNCHANGED <<boot, conf, ident, session, lastSave, memory, now, scene, promise, life>>

(* "time", or two ADVERTs that agree on another time.                      *)
SetTime(t) ==
  /\ boot = "up"
  /\ unix' = t
  /\ UNCHANGED <<boot, conf, ident, counts, memory, now, scene, promise, life>>

(* "clkreboot".                                                            *)
ForgetTime ==
  /\ boot = "up"
  /\ unix' = 0
  /\ UNCHANGED <<boot, conf, ident, counts, memory, now, scene, promise, life>>

(* loop() comes round more often than the unit of time.                    *)
Tick ==
  /\ boot = "up"
  /\ ~SaveDue
  /\ now < scene.until
  /\ now' = now + 1
  /\ unix' = IF unix = 0 THEN 0 ELSE unix + 1
  /\ UNCHANGED <<boot, conf, ident, counts, memory, scene, promise, life>>

(***************************************************************************)
(* The specification.                                                      *)
(***************************************************************************)
Does(what) == what \in scene.does

Startup == LoadConfig \/ LoadStats \/ LoadIdentity

SettingsNext ==
  \/ Startup \/ PowerLoss
  \/ \E s \in scene.sets : SetField(s.field, s.value)
  \/ Does("report") /\ (ReportOn \/ ReportOff \/ ReportClear)
  \/ Does("alert") /\ (AlertOn \/ AlertOff \/ AlertClear)
  \/ Does("save") /\ (Save \/ FactoryReset)
  \/ \E k \in Keys : ReportDest(k) \/ AlertDest(k)
  \/ \E k \in scene.keys : AdminLogin(k)
  \/ \E n \in scene.names : SetName(n)
  \/ \E d \in scene.degrees : SetLat(d) \/ SetLon(d)
  \/ Does("type") /\ \E t \in {"chat", "repeater"} : NodeType(t)
  \/ Does("newid") /\ NewId
  \/ Record \/ CheckStatsSave
  \/ Does("savestats") /\ SaveStats
  \/ \E t \in scene.times : Sync(t) \/ SetTime(t)
  \/ Does("reboot") /\ ForgetTime
  \/ Tick

SettingsInit ==
  /\ boot = "config"
  /\ conf = Blank
  /\ ident = Blank
  /\ stats = FreshStats
  /\ session = 0
  /\ lastSave = 0
  /\ eeprom = Erased
  /\ now = 0
  /\ unix = 0
  /\ scene \in Scenes
  /\ failures = 0
  /\ committed = TRUE
  /\ promise = Blank
  /\ life = Born(0, 0, 0, 0)

SettingsSpec == SettingsInit /\ [][SettingsNext]_settings

(***************************************************************************)
(* Properties.                                                             *)
(***************************************************************************)
Config ==
  [set : [Fields -> Values], report : BOOLEAN, reportDest : Keys \cup {NoKey},
   alert : BOOLEAN, alertDest : Keys \cup {NoKey}]
Identity ==
  [key : OwnKeys, name : Names, lat : Degrees, lon : Degrees, type : {"chat", "repeater"}]
Statistics == [boots : Nat, counted : Nat, uptime : Nat, first : Times \cup {0}]

Contents ==
  [config   |-> Config \cup {Blank},
   identity |-> Identity \cup {Blank},
   stats    |-> Statistics \cup {Blank}]

(* What is kept begins with a magic number.                                *)
ASSUME BlankAssumption == Blank \notin Config \cup Identity \cup Statistics

SettingsTypeOK ==
  /\ boot \in {"config", "stats", "identity", "up"}
  /\ scene \in Scenes
  /\ conf \in (IF boot = "config" THEN {Blank} ELSE Config)
  /\ ident \in (IF boot = "up" THEN Identity ELSE {Blank})
  /\ stats \in Statistics
  /\ {session, lastSave} \subseteq 0 .. Wrap - 1
  /\ \A s \in Sections : eeprom.buffer[s] \in Contents[s] /\ eeprom.flash[s] \in Contents[s]
  /\ now \in Nat /\ unix \in Nat

(* A reboot brings back the configuration and the identity as they were,   *)
(* unless the last write before it failed: power may go at any moment,     *)
(* also in setup(), and what another component commits, or fails to        *)
(* commit, in between changes nothing (loadConfig, IdentityManager::begin).*)
RebootKeepsSettings ==
  [][boot = "identity" /\ boot' = "up" /\ promise # Blank =>
       conf' = promise.conf /\ ident' = promise.ident]_settings

(* Reports and alerts are never on without a key to send them to, whatever *)
(* commands, logins and reboots came before: sendEncryptedToAdmin refuses  *)
(* such a key and the report would be tried again in every loop.           *)
ReportsHaveDest ==
  boot # "config" =>
    /\ conf.report => conf.reportDest # NoKey
    /\ conf.alert => conf.alertDest # NoKey

(* The number of boots is that of the boots whose statistics reached the   *)
(* flash, and this one (loadPersistentStats counts in RAM).                *)
BootsCounted == boot \in {"identity", "up"} => stats.boots = life.earlier + 1

(* The total uptime falls behind the time the node was up by less than a   *)
(* second for each save, and never runs ahead, also when saves fail and    *)
(* when millis() wraps (savePersistentStats, statsGetTotalUptime).         *)
UptimeExact ==
  boot \in {"identity", "up"} =>
    LET counted == Second * (stats.uptime - life.uptime) + Since(session) IN
      /\ counted <= now - life.at
      /\ now - life.at <= counted + life.saves * (Second - 1)

(* When no write fails, a crash loses only what was counted in the last    *)
(* save interval (checkStatsSave).                                         *)
LosesOnlyRecent ==
  boot = "up" /\ failures = 0 =>
    eeprom.flash["stats"].counted >=
      life.counted + Cardinality({i \in DOMAIN life.log : now - life.log[i] > SaveInterval})

(* Boots, uptime and counts add up over reboots and failed saves.          *)
StatisticsAddUp == BootsCounted /\ UptimeExact /\ LosesOnlyRecent

(* The time of the first boot, once kept, is never replaced, whatever the  *)
(* clock is set to and however often the node reboots.                     *)
FirstBootOnce ==
  [][eeprom.flash["stats"] # Blank /\ eeprom.flash["stats"].first # 0 =>
       eeprom'.flash["stats"].first = eeprom.flash["stats"].first]_settings

(* What reached the flash is not lost or replaced by what follows.         *)
KeepsWhatWasSaved == RebootKeepsSettings /\ FirstBootOnce
=============================================================================
