---------------------------- MODULE Upkeep_proofs ----------------------------
(***************************************************************************)
(* Proofs about Upkeep: every step of it is a step of Settings or leaves   *)
(* the settings alone, so what Settings_proofs shows holds here; and the   *)
(* contacts and the parameters of the radio follow the settings.           *)
(***************************************************************************)
EXTENDS Upkeep, Settings_proofs, SequenceTheorems, WellFoundedInduction

IsContact(c) ==
  /\ c = [key |-> c.key, name |-> c.name, seen |-> c.seen, secret |-> c.secret]
  /\ c.key \in Keys

IsTable(t) ==
  /\ t = [i \in 1 .. Slots |-> t[i]]
  /\ \A i \in Used(t) : IsContact(t[i])

IsTemp(t) ==
  /\ \E F, M : t \in [active : BOOLEAN, freq : F, mod : M, expire : 0 .. Wrap - 1]
  /\ ~t.active => t.expire = 0

(* Contacts and temporary parameters, as they may be.                      *)
Tables ==
  /\ IsTable(contacts)
  /\ boot # "up" => Used(contacts) = {}
  /\ IsTemp(temp)
  /\ reboot.at \in 0 .. Wrap - 1

UpkeepInv ==
  /\ SettingsInv /\ Tables
  /\ RadioAsConfigured /\ SecretIsCurrent /\ NamesAreTheirOwn

-----------------------------------------------------------------------------
(* A set of slots has a first one.                                         *)
LEMMA FirstIsMember ==
  ASSUME NEW S \in SUBSET Nat, S # {} PROVE First(S) \in S
<1>1. \E x \in S : \A y \in S : ~ (<<y, x>> \in OpToRel(<, Nat))
  BY WFMin, NatLessThanWellFounded
<1>2. ASSUME NEW x \in Nat, NEW y \in Nat, ~ (<<y, x>> \in OpToRel(<, Nat))
      PROVE  x <= y
  <2>1. ~ (y < x)
    BY <1>2, Zenon DEF OpToRel
  <2> QED BY <2>1
<1>3. \E x \in S : \A y \in S : x <= y
  BY <1>1, <1>2
<1> QED BY <1>3 DEF First

(* What a search finds is in the table.                                    *)
LEMMA FoundIsUsed ==
  ASSUME NEW t, NEW text, NEW i \in FoundByName(t, text) PROVE i \in Used(t)
<1>1. Candidates(t, text) \in SUBSET Nat /\ Candidates(t, text) \subseteq Used(t)
  BY TableAssumption DEF Candidates, Used
<1>2. Candidates(t, text) # {} /\ i = First(Candidates(t, text))
  BY DEF FoundByName
<1> QED BY <1>1, <1>2, FirstIsMember

(* Every step is one of the settings, or leaves them alone.                *)
LEMMA StepOfSettings ==
  SettingsInv /\ Tables /\ [Next]_vars => [SettingsNext]_settings
<1> SUFFICES ASSUME SettingsInv, Tables, [Next]_vars PROVE [SettingsNext]_settings
  OBVIOUS
<1>1. scene \in Scenes
  BY DEF SettingsInv, SettingsTypeOK
<1>2. CASE UNCHANGED settings
  BY <1>2
<1>3. CASE Setting \/ Pass
  BY <1>3 DEF Setting, Pass, SettingsNext
<1>4. CASE Start \/ Restart \/ DoReboot
  BY <1>4 DEF Start, Restart, DoReboot, SettingsNext
<1>5. CASE \/ \E s \in scene.sets : SetOption(s.field, s.value)
           \/ Does("save") /\ Reset
           \/ Does("newid") /\ ChangeKey
           \/ \E t \in scene.times : SetClock(t)
  BY <1>5 DEF SetOption, Reset, ChangeKey, SetClock, SettingsNext
<1>6. CASE \E a \in scene.adverts : HearAdvert(a)
  <2>1. PICK a \in scene.adverts : HearAdvert(a)
    BY <1>6
  <2>2. a.time \in scene.times \cup {0}
    BY <1>1, UpkeepAssumption
  <2>3. CASE a.time > 0 /\ (Sync(a.time) \/ SetTime(a.time))
    <3>1. a.time \in scene.times
      BY <2>2, <2>3
    <3> QED BY <2>3, <3>1 DEF SettingsNext
  <2>4. CASE UNCHANGED settings
    BY <2>4
  <2> QED BY <2>1, <2>3, <2>4 DEF HearAdvert
<1>7. CASE \E text \in scene.texts : DestByName(text)
  <2>0. PICK text \in scene.texts : DestByName(text)
    BY <1>7
  <2>1. PICK i \in FoundByName(contacts, text) :
          AlertDest(contacts[i].key) \/ ReportDest(contacts[i].key)
    BY <2>0 DEF DestByName
  <2>2. i \in Used(contacts)
    BY <2>1, FoundIsUsed
  <2>3. contacts[i].key \in Keys
    BY <2>2 DEF Tables, IsTable, IsContact
  <2> QED BY <2>1, <2>3 DEF SettingsNext
<1>8. CASE Does("reboot") /\ \E forget \in BOOLEAN : RemoteReboot(forget)
  BY <1>8 DEF RemoteReboot, SettingsNext
<1>9. CASE \/ \E text \in scene.texts : SendMessage(text)
           \/ \E f \in scene.freqs : SetFreq(f)
           \/ \E f \in scene.freqs, m \in scene.mods, span \in scene.spans : TempRadio(f, m, span)
           \/ TempRadioOff \/ ExpireTempRadio \/ CheckDailyReport
  BY <1>9 DEF SendMessage, SetFreq, TempRadio, TempRadioOff, ExpireTempRadio,
              Retune, CheckDailyReport
<1> QED BY <1>2, <1>3, <1>4, <1>5, <1>6, <1>7, <1>8, <1>9 DEF Next, Step, vars

-----------------------------------------------------------------------------
(* The contacts.                                                           *)
(* updateFromAdvert leaves each slot, or gives it the key that was heard,  *)
(* no secret, and the name that was heard or one of the same hash.         *)
LEMMA UpdatedSlots ==
  ASSUME NEW t, IsTable(t), NEW key \in Keys, NEW name, NEW time
  PROVE  LET u == Updated(t, key, name, time) IN
           /\ IsTable(u)
           /\ \A i \in Used(u) :
                \/ i \in Used(t) /\ u[i] = t[i]
                \/ /\ u[i].key = key /\ u[i].secret = NoSecret
                   /\ \/ u[i].name = name
                      \/ /\ i \in Used(t) /\ u[i].name = t[i].name
                         /\ KeyHash[t[i].key] = KeyHash[key]
<1> DEFINE same == WithHash(t, KeyHash[key])
           u == Updated(t, key, name, time)
           new == [key |-> key, name |-> name, seen |-> time, secret |-> NoSecret]
<1>1. CASE same # {}
  <2> DEFINE k == First(same)
             c == [key |-> key, name |-> IF name = NoName THEN t[k].name ELSE name,
                   seen |-> time, secret |-> NoSecret]
  <2>1. k \in Used(t) /\ k \in 1 .. Slots /\ KeyHash[t[k].key] = KeyHash[key]
    <3>1. same \in SUBSET Nat
      BY TableAssumption DEF WithHash, Used
    <3>2. k \in same
      BY <1>1, <3>1, FirstIsMember
    <3> QED BY <3>2 DEF WithHash, Used
  <2>2. u = [t EXCEPT ![k].key = key, ![k].seen = time, ![k].secret = NoSecret,
                      ![k].name = IF name = NoName THEN @ ELSE name]
    BY <1>1 DEF Updated
  <2> HIDE DEF k, same
  <2>3. IsContact(t[k])
    BY <2>1 DEF IsTable
  <2>4. u = [i \in 1 .. Slots |-> IF i = k THEN c ELSE t[i]]
    BY <2>1, <2>2, <2>3 DEF IsTable, IsContact
  <2>5. IsContact(c)
    BY DEF IsContact
  <2> HIDE DEF u
  <2>6. IsTable(u)
    BY <2>4, <2>5 DEF IsTable, Used
  <2>7. \A i \in Used(u) : i # k => i \in Used(t) /\ u[i] = t[i]
    BY <2>4 DEF Used
  <2>8. u[k] = c
    BY <2>1, <2>4
  <2>9. c.key = key /\ c.secret = NoSecret /\ c.name \in {name, t[k].name}
    OBVIOUS
  <2> HIDE DEF c
  <2> QED BY <2>1, <2>6, <2>7, <2>8, <2>9 DEF u
<1>2. CASE same = {}
  <2> DEFINE k == SlotForNew(t)
  <2>1. u = [t EXCEPT ![k] = new]
    BY <1>2 DEF Updated
  <2> HIDE DEF k, same
  <2>2. u = [i \in 1 .. Slots |-> IF i = k THEN new ELSE t[i]]
    BY <2>1 DEF IsTable
  <2>3. IsContact(new)
    BY DEF IsContact
  <2> HIDE DEF u
  <2>4. IsTable(u)
    BY <2>2, <2>3 DEF IsTable, Used
  <2>5. \A i \in Used(u) : i # k => i \in Used(t) /\ u[i] = t[i]
    BY <2>2 DEF Used
  <2>6. k \in Used(u) => u[k] = new
    BY <2>2 DEF Used
  <2>7. new.key = key /\ new.secret = NoSecret /\ new.name = name
    OBVIOUS
  <2> HIDE DEF new
  <2> QED BY <2>4, <2>5, <2>6, <2>7 DEF u
<1> QED BY <1>1, <1>2

(* getSharedSecret changes one secret.                                     *)
LEMMA SecretSlots ==
  ASSUME NEW t, IsTable(t), NEW i \in Used(t), NEW own
  PROVE  LET u == WithSecret(t, i, own) IN
           /\ IsTable(u)
           /\ \A j \in Used(u) :
                /\ j \in Used(t) /\ u[j].key = t[j].key /\ u[j].name = t[j].name
                /\ u[j].secret \in {t[j].secret, [own |-> own, theirs |-> t[j].key]}
<1> DEFINE u == WithSecret(t, i, own)
           s == IF t[i].secret = NoSecret THEN [own |-> own, theirs |-> t[i].key]
                                          ELSE t[i].secret
           c == [key |-> t[i].key, name |-> t[i].name, seen |-> t[i].seen, secret |-> s]
<1>1. IsContact(t[i]) /\ i \in 1 .. Slots
  BY DEF IsTable, Used
<1>2. u = [j \in 1 .. Slots |-> IF j = i THEN c ELSE t[j]]
  <2>1. u = [t EXCEPT ![i].secret = s]
    BY DEF WithSecret
  <2> HIDE DEF s, u
  <2>2. [t[i] EXCEPT !.secret = s] = c
    BY <1>1 DEF IsContact
  <2>3. u = [t EXCEPT ![i] = [t[i] EXCEPT !.secret = s]]
    BY <2>1
  <2> QED BY <1>1, <2>2, <2>3 DEF IsTable
<1>3. IsContact(c)
  BY <1>1 DEF IsContact
<1>4. s \in {t[i].secret, [own |-> own, theirs |-> t[i].key]}
  OBVIOUS
<1> HIDE DEF u, s
<1>5. IsTable(u)
  BY <1>2, <1>3 DEF IsTable, Used
<1>6. \A j \in Used(u) : j \in Used(t) /\ u[j] = IF j = i THEN c ELSE t[j]
  BY <1>2 DEF Used
<1> QED BY <1>4, <1>5, <1>6 DEF u

(* What a commit or a reboot does not touch: the settings that contacts    *)
(* and the radio depend on.                                                *)
Unmoved == boot = "up" /\ boot' = "up" /\ conf'.set = conf.set /\ ident'.key = ident.key

(* A change of the configuration outside of its options, or of the         *)
LEMMA ConfigureKeeps ==
  ASSUME NEW c, Configure(c), c.set = conf.set PROVE Unmoved
BY DEF Configure, SaveConfig, Unmoved

(* identity outside of its key, moves nothing that others depend on.       *)
LEMMA IdentifyKeeps ==
  ASSUME NEW i, Identify(i), i.key = ident.key PROVE Unmoved
BY DEF Identify, SaveIdentity, Unmoved

(* So none of the commands about settings alone does.                      *)
LEMMA SettingKeeps ==
  ASSUME SettingsInv, Setting \/ Pass PROVE Unmoved
<1>1. boot = "up"
  BY DEF Setting, Pass, ReportOn, ReportOff, ReportClear, AlertOn, AlertOff, AlertClear,
         Save, Configure, AdminLogin, SetName, SetLat, SetLon, NodeType, Identify,
         Record, CheckStatsSave, SaveStats, Tick
<1>2. conf \in Config /\ ident \in Identity
  BY <1>1, UpFacts
<1>3. CASE Save \/ ReportOn \/ ReportOff \/ ReportClear \/ AlertOn \/ AlertOff \/ AlertClear
  <2>1. \A r : [conf EXCEPT !.report = r].set = conf.set /\ [conf EXCEPT !.alert = r].set = conf.set
    BY <1>2 DEF Config
  <2>2. /\ [conf EXCEPT !.report = FALSE, !.reportDest = NoKey].set = conf.set
        /\ [conf EXCEPT !.alert = FALSE, !.alertDest = NoKey].set = conf.set
    BY <1>2 DEF Config
  <2>3. \A c : Configure(c) /\ c.set = conf.set => Unmoved
    BY ConfigureKeeps
  <2> QED BY <1>3, <2>1, <2>2, <2>3
          DEF Save, ReportOn, ReportOff, ReportClear, AlertOn, AlertOff, AlertClear
<1>4. CASE \/ \E n \in scene.names : SetName(n)
           \/ \E d \in scene.degrees : SetLat(d) \/ SetLon(d)
           \/ \E t \in {"chat", "repeater"} : NodeType(t)
  <2>1. \A x : /\ [ident EXCEPT !.name = x].key = ident.key
               /\ [ident EXCEPT !.lat = x].key = ident.key
               /\ [ident EXCEPT !.lon = x].key = ident.key
               /\ [ident EXCEPT !.type = x].key = ident.key
    BY <1>2 DEF Identity
  <2>2. \A i : Identify(i) /\ i.key = ident.key => Unmoved
    BY IdentifyKeeps
  <2> QED BY <1>4, <2>1, <2>2 DEF SetName, SetLat, SetLon, NodeType
<1>5. CASE \E k \in scene.keys : AdminLogin(k)
  <2>1. \A k : [conf EXCEPT !.reportDest = k].set = conf.set
    BY <1>2 DEF Config
  <2> QED BY <1>1, <1>5, <2>1 DEF AdminLogin, Unmoved
<1>6. CASE Record \/ CheckStatsSave \/ SaveStats \/ Pass
  BY <1>1, <1>6 DEF Record, CheckStatsSave, SaveStats, Pass, Tick, Unmoved
<1> QED BY <1>3, <1>4, <1>5, <1>6 DEF Setting

(* The rest of the invariant.                                              *)
Rest == Tables /\ RadioAsConfigured /\ SecretIsCurrent /\ NamesAreTheirOwn

(* Then the rest of the invariant stays.                                   *)
LEMMA NothingMoves ==
  ASSUME UpkeepInv, Unmoved, UNCHANGED <<contacts, rekeyed, announced, radio, temp>>,
         reboot'.at \in 0 .. Wrap - 1
  PROVE  Rest'
<1>1. Tables' /\ RadioAsConfigured'
  BY DEF UpkeepInv, Tables, RadioAsConfigured, Tuned, Unmoved
<1>2. SecretIsCurrent' /\ NamesAreTheirOwn'
  BY DEF UpkeepInv, SecretIsCurrent, NamesAreTheirOwn, Unmoved, Used
<1> QED BY <1>1, <1>2 DEF Rest

(* Actions that leave contacts and radio alone.                            *)
LEMMA QuietActions ==
  ASSUME UpkeepInv,
         \/ (Setting \/ Pass) /\ UNCHANGED <<table, tuning, schedule, report>>
         \/ \E t \in scene.times : SetClock(t)
         \/ \E text \in scene.texts : DestByName(text)
         \/ Does("reboot") /\ \E forget \in BOOLEAN : RemoteReboot(forget)
         \/ CheckDailyReport
  PROVE  Rest'
<1>1. UNCHANGED <<contacts, rekeyed, announced, radio, temp>>
  BY DEF SetClock, DestByName, RemoteReboot, CheckDailyReport, table, tuning
<1>2. reboot'.at \in 0 .. Wrap - 1
  <2>1. CASE \E forget \in BOOLEAN : RemoteReboot(forget)
    <3>1. reboot'.at = (millis + RebootDelay) % Wrap
      BY <2>1 DEF RemoteReboot
    <3>2. now \in Nat /\ millis \in 0 .. Wrap - 1
      BY MillisInRange DEF UpkeepInv, SettingsInv, SettingsTypeOK
    <3>3. RebootDelay \in Nat /\ Wrap \in Nat \ {0}
      BY UpkeepAssumption, SettingsAssumption
    <3> QED BY <3>1, <3>2, <3>3
  <2>2. CASE UNCHANGED reboot
    BY <2>2 DEF UpkeepInv, Tables
  <2> QED BY <2>1, <2>2 DEF SetClock, DestByName, CheckDailyReport, schedule
<1>3. Unmoved
  <2>1. CASE Setting \/ Pass
    BY <2>1, SettingKeeps DEF UpkeepInv
  <2>2. CASE \E t \in scene.times : SetClock(t)
    BY <2>2 DEF SetClock, SetTime, Unmoved
  <2>3. CASE \E text \in scene.texts : DestByName(text)
    <3>1. conf \in Config
      BY <2>3, UpFacts DEF DestByName, UpkeepInv
    <3>2. \A k : /\ [conf EXCEPT !.reportDest = k].set = conf.set
                 /\ [conf EXCEPT !.alertDest = k].set = conf.set
      BY <3>1 DEF Config
    <3>3. \A c : Configure(c) /\ c.set = conf.set => Unmoved
      BY ConfigureKeeps
    <3> QED BY <2>3, <3>2, <3>3 DEF DestByName, AlertDest, ReportDest
  <2>4. CASE \E forget \in BOOLEAN : RemoteReboot(forget)
    BY <2>4 DEF RemoteReboot, ForgetTime, settings, Unmoved
  <2>5. CASE CheckDailyReport
    BY <2>5 DEF CheckDailyReport, settings, Unmoved
  <2> QED BY <2>1, <2>2, <2>3, <2>4, <2>5
<1> QED BY <1>1, <1>2, <1>3, NothingMoves

(* Settings of which the radio makes use.                                  *)
LEMMA OptionActions ==
  ASSUME UpkeepInv,
         \/ \E s \in scene.sets : SetOption(s.field, s.value)
         \/ Reset \/ ChangeKey
  PROVE  Rest'
<1>1. boot = "up" /\ boot' = "up" /\ UNCHANGED <<contacts, announced, temp, reboot>>
  BY DEF SetOption, SetField, Reset, FactoryReset, ChangeKey, NewId, Configure, Identify,
         table, tuning, schedule
<1>2. Tables'
  BY <1>1 DEF UpkeepInv, Tables
<1>3. NamesAreTheirOwn'
  BY <1>1 DEF UpkeepInv, NamesAreTheirOwn, Used
<1>4. SecretIsCurrent'
  <2>1. rekeyed' \/ (rekeyed' = rekeyed /\ ident' = ident)
    BY DEF SetOption, SetField, Reset, FactoryReset, ChangeKey, Configure, table
  <2> QED BY <1>1, <2>1 DEF UpkeepInv, SecretIsCurrent, Used
<1>5. RadioAsConfigured'
  <2>1. radio = Tuned(temp, conf) /\ conf \in Config
    BY <1>1, UpFacts DEF UpkeepInv, RadioAsConfigured
  <2>2. CASE \E s \in scene.sets : SetOption(s.field, s.value)
    <3>1. PICK s \in scene.sets : SetOption(s.field, s.value)
      BY <2>2
    <3>2. conf' = [conf EXCEPT !.set[s.field] = s.value]
          /\ radio' = IF s.field = "rxboost" THEN [radio EXCEPT !.gain = s.value] ELSE radio
      BY <3>1 DEF SetOption, SetField, Configure, SaveConfig
    <3>3. conf.set \in [Fields -> Values] /\ "rxboost" \in Fields
      BY <2>1, UpkeepAssumption DEF Config
    <3>4. conf'.set["rxboost"] = IF s.field = "rxboost" THEN s.value ELSE conf.set["rxboost"]
      BY <2>1, <3>2, <3>3 DEF Config
    <3> QED BY <1>1, <2>1, <3>2, <3>4 DEF RadioAsConfigured, Tuned
  <2>3. CASE Reset
    BY <1>1, <2>1, <2>3 DEF Reset, RadioAsConfigured, Tuned
  <2>4. CASE ChangeKey
    BY <1>1, <2>1, <2>4 DEF ChangeKey, NewId, Identify, RadioAsConfigured, tuning
  <2> QED BY <2>2, <2>3, <2>4
<1> QED BY <1>2, <1>3, <1>4, <1>5 DEF Rest

(* Temporary parameters that are changed or ended are such again.          *)
LEMMA TempSet ==
  ASSUME NEW t, IsTemp(t), NEW f, NEW m, NEW e \in 0 .. Wrap - 1
  PROVE  /\ IsTemp([active |-> TRUE, freq |-> f, mod |-> m, expire |-> e])
         /\ IsTemp([t EXCEPT !.active = TRUE, !.freq = f, !.mod = m])
         /\ IsTemp([t EXCEPT !.active = FALSE, !.expire = 0])
<1>1. PICK F, M : t \in [active : BOOLEAN, freq : F, mod : M, expire : 0 .. Wrap - 1]
  BY DEF IsTemp
<1>2. 0 \in 0 .. Wrap - 1
  BY SettingsAssumption
<1> DEFINE T(x, y) == [active : BOOLEAN, freq : x, mod : y, expire : 0 .. Wrap - 1]
           u == [active |-> TRUE, freq |-> f, mod |-> m, expire |-> e]
           v == [t EXCEPT !.active = TRUE, !.freq = f, !.mod = m]
           w == [t EXCEPT !.active = FALSE, !.expire = 0]
<1>3. u \in T({f}, {m}) /\ u.active
  OBVIOUS
<1>4. v \in T(F \cup {f}, M \cup {m}) /\ v.active
  BY <1>1
<1>5. w \in T(F, M) /\ w.expire = 0
  BY <1>1, <1>2
<1> HIDE DEF u, v, w
<1>6. IsTemp(u)
  BY <1>3 DEF IsTemp
<1>7. IsTemp(v)
  BY <1>4 DEF IsTemp
<1>8. IsTemp(w)
  BY <1>5 DEF IsTemp
<1> QED BY <1>6, <1>7, <1>8 DEF u, v, w

(* Actions that set the radio.                                             *)
LEMMA RadioActions ==
  ASSUME UpkeepInv,
         \/ \E f \in scene.freqs : SetFreq(f)
         \/ \E f \in scene.freqs, m \in scene.mods, span \in scene.spans : TempRadio(f, m, span)
         \/ TempRadioOff \/ ExpireTempRadio
  PROVE  Rest'
<1>1. scene \in Scenes /\ now \in Nat
  BY DEF UpkeepInv, SettingsInv, SettingsTypeOK
<1>2. IsTemp(temp)
  BY DEF UpkeepInv, Tables
<1>3. \E t : IsTemp(t) /\ Retune(t)
  <2>1. CASE \E f \in scene.freqs : SetFreq(f)
    <3>1. PICK f \in scene.freqs : SetFreq(f)
      BY <2>1
    <3> DEFINE m == IF temp.active THEN temp.mod ELSE Base.mod
    <3>2. Retune([temp EXCEPT !.active = TRUE, !.freq = f, !.mod = m])
      BY <3>1 DEF SetFreq
    <3>3. 0 \in 0 .. Wrap - 1
      BY SettingsAssumption
    <3> HIDE DEF m
    <3>4. IsTemp([temp EXCEPT !.active = TRUE, !.freq = f, !.mod = m])
      BY <1>2, <3>3, TempSet
    <3> QED BY <3>2, <3>4
  <2>2. CASE \E f \in scene.freqs, m \in scene.mods, span \in scene.spans : TempRadio(f, m, span)
    <3>1. PICK f \in scene.freqs, m \in scene.mods, span \in scene.spans : TempRadio(f, m, span)
      BY <2>2
    <3> DEFINE e == IF span = 0 THEN 0 ELSE (millis + span) % Wrap
    <3>2. span \in Nat /\ millis \in Nat /\ Wrap \in Nat \ {0}
      BY <1>1, UpkeepAssumption, SettingsAssumption, MillisInRange
    <3>3. e \in 0 .. Wrap - 1
      BY <3>2
    <3>4. Retune([active |-> TRUE, freq |-> f, mod |-> m, expire |-> e])
      BY <3>1 DEF TempRadio
    <3> HIDE DEF e
    <3>5. IsTemp([active |-> TRUE, freq |-> f, mod |-> m, expire |-> e])
      BY <1>2, <3>3, TempSet
    <3> QED BY <3>4, <3>5
  <2>3. CASE TempRadioOff \/ ExpireTempRadio
    <3>1. Retune([temp EXCEPT !.active = FALSE, !.expire = 0])
      BY <2>3 DEF TempRadioOff, ExpireTempRadio
    <3>2. 0 \in 0 .. Wrap - 1
      BY SettingsAssumption
    <3>3. IsTemp([temp EXCEPT !.active = FALSE, !.expire = 0])
      BY <1>2, <3>2, TempSet
    <3> QED BY <3>1, <3>3
  <2> QED BY <2>1, <2>2, <2>3
<1>4. PICK t : IsTemp(t) /\ Retune(t)
  BY <1>3
<1>5. /\ boot = "up" /\ temp' = t /\ radio' = Tuned(t, conf)
      /\ UNCHANGED <<boot, conf, ident, contacts, rekeyed, announced, reboot>>
  BY <1>4 DEF Retune, settings, table
<1>6. Tables'
  BY <1>4, <1>5 DEF UpkeepInv, Tables
<1>7. RadioAsConfigured'
  BY <1>5 DEF RadioAsConfigured, Tuned
<1>8. SecretIsCurrent' /\ NamesAreTheirOwn'
  BY <1>5 DEF UpkeepInv, SecretIsCurrent, NamesAreTheirOwn, Used
<1> QED BY <1>6, <1>7, <1>8 DEF Rest

(* After a restart there are no contacts and no temporary parameters.      *)
LEMMA RestartActions ==
  ASSUME UpkeepInv, Start \/ Restart \/ DoReboot
  PROVE  Rest'
<1>1. CASE Start
  <2>1. boot # "up" /\ UNCHANGED <<contacts, rekeyed, announced, temp, reboot>>
    BY <1>1 DEF Start, Startup, LoadConfig, LoadStats, LoadIdentity, table, schedule
  <2>2. Used(contacts) = {} /\ Used(contacts') = {}
    BY <2>1 DEF UpkeepInv, Tables, Used
  <2>3. Tables'
    BY <2>1, <2>2 DEF UpkeepInv, Tables
  <2>4. SecretIsCurrent' /\ NamesAreTheirOwn'
    BY <2>2 DEF SecretIsCurrent, NamesAreTheirOwn
  <2>5. RadioAsConfigured'
    <3>1. boot' = "up" => conf' = conf
      BY <1>1 DEF Start, Startup, LoadConfig, LoadStats, LoadIdentity
    <3> QED BY <1>1, <2>1, <3>1 DEF Start, RadioAsConfigured, Tuned
  <2> QED BY <2>3, <2>4, <2>5 DEF Rest
<1>2. CASE Restart \/ DoReboot
  <2>1. /\ boot' = "config" /\ contacts' = Empty /\ temp' = NoTemp
        /\ reboot' = [on |-> FALSE, at |-> 0]
    BY <1>2 DEF Restart, DoReboot, PowerLoss
  <2>2. Used(Empty) = {}
    BY DEF Used, Empty
  <2>3. IsTable(Empty)
    BY <2>2 DEF IsTable, Empty
  <2>4. Tables'
    <3>1. 0 \in 0 .. Wrap - 1
      BY SettingsAssumption
    <3>2. NoTemp \in [active : BOOLEAN, freq : {Base.freq}, mod : {Base.mod}, expire : 0 .. Wrap - 1]
          /\ NoTemp.expire = 0
      BY <3>1 DEF NoTemp
    <3>3. IsTemp(NoTemp)
      BY <3>2 DEF IsTemp
    <3> QED BY <2>1, <2>2, <2>3, <3>1, <3>3 DEF Tables
  <2>5. SecretIsCurrent' /\ NamesAreTheirOwn' /\ RadioAsConfigured'
    BY <2>1, <2>2 DEF SecretIsCurrent, NamesAreTheirOwn, RadioAsConfigured, Used
  <2> QED BY <2>4, <2>5 DEF Rest
<1> QED BY <1>1, <1>2

(* ADVERTs and messages.                                                   *)
LEMMA ContactActions ==
  ASSUME UpkeepInv,
         \/ \E a \in scene.adverts : HearAdvert(a)
         \/ \E text \in scene.texts : SendMessage(text)
  PROVE  Rest'
<1>1. /\ boot = "up" /\ boot' = "up"
      /\ UNCHANGED <<conf, ident, rekeyed, radio, temp, reboot>>
  BY DEF HearAdvert, SendMessage, Sync, SetTime, settings, tuning, schedule
<1>2. IsTable(contacts)
  BY DEF UpkeepInv, Tables
<1>3. RadioAsConfigured'
  BY <1>1 DEF UpkeepInv, RadioAsConfigured, Tuned
<1>4. IsTable(contacts') => Tables'
  BY <1>1 DEF UpkeepInv, Tables
<1>5. CASE \E a \in scene.adverts : HearAdvert(a)
  <2>1. PICK a \in scene.adverts : HearAdvert(a)
    BY <1>5
  <2>2. a.key \in Keys
    BY UpkeepAssumption DEF UpkeepInv, SettingsInv, SettingsTypeOK
  <2>3. announced' = announced \cup {<<a.key, a.name>>}
    BY <2>1 DEF HearAdvert
  <2>4. CASE contacts' = contacts
    <3>1. SecretIsCurrent' /\ NamesAreTheirOwn'
      BY <1>1, <2>3, <2>4 DEF UpkeepInv, SecretIsCurrent, NamesAreTheirOwn, Used
    <3> QED BY <1>2, <1>3, <1>4, <2>4, <3>1 DEF Rest
  <2>5. CASE contacts' = Updated(contacts, a.key, a.name, millis)
    <3>1. /\ IsTable(contacts')
          /\ \A i \in Used(contacts') :
               \/ i \in Used(contacts) /\ contacts'[i] = contacts[i]
               \/ /\ contacts'[i].key = a.key /\ contacts'[i].secret = NoSecret
                  /\ \/ contacts'[i].name = a.name
                     \/ /\ i \in Used(contacts) /\ contacts'[i].name = contacts[i].name
                        /\ KeyHash[contacts[i].key] = KeyHash[a.key]
      BY <1>2, <2>2, <2>5, UpdatedSlots
    <3>2. SecretIsCurrent'
      <4> SUFFICES ASSUME NEW i \in Used(contacts'), contacts'[i].secret # NoSecret
                   PROVE  /\ contacts'[i].secret.theirs = contacts'[i].key
                          /\ rekeyed' \/ contacts'[i].secret.own = ident'.key
        BY DEF SecretIsCurrent, Used
      <4>1. i \in Used(contacts) /\ contacts'[i] = contacts[i]
        BY <3>1
      <4> QED BY <1>1, <4>1 DEF UpkeepInv, SecretIsCurrent
    <3>3. NamesAreTheirOwn'
      <4> SUFFICES ASSUME NEW i \in Used(contacts'), contacts'[i].name # NoName
                   PROVE  \E b \in announced' :
                            /\ KeyHash[b[1]] = KeyHash[contacts'[i].key]
                            /\ b[2] = contacts'[i].name
        BY DEF NamesAreTheirOwn, Used
      <4>1. CASE contacts'[i].key = a.key /\ contacts'[i].name = a.name
        <5>1. <<a.key, a.name>> \in announced'
          BY <2>3
        <5>2. <<a.key, a.name>>[1] = a.key /\ <<a.key, a.name>>[2] = a.name
          OBVIOUS
        <5> DEFINE b == <<a.key, a.name>>
        <5>3. b \in announced' /\ KeyHash[b[1]] = KeyHash[contacts'[i].key] /\ b[2] = contacts'[i].name
          BY <4>1, <5>1, <5>2
        <5> QED BY <5>3
      <4>2. CASE /\ i \in Used(contacts) /\ contacts'[i].name = contacts[i].name
                 /\ KeyHash[contacts[i].key] = KeyHash[contacts'[i].key]
        BY <2>3, <4>2 DEF UpkeepInv, NamesAreTheirOwn
      <4> QED BY <3>1, <4>1, <4>2
    <3> QED BY <1>3, <1>4, <3>1, <3>2, <3>3 DEF Rest
  <2> QED BY <2>1, <2>4, <2>5 DEF HearAdvert
<1>6. CASE \E text \in scene.texts : SendMessage(text)
  <2>1. PICK text \in scene.texts : SendMessage(text)
    BY <1>6
  <2>2. PICK i \in FoundByName(contacts, text) : contacts' = WithSecret(contacts, i, ident.key)
    BY <2>1 DEF SendMessage
  <2>3. i \in Used(contacts) /\ announced' = announced
    BY <2>1, <2>2, FoundIsUsed DEF SendMessage
  <2>4. /\ IsTable(contacts')
        /\ \A j \in Used(contacts') :
             /\ j \in Used(contacts) /\ contacts'[j].key = contacts[j].key
             /\ contacts'[j].name = contacts[j].name
             /\ contacts'[j].secret \in {contacts[j].secret,
                                        [own |-> ident.key, theirs |-> contacts[j].key]}
    BY <1>2, <2>2, <2>3, SecretSlots
  <2>5. SecretIsCurrent'
    <3> SUFFICES ASSUME NEW j \in Used(contacts'), contacts'[j].secret # NoSecret
                 PROVE  /\ contacts'[j].secret.theirs = contacts'[j].key
                        /\ rekeyed' \/ contacts'[j].secret.own = ident'.key
      BY DEF SecretIsCurrent, Used
    <3>1. CASE contacts'[j].secret = contacts[j].secret
      BY <1>1, <2>4, <3>1 DEF UpkeepInv, SecretIsCurrent
    <3>2. CASE contacts'[j].secret = [own |-> ident.key, theirs |-> contacts[j].key]
      BY <1>1, <2>4, <3>2
    <3> QED BY <2>4, <3>1, <3>2
  <2>6. NamesAreTheirOwn'
    <3> SUFFICES ASSUME NEW j \in Used(contacts'), contacts'[j].name # NoName
                 PROVE  \E b \in announced' :
                          /\ KeyHash[b[1]] = KeyHash[contacts'[j].key]
                          /\ b[2] = contacts'[j].name
      BY DEF NamesAreTheirOwn, Used
    <3> QED BY <2>3, <2>4 DEF UpkeepInv, NamesAreTheirOwn
  <2> QED BY <1>3, <1>4, <2>4, <2>5, <2>6 DEF Rest
<1> QED BY <1>5, <1>6

(* Every step keeps the invariant.                                         *)
LEMMA UpkeepStep ==
  UpkeepInv /\ [Next]_vars => UpkeepInv'
<1> SUFFICES ASSUME UpkeepInv, [Next]_vars PROVE UpkeepInv'
  OBVIOUS
<1>1. SettingsInv'
  BY StepOfSettings, SettingsStep DEF UpkeepInv
<1>2. Rest'
  <2>1. CASE UNCHANGED vars
    <3>1. UNCHANGED <<boot, conf, ident, contacts, rekeyed, announced, radio, temp, reboot>>
      BY <2>1 DEF vars, settings, table, tuning, schedule
    <3>2. Tables' /\ RadioAsConfigured'
      BY <3>1 DEF UpkeepInv, Tables, RadioAsConfigured, Tuned, Used
    <3>3. SecretIsCurrent' /\ NamesAreTheirOwn'
      BY <3>1 DEF UpkeepInv, SecretIsCurrent, NamesAreTheirOwn, Used
    <3> QED BY <3>2, <3>3 DEF Rest
  <2>2. CASE Next
    BY <2>2, QuietActions, OptionActions, RadioActions, RestartActions, ContactActions
      DEF Next, Step
  <2> QED BY <2>1, <2>2
<1> QED BY <1>1, <1>2 DEF UpkeepInv, Rest

(* The invariant holds at first.                                           *)
LEMMA UpkeepStart == Init => UpkeepInv
<1> SUFFICES ASSUME Init PROVE UpkeepInv
  OBVIOUS
<1>1. SettingsInv
  BY SettingsStart DEF Init
<1>2. boot # "up" /\ contacts = Empty /\ temp = NoTemp /\ reboot.at = 0
  BY DEF Init, SettingsInit
<1>3. Used(contacts) = {} /\ IsTable(contacts)
  BY <1>2 DEF Used, Empty, IsTable
<1>4. 0 \in 0 .. Wrap - 1
  BY SettingsAssumption
<1>5. IsTemp(NoTemp)
  <2>1. NoTemp \in [active : BOOLEAN, freq : {Base.freq}, mod : {Base.mod}, expire : 0 .. Wrap - 1]
        /\ NoTemp.expire = 0
    BY <1>4 DEF NoTemp
  <2> QED BY <2>1 DEF IsTemp
<1>6. Tables
  BY <1>2, <1>3, <1>4, <1>5 DEF Tables
<1>7. RadioAsConfigured /\ SecretIsCurrent /\ NamesAreTheirOwn
  BY <1>2, <1>3 DEF RadioAsConfigured, SecretIsCurrent, NamesAreTheirOwn
<1> QED BY <1>1, <1>6, <1>7 DEF UpkeepInv

-----------------------------------------------------------------------------
(* And so it holds always.                                                 *)
LEMMA UpkeepInvariant == Spec => []UpkeepInv
BY UpkeepStart, UpkeepStep, PTL DEF Spec

(* Upkeep is made of Settings: whatever contacts, radio, reports and       *)
(* scheduled reboots add, the settings only take their own steps.          *)
THEOREM UpkeepIsSettings == Spec => SettingsSpec
<1>1. Init => SettingsInit
  BY DEF Init
<1>2. UpkeepInv /\ [Next]_vars => [SettingsNext]_settings
  BY StepOfSettings DEF UpkeepInv
<1> QED BY <1>1, <1>2, UpkeepInvariant, PTL DEF Spec, SettingsSpec

(* The types of Upkeep.                                                    *)
THEOREM TypeCorrect == Spec => []TypeOK
<1>1. UpkeepInv => TypeOK
  BY DEF UpkeepInv, SettingsInv, Tables, IsTemp, IsTable, IsContact, TypeOK
<1> QED BY <1>1, UpkeepInvariant, PTL

(* The promises of the settings hold for the whole node.                   *)
THEOREM NodeKeepsSettings ==
  Spec => [](ReportsHaveDest /\ StatisticsAddUp) /\ KeepsWhatWasSaved
BY UpkeepIsSettings, ReportsAlwaysHaveDest, StatisticsAlwaysAddUp, SavedIsKept, PTL

(* The radio has what settings and temporary parameters say.               *)
THEOREM RadioAlwaysAsConfigured == Spec => []RadioAsConfigured
<1>1. UpkeepInv => RadioAsConfigured
  BY DEF UpkeepInv
<1> QED BY <1>1, UpkeepInvariant, PTL

(* No contact has a secret that was made for another key, or a name that   *)
(* only nodes of other hashes announced.                                   *)
THEOREM ContactsAlwaysTheirOwn == Spec => []ContactsTheirOwn
<1>1. UpkeepInv => ContactsTheirOwn
  BY DEF UpkeepInv, ContactsTheirOwn
<1> QED BY <1>1, UpkeepInvariant, PTL

-----------------------------------------------------------------------------
(* The time at which temporary parameters end, or the reboot comes, is     *)
(* ahead by less than half of the wrap; 0 stands for no expiry, also when  *)
(* the expiry falls on it.                                                 *)
Soon(t) == now <= t /\ t - now < Wrap \div 2

TempDeadline ==
  IF temp.expire = 0
  THEN \A t \in deadline.temp : t % Wrap = 0
  ELSE /\ temp.active
       /\ \E t \in Nat : deadline.temp = {t} /\ temp.expire = t % Wrap /\ Soon(t)

RebootDeadline ==
  IF reboot.on
  THEN \E t \in Nat : deadline.reboot = {t} /\ reboot.at = t % Wrap /\ Soon(t)
  ELSE deadline.reboot = {}

Deadlines ==
  /\ deadline \in [temp : SUBSET Nat, reboot : SUBSET Nat]
  /\ TempDeadline /\ RebootDeadline

(* A sum may be reduced before or after the addition.                      *)
LEMMA SumMod ==
  ASSUME NEW W \in Nat \ {0}, NEW a \in Int, NEW d \in Int
  PROVE  ((a % W) + d) % W = (a + d) % W
<1>1. PICK q \in Int, r \in 0 .. W - 1 : r = a % W /\ a = W * q + r
  BY DivMod
<1>2. r + d \in Int
  OBVIOUS
<1>3. PICK p \in Int, s \in 0 .. W - 1 : s = (r + d) % W /\ r + d = W * p + s
  BY <1>2, DivMod
<1>4. PICK x \in Int, y \in Int : x = W * q /\ y = W * p /\ W * (q + p) = x + y
  OBVIOUS
<1>5. a + d = W * (q + p) + s /\ q + p \in Int /\ a + d \in Int
  <2>1. a = x + r /\ r + d = y + s
    BY <1>1, <1>3, <1>4
  <2>2. a + d = (x + y) + s
    BY <2>1
  <2> QED BY <1>4, <2>2
<1>6. (a + d) % W = s
  BY <1>5, ModIs
<1> QED BY <1>1, <1>3, <1>6

(* The signed difference of two times is not negative exactly from the     *)
(* deadline on, as long as the deadline is less than half of the wrap away.*)
LEMMA DueWhen ==
  ASSUME now \in Nat, NEW t \in Nat, Soon(t)
  PROVE  Due(t % Wrap) <=> now = t
<1>1. Wrap \in Nat \ {0} /\ 0 < Wrap \div 2 /\ now \in Int
  BY SettingsAssumption, UpkeepAssumption
<1>2. CASE now = t
  <2>1. t % Wrap = millis
    BY <1>2 DEF millis
  <2>2. millis \in Int /\ 0 % Wrap = 0
    BY <1>1, MillisInRange
  <2>3. Since(t % Wrap) = 0
    BY <2>1, <2>2 DEF Since
  <2> QED BY <1>1, <1>2, <2>3 DEF Due
<1>3. CASE now # t
  <2> DEFINE d == t - now
  <2>1. d \in 1 .. (Wrap \div 2) - 1 /\ t = now + d
    BY <1>1, <1>3 DEF Soon
  <2> HIDE DEF d
  <2>2. ~(Wrap - d < Wrap \div 2) /\ d \in 1 .. Wrap - 1
    BY <1>1, <2>1, HalfWay
  <2>3. Since(t % Wrap) = Wrap - d
    <3>1. ((now % Wrap) - ((now + d) % Wrap)) % Wrap = Wrap - d
      BY <1>1, <2>2, Ahead
    <3> QED BY <2>1, <3>1 DEF Since, millis
  <2> QED BY <1>3, <2>2, <2>3 DEF Due
<1> QED BY <1>2, <1>3

(* Deadlines depend on the time and what they are about only.              *)
LEMMA DeadlinesStay ==
  ASSUME Deadlines, UNCHANGED <<temp, reboot, deadline, now>>
  PROVE  Deadlines'
BY DEF Deadlines, TempDeadline, RebootDeadline, Soon

(* Time passes only when nothing is due.                                   *)
LEMMA DeadlinesPass ==
  ASSUME UpkeepInv, Deadlines, Pass, UNCHANGED <<temp, reboot, deadline>>
  PROVE  Deadlines'
<1>1. now \in Nat /\ now' = now + 1 /\ temp.expire \in 0 .. Wrap - 1
  BY DEF UpkeepInv, SettingsInv, SettingsTypeOK, Pass, Tick, Tables, IsTemp
<1>2. ASSUME NEW t \in Nat, Soon(t), ~Due(t % Wrap)
      PROVE  Soon(t)'
  <2>1. now # t
    BY <1>1, <1>2, DueWhen
  <2>2. Wrap \div 2 \in Int
    BY SettingsAssumption
  <2> QED BY <1>1, <1>2, <2>1, <2>2 DEF Soon
<1>3. TempDeadline'
  <2>1. CASE temp.expire = 0
    BY <2>1 DEF Deadlines, TempDeadline
  <2>2. CASE temp.expire # 0
    <3>1. temp.active /\ ~Due(temp.expire)
      BY <1>1, <2>2 DEF Deadlines, TempDeadline, Pass, TempExpired
    <3>2. PICK t \in Nat : deadline.temp = {t} /\ temp.expire = t % Wrap /\ Soon(t)
      BY <2>2 DEF Deadlines, TempDeadline
    <3>3. Soon(t)'
      BY <1>2, <3>1, <3>2
    <3> QED BY <2>2, <3>1, <3>2, <3>3 DEF TempDeadline
  <2> QED BY <2>1, <2>2
<1>4. RebootDeadline'
  <2>1. CASE ~reboot.on
    BY <2>1 DEF Deadlines, RebootDeadline
  <2>2. CASE reboot.on
    <3>1. PICK t \in Nat : deadline.reboot = {t} /\ reboot.at = t % Wrap /\ Soon(t)
      BY <2>2 DEF Deadlines, RebootDeadline
    <3>2. Soon(t)'
      BY <1>2, <2>2, <3>1 DEF Pass, RebootDue
    <3> QED BY <2>2, <3>1, <3>2 DEF RebootDeadline
  <2> QED BY <2>1, <2>2
<1> QED BY <1>3, <1>4 DEF Deadlines

(* Commands and expiries that change temporary parameters.                 *)
LEMMA DeadlinesTemp ==
  ASSUME UpkeepInv, Deadlines,
         \/ \E f \in scene.freqs : SetFreq(f)
         \/ \E f \in scene.freqs, m \in scene.mods, span \in scene.spans : TempRadio(f, m, span)
         \/ TempRadioOff \/ ExpireTempRadio
  PROVE  Deadlines'
<1>1. /\ now \in Nat /\ scene \in Scenes
      /\ \E F, M : temp \in [active : BOOLEAN, freq : F, mod : M, expire : 0 .. Wrap - 1]
      /\ deadline \in [temp : SUBSET Nat, reboot : SUBSET Nat]
  BY DEF UpkeepInv, SettingsInv, SettingsTypeOK, Tables, IsTemp, Deadlines
<1>2. CASE \E f \in scene.freqs : SetFreq(f)
  <2>1. PICK f \in scene.freqs : SetFreq(f)
    BY <1>2
  <2>2. UNCHANGED <<now, reboot, deadline>>
    BY <2>1 DEF SetFreq, Retune, settings, clock
  <2>3. temp'.active /\ temp'.expire = temp.expire
    BY <1>1, <2>1 DEF SetFreq, Retune
  <2> QED BY <2>2, <2>3 DEF Deadlines, TempDeadline, RebootDeadline, Soon
<1>3. CASE \E f \in scene.freqs, m \in scene.mods, span \in scene.spans : TempRadio(f, m, span)
  <2>1. PICK f \in scene.freqs, m \in scene.mods, span \in scene.spans : TempRadio(f, m, span)
    BY <1>3
  <2>2. UNCHANGED <<now, reboot>>
    BY <2>1 DEF TempRadio, Retune, settings, clock
  <2>3. span \in 0 .. (Wrap \div 2) - 1
    BY <1>1, UpkeepAssumption
  <2>4. /\ temp'.active
        /\ temp'.expire = IF span = 0 THEN 0 ELSE (millis + span) % Wrap
    BY <2>1 DEF TempRadio, Retune
  <2>5. /\ deadline' \in [temp : SUBSET Nat, reboot : SUBSET Nat]
        /\ deadline'.temp = IF span = 0 THEN {} ELSE {now + span}
        /\ deadline'.reboot = deadline.reboot
    <3>1. span \in Nat /\ now + span \in Nat
      BY <1>1, <2>3
    <3> QED BY <1>1, <2>1, <3>1 DEF TempRadio
  <2>6. RebootDeadline'
    BY <2>2, <2>5 DEF Deadlines, RebootDeadline, Soon
  <2>7. TempDeadline'
    <3>1. CASE span = 0
      BY <2>4, <2>5, <3>1 DEF TempDeadline
    <3>2. CASE span # 0
      <4>1. (millis + span) % Wrap = (now + span) % Wrap
        BY <1>1, <2>3, SettingsAssumption, SumMod DEF millis
      <4>2. now + span \in Nat /\ now <= now + span /\ (now + span) - now < Wrap \div 2
        <5>1. Wrap \div 2 \in Int
          BY SettingsAssumption
        <5> QED BY <1>1, <2>3, <5>1
      <4>3. PICK t \in Nat : t = now + span
        BY <4>2
      <4>4. deadline'.temp = {t} /\ temp'.active /\ temp'.expire = t % Wrap
        BY <2>4, <2>5, <3>2, <4>1, <4>3
      <4>5. now' <= t /\ t - now' < Wrap \div 2
        BY <2>2, <4>2, <4>3
      <4> QED BY <4>4, <4>5 DEF TempDeadline, Soon
    <3> QED BY <3>1, <3>2
  <2> QED BY <2>5, <2>6, <2>7 DEF Deadlines
<1>4. CASE TempRadioOff \/ ExpireTempRadio
  <2>1. TempRadioOff
    BY <1>4 DEF ExpireTempRadio
  <2>2. UNCHANGED <<now, reboot>> /\ temp'.expire = 0
    BY <1>1, <2>1 DEF TempRadioOff, Retune, settings, clock
  <2>3. /\ deadline' \in [temp : SUBSET Nat, reboot : SUBSET Nat]
        /\ deadline'.temp = {} /\ deadline'.reboot = deadline.reboot
    BY <1>1, <2>1 DEF TempRadioOff
  <2> QED BY <2>2, <2>3 DEF Deadlines, TempDeadline, RebootDeadline, Soon
<1> QED BY <1>2, <1>3, <1>4

(* A reboot forgets both deadlines; a command for one sets another.        *)
LEMMA DeadlinesReboot ==
  ASSUME UpkeepInv, Deadlines,
         \/ Restart \/ DoReboot
         \/ \E forget \in BOOLEAN : RemoteReboot(forget)
  PROVE  Deadlines'
<1>1. CASE Restart \/ DoReboot
  <2>1. /\ deadline' = [temp |-> {}, reboot |-> {}] /\ temp' = NoTemp
        /\ reboot' = [on |-> FALSE, at |-> 0]
    BY <1>1 DEF Restart, DoReboot
  <2>2. temp'.expire = 0 /\ ~reboot'.on /\ deadline'.temp = {} /\ deadline'.reboot = {}
    BY <2>1 DEF NoTemp
  <2> QED BY <2>1, <2>2 DEF Deadlines, TempDeadline, RebootDeadline
<1>2. CASE \E forget \in BOOLEAN : RemoteReboot(forget)
  <2>1. /\ now \in Nat /\ deadline \in [temp : SUBSET Nat, reboot : SUBSET Nat]
        /\ RebootDelay \in Nat /\ Wrap \in Nat \ {0} /\ RebootDelay < Wrap \div 2
    BY SettingsAssumption, UpkeepAssumption
    DEF UpkeepInv, SettingsInv, SettingsTypeOK, Deadlines
  <2>2. /\ temp' = temp /\ now' = now
        /\ reboot' = [on |-> TRUE, at |-> (millis + RebootDelay) % Wrap]
        /\ deadline' = [deadline EXCEPT !.reboot = {now + RebootDelay}]
    BY <1>2 DEF RemoteReboot, ForgetTime, settings, tuning, clock
  <2>3. now + RebootDelay \in Nat
    BY <2>1
  <2>4. /\ deadline' \in [temp : SUBSET Nat, reboot : SUBSET Nat]
        /\ deadline'.temp = deadline.temp /\ deadline'.reboot = {now + RebootDelay}
    BY <2>1, <2>2, <2>3
  <2>5. TempDeadline'
    BY <2>2, <2>4 DEF Deadlines, TempDeadline, Soon
  <2>6. RebootDeadline'
    <3>1. (millis + RebootDelay) % Wrap = (now + RebootDelay) % Wrap
      <4>1. now \in Int /\ RebootDelay \in Int /\ Wrap \in Nat \ {0}
        BY <2>1
      <4> QED BY <4>1, SumMod DEF millis
    <3>2. now <= now + RebootDelay /\ (now + RebootDelay) - now < Wrap \div 2
      <4>1. Wrap \div 2 \in Int
        BY <2>1
      <4> QED BY <2>1, <4>1
    <3> QED BY <2>2, <2>3, <2>4, <3>1, <3>2 DEF RebootDeadline, Soon
  <2> QED BY <2>4, <2>5, <2>6 DEF Deadlines
<1> QED BY <1>1, <1>2

(* Every step keeps the deadlines ahead.                                   *)
LEMMA DeadlinesStep ==
  UpkeepInv /\ Deadlines /\ [Next]_vars => Deadlines'
<1> SUFFICES ASSUME UpkeepInv, Deadlines, [Next]_vars PROVE Deadlines'
  OBVIOUS
<1>1. CASE UNCHANGED vars
  BY <1>1, DeadlinesStay DEF vars, settings, clock, tuning, schedule
<1>2. CASE (Setting \/ Pass) /\ UNCHANGED <<table, tuning, schedule, report>>
  <2>1. UNCHANGED <<temp, reboot, deadline>>
    BY <1>2 DEF tuning, schedule
  <2>2. CASE Setting
    <3>1. now' = now
      BY <2>2 DEF Setting, ReportOn, ReportOff, ReportClear, AlertOn, AlertOff, AlertClear,
             Save, Configure, AdminLogin, SetName, SetLat, SetLon, NodeType, Identify,
             Record, CheckStatsSave, SaveStats, clock
    <3> QED BY <2>1, <3>1, DeadlinesStay
  <2> QED BY <1>2, <2>1, <2>2, DeadlinesPass
<1>3. CASE Start
  BY <1>3, DeadlinesStay DEF Start, Startup, LoadConfig, LoadStats, LoadIdentity, clock, schedule
<1>4. CASE \/ \E s \in scene.sets : SetOption(s.field, s.value)
           \/ Reset \/ ChangeKey
           \/ \E t \in scene.times : SetClock(t)
  BY <1>4, DeadlinesStay
  DEF SetOption, SetField, Reset, FactoryReset, Configure, ChangeKey, NewId, Identify,
      SetClock, SetTime, clock, schedule, tuning
<1>5. CASE \/ \E a \in scene.adverts : HearAdvert(a)
           \/ \E text \in scene.texts : DestByName(text) \/ SendMessage(text)
           \/ CheckDailyReport
  BY <1>5, DeadlinesStay
  DEF HearAdvert, Sync, SetTime, DestByName, AlertDest, ReportDest, Configure, SendMessage,
      CheckDailyReport, settings, clock, schedule, tuning
<1>6. CASE \/ \E f \in scene.freqs : SetFreq(f)
           \/ \E f \in scene.freqs, m \in scene.mods, span \in scene.spans : TempRadio(f, m, span)
           \/ TempRadioOff \/ ExpireTempRadio
  BY <1>6, DeadlinesTemp
<1>7. CASE \/ Restart \/ DoReboot
           \/ Does("reboot") /\ \E forget \in BOOLEAN : RemoteReboot(forget)
  BY <1>7, DeadlinesReboot
<1> QED BY <1>1, <1>2, <1>3, <1>4, <1>5, <1>6, <1>7 DEF Next, Step

(* Temporary parameters and a requested reboot end and come at the time    *)
(* they were given, neither later nor earlier, also when millis() wraps.   *)
THEOREM AlwaysOnTime == Spec => OnTime
<1>1. Init => Deadlines
  <2> SUFFICES ASSUME Init PROVE Deadlines
    OBVIOUS
  <2>1. /\ deadline = [temp |-> {}, reboot |-> {}] /\ temp.expire = 0 /\ ~reboot.on
    BY DEF Init, NoTemp
  <2> QED BY <2>1 DEF Deadlines, TempDeadline, RebootDeadline
<1>2. Deadlines => DeadlinesKept
  BY DEF Deadlines, TempDeadline, RebootDeadline, DeadlinesKept, Soon
<1>3. UpkeepInv /\ Deadlines =>
        (ExpireTempRadio => now \in deadline.temp) /\ (DoReboot => now \in deadline.reboot)
  <2> SUFFICES ASSUME UpkeepInv, Deadlines
               PROVE  /\ ExpireTempRadio => now \in deadline.temp
                      /\ DoReboot => now \in deadline.reboot
    OBVIOUS
  <2>1. now \in Nat
    BY DEF UpkeepInv, SettingsInv, SettingsTypeOK
  <2>2. ASSUME ExpireTempRadio PROVE now \in deadline.temp
    <3>1. temp.expire # 0 /\ Due(temp.expire)
      <4>1. temp.expire \in 0 .. Wrap - 1
        BY DEF UpkeepInv, Tables, IsTemp
      <4> QED BY <2>2, <4>1 DEF ExpireTempRadio, TempExpired
    <3>2. PICK t \in Nat : deadline.temp = {t} /\ temp.expire = t % Wrap /\ Soon(t)
      BY <3>1 DEF Deadlines, TempDeadline
    <3> QED BY <2>1, <3>1, <3>2, DueWhen
  <2>3. ASSUME DoReboot PROVE now \in deadline.reboot
    <3>1. reboot.on /\ Due(reboot.at)
      BY <2>3 DEF DoReboot, RebootDue
    <3>2. PICK t \in Nat : deadline.reboot = {t} /\ reboot.at = t % Wrap /\ Soon(t)
      BY <3>1 DEF Deadlines, RebootDeadline
    <3> QED BY <2>1, <3>1, <3>2, DueWhen
  <2> QED BY <2>2, <2>3
<1> QED BY <1>1, <1>2, <1>3, DeadlinesStep, UpkeepInvariant, PTL
        DEF Spec, OnTime, NeverEarly

-----------------------------------------------------------------------------
(***************************************************************************)
(* What the configuration and the identity may say: the commands check the *)
(* time of the report and the location, and what is read back was written. *)
(***************************************************************************)
TimeOK(c)  == c.set["reportAt"] \in 0 .. Day - 1
PlaceOK(i) == i.lat \in Latitudes /\ i.lon \in Longitudes

KeptOK(s, x) ==
  x # Blank => (s = "config" => TimeOK(x)) /\ (s = "identity" => PlaceOK(x))

MemoryOK(e) == \A s \in Sections : KeptOK(s, e.buffer[s]) /\ KeptOK(s, e.flash[s])

Ranges ==
  /\ boot # "config" => TimeOK(conf)
  /\ boot = "up" => PlaceOK(ident)
  /\ MemoryOK(eeprom)

(* Writing what is in range keeps the memory in range.                     *)
LEMMA StoreInRange ==
  ASSUME NEW e \in [buffer : [Sections -> Stored], flash : [Sections -> Stored]],
         MemoryOK(e), NEW section \in Sections, NEW content \in Stored,
         KeptOK(section, content), failures \in Nat, Store(e, section, content)
  PROVE  MemoryOK(eeprom')
<1>1. /\ eeprom'.buffer = [e.buffer EXCEPT ![section] = content]
      /\ eeprom'.flash = IF committed' THEN eeprom'.buffer ELSE e.flash
  BY StoreWrites
<1>2. \A s \in Sections :
        eeprom'.buffer[s] = IF s = section THEN content ELSE e.buffer[s]
  BY <1>1
<1>3. \A s \in Sections : KeptOK(s, eeprom'.buffer[s])
  BY <1>2 DEF MemoryOK
<1>4. \A s \in Sections : KeptOK(s, eeprom'.flash[s])
  BY <1>1, <1>3 DEF MemoryOK
<1> QED BY <1>3, <1>4 DEF MemoryOK

(* The configuration may be replaced by one in range.                      *)
LEMMA ConfigureInRange ==
  ASSUME SettingsInv, SettingsInv', Ranges, boot # "config", boot' = "up", TimeOK(conf'),
         Store(eeprom, "config", conf'), UNCHANGED ident, boot = "up"
  PROVE  Ranges'
<1>1. conf' \in Stored /\ "config" \in Sections
  BY Phases DEF SettingsInv, SettingsTypeOK, Stored
<1>2. KeptOK("config", conf')
  BY DEF KeptOK
<1>3. MemoryOK(eeprom')
  BY <1>1, <1>2, StoreInRange DEF SettingsInv, Shape, Ranges
<1> QED BY <1>3 DEF Ranges

(* And the identity.                                                       *)
LEMMA IdentifyInRange ==
  ASSUME SettingsInv, SettingsInv', Ranges, boot # "config", boot' = "up", PlaceOK(ident'),
         Store(eeprom, "identity", ident'), UNCHANGED conf
  PROVE  Ranges'
<1>1. ident' \in Stored /\ "identity" \in Sections
  BY Phases DEF SettingsInv, SettingsTypeOK, Stored
<1>2. KeptOK("identity", ident')
  BY DEF KeptOK
<1>3. MemoryOK(eeprom')
  BY <1>1, <1>2, StoreInRange DEF SettingsInv, Shape, Ranges
<1> QED BY <1>3 DEF Ranges

(* The range of the locations.                                             *)
LEMMA PlaceRange ==
  /\ \A x : x \in Latitudes <=> x \in Int /\ -90000000 <= x /\ x <= 90000000
  /\ \A x : x \in Longitudes <=> x \in Int /\ -180000000 <= x /\ x <= 180000000
<1>1. Million = 1000000 /\ Million \in Nat
  BY SMT DEF Million
<1>2. /\ -90 * Million \in Int /\ 90 * Million \in Int
      /\ -180 * Million \in Int /\ 180 * Million \in Int
  BY <1>1
<1>3. /\ \A x : x \in Latitudes <=> x \in Int /\ -90 * Million <= x /\ x <= 90 * Million
      /\ \A x : x \in Longitudes <=> x \in Int /\ -180 * Million <= x /\ x <= 180 * Million
  BY <1>2 DEF Latitudes, Longitudes
<1>4. /\ -90 * Million = -90000000 /\ 90 * Million = 90000000
      /\ -180 * Million = -180000000 /\ 180 * Million = 180000000
  BY <1>1, SMT
<1> QED BY <1>3, <1>4, SMT

(* A new identity has no location.                                         *)
LEMMA GeneratedInRange ==
  \A key : PlaceOK(Generated(key))
<1>1. \A key : Generated(key).lat = 0 /\ Generated(key).lon = 0
  BY DEF Generated
<1>2. 0 \in Latitudes
  BY PlaceRange, SMT
<1>3. 0 \in Longitudes
  BY PlaceRange, SMT
<1> QED BY <1>1, <1>2, <1>3 DEF PlaceOK

(* The defaults are in range.                                              *)
LEMMA DefaultInRange == TimeOK(defaultConfig)
BY UpkeepAssumption DEF TimeOK, defaultConfig

(* setup() reads what is in range or sets it.                              *)
LEMMA BootInRange ==
  ASSUME SettingsInv, SettingsInv', Ranges, LoadConfig \/ LoadStats \/ LoadIdentity
  PROVE  Ranges'
<1>1. CASE LoadConfig
  <2> DEFINE e == Mounted(eeprom)
  <2>1. /\ e \in [buffer : [Sections -> Stored], flash : [Sections -> Stored]]
        /\ e.buffer = eeprom.flash /\ e.flash = eeprom.flash
    BY MountedReads DEF SettingsInv, Shape
  <2>2. MemoryOK(e)
    BY <2>1 DEF Ranges, MemoryOK
  <2>3. boot' = "stats"
    BY <1>1 DEF LoadConfig
  <2>4. CASE e.buffer["config"] # Blank
    <3>1. conf' = e.buffer["config"] /\ eeprom' = e
      BY <1>1, <2>4 DEF LoadConfig
    <3>2. TimeOK(conf')
      BY <2>2, <2>4, <3>1, Phases DEF MemoryOK, KeptOK
    <3> QED BY <2>2, <2>3, <3>1, <3>2 DEF Ranges
  <2>5. CASE e.buffer["config"] = Blank
    <3>1. conf' = defaultConfig /\ Store(e, "config", defaultConfig)
      BY <1>1, <2>5 DEF LoadConfig
    <3>2. "config" \in Sections /\ defaultConfig \in Stored /\ KeptOK("config", defaultConfig)
      BY DefaultIsConfig, DefaultInRange, Phases DEF Stored, KeptOK
    <3> HIDE DEF e
    <3>3. MemoryOK(eeprom')
      BY <2>1, <2>2, <3>1, <3>2, StoreInRange DEF SettingsInv, Shape
    <3> QED BY <2>3, <3>1, <3>3, DefaultInRange DEF Ranges
  <2> QED BY <2>4, <2>5
<1>2. CASE LoadStats
  <2>1. boot = "stats" /\ boot' = "identity" /\ conf' = conf
    BY <1>2 DEF LoadStats
  <2>2. CASE UNCHANGED memory
    BY <2>1, <2>2 DEF Ranges, memory
  <2>3. CASE Store(eeprom, "stats", FreshStats)
    <3>1. "stats" \in Sections /\ FreshStats \in Stored /\ KeptOK("stats", FreshStats)
      BY FreshIsStatistics, Phases DEF Stored, KeptOK
    <3>2. MemoryOK(eeprom')
      BY <2>3, <3>1, StoreInRange DEF SettingsInv, Shape, Ranges
    <3> QED BY <2>1, <3>2 DEF Ranges
  <2> QED BY <1>2, <2>2, <2>3 DEF LoadStats
<1>3. CASE LoadIdentity
  <2>1. boot = "identity" /\ boot' = "up" /\ conf' = conf
    BY <1>3 DEF LoadIdentity
  <2>2. CASE eeprom.buffer["identity"] # Blank
    <3>1. ident' = eeprom.buffer["identity"] /\ UNCHANGED memory
      BY <1>3, <2>2 DEF LoadIdentity
    <3>2. PlaceOK(ident')
      BY <2>2, <3>1, Phases DEF Ranges, MemoryOK, KeptOK
    <3> QED BY <2>1, <3>1, <3>2 DEF Ranges, memory
  <2>3. CASE \E key \in OwnKeys : SaveIdentity(Generated(key))
    BY <2>1, <2>3, IdentifyInRange, GeneratedInRange DEF SaveIdentity
  <2> QED BY <1>3, <2>2, <2>3 DEF LoadIdentity
<1> QED BY <1>1, <1>2, <1>3

(* Every step of the settings keeps them in range.                         *)
LEMMA RangesStep ==
  SettingsInv /\ Ranges /\ [SettingsNext]_settings => Ranges'
<1> SUFFICES ASSUME SettingsInv, Ranges, [SettingsNext]_settings PROVE Ranges'
  OBVIOUS
<1>1. SettingsInv'
  BY SettingsStep
<1>2. CASE LoadConfig \/ LoadStats \/ LoadIdentity
  BY <1>1, <1>2, BootInRange
<1>3. ASSUME NEW c, Configure(c), TimeOK(c) PROVE Ranges'
  BY <1>1, <1>3, ConfigureInRange DEF Configure, SaveConfig
<1>4. ASSUME NEW i, Identify(i), PlaceOK(i) PROVE Ranges'
  BY <1>1, <1>4, IdentifyInRange DEF Identify, SaveIdentity
<1>5. boot = "up" => conf \in Config /\ ident \in Identity /\ TimeOK(conf) /\ PlaceOK(ident)
  BY UpFacts DEF Ranges
<1>6. CASE \/ ReportOn \/ ReportOff \/ ReportClear \/ AlertOn \/ AlertOff \/ AlertClear
           \/ Save \/ FactoryReset \/ \E k \in Keys : ReportDest(k) \/ AlertDest(k)
  <2>1. boot = "up"
    BY <1>6 DEF ReportOn, ReportOff, ReportClear, AlertOn, AlertOff, AlertClear, Save,
                FactoryReset, ReportDest, AlertDest, Configure
  <2>2. \A r : /\ TimeOK([conf EXCEPT !.report = r]) /\ TimeOK([conf EXCEPT !.alert = r])
               /\ TimeOK([conf EXCEPT !.reportDest = r]) /\ TimeOK([conf EXCEPT !.alertDest = r])
    BY <1>5, <2>1 DEF TimeOK, Config
  <2>3. /\ TimeOK([conf EXCEPT !.report = FALSE, !.reportDest = NoKey])
        /\ TimeOK([conf EXCEPT !.alert = FALSE, !.alertDest = NoKey])
    BY <1>5, <2>1 DEF TimeOK, Config
  <2> QED BY <1>3, <1>5, <1>6, <2>1, <2>2, <2>3, DefaultInRange
          DEF ReportOn, ReportOff, ReportClear, AlertOn, AlertOff, AlertClear, Save,
              FactoryReset, ReportDest, AlertDest
<1>7. CASE \E s \in scene.sets : SetField(s.field, s.value)
  <2>1. PICK s \in scene.sets : SetField(s.field, s.value)
    BY <1>7
  <2>2. boot = "up" /\ scene \in Scenes
    BY <2>1 DEF SetField, Configure, SettingsInv, SettingsTypeOK
  <2>3. s.field = "reportAt" => s.value \in 0 .. Day - 1
    BY <2>2, UpkeepAssumption
  <2>4. conf.set \in [Fields -> Values] /\ "reportAt" \in Fields
    BY <1>5, <2>2, UpkeepAssumption DEF Config
  <2>5. [conf EXCEPT !.set[s.field] = s.value].set = [conf.set EXCEPT ![s.field] = s.value]
    BY <1>5, <2>2 DEF Config
  <2>6. TimeOK([conf EXCEPT !.set[s.field] = s.value])
    BY <1>5, <2>2, <2>3, <2>4, <2>5 DEF TimeOK
  <2> QED BY <1>3, <2>1, <2>6 DEF SetField
<1>8. CASE \/ \E n \in scene.names : SetName(n)
           \/ \E d \in scene.degrees : SetLat(d) \/ SetLon(d)
           \/ \E t \in {"chat", "repeater"} : NodeType(t)
           \/ NewId
  <2>1. boot = "up"
    BY <1>8 DEF SetName, SetLat, SetLon, NodeType, NewId, Identify
  <2>2. \A x : /\ PlaceOK([ident EXCEPT !.name = x]) /\ PlaceOK([ident EXCEPT !.type = x])
               /\ x \in Latitudes => PlaceOK([ident EXCEPT !.lat = x])
               /\ x \in Longitudes => PlaceOK([ident EXCEPT !.lon = x])
    BY <1>5, <2>1 DEF PlaceOK, Identity
  <2> QED BY <1>4, <1>8, <2>2, GeneratedInRange DEF SetName, SetLat, SetLon, NodeType, NewId
<1>9. CASE \E k \in scene.keys : AdminLogin(k)
  <2>1. PICK k \in scene.keys : AdminLogin(k)
    BY <1>9
  <2>2. boot = "up" /\ boot' = boot /\ ident' = ident
    BY <2>1 DEF AdminLogin
  <2>3. CASE UNCHANGED <<conf, memory>>
    BY <2>2, <2>3 DEF Ranges, memory
  <2>4. CASE conf' = [conf EXCEPT !.reportDest = k] /\ Store(eeprom, "config", conf')
    <3>1. TimeOK(conf')
      BY <1>5, <2>2, <2>4 DEF TimeOK, Config
    <3> QED BY <1>1, <2>2, <2>4, <3>1, ConfigureInRange
  <2> QED BY <2>1, <2>3, <2>4 DEF AdminLogin
<1>10. CASE CheckStatsSave \/ SaveStats
  <2>1. /\ boot = "up" /\ UNCHANGED <<boot, conf, ident>> /\ Store(eeprom, "stats", stats')
    BY <1>10 DEF CheckStatsSave, SaveStats, StoreStats
  <2>2. stats' \in Stored /\ "stats" \in Sections /\ KeptOK("stats", stats')
    BY <1>1, Phases DEF SettingsInv, SettingsTypeOK, Stored, KeptOK
  <2>3. MemoryOK(eeprom')
    BY <2>1, <2>2, StoreInRange DEF SettingsInv, Shape, Ranges
  <2> QED BY <2>1, <2>3 DEF Ranges
<1>11. CASE PowerLoss
  BY <1>11 DEF PowerLoss, Ranges, memory
<1>12. CASE \/ Record \/ ForgetTime \/ Tick \/ UNCHANGED settings
            \/ \E t \in scene.times : Sync(t) \/ SetTime(t)
  BY <1>12 DEF Record, ForgetTime, Tick, Sync, SetTime, settings, Ranges, memory
<1> QED BY <1>2, <1>6, <1>7, <1>8, <1>9, <1>10, <1>11, <1>12 DEF SettingsNext, Startup

(* Nothing is kept at first.                                               *)
LEMMA RangesStart == SettingsInit => Ranges
BY DEF SettingsInit, Ranges, MemoryOK, KeptOK, Erased

-----------------------------------------------------------------------------
(***************************************************************************)
(* Reports.  Since the clock was set, the days of the reports ascend up to *)
(* today, the last of them is the one that the code remembers, and every   *)
(* day whose time has come is among them.                                  *)
(***************************************************************************)
ReportTime(d) == d * Day + Target

Told(d) == d = before \/ \E i \in DOMAIN reported : reported[i] = d

Remembered ==
  /\ reported \in Seq(Nat) /\ before \in Nat /\ readyFrom \in Nat
  /\ lastReportDay = IF reported = <<>> THEN before ELSE reported[Len(reported)]

Ascending ==
  /\ \A i, j \in 1 .. Len(reported) : i < j => reported[i] < reported[j]
  /\ \A i \in 1 .. Len(reported) : reported[i] <= unix \div Day

NoneMissed ==
  readyFrom # 0 =>
    /\ Reportable
    /\ \A d \in Nat : readyFrom <= ReportTime(d) /\ ReportTime(d) < unix => Told(d)

ReportsInv == Remembered /\ Ascending /\ NoneMissed

(* What the history of readiness may do in a step.                         *)
LEMMA WatchSays ==
  ASSUME Watch
  PROVE  \/ readyFrom' = 0
         \/ Reportable' /\ readyFrom' = unix'
         \/ /\ Reportable /\ Reportable' /\ SameClock /\ Target' = Target
            /\ readyFrom' = readyFrom
BY DEF Watch

(* Right after a beginning, no day has passed.                             *)
LEMMA NoneMissedYet ==
  ASSUME unix' \in Nat, Reportable', readyFrom' = unix', Target' \in Nat, Day \in Nat
  PROVE  NoneMissed' /\ readyFrom' \in Nat
<1>1. \A d \in Nat : ReportTime(d)' \in Int
  BY DEF ReportTime
<1>2. \A d \in Nat : ~(readyFrom' <= ReportTime(d)' /\ ReportTime(d)' < unix')
  BY <1>1
<1> QED BY <1>2 DEF NoneMissed

(* Quotients.                                                              *)
LEMMA DivIs ==
  ASSUME NEW W \in Nat \ {0}, NEW a \in Int, NEW q \in Int, NEW r \in 0 .. W - 1, a = W * q + r
  PROVE  a \div W = q
OBVIOUS

(* Quotients grow with what is divided.                                    *)
LEMMA DivGrows ==
  ASSUME NEW W \in Nat \ {0}, NEW a \in Nat
  PROVE  /\ a \div W \in Nat /\ (a + 1) \div W \in Nat
         /\ a \div W <= (a + 1) \div W
<1>1. PICK q \in Int, r \in 0 .. W - 1 : r = a % W /\ a = W * q + r
  BY DivMod
<1>2. a \div W = q /\ a \div W \in Nat /\ (a + 1) \div W \in Nat
  <2>1. a \div W = q
    BY <1>1, DivIs
  <2>2. a \div W \in Nat
    OBVIOUS
  <2>3. a + 1 \in Nat
    OBVIOUS
  <2>4. (a + 1) \div W \in Nat
    BY <2>3
  <2> QED BY <2>1, <2>2, <2>4
<1>3. CASE r + 1 < W
  <2>1. a + 1 = W * q + (r + 1) /\ r + 1 \in 0 .. W - 1
    BY <1>1, <1>3
  <2>2. (a + 1) \div W = q
    BY <2>1, DivIs
  <2> QED BY <1>2, <2>2
<1>4. CASE r + 1 = W
  <2>1. W * (q + 1) = W * q + W
    OBVIOUS
  <2>2. a + 1 = W * (q + 1) + 0 /\ 0 \in 0 .. W - 1 /\ q + 1 \in Int
    BY <1>1, <1>4, <2>1
  <2>3. (a + 1) \div W = q + 1
    BY <2>2, DivIs
  <2> QED BY <1>2, <2>3
<1> QED BY <1>2, <1>3, <1>4

(* The time of the report is in the day.                                   *)
LEMMA TargetInDay ==
  ASSUME SettingsInv, Ranges, boot # "config"
  PROVE  Target \in 0 .. Day - 1 /\ Day \in Nat \ {0} /\ Window \in Nat \ {0}
BY UpkeepAssumption DEF Ranges, TimeOK, Target

(* Steps that neither report nor set the clock.                            *)
LEMMA ReportsQuiet ==
  ASSUME ReportsInv, UNCHANGED <<lastReportDay, reported, before, unix>>, unix \in Nat,
         Reportable' => Target' \in Nat, Day \in Nat, Watch
  PROVE  ReportsInv'
<1>1. CASE readyFrom' = 0
  BY <1>1 DEF ReportsInv, Remembered, Ascending, NoneMissed
<1>2. CASE Reportable' /\ readyFrom' = unix'
  <2>1. NoneMissed' /\ readyFrom' \in Nat
    BY <1>2, NoneMissedYet
  <2> QED BY <2>1 DEF ReportsInv, Remembered, Ascending
<1>3. CASE Reportable' /\ Target' = Target /\ readyFrom' = readyFrom
  <2>1. \A d : (ReportTime(d)' = ReportTime(d)) /\ (Told(d)' <=> Told(d))
    BY <1>3 DEF ReportTime, Told
  <2>2. NoneMissed'
    BY <1>3, <2>1 DEF ReportsInv, NoneMissed
  <2> QED BY <1>3, <2>2 DEF ReportsInv, Remembered, Ascending
<1> QED BY <1>1, <1>2, <1>3, WatchSays

(* Setting the clock begins the history again, unless it changes nothing.  *)
LEMMA ReportsSet ==
  ASSUME ReportsInv, NEW t \in Nat, ReportsFrom(t), unix' = t, now' = now, now \in Nat,
         UNCHANGED lastReportDay, unix \in Nat,
         Reportable' => Target' \in Nat, Day \in Nat \ {0}, Watch
  PROVE  ReportsInv'
<1>1. CASE t = unix
  <2>1. UNCHANGED <<lastReportDay, reported, before, unix>>
    BY <1>1 DEF ReportsFrom
  <2> QED BY <2>1, ReportsQuiet
<1>2. CASE t # unix
  <2>1. reported' = <<>> /\ before' = lastReportDay
    BY <1>2 DEF ReportsFrom
  <2>2. lastReportDay \in Nat
    BY DEF ReportsInv, Remembered
  <2>3. ~SameClock
    BY <1>2 DEF SameClock
  <2>4. readyFrom' \in Nat /\ NoneMissed'
    <3>1. CASE readyFrom' = 0
      BY <3>1 DEF NoneMissed
    <3>2. CASE Reportable' /\ readyFrom' = unix'
      BY <3>2, NoneMissedYet
    <3> QED BY <2>3, <3>1, <3>2, WatchSays
  <2>5. reported' \in Seq(Nat) /\ Len(reported') = 0
    BY <2>1
  <2>6. Remembered'
    BY <2>1, <2>2, <2>4, <2>5 DEF Remembered
  <2>7. Ascending'
    BY <2>5 DEF Ascending
  <2> QED BY <2>4, <2>6, <2>7 DEF ReportsInv
<1> QED BY <1>1, <1>2

(* A report comes after those before it.                                   *)
LEMMA ReportsAdd ==
  ASSUME ReportsInv, SettingsInv, Ranges, CheckDailyReport, Watch
  PROVE  ReportsInv'
<1>1. /\ boot = "up" /\ ReportDue /\ UNCHANGED <<boot, conf, unix, now, before>>
      /\ lastReportDay' = unix \div Day /\ reported' = Append(reported, unix \div Day)
  BY DEF CheckDailyReport, settings, clock
<1>2. /\ unix \in Nat /\ Target \in Nat /\ Target' = Target /\ Day \in Nat \ {0}
  BY <1>1, TargetInDay DEF SettingsInv, SettingsTypeOK, Target
<1>3. unix \div Day \in Nat
  BY <1>2, DivGrows
<1>4. PICK n \in Nat : n = unix \div Day
  BY <1>3
<1>5. reported \in Seq(Nat) /\ Len(reported) \in Nat
  BY DEF ReportsInv, Remembered
<1>6. /\ reported' \in Seq(Nat) /\ Len(reported') = Len(reported) + 1
      /\ reported' # <<>> /\ reported'[Len(reported')] = n
      /\ \A i \in 1 .. Len(reported) : reported'[i] = reported[i]
      /\ DOMAIN reported' = 1 .. Len(reported) + 1 /\ DOMAIN reported = 1 .. Len(reported)
  BY <1>1, <1>4, <1>5
<1>7. lastReportDay # n
  BY <1>1, <1>4 DEF ReportDue
<1>8. \A i \in 1 .. Len(reported) : reported[i] < n /\ reported[i] \in Nat
  <2>1. TAKE i \in 1 .. Len(reported)
  <2>2. reported # <<>> /\ Len(reported) \in 1 .. Len(reported)
    BY <1>5
  <2>3. /\ reported[Len(reported)] <= n /\ reported[Len(reported)] # n
        /\ reported[i] \in Nat /\ reported[Len(reported)] \in Nat
    BY <1>4, <1>5, <1>7, <2>2 DEF ReportsInv, Remembered, Ascending
  <2>4. i < Len(reported) => reported[i] < reported[Len(reported)]
    BY <2>2 DEF ReportsInv, Ascending
  <2> QED BY <1>5, <2>3, <2>4
<1>9. Ascending'
  <2>1. ASSUME NEW i \in 1 .. Len(reported'), NEW j \in 1 .. Len(reported'), i < j
        PROVE  reported'[i] < reported'[j]
    <3>1. i \in 1 .. Len(reported)
      BY <1>5, <1>6, <2>1
    <3>2. CASE j \in 1 .. Len(reported)
      BY <1>6, <2>1, <3>1, <3>2 DEF ReportsInv, Ascending
    <3>3. CASE j = Len(reported')
      BY <1>6, <1>8, <3>1, <3>3
    <3> QED BY <1>5, <1>6, <3>2, <3>3
  <2>2. ASSUME NEW i \in 1 .. Len(reported')
        PROVE  reported'[i] <= unix' \div Day
    <3>0. unix' \div Day = n
      BY <1>1, <1>4
    <3>1. CASE i \in 1 .. Len(reported)
      BY <1>6, <1>8, <3>0, <3>1
    <3>2. CASE i = Len(reported')
      BY <1>6, <3>0, <3>2
    <3> QED BY <1>5, <1>6, <3>1, <3>2
  <2> QED BY <2>1, <2>2 DEF Ascending
<1>10. readyFrom' \in Nat /\ NoneMissed'
  <2>1. CASE readyFrom' = 0
    BY <2>1 DEF NoneMissed
  <2>2. CASE Reportable' /\ readyFrom' = unix'
    BY <1>1, <1>2, <2>2, NoneMissedYet
  <2>3. CASE Reportable' /\ readyFrom' = readyFrom
    <3>1. \A d : ReportTime(d)' = ReportTime(d)
      BY <1>2 DEF ReportTime
    <3>2. \A d : Told(d) => Told(d)'
      BY <1>1, <1>5, <1>6 DEF Told
    <3>3. NoneMissed'
      BY <1>1, <2>3, <3>1, <3>2 DEF ReportsInv, NoneMissed
    <3> QED BY <2>3, <3>3 DEF ReportsInv, Remembered
  <2> QED BY <2>1, <2>2, <2>3, WatchSays
<1>11. Remembered'
  BY <1>1, <1>4, <1>6, <1>10 DEF ReportsInv, Remembered
<1> QED BY <1>9, <1>10, <1>11 DEF ReportsInv

(* Time passes only when no report is due: a day whose time goes by has    *)
(* had its report.                                                         *)
LEMMA ReportsPass ==
  ASSUME ReportsInv, SettingsInv, Ranges, Pass, UNCHANGED report, Watch
  PROVE  ReportsInv'
<1>1. /\ boot = "up" /\ ~ReportDue /\ UNCHANGED <<boot, conf>> /\ now' = now + 1
      /\ unix' = (IF unix = 0 THEN 0 ELSE unix + 1)
      /\ UNCHANGED <<lastReportDay, reported, before>>
  BY DEF Pass, Tick, report
<1>2. /\ unix \in Nat /\ now \in Nat /\ Target \in 0 .. Day - 1 /\ Target' = Target
      /\ Day \in Nat \ {0} /\ Window \in Nat \ {0}
  BY <1>1, TargetInDay DEF SettingsInv, SettingsTypeOK, Target
<1>3. CASE unix = 0
  BY <1>1, <1>2, <1>3, ReportsQuiet
<1>4. CASE unix # 0
  <2>1. unix' = unix + 1
    BY <1>1, <1>4
  <2>2. Ascending'
    <3>1. unix \div Day <= unix' \div Day /\ unix \div Day \in Nat /\ unix' \div Day \in Nat
      BY <1>2, <2>1, DivGrows
    <3>2. \A i \in 1 .. Len(reported) : reported[i] \in Nat /\ reported[i] <= unix \div Day
      BY DEF ReportsInv, Remembered, Ascending
    <3>3. \A i \in 1 .. Len(reported) : reported[i] <= unix' \div Day
      BY <3>1, <3>2
    <3> QED BY <1>1, <3>3 DEF ReportsInv, Ascending
  <2>3. readyFrom' \in Nat /\ NoneMissed'
    <3>1. CASE readyFrom' = 0
      BY <3>1 DEF NoneMissed
    <3>2. CASE Reportable' /\ readyFrom' = unix'
      BY <1>2, <2>1, <3>2, NoneMissedYet
    <3>3. CASE Reportable /\ Reportable' /\ readyFrom' = readyFrom
      <4>1. \A d : (ReportTime(d)' = ReportTime(d)) /\ (Told(d)' <=> Told(d))
        BY <1>1, <1>2 DEF ReportTime, Told
      <4>2. ASSUME NEW d \in Nat, ReportTime(d) = unix PROVE Told(d)
        <5>1. d * Day = Day * d /\ d * Day \in Int
          BY <1>2
        <5>2. unix = Day * d + Target
          BY <1>2, <4>2, <5>1 DEF ReportTime
        <5>3. unix \div Day = d /\ unix % Day = Target
          BY <1>2, <5>2, DivIs, ModIs
        <5>4. Target \in Target .. Target + Window - 1
          BY <1>2
        <5>5. conf.report /\ conf.reportDest # NoKey /\ unix > 0
          BY <1>1, <3>3 DEF Reportable, SettingsInv, Destinations, HasDest
        <5>6. lastReportDay = d
          BY <1>1, <5>3, <5>4, <5>5 DEF ReportDue
        <5>7. reported # <<>> => Len(reported) \in DOMAIN reported
          BY DEF ReportsInv, Remembered
        <5> QED BY <5>6, <5>7 DEF Told, ReportsInv, Remembered
      <4>3. ASSUME NEW d \in Nat, readyFrom <= ReportTime(d), ReportTime(d) < unix + 1, readyFrom # 0
            PROVE  Told(d)
        <5>1. ReportTime(d) \in Int
          BY <1>2 DEF ReportTime
        <5>2. ReportTime(d) < unix \/ ReportTime(d) = unix
          BY <1>2, <4>3, <5>1
        <5> QED BY <4>2, <4>3, <5>2 DEF ReportsInv, NoneMissed
      <4>4. NoneMissed'
        BY <2>1, <3>3, <4>1, <4>3 DEF NoneMissed
      <4> QED BY <3>3, <4>4 DEF ReportsInv, Remembered
    <3> QED BY <3>1, <3>2, <3>3, WatchSays
  <2>4. Remembered'
    BY <1>1, <2>3 DEF ReportsInv, Remembered
  <2> QED BY <2>2, <2>3, <2>4 DEF ReportsInv
<1> QED BY <1>3, <1>4

(* Every step keeps the reports in order.                                  *)
LEMMA ReportsStep ==
  UpkeepInv /\ Ranges /\ Ranges' /\ ReportsInv /\ [Next]_vars => ReportsInv'
<1> SUFFICES ASSUME UpkeepInv, Ranges, Ranges', ReportsInv, [Next]_vars PROVE ReportsInv'
  OBVIOUS
<1>1. CASE UNCHANGED vars
  <2>1. UNCHANGED <<lastReportDay, reported, before, readyFrom, unix, boot, conf>>
    BY <1>1 DEF vars, settings, clock, report
  <2>2. /\ Reportable' <=> Reportable
        /\ \A d : (ReportTime(d)' = ReportTime(d)) /\ (Told(d)' <=> Told(d))
    BY <2>1 DEF Reportable, ReportTime, Target, Told
  <2> QED BY <2>1, <2>2 DEF ReportsInv, Remembered, Ascending, NoneMissed
<1>2. SUFFICES ASSUME Next PROVE ReportsInv'
  BY <1>1
<1>3. SettingsInv /\ SettingsInv' /\ Watch /\ unix \in Nat /\ unix' \in Nat /\ now \in Nat
  <2>1. SettingsInv /\ SettingsInv' /\ Watch
    BY <1>2, UpkeepStep DEF UpkeepInv, Next
  <2> QED BY <2>1 DEF SettingsInv, SettingsTypeOK
<1>4. Day \in Nat \ {0}
  BY UpkeepAssumption
<1>5. Reportable' => Target' \in Nat
  <2>1. Reportable' => boot' = "up"
    BY DEF Reportable
  <2>2. boot' = "up" => Target' \in 0 .. Day - 1
    BY DEF Ranges, TimeOK, Target
  <2> QED BY <1>4, <2>1, <2>2
<1>6. UNCHANGED <<lastReportDay, reported, before, unix>> => ReportsInv'
  BY <1>3, <1>4, <1>5, ReportsQuiet
<1>7. ASSUME NEW t \in Nat, ReportsFrom(t), unix' = t, now' = now, UNCHANGED lastReportDay
      PROVE  ReportsInv'
  BY <1>3, <1>4, <1>5, <1>7, ReportsSet
<1>8. CASE (Setting \/ Pass) /\ UNCHANGED <<table, tuning, schedule, report>>
  <2>1. CASE Setting
    <3>1. unix' = unix
      BY <2>1 DEF Setting, ReportOn, ReportOff, ReportClear, AlertOn, AlertOff, AlertClear,
             Save, Configure, AdminLogin, SetName, SetLat, SetLon, NodeType, Identify,
             Record, CheckStatsSave, SaveStats, clock
    <3> QED BY <1>6, <1>8, <3>1 DEF report
  <2>2. CASE Pass
    BY <1>3, <1>8, <2>2, ReportsPass
  <2> QED BY <1>8, <2>1, <2>2
<1>9. CASE Start
  BY <1>6, <1>9 DEF Start, Startup, LoadConfig, LoadStats, LoadIdentity, clock, report
<1>10. CASE \/ \E s \in scene.sets : SetOption(s.field, s.value)
            \/ Reset \/ ChangeKey
            \/ \E text \in scene.texts : DestByName(text) \/ SendMessage(text)
  BY <1>6, <1>10
  DEF SetOption, SetField, Reset, FactoryReset, Configure, ChangeKey, NewId, Identify,
      DestByName, AlertDest, ReportDest, SendMessage, settings, clock, report
<1>11. CASE \/ \E f \in scene.freqs : SetFreq(f)
            \/ \E f \in scene.freqs, m \in scene.mods, span \in scene.spans : TempRadio(f, m, span)
            \/ TempRadioOff \/ ExpireTempRadio
  BY <1>6, <1>11
  DEF SetFreq, TempRadio, TempRadioOff, ExpireTempRadio, Retune, settings, clock, report
<1>12. CASE \E t \in scene.times : SetClock(t)
  <2>1. PICK t \in scene.times : SetClock(t)
    BY <1>12
  <2>2. t \in Nat
    BY <1>3, SettingsAssumption DEF SettingsInv, SettingsTypeOK
  <2> QED BY <1>7, <2>1, <2>2 DEF SetClock, SetTime
<1>13. CASE \E a \in scene.adverts : HearAdvert(a)
  <2>1. PICK a \in scene.adverts : HearAdvert(a)
    BY <1>13
  <2>2. CASE UNCHANGED <<settings, reported, before>>
    BY <1>6, <2>1, <2>2 DEF HearAdvert, settings, clock
  <2>3. CASE a.time > 0 /\ (Sync(a.time) \/ SetTime(a.time)) /\ ReportsFrom(a.time)
    <3>1. a.time \in Nat
      <4>1. unix' = a.time
        BY <2>3 DEF Sync, SetTime
      <4> QED BY <1>3, <4>1
    <3> QED BY <1>7, <2>1, <2>3, <3>1 DEF HearAdvert, Sync, SetTime
  <2> QED BY <2>1, <2>2, <2>3 DEF HearAdvert
<1>14. CASE Restart \/ DoReboot
  <2>1. /\ lastReportDay' = 0 /\ reported' = <<>> /\ before' = 0 /\ boot' = "config"
    BY <1>14 DEF Restart, DoReboot, PowerLoss
  <2>2. readyFrom' = 0
    BY <1>3, <2>1 DEF Watch, Reportable
  <2>3. reported' \in Seq(Nat) /\ Len(reported') = 0
    BY <2>1
  <2> QED BY <2>1, <2>2, <2>3 DEF ReportsInv, Remembered, Ascending, NoneMissed
<1>15. CASE \E forget \in BOOLEAN : RemoteReboot(forget)
  <2>1. CASE ForgetTime /\ ReportsFrom(0) /\ UNCHANGED lastReportDay
    BY <1>7, <2>1 DEF ForgetTime
  <2>2. CASE UNCHANGED <<settings, reported, before, lastReportDay>>
    BY <1>6, <2>2 DEF settings, clock
  <2> QED BY <1>15, <2>1, <2>2 DEF RemoteReboot
<1>16. CASE CheckDailyReport
  BY <1>3, <1>16, ReportsAdd
<1> QED BY <1>2, <1>8, <1>9, <1>10, <1>11, <1>12, <1>13, <1>14, <1>15, <1>16 DEF Next, Step

(* What the run checks follows.                                            *)
LEMMA ReportsGive ==
  SettingsInv /\ Ranges /\ ReportsInv => ReportedOnce
<1> SUFFICES ASSUME SettingsInv, Ranges, ReportsInv PROVE ReportedOnce
  OBVIOUS
<1>1. reported \in Seq(Nat) /\ DOMAIN reported = 1 .. Len(reported) /\ Len(reported) \in Nat
  BY DEF ReportsInv, Remembered
<1>2. ASSUME NEW i \in DOMAIN reported, NEW j \in DOMAIN reported, reported[i] = reported[j]
      PROVE  i = j
  <2>1. reported[i] \in Nat /\ reported[j] \in Nat /\ i \in Int /\ j \in Int
    BY <1>1
  <2>2. ~(i < j) /\ ~(j < i)
    BY <1>1, <1>2, <2>1 DEF ReportsInv, Ascending
  <2> QED BY <2>1, <2>2
<1>3. ASSUME NEW d \in 0 .. unix \div Day, boot = "up", readyFrom # 0,
             readyFrom <= d * Day + Target, unix >= d * Day + Target + Window
      PROVE  d = before \/ \E i \in DOMAIN reported : reported[i] = d
  <2>1. Target \in Nat /\ Day \in Nat \ {0} /\ Window \in Nat \ {0} /\ unix \in Nat /\ d \in Nat
    BY <1>3, TargetInDay DEF SettingsInv, SettingsTypeOK
  <2>2. PICK t \in Int : t = ReportTime(d)
    BY <2>1 DEF ReportTime
  <2>3. readyFrom <= t /\ unix >= t + Window
    BY <1>3, <2>2 DEF ReportTime
  <2>4. t < unix
    BY <2>1, <2>3
  <2>5. Told(d)
    BY <1>3, <2>1, <2>2, <2>3, <2>4 DEF ReportsInv, NoneMissed
  <2> QED BY <2>5 DEF Told
<1> QED BY <1>2, <1>3 DEF ReportedOnce

(* No report and no day at first.                                          *)
LEMMA ReportsStart == Init => ReportsInv
<1> SUFFICES ASSUME Init PROVE ReportsInv
  OBVIOUS
<1>1. lastReportDay = 0 /\ reported = <<>> /\ before = 0 /\ readyFrom = 0
  BY DEF Init
<1>2. reported \in Seq(Nat) /\ Len(reported) = 0
  BY <1>1
<1> QED BY <1>1, <1>2 DEF ReportsInv, Remembered, Ascending, NoneMissed

(* All of the invariants of the node's upkeep.                             *)
LEMMA ReportsInvariant == Spec => [](UpkeepInv /\ Ranges /\ ReportsInv)
<1>1. Init => UpkeepInv /\ Ranges /\ ReportsInv
  BY UpkeepStart, RangesStart, ReportsStart DEF Init
<1>2. UpkeepInv /\ Ranges /\ [Next]_vars => Ranges'
  BY StepOfSettings, RangesStep DEF UpkeepInv
<1>3. UpkeepInv /\ Ranges /\ ReportsInv /\ [Next]_vars => (UpkeepInv /\ Ranges /\ ReportsInv)'
  BY <1>2, UpkeepStep, ReportsStep
<1> QED BY <1>1, <1>3, PTL DEF Spec

(* While the clock runs undisturbed, no day is reported twice and none is  *)
(* left out, at whatever time of the day the report is and whichever day   *)
(* was reported before.                                                    *)
THEOREM AlwaysReportedOnce == Spec => []ReportedOnce
<1>1. UpkeepInv /\ Ranges /\ ReportsInv => ReportedOnce
  BY ReportsGive DEF UpkeepInv
<1> QED BY <1>1, ReportsInvariant, PTL

-----------------------------------------------------------------------------
(***************************************************************************)
(* ADVERTs.  What buildAppdata makes is never mistaken for data without    *)
(* flags, nor its location for one that is a byte short: the highest byte  *)
(* of a longitude is not a letter.                                         *)
(***************************************************************************)

(* 32 bits make the number again.                                          *)
LEMMA NumberOfBytes ==
  ASSUME NEW x \in Int, -180000000 <= x, x <= 180000000
  PROVE  /\ Number(Bytes(x)) = x
         /\ Bytes(x)[4] \in 0 .. 255 /\ Bytes(x)[4] \notin Letter
         /\ Bytes(x) \in Seq(Int) /\ Len(Bytes(x)) = 4
<1> DEFINE y == x \div 16777216
<1>1. x = (x % 256) + 256 * ((x \div 256) % 256) + 65536 * ((x \div 65536) % 256)
            + 16777216 * y
  BY SMT
<1>2. y \in Int /\ y <= 10 /\ -11 <= y
  BY SMT
<1>3. /\ Bytes(x)[1] = x % 256 /\ Bytes(x)[2] = (x \div 256) % 256
      /\ Bytes(x)[3] = (x \div 65536) % 256 /\ Bytes(x)[4] = y % 256
  BY SMT DEF Bytes
<1> HIDE DEF y
<1>4. /\ y % 256 < 128 => y % 256 = y /\ y % 256 <= 10
      /\ ~(y % 256 < 128) => (y % 256) - 256 = y /\ y % 256 >= 245
      /\ y % 256 \in 0 .. 255
  BY <1>2, SMT
<1>5. Signed(Bytes(x)[4]) = y
  BY <1>3, <1>4, SMT DEF Signed
<1>6. Bytes(x)[4] \in 0 .. 255 /\ Bytes(x)[4] \notin Letter
  BY <1>3, <1>4, SMT DEF Letter
<1>7. Number(Bytes(x)) = x
  BY <1>1, <1>3, <1>5, SMT DEF Number
<1>8. Bytes(x) \in Seq(Int) /\ Len(Bytes(x)) = 4
  BY SMT DEF Bytes
<1> QED BY <1>6, <1>7, <1>8

(* The flags tell the type and whether there is a location.                *)
LEMMA FlagsSay ==
  ASSUME NEW type \in {"chat", "repeater"}, NEW lat, NEW lon
  PROVE  LET f == FlagsOf(type, lat, lon) IN
           /\ f \in Int /\ f >= 128 /\ f % 16 = TypeCode[type] /\ f % 16 <= 4
           /\ (f \div 16) % 2 = 1 <=> HasLocation(lat, lon)
<1>1. PICK c \in 1 .. 2 : c = TypeCode[type]
  BY DEF TypeCode
<1>2. PICK b \in 0 .. 1 : b = IF HasLocation(lat, lon) THEN 1 ELSE 0
  OBVIOUS
<1>3. PICK f \in Int : f = 128 + c + 16 * b
  OBVIOUS
<1>4. FlagsOf(type, lat, lon) = f
  BY <1>1, <1>2, <1>3, SMT DEF FlagsOf
<1>5. f >= 128 /\ f % 16 = c /\ (f \div 16) % 2 = b
  BY <1>3, SMT
<1> QED BY <1>1, <1>2, <1>4, <1>5

(* A name has no zero and fits: all of it is read.                         *)
LEMMA NameIsRead ==
  ASSUME NEW B, B \subseteq Int, 0 \notin B,
         NEW n \in Seq(B), Len(n) \in 1 .. NameMax - 1
  PROVE  n \in Seq(Int) /\ Len(n) \in Nat \ {0} /\ CString(n) = n
<1> DEFINE P(m) == /\ \A i \in DOMAIN m : m[i] # 0
                   /\ Len(m) < NameMax
                   /\ Len(m) = Len(n) \/ Len(m) = NameMax - 1 \/ n[Len(m) + 1] = 0
           C == {SubSeq(n, 1, k) : k \in 0 .. Len(n)}
<1>1. Len(n) \in Nat \ {0} /\ NameMax \in Nat /\ DOMAIN n = 1 .. Len(n) /\ n # <<>>
  <2>1. Len(n) \in Nat /\ DOMAIN n = 1 .. Len(n)
    BY LenProperties
  <2>2. n # <<>>
    BY EmptySeq
  <2> QED BY <2>1, <2>2, NameMaxAssumption
<1>2. \A i \in 1 .. Len(n) : n[i] \in B
  BY ElementOfSeq
<1>3. n \in C
  <2>1. SubSeq(n, 1, Len(n)) = n
    BY SubSeqFull
  <2>2. Len(n) \in 0 .. Len(n)
    BY <1>1
  <2> QED BY <2>1, <2>2
<1>4. P(n)
  <2>1. Len(n) < NameMax
    BY <1>1
  <2>2. \A i \in DOMAIN n : n[i] # 0
    BY <1>1, <1>2
  <2> QED BY <2>1, <2>2
<1>5. ASSUME NEW m \in C, P(m) PROVE m = n
  <2>1. PICK k \in 0 .. Len(n) : m = SubSeq(n, 1, k)
    OBVIOUS
  <2>2. k \in Nat /\ k <= Len(n)
    BY <1>1
  <2>3. Len(m) = k
    <3>1. \A i \in 1 .. k : n[i] \in B
      BY <1>1, <1>2, <2>2
    <3>2. Len(SubSeq(n, 1, k)) = IF 1 <= k THEN k - 1 + 1 ELSE 0
      BY <2>2, <3>1, SubSeqProperties
    <3> QED BY <2>1, <2>2, <3>2
  <2>4. k < Len(n) => n[k + 1] # 0
    BY <1>1, <1>2, <2>2
  <2>5. Len(m) = Len(n) \/ Len(m) = NameMax - 1 \/ n[Len(m) + 1] = 0
    BY <1>5
  <2>6. k = Len(n)
    <3> HIDE DEF P, C
    <3>n. PICK l \in Nat \ {0} : l = Len(n)
      BY <1>1
    <3>1. SUFFICES ASSUME k < l PROVE FALSE
      BY <2>2, <3>n
    <3>2. n[Len(m) + 1] # 0
      BY <2>3, <2>4, <3>1, <3>n
    <3>3. k \in Nat /\ NameMax \in Nat /\ l <= NameMax - 1
      BY <1>1, <2>2, <3>n
    <3>4. k # l /\ k # NameMax - 1
      BY <3>1, <3>3
    <3> QED BY <2>3, <2>5, <3>2, <3>4, <3>n, Zenon
  <2> QED BY <2>1, <2>6, SubSeqFull
<1>6. CString(n) = CHOOSE m \in C : P(m)
  BY <1>1, Zenon DEF CString
<1> HIDE DEF P, C
<1>7. (CHOOSE m \in C : P(m)) = n
  BY <1>3, <1>4, <1>5
<1>8. n \in Seq(Int)
  BY SeqMonotonic
<1> QED BY <1>1, <1>6, <1>7, <1>8

(* Two sequences in a row: length, elements and parts.                     *)
IsRow(s, t, k) ==
  /\ s \o t \in Seq(Int) /\ Len(s \o t) = k + Len(t)
  /\ \A i \in 1 .. k : (s \o t)[i] = s[i]
  /\ \A i \in 1 .. Len(t) : (s \o t)[k + i] = t[i]
  /\ \A i, j \in 1 .. k : SubSeq(s \o t, i, j) = SubSeq(s, i, j)
  /\ \A i, j \in 1 .. Len(t) : SubSeq(s \o t, k + i, k + j) = SubSeq(t, i, j)

(* The parts of two sequences in a row.                                    *)
LEMMA PartsInARow ==
  ASSUME NEW s \in Seq(Int), NEW t \in Seq(Int), NEW k \in Nat, Len(s) = k
  PROVE  /\ \A i, j \in 1 .. k : SubSeq(s \o t, i, j) = SubSeq(s, i, j)
         /\ \A i, j \in 1 .. Len(t) : SubSeq(s \o t, k + i, k + j) = SubSeq(t, i, j)
<1>1. Len(t) \in Nat
  BY LenProperties, Zenon
<1>2. ASSUME NEW i \in 1 .. k, NEW j \in 1 .. k PROVE SubSeq(s \o t, i, j) = SubSeq(s, i, j)
  BY SubSeqOfConcat1, Zenon
<1>3. ASSUME NEW i \in 1 .. Len(t), NEW j \in 1 .. Len(t)
      PROVE  SubSeq(s \o t, k + i, k + j) = SubSeq(t, i, j)
  <2>1. PICK x \in Len(s) + 1 .. Len(s) + Len(t), y \in Len(s) + 1 .. Len(s) + Len(t) :
          x = k + i /\ y = k + j /\ x - Len(s) = i /\ y - Len(s) = j
    BY <1>1
  <2>2. SubSeq(s \o t, x, y) = SubSeq(t, x - Len(s), y - Len(s))
    BY SubSeqOfConcat2, Zenon
  <2> QED BY <2>1, <2>2, Zenon
<1> QED BY <1>2, <1>3, Zenon

(* And their elements.                                                     *)
LEMMA InARow ==
  ASSUME NEW s \in Seq(Int), NEW t \in Seq(Int), NEW k \in Nat, Len(s) = k
  PROVE  IsRow(s, t, k)
<1>1. Len(t) \in Nat
  BY LenProperties, Zenon
<1>2. /\ s \o t \in Seq(Int) /\ Len(s \o t) = Len(s) + Len(t)
      /\ \A i \in 1 .. Len(s) + Len(t) :
            (s \o t)[i] = IF i <= Len(s) THEN s[i] ELSE t[i - Len(s)]
  BY ConcatProperties, Zenon
<1>3. ASSUME NEW i \in 1 .. k PROVE (s \o t)[i] = s[i]
  <2>1. i \in 1 .. Len(s) + Len(t) /\ i <= Len(s)
    BY <1>1
  <2> QED BY <1>2, <2>1, Zenon
<1>4. ASSUME NEW i \in 1 .. Len(t) PROVE (s \o t)[k + i] = t[i]
  <2>1. k + i \in 1 .. Len(s) + Len(t) /\ ~(k + i <= Len(s)) /\ (k + i) - Len(s) = i
    BY <1>1
  <2>2. (s \o t)[k + i] = t[(k + i) - Len(s)]
    BY <1>2, <2>1, Zenon
  <2> QED BY <2>1, <2>2
<1>5. Len(s \o t) = k + Len(t)
  BY <1>2
<1> QED BY <1>2, <1>3, <1>4, <1>5, PartsInARow, Zenon DEF IsRow

(* Data with a location and its parts.                                     *)
IsData(d, f, a, b, n) ==
  /\ d[1] = f /\ Len(d) = 9 + Len(n) /\ d[9] = b[4]
  /\ SubSeq(d, 2, 5) = a /\ SubSeq(d, 6, 9) = b /\ From(d, 10) = n

(* Flags, two numbers and a name are such data.                            *)
LEMMA PartsOf ==
  ASSUME NEW f \in Int, NEW a \in Seq(Int), NEW b \in Seq(Int), NEW n \in Seq(Int),
         Len(a) = 4, Len(b) = 4, Len(n) \in Nat \ {0}
  PROVE  IsData(<<f>> \o (a \o b) \o n, f, a, b, n)
<1> DEFINE p == <<f>>
           c == a \o b
           h == p \o c
           d == h \o n
<1>1. p \in Seq(Int) /\ Len(p) = 1 /\ p[1] = f
  OBVIOUS
<1>2. d = <<f>> \o (a \o b) \o n
  OBVIOUS
<1> HIDE DEF p
<1>k. 1 \in Nat /\ 4 \in Nat /\ 9 \in Nat
  OBVIOUS
<1>3. /\ c \in Seq(Int) /\ Len(c) = 4 + Len(b)
      /\ \A i \in 1 .. Len(b) : c[4 + i] = b[i]
      /\ \A i, j \in 1 .. 4 : SubSeq(c, i, j) = SubSeq(a, i, j)
      /\ \A i, j \in 1 .. Len(b) : SubSeq(c, 4 + i, 4 + j) = SubSeq(b, i, j)
  <2>1. IsRow(a, b, 4)
    BY <1>k, InARow
  <2> QED BY <2>1, Zenon DEF IsRow
<1> HIDE DEF c
<1>4. /\ Len(c) = 8 /\ c[8] = b[4]
      /\ SubSeq(c, 1, 4) = SubSeq(a, 1, 4) /\ SubSeq(c, 5, 8) = SubSeq(b, 1, 4)
  <2>1. Len(c) = 8 /\ 1 \in 1 .. 4 /\ 4 \in 1 .. 4 /\ Len(b) = 4 /\ 4 + 1 = 5 /\ 4 + 4 = 8
    BY <1>3
  <2>2. c[4 + 4] = b[4] /\ SubSeq(c, 1, 4) = SubSeq(a, 1, 4)
    BY <1>3, <2>1
  <2>3. SubSeq(c, 4 + 1, 4 + 4) = SubSeq(b, 1, 4)
    BY <1>3, <2>1
  <2> QED BY <2>1, <2>2, <2>3
<1>5. /\ h \in Seq(Int) /\ Len(h) = 1 + Len(c)
      /\ \A i \in 1 .. 1 : h[i] = p[i]
      /\ \A i \in 1 .. Len(c) : h[1 + i] = c[i]
      /\ \A i, j \in 1 .. Len(c) : SubSeq(h, 1 + i, 1 + j) = SubSeq(c, i, j)
  <2>1. IsRow(p, c, 1)
    BY <1>1, <1>3, <1>k, InARow
  <2> QED BY <2>1, Zenon DEF IsRow
<1> HIDE DEF h
<1>6. /\ Len(h) = 9 /\ h[1] = f /\ h[9] = b[4]
      /\ SubSeq(h, 2, 5) = SubSeq(a, 1, 4) /\ SubSeq(h, 6, 9) = SubSeq(b, 1, 4)
  <2>1. /\ Len(h) = 9 /\ 1 + 1 = 2 /\ 1 + 4 = 5 /\ 1 + 5 = 6 /\ 1 + 8 = 9
        /\ \A i \in {1, 4, 5, 8} : i \in 1 .. Len(c)
        /\ 1 \in 1 .. 1
    BY <1>4, <1>5
  <2>2. h[1] = p[1] /\ h[1 + 8] = c[8]
    BY <1>5, <2>1
  <2>3. SubSeq(h, 1 + 1, 1 + 4) = SubSeq(c, 1, 4) /\ SubSeq(h, 1 + 5, 1 + 8) = SubSeq(c, 5, 8)
    BY <1>5, <2>1
  <2> QED BY <1>1, <1>4, <2>1, <2>2, <2>3
<1>7. /\ Len(d) = 9 + Len(n)
      /\ \A i \in 1 .. 9 : d[i] = h[i]
      /\ \A i, j \in 1 .. 9 : SubSeq(d, i, j) = SubSeq(h, i, j)
      /\ \A i, j \in 1 .. Len(n) : SubSeq(d, 9 + i, 9 + j) = SubSeq(n, i, j)
  <2>1. IsRow(h, n, 9)
    BY <1>5, <1>6, <1>k, InARow
  <2> QED BY <2>1, Zenon DEF IsRow
<1> HIDE DEF d
<1>8. SubSeq(a, 1, 4) = a /\ SubSeq(b, 1, 4) = b /\ SubSeq(n, 1, Len(n)) = n
  <2>1. SubSeq(a, 1, Len(a)) = a /\ SubSeq(b, 1, Len(b)) = b /\ SubSeq(n, 1, Len(n)) = n
    BY SubSeqFull, Zenon
  <2> QED BY <2>1, Zenon
<1>9. d[1] = f /\ d[9] = b[4] /\ SubSeq(d, 2, 5) = a /\ SubSeq(d, 6, 9) = b
  <2>1. \A i \in {1, 2, 5, 6, 9} : i \in 1 .. 9
    OBVIOUS
  <2>2. /\ d[1] = h[1] /\ d[9] = h[9]
        /\ SubSeq(d, 2, 5) = SubSeq(h, 2, 5) /\ SubSeq(d, 6, 9) = SubSeq(h, 6, 9)
    BY <1>7, <2>1
  <2> QED BY <1>6, <1>8, <2>2
<1>10. From(d, 10) = n
  <2>1. 1 \in 1 .. Len(n) /\ Len(n) \in 1 .. Len(n) /\ 9 + 1 = 10
    OBVIOUS
  <2>2. SubSeq(d, 9 + 1, 9 + Len(n)) = SubSeq(n, 1, Len(n))
    BY <1>7, <2>1
  <2> QED BY <1>7, <1>8, <2>1, <2>2 DEF From
<1> QED BY <1>2, <1>7, <1>9, <1>10, Zenon DEF IsData

(* Without a location the name follows the flags.                          *)
LEMMA StartOf ==
  ASSUME NEW f \in Int, NEW n \in Seq(Int), Len(n) \in Nat \ {0}
  PROVE  LET d == <<f>> \o <<>> \o n IN d[1] = f /\ From(d, 2) = n
<1> DEFINE p == <<f>>
           d == p \o n
<1>1. p \in Seq(Int) /\ Len(p) = 1 /\ p[1] = f /\ 1 \in Nat
  OBVIOUS
<1>2. <<f>> \o <<>> \o n = d
  <2>1. <<f>> \o <<>> = <<f>>
    OBVIOUS
  <2> QED BY <2>1, Zenon
<1> HIDE DEF p
<1>3. /\ Len(d) = 1 + Len(n)
      /\ \A i \in 1 .. 1 : d[i] = p[i]
      /\ \A i, j \in 1 .. Len(n) : SubSeq(d, 1 + i, 1 + j) = SubSeq(n, i, j)
  <2>1. IsRow(p, n, 1)
    BY <1>1, InARow
  <2> QED BY <2>1, Zenon DEF IsRow
<1> HIDE DEF d
<1>4. 1 \in 1 .. 1 /\ 1 \in 1 .. Len(n) /\ Len(n) \in 1 .. Len(n) /\ 1 + 1 = 2
  OBVIOUS
<1>5. SubSeq(n, 1, Len(n)) = n
  BY SubSeqFull, Zenon
<1>6. SubSeq(d, 1 + 1, 1 + Len(n)) = SubSeq(n, 1, Len(n))
  BY <1>3, <1>4
<1>7. d[1] = f
  BY <1>1, <1>3, <1>4
<1>8. From(d, 2) = n
  BY <1>3, <1>4, <1>5, <1>6 DEF From
<1> QED BY <1>2, <1>7, <1>8, Zenon

(* The receiver reads what the sender has set.                             *)
LEMMA ReadsWhatWasBuilt ==
  ASSUME NEW type \in {"chat", "repeater"}, NEW lat \in Latitudes, NEW lon \in Longitudes,
         NEW n \in Seq(1 .. 255), Len(n) \in 1 .. NameMax - 1
  PROVE  Parsed(Appdata(type, lat, lon, n)) = Info(TypeCode[type], lat, lon, n)
<1> DEFINE f == FlagsOf(type, lat, lon)
           d == Appdata(type, lat, lon, n)
<1>1. /\ f \in Int /\ f >= 128 /\ f % 16 = TypeCode[type] /\ f % 16 <= 4
      /\ (f \div 16) % 2 = 1 <=> HasLocation(lat, lon)
  BY FlagsSay
<1>2. /\ lat \in Int /\ -180000000 <= lat /\ lat <= 180000000
      /\ lon \in Int /\ -180000000 <= lon /\ lon <= 180000000
  BY PlaceRange, SMT
<1>3. d = <<f>> \o Location(lat, lon) \o n
  BY DEF Appdata
<1>4. n \in Seq(Int) /\ Len(n) \in Nat \ {0} /\ CString(n) = n
  <2>1. 1 .. 255 \subseteq Int /\ 0 \notin 1 .. 255
    OBVIOUS
  <2> QED BY <2>1, NameIsRead, Zenon
<1> HIDE DEF f, d
<1>5. CASE HasLocation(lat, lon)
  <2>1. d = <<f>> \o (Bytes(lat) \o Bytes(lon)) \o n
    BY <1>3, <1>5 DEF Location
  <2>2. /\ Number(Bytes(lat)) = lat /\ Bytes(lat) \in Seq(Int) /\ Len(Bytes(lat)) = 4
        /\ Number(Bytes(lon)) = lon /\ Bytes(lon) \in Seq(Int) /\ Len(Bytes(lon)) = 4
        /\ Bytes(lon)[4] \notin Letter
    BY <1>2, NumberOfBytes
  <2>3. /\ d[1] = f /\ Len(d) = 9 + Len(n) /\ d[9] = Bytes(lon)[4]
        /\ SubSeq(d, 2, 5) = Bytes(lat) /\ SubSeq(d, 6, 9) = Bytes(lon) /\ From(d, 10) = n
    <3>1. IsData(<<f>> \o (Bytes(lat) \o Bytes(lon)) \o n, f, Bytes(lat), Bytes(lon), n)
      BY <1>1, <1>4, <2>2, PartsOf
    <3> QED BY <2>1, <3>1, Zenon DEF IsData
  <2>4. Len(d) >= 9
    BY <2>3
  <2>5. ValidFlags(d) /\ Located(d) /\ ~ShortLocation(d)
    BY <1>1, <1>5, <2>2, <2>3, <2>4 DEF ValidFlags, Located, ShortLocation
  <2>6. WithFlags(d) = Info(d[1] % 16, Number(SubSeq(d, 2, 5)), Number(SubSeq(d, 6, 9)),
                            CString(From(d, 10)))
    BY <2>5, SMT DEF WithFlags
  <2>7. Parsed(d) = WithFlags(d)
    BY <2>5, Zenon DEF Parsed
  <2>8. d[1] % 16 = TypeCode[type]
    BY <1>1, <2>3
  <2>9. Parsed(d) = Info(TypeCode[type], lat, lon, n)
    BY <1>4, <2>2, <2>3, <2>6, <2>7, <2>8, Zenon
  <2> QED BY <2>9 DEF d
<1>6. CASE ~HasLocation(lat, lon)
  <2>1. lat = 0 /\ lon = 0
    BY <1>6 DEF HasLocation
  <2>2. d = <<f>> \o <<>> \o n
    BY <1>3, <1>6 DEF Location
  <2>3. d[1] = f /\ From(d, 2) = n
    BY <1>1, <1>4, <2>2, StartOf, SMT
  <2>4. ValidFlags(d) /\ ~Located(d)
    BY <1>1, <1>6, <2>3 DEF ValidFlags, Located
  <2>5. WithFlags(d) = Info(d[1] % 16, 0, 0, CString(From(d, 2)))
    BY <2>4, SMT DEF WithFlags
  <2>6. Parsed(d) = WithFlags(d)
    BY <2>4, Zenon DEF Parsed
  <2>7. d[1] % 16 = TypeCode[type]
    BY <1>1, <2>3
  <2>8. Parsed(d) = Info(TypeCode[type], lat, lon, n)
    BY <1>4, <2>1, <2>3, <2>5, <2>6, <2>7, Zenon
  <2> QED BY <2>8 DEF d
<1> QED BY <1>5, <1>6

(* Every receiver of the node's ADVERT reads the type, the location and    *)
(* the name that its owner has set, after whatever commands and reboots.   *)
THEOREM AdvertsAlwaysTellIdentity == Spec => []AdvertTellsIdentity
<1>1. UpkeepInv /\ Ranges => AdvertTellsIdentity
  <2> SUFFICES ASSUME UpkeepInv, Ranges, boot = "up"
               PROVE  Parsed(Appdata(ident.type, ident.lat, ident.lon, TextOf[ident.name])) =
                        Info(TypeCode[ident.type], ident.lat, ident.lon, TextOf[ident.name])
    BY DEF AdvertTellsIdentity
  <2>1. ident \in Identity
    BY UpFacts DEF UpkeepInv
  <2>2. ident.type \in {"chat", "repeater"} /\ ident.name \in Names
    BY <2>1 DEF Identity
  <2>3. ident.lat \in Latitudes /\ ident.lon \in Longitudes
    BY DEF Ranges, PlaceOK
  <2>4. TextOf[ident.name] \in Seq(1 .. 255) /\ Len(TextOf[ident.name]) \in 1 .. NameMax - 1
    BY <2>2, UpkeepAssumption
  <2> QED BY <2>2, <2>3, <2>4, ReadsWhatWasBuilt
<1> QED BY <1>1, ReportsInvariant, PTL
=============================================================================
