------------------------------- MODULE Upkeep -------------------------------
(***************************************************************************)
(* The settings with what depends on them in the rest of main.cpp: the     *)
(* contacts and the messages to them, the parameters of the radio, for     *)
(* good and for a while, the reboot that a remote command schedules, and   *)
(* the daily report.  All of this is in RAM only.                          *)
(*                                                                         *)
(* The unit of time is longer than a round of loop(), also in deep sleep,  *)
(* from which at least the watchdog's interrupt wakes it.                  *)
(***************************************************************************)
EXTENDS Settings, ContactTable, AdvertFormat

CONSTANTS
  Base,        \* MC_FREQUENCY and the other parameters: [freq, mod]
  RebootDelay, \* 500 ms
  Day, Window, \* 86400 s, 60 s
  TextOf       \* TextOf[n]: the bytes of a name of this node
               \* scenes also have adverts, texts, freqs, mods and spans, the
               \* inputs of the actions below

ASSUME UpkeepAssumption ==
  /\ {"rxboost", "maxhops", "reportAt"} \subseteq Fields
  /\ {RebootDelay, Day, Window} \subseteq Nat \ {0}
  /\ RebootDelay < Wrap \div 2
  /\ \A t \in Times : t > Day
  /\ \A n \in Names : TextOf[n] \in Seq(1 .. 255) /\ Len(TextOf[n]) \in 1 .. NameMax - 1
  /\ DefaultOf["reportAt"] \in 0 .. Day - 1
  /\ \A s \in Scenes :
       /\ \A x \in s.sets : x.field = "reportAt" => x.value \in 0 .. Day - 1
       /\ s.spans \subseteq 0 .. (Wrap \div 2) - 1
       /\ \A a \in s.adverts : a.key \in Keys /\ a.time \in s.times \cup {0}

VARIABLES
  contacts,
  radio,         \* what the chip is set to: freq, mod, gain
  temp,          \* temporary parameters: active, freq, mod, expire (0: never)
  reboot,        \* pendingReboot (on) and rebootTime (at)
  lastReportDay,
  rekeyed,       \* history: "newid" since the boot
  announced,     \* history: keys and names in ADVERTs since the boot
  deadline,      \* history: of temp and of reboot, in time that does not wrap
  reported,      \* history: the days of reports since the clock was set
  before,        \* history: lastReportDay when the clock was set
  readyFrom      \* history: since when reports have been possible, or 0

table    == <<contacts, rekeyed, announced>>
tuning   == <<radio, temp>>
schedule == <<reboot, deadline>>
report   == <<lastReportDay, reported, before>>
vars     == <<settings, table, tuning, schedule, report, readyFrom>>

(***************************************************************************)
(* The radio.                                                              *)
(***************************************************************************)
NoTemp == [active |-> FALSE, freq |-> Base.freq, mod |-> Base.mod, expire |-> 0]

(* getCurrentFrequency and the others; setupRadio and applyPowerSettings.  *)
Tuned(t, c) ==
  [freq |-> IF t.active THEN t.freq ELSE Base.freq,
   mod  |-> IF t.active THEN t.mod ELSE Base.mod,
   gain |-> c.set["rxboost"]]

Retune(t) ==
  /\ boot = "up"
  /\ temp' = t
  /\ radio' = Tuned(t, conf)
  /\ UNCHANGED <<settings, table, reboot, report>>

(* "set freq": the expiry of other temporary parameters stays in force.    *)
SetFreq(f) ==
  /\ Retune([temp EXCEPT !.active = TRUE, !.freq = f,
                         !.mod = IF temp.active THEN @ ELSE Base.mod])
  /\ UNCHANGED deadline

(* "tempradio" and "set radio", for a span of time, or 0.                  *)
TempRadio(f, m, span) ==
  /\ Retune([active |-> TRUE, freq |-> f, mod |-> m,
             expire |-> IF span = 0 THEN 0 ELSE (millis + span) % Wrap])
  /\ deadline' = [deadline EXCEPT !.temp = IF span = 0 THEN {} ELSE {now + span}]

(* Mutant: the time of an earlier expiry stays.                            *)
TempRadioOff_KeepsExpiry ==
  /\ temp.active
  /\ Retune([temp EXCEPT !.active = FALSE])
  /\ deadline' = [deadline EXCEPT !.temp = {}]

TempRadioOff ==
  /\ temp.active
  /\ Retune([temp EXCEPT !.active = FALSE, !.expire = 0])
  /\ deadline' = [deadline EXCEPT !.temp = {}]

(* Mutant: without the sign.                                               *)
Due_Unsigned(t) == millis >= t

(* (int32_t)(millis() - t) >= 0                                            *)
Due(t) == Since(t) < Wrap \div 2

TempExpired == temp.active /\ temp.expire > 0 /\ Due(temp.expire)

ExpireTempRadio == boot = "up" /\ TempExpired /\ TempRadioOff

(* A setting that only counts when it is used; the gain of the receiver is *)
(* set at once.                                                            *)
SetOption(field, value) ==
  /\ SetField(field, value)
  /\ radio' = IF field = "rxboost" THEN [radio EXCEPT !.gain = value] ELSE radio
  /\ UNCHANGED <<table, temp, schedule, report>>

(* Mutant: without applyPowerSettings.                                     *)
Reset_KeepsGain ==
  /\ FactoryReset
  /\ UNCHANGED <<table, tuning, schedule, report>>

(* "reset": temporary parameters stay.                                     *)
Reset ==
  /\ FactoryReset
  /\ radio' = [radio EXCEPT !.gain = conf'.set["rxboost"]]
  /\ UNCHANGED <<table, temp, schedule, report>>

(***************************************************************************)
(* Rebooting.                                                              *)
(***************************************************************************)
(* All that is in RAM goes.                                                *)
Restart ==
  /\ PowerLoss
  /\ contacts' = Empty
  /\ radio' = Blank
  /\ temp' = NoTemp
  /\ reboot' = [on |-> FALSE, at |-> 0]
  /\ lastReportDay' = 0
  /\ rekeyed' = FALSE
  /\ announced' = {}
  /\ deadline' = [temp |-> {}, reboot |-> {}]
  /\ reported' = <<>>
  /\ before' = 0

(* The end of setup().                                                     *)
Start ==
  /\ Startup
  /\ radio' = IF boot' = "up" THEN Tuned(temp, conf) ELSE Blank
  /\ UNCHANGED <<table, temp, schedule, report>>

(* With another time, the history of the reports begins again.             *)
ReportsFrom(t) ==
  /\ reported' = IF t = unix THEN reported ELSE <<>>
  /\ before' = IF t = unix THEN before ELSE lastReportDay

(* "reboot" and "clkreboot" from a client; the latter forgets the time.    *)
RemoteReboot(forget) ==
  /\ boot = "up"
  /\ reboot' = [on |-> TRUE, at |-> (millis + RebootDelay) % Wrap]
  /\ deadline' = [deadline EXCEPT !.reboot = {now + RebootDelay}]
  /\ IF forget THEN ForgetTime /\ ReportsFrom(0)
                ELSE UNCHANGED <<settings, reported, before>>
  /\ UNCHANGED <<table, tuning, lastReportDay>>

RebootDue == reboot.on /\ Due(reboot.at)

DoReboot == boot = "up" /\ RebootDue /\ Restart

(***************************************************************************)
(* Contacts.                                                               *)
(***************************************************************************)
Accepts(hops) == conf.set["maxhops"] = 0 \/ hops <= conf.set["maxhops"]

(* An ADVERT: its time may set the clock, at once when there is none, else *)
(* when another ADVERT agreed; its sender becomes a contact.               *)
HearAdvert(a) ==
  /\ boot = "up"
  /\ \/ a.time > 0 /\ (Sync(a.time) \/ (unix > 0 /\ SetTime(a.time))) /\ ReportsFrom(a.time)
     \/ (a.time > 0 => unix > 0) /\ UNCHANGED <<settings, reported, before>>
  /\ contacts' = IF Accepts(a.hops) THEN Updated(contacts, a.key, a.name, millis)
                                    ELSE contacts
  /\ announced' = announced \cup {<<a.key, a.name>>}
  /\ UNCHANGED <<rekeyed, tuning, schedule, lastReportDay>>

(* "alert dest" and "report dest" with a name.                             *)
DestByName(text) ==
  /\ boot = "up"
  /\ \E i \in FoundByName(contacts, text) :
       AlertDest(contacts[i].key) \/ ReportDest(contacts[i].key)
  /\ UNCHANGED <<table, tuning, schedule, report>>

(* "msg": encrypted with the secret that is shared with the contact.       *)
SendMessage(text) ==
  /\ boot = "up"
  /\ unix > 0
  /\ \E i \in FoundByName(contacts, text) :
       contacts' = WithSecret(contacts, i, ident.key)
  /\ UNCHANGED <<settings, rekeyed, announced, tuning, schedule, report>>

(***************************************************************************)
(* The daily report.                                                       *)
(***************************************************************************)
Target == conf.set["reportAt"]

(* Mutant: a day before the last report is taken for one that had it.      *)
ReportDue_Later ==
  /\ conf.report /\ conf.reportDest # NoKey /\ unix > 0
  /\ unix \div Day > lastReportDay
  /\ unix % Day \in Target .. Target + Window - 1

ReportDue ==
  /\ conf.report /\ conf.reportDest # NoKey /\ unix > 0
  /\ unix \div Day # lastReportDay
  /\ unix % Day \in Target .. Target + Window - 1

(* checkDailyReport, with what sendEncryptedToAdmin asks for.              *)
CheckDailyReport ==
  /\ boot = "up"
  /\ ReportDue
  /\ lastReportDay' = unix \div Day
  /\ reported' = Append(reported, unix \div Day)
  /\ UNCHANGED <<settings, table, tuning, schedule, before>>

(***************************************************************************)
(* The specification.                                                      *)
(***************************************************************************)
ChangeKey ==
  /\ NewId
  /\ rekeyed' = TRUE
  /\ UNCHANGED <<contacts, announced, tuning, schedule, report>>

SetClock(t) ==
  /\ SetTime(t)
  /\ ReportsFrom(t)
  /\ UNCHANGED <<table, tuning, schedule, lastReportDay>>

(* Commands and events that concern the settings only.                     *)
Setting ==
  \/ Does("report") /\ (ReportOn \/ ReportOff \/ ReportClear)
  \/ Does("alert") /\ (AlertOn \/ AlertOff \/ AlertClear)
  \/ Does("save") /\ Save
  \/ \E k \in scene.keys : AdminLogin(k)
  \/ \E n \in scene.names : SetName(n)
  \/ \E d \in scene.degrees : SetLat(d) \/ SetLon(d)
  \/ Does("type") /\ \E t \in {"chat", "repeater"} : NodeType(t)
  \/ Record \/ CheckStatsSave
  \/ Does("savestats") /\ SaveStats

(* Time passes when loop() has done what is due.                           *)
Pass ==
  /\ Tick
  /\ ~TempExpired /\ ~RebootDue /\ ~ReportDue

Step ==
  \/ (Setting \/ Pass) /\ UNCHANGED <<table, tuning, schedule, report>>
  \/ Start \/ Restart \/ DoReboot
  \/ \E s \in scene.sets : SetOption(s.field, s.value)
  \/ Does("save") /\ Reset
  \/ Does("newid") /\ ChangeKey
  \/ \E t \in scene.times : SetClock(t)
  \/ \E a \in scene.adverts : HearAdvert(a)
  \/ \E text \in scene.texts : DestByName(text) \/ SendMessage(text)
  \/ \E f \in scene.freqs : SetFreq(f)
  \/ \E f \in scene.freqs, m \in scene.mods, span \in scene.spans : TempRadio(f, m, span)
  \/ TempRadioOff \/ ExpireTempRadio
  \/ Does("reboot") /\ \E forget \in BOOLEAN : RemoteReboot(forget)
  \/ CheckDailyReport

Reportable == boot = "up" /\ conf.report /\ unix > 0

SameClock == unix' = unix \/ (unix' = unix + 1 /\ now' = now + 1)

Watch ==
  readyFrom' = IF ~Reportable' THEN 0
               ELSE IF Reportable /\ SameClock /\ Target' = Target THEN readyFrom
               ELSE unix'

Next == Step /\ Watch

Init ==
  /\ SettingsInit
  /\ contacts = Empty
  /\ radio = Blank
  /\ temp = NoTemp
  /\ reboot = [on |-> FALSE, at |-> 0]
  /\ lastReportDay = 0
  /\ rekeyed = FALSE
  /\ announced = {}
  /\ deadline = [temp |-> {}, reboot |-> {}]
  /\ reported = <<>>
  /\ before = 0
  /\ readyFrom = 0

Spec == Init /\ [][Next]_vars

(***************************************************************************)
(* Properties.                                                             *)
(***************************************************************************)
TypeOK ==
  /\ SettingsTypeOK
  /\ \A i \in Used(contacts) : contacts[i].key \in Keys
  /\ ~temp.active => temp.expire = 0
  /\ temp.expire \in 0 .. Wrap - 1 /\ reboot.at \in 0 .. Wrap - 1

(* The radio runs with the parameters and the gain that are in force,      *)
(* whatever mixture of settings, resets, expiries and reboots came before  *)
(* (setupRadio, applyPowerSettings).                                       *)
RadioAsConfigured == boot = "up" => radio = Tuned(temp, conf)

(* Temporary parameters end, and a requested reboot comes, not after the   *)
(* time they were given, also when millis() wraps; the exception is an     *)
(* expiry that falls on millis() = 0, which the code takes for none.       *)
DeadlinesKept ==
  /\ \A t \in deadline.temp : t % Wrap # 0 => temp.active /\ now <= t
  /\ \A t \in deadline.reboot : reboot.on /\ now <= t

(* Nor do they come before that time: only a command of the owner ends     *)
(* temporary parameters earlier.                                           *)
NeverEarly ==
  [][/\ ExpireTempRadio => now \in deadline.temp
     /\ DoReboot => now \in deadline.reboot]_vars

(* Temporary parameters and a requested reboot end and come on time.       *)
OnTime == []DeadlinesKept /\ NeverEarly

(* A cached secret belongs to the key that the contact has now and to the  *)
(* node's own key, unless that was replaced since the boot: a message is   *)
(* never encrypted for a key that an ADVERT has replaced                   *)
(* (updateFromAdvert, getSharedSecret).                                    *)
SecretIsCurrent ==
  \A i \in Used(contacts) :
    LET c == contacts[i] IN
      c.secret # NoSecret =>
        c.secret.theirs = c.key /\ (rekeyed \/ c.secret.own = ident.key)

(* A contact's name was announced by a node with the contact's hash: no    *)
(* contact inherits the name of one whose slot it took, to which messages  *)
(* and alerts would then go (updateFromAdvert).                            *)
NamesAreTheirOwn ==
  \A i \in Used(contacts) :
    contacts[i].name # NoName =>
      \E a \in announced : KeyHash[a[1]] = KeyHash[contacts[i].key] /\ a[2] = contacts[i].name

(* What is known of a contact was learnt from that contact, whichever      *)
(* contacts had its slot or its hash before.                               *)
ContactsTheirOwn == SecretIsCurrent /\ NamesAreTheirOwn

(* From one setting of the clock to the next, backwards or forwards, each  *)
(* day that passes with reports on has its report, and only one, over the  *)
(* turn of the day; the exception is the day of the last report before the *)
(* clock was set, which gets no other (checkDailyReport).                  *)
ReportedOnce ==
  /\ \A i, j \in DOMAIN reported : reported[i] = reported[j] => i = j
  /\ \A d \in 0 .. unix \div Day :
       LET from == d * Day + Target IN
         boot = "up" /\ readyFrom # 0 /\ readyFrom <= from /\ unix >= from + Window =>
           d = before \/ \E i \in DOMAIN reported : reported[i] = d

(* Who hears this node's ADVERT reads from it what the owner has set: the  *)
(* tests for malformed data never take a location for the beginning of a   *)
(* name (buildAppdata, parseAdvert).                                       *)
AdvertTellsIdentity ==
  boot = "up" =>
    Parsed(Appdata(ident.type, ident.lat, ident.lon, TextOf[ident.name])) =
      Info(TypeCode[ident.type], ident.lat, ident.lon, TextOf[ident.name])

(* What a search by name finds bears the text that was searched for.       *)
FoundBearsName ==
  \A text \in scene.texts : \A i \in FoundByName(contacts, text) :
    contacts[i].name # NoName /\ text \in NameHas[contacts[i].name]
=============================================================================
