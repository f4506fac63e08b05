------------------------------- MODULE Links -------------------------------
(***************************************************************************)
(* What a node knows of the others and does with it: the table of seen     *)
(* nodes (core/globals.cpp) with the alert for one that falls silent, the  *)
(* neighbours (mesh/Repeater.h) with their circuit breakers and the        *)
(* adaptive transmit power, the answers to discovery requests and the      *)
(* access list (Repeater), and the time (mesh/Advert.h) with the quiet     *)
(* hours; the handler that feeds them and the tasks of every minute        *)
(* (main.cpp).                                                             *)
(*                                                                         *)
(* Seen nodes are known by one byte, neighbours by their key.  Scenes are  *)
(* the traffic and the commands of separate situations.  A packet heard is *)
(* an ADVERT (from, hops, snr, whether the sender is a repeater, and the   *)
(* skew of its clock) or another one of which the path counts; one without *)
(* path counts as if its path were the byte computed from its payload.     *)
(* The alert itself is a packet for the transmit queue of RadioLoop.       *)
(***************************************************************************)
EXTENDS Repeater, Sequences, FiniteSetsExt, SequencesExt

CONSTANTS
  Nodes,          \* keys of the nodes around
  HashOf,         \* first byte of each key
  Hashes,         \* the bytes that paths and payloads may contain
  Scenes,         \* records: hears, does, powers, prefixes, times, quiet,
                  \* permissions (the inputs of the actions), and until, a
                  \* bound on now
  None,           \* no entry, no time
  SeenSlots,      \* MC_MAX_SEEN_NODES
  NeighbourSlots, \* MAX_NEIGHBOURS
  AlertAt,        \* packets after which a node's silence is worth an alert
  Offline,        \* HEALTH_OFFLINE_MS
  NodeTimeout,    \* NEIGHBOUR_TIMEOUT_MS
  CircuitTimeout, \* CB_TIMEOUT_MS
  Period,         \* time between two rounds of the minute's tasks
  WeakLink,       \* CB_SNR_THRESHOLD
  HighSnr, LowSnr, PowerStep, MinPower, MaxPower,
  ForwardMax,     \* RATE_LIMIT_FORWARD_MAX
  QuietMax,       \* quietForwardMax
  HourLength, DayHours,
  Epoch           \* the true time at boot

ASSUME LinksAssumption ==
  /\ HashOf \in [Nodes -> Hashes]
  /\ {SeenSlots, NeighbourSlots, AlertAt, HourLength, DayHours} \subseteq Nat \ {0}
  /\ {Offline, NodeTimeout, CircuitTimeout, Period, PowerStep, Epoch} \subseteq Nat
  /\ NodeTimeout + Period + 1 < Wrap /\ Offline + Period + 1 < Wrap
  /\ {WeakLink, HighSnr, LowSnr, MinPower, MaxPower} \subseteq Int
  /\ MinPower <= MaxPower /\ LowSnr <= HighSnr
  /\ QuietMax \in Nat /\ ForwardMax \in Nat \ {QuietMax}

(* The traffic and the commands that there may be, and None is none of the *)
(* things whose absence it stands for.                                     *)
Hours == [start : 0 .. DayHours - 1, end : 0 .. DayHours - 1]

ASSUME ScenesAssumption ==
  /\ \A s \in Scenes :
       /\ \A p \in s.hears :
            \/ /\ p.kind = "advert" /\ p.from \in Nodes
               /\ p.snr \in Int /\ p.skew \in Int
            \/ p.kind = "path" /\ p.path \in Seq(Hashes) \ {<<>>}
       /\ s.powers \subseteq MinPower .. MaxPower /\ s.prefixes \subseteq SUBSET Nodes
       /\ s.times \subseteq 0 .. TimeRange - 1 /\ s.quiet \subseteq Hours
  /\ None \notin Nat \cup Hours
  /\ None \notin [time : Int, at : Nat] \cup [snr : Int, at : Nat]
  /\ None \notin [node : Nodes, lastHeard : Nat, snr : Int,
                  cb : {"closed", "open", "half-open"}]
  /\ NoEntry \notin [key : Nodes, permission : UNION {s.permissions : s \in Scenes},
                     at : Nat]

VARIABLES
  now,          \* time since boot, which the node sees modulo Wrap
  lastCleanup,
  timeSync,
  seen,         \* seenNodes, in the order of its array
  alertOn,      \* alertEnabled; then alertDestPubKey is set
  neighbours,   \* repeaterHelper's neighbours
  adaptive,     \* adaptiveTxEnabled
  power,        \* currentTxPower
  radioPower,   \* the power that the radio has
  quietHours,   \* quietStartHour and quietEndHour, or None
  inQuiet,      \* inQuietPeriod
  forwardMax,   \* maxCount of forwardLimiter
  answerTimes,  \* responseTimes of discoverLimiter
  acl,
  scene,        \* the scene, which never changes
  heardAt,      \* history: when a hash in the table was last heard
  told,         \* history: alerts since it was last heard
  readySince,   \* history: since when alerts have been possible
  advert,       \* history: a neighbour's last ADVERT, its snr and time
  lastClaim,    \* history: the last believable time in an ADVERT
  answered,     \* history: the answers to discovery requests, but at millis() = 0
  granted       \* history: the permission that each key was last given

clock    == <<now, lastCleanup>>
history1 == <<heardAt, told>>
nodes    == <<seen, history1>>
time     == <<timeSync, lastClaim>>
alerts   == <<alertOn, readySince>>
quiet    == <<quietHours, inQuiet, forwardMax>>
links    == <<neighbours, advert>>
powers   == <<adaptive, power, radioPower>>
answers  == <<answerTimes, answered>>
rights   == <<acl, granted>>
vars     == <<clock, nodes, time, alerts, links, powers, quiet, answers, rights, scene>>

Millis   == now % Wrap
Since(t) == Elapsed(t, Millis)

(***************************************************************************)
(* SeenNodesTracker::update.  Of the count only what the tests tell apart. *)
(***************************************************************************)
Entries(s)   == DOMAIN s
Known(s)     == {s[i].hash : i \in Entries(s)}
EntryOf(s,h) == Min({i \in Entries(s) : s[i].hash = h})

NewNode(h) == [hash |-> h, count |-> 1, lastSeen |-> Millis, alerted |-> FALSE]

(* Mutant: the mark of the last alert stays.                               *)
HeardAgain_KeepsMark(e) ==
  [e EXCEPT !.count = Min({@ + 1, AlertAt}), !.lastSeen = Millis]

HeardAgain(e) ==
  [e EXCEPT !.count = Min({@ + 1, AlertAt}), !.lastSeen = Millis, !.alerted = FALSE]

(* The first with the smallest time, compared as an absolute number.       *)
Oldest(s) ==
  Min({i \in Entries(s) : \A j \in Entries(s) : s[i].lastSeen <= s[j].lastSeen})

SeenUpdate(s, h) ==
  IF h \in Known(s) THEN [s EXCEPT ![EntryOf(s, h)] = HeardAgain(@)]
  ELSE IF Len(s) < SeenSlots THEN Append(s, NewNode(h))
  ELSE [s EXCEPT ![Oldest(s)] = NewNode(h)]

(* The table after the one or two bytes of hs are noted.                   *)
SeenAll(hs) ==
  LET first == SeenUpdate(seen, hs[1])
  IN  IF Len(hs) = 1 THEN first ELSE SeenUpdate(first, hs[2])

Note(hs) ==
  /\ seen' = SeenAll(hs)
  /\ heardAt' = [h \in Hashes |-> IF h \notin Known(seen') THEN 0
                                  ELSE IF h \in ToSet(hs) THEN now ELSE heardAt[h]]
  /\ told' = [h \in Hashes |-> IF h \in Known(seen') /\ h \notin ToSet(hs)
                               THEN told[h] ELSE 0]

(***************************************************************************)
(* NeighbourTracker.                                                       *)
(***************************************************************************)
Places     == 1 .. NeighbourSlots
Taken(t)   == {i \in Places : t[i] # None}
Of(t, ns)  == {i \in Taken(t) : t[i].node \in ns}
InTable(t) == {t[i].node : i \in Taken(t)}

(* An open circuit stays open and a half-open one half-open while the      *)
(* signal is weak.                                                         *)
Breaker(cb, snr) ==
  IF snr >= WeakLink THEN "closed" ELSE IF cb = "closed" THEN "open" ELSE cb

(* Mutant: the times are compared as absolute numbers.                     *)
LongestSilent_Absolute(t) ==
  Min({i \in Places : \A j \in Places : t[i].lastHeard <= t[j].lastHeard})

LongestSilent(t) ==
  Min({i \in Places : \A j \in Places : Since(t[i].lastHeard) >= Since(t[j].lastHeard)})

PlaceFor(t) ==
  IF Taken(t) # Places THEN Min(Places \ Taken(t)) ELSE LongestSilent(t)

(* update: the first ADVERT of a neighbour never opens its circuit.        *)
NeighbourUpdate(t, n, snr) ==
  LET entry(cb) == [node |-> n, lastHeard |-> Millis, snr |-> snr, cb |-> cb]
  IN  IF n \in InTable(t)
      THEN LET i == Min(Of(t, {n})) IN [t EXCEPT ![i] = entry(Breaker(t[i].cb, snr))]
      ELSE [t EXCEPT ![PlaceFor(t)] = entry("closed")]

(* Mutant: an open circuit stays open until the neighbour is forgotten.    *)
Aged_NeverHalfOpen(e) == IF Since(e.lastHeard) > NodeTimeout THEN None ELSE e

(* cleanExpired, for one entry.                                            *)
Aged(e) ==
  IF Since(e.lastHeard) > NodeTimeout THEN None
  ELSE IF e.cb = "open" /\ Since(e.lastHeard) > CircuitTimeout
       THEN [e EXCEPT !.cb = "half-open"] ELSE e

CleanExpired(t) == [i \in Places |-> IF t[i] = None THEN None ELSE Aged(t[i])]

(* isCircuitOpen, which withholds direct packets whose next hop is h: the  *)
(* first neighbour with that byte decides.                                 *)
WithHash(h) == {n \in Nodes : HashOf[n] = h}

CircuitOpen(h) ==
  LET matching == Of(neighbours, WithHash(h))
  IN  matching # {} /\ neighbours[Min(matching)].cb = "open"

KeepAdverts(t) == [n \in Nodes |-> IF n \in InTable(t) THEN advert[n] ELSE None]

(***************************************************************************)
(* evaluateAdaptiveTxPower; the division of C rounds towards zero.         *)
(***************************************************************************)
Quotient(s, n) == IF s >= 0 THEN s \div n ELSE -((-s) \div n)

AverageSnr(t) ==
  Quotient(MapThenSumSet(LAMBDA i : t[i].snr, Taken(t)), Cardinality(Taken(t)))

NextPower(t) ==
  IF ~adaptive \/ Taken(t) = {} THEN power
  ELSE IF AverageSnr(t) > HighSnr THEN Max({power - PowerStep, MinPower})
  ELSE IF AverageSnr(t) < LowSnr THEN Min({power + PowerStep, MaxPower})
  ELSE power

(***************************************************************************)
(* processReceivedPacket, as far as the tables go.                         *)
(***************************************************************************)
Ready(on, sy) == IF ~(on /\ sy) THEN None ELSE IF readySince # None THEN readySince ELSE now

(* The time in p: its sender's clock runs, but may be wrong.               *)
TimeIn(p) == Epoch + now + p.skew

HearAdvert(p) ==
  /\ timeSync' = SyncFromAdvert(timeSync, TimeIn(p), Millis)
  /\ lastClaim' = IF Believable(TimeIn(p)) THEN [time |-> TimeIn(p), at |-> now] ELSE lastClaim
  /\ readySince' = Ready(alertOn, timeSync'.synced)
  /\ Note(<<HashOf[p.from]>>)
  /\ IF p.repeater /\ p.hops = 0
     THEN /\ neighbours' = NeighbourUpdate(neighbours, p.from, p.snr)
          /\ advert' = [KeepAdverts(neighbours') EXCEPT ![p.from] =
                          [snr |-> p.snr, at |-> now]]
     ELSE UNCHANGED links
  /\ UNCHANGED <<clock, alertOn, powers, quiet, scene>>

(* The originator, and the last hop if it is another.                      *)
HearPath(p) ==
  /\ Note(IF p.path[1] = Last(p.path) THEN <<p.path[1]>>
          ELSE <<p.path[1], Last(p.path)>>)
  /\ UNCHANGED <<clock, time, alerts, links, powers, quiet, scene>>

(***************************************************************************)
(* The tasks of every minute: cleanup, healthCheck, quiet hours, power.    *)
(***************************************************************************)
Fallen(e) ==
  /\ e.lastSeen # 0 /\ e.count >= AlertAt
  /\ Since(e.lastSeen) > Offline /\ ~e.alerted

(* healthCheck marks the node, also when sendAlertAsChatNode then gives up *)
(* because the time is not set.                                            *)
Checked(e) == IF Fallen(e) THEN [e EXCEPT !.alerted = TRUE] ELSE e

HealthCheck ==
  IF alertOn
  THEN /\ seen' = [i \in Entries(seen) |-> Checked(seen[i])]
       /\ told' = [h \in Hashes |->
            IF timeSync.synced /\ \E i \in Entries(seen) : seen[i].hash = h /\ Fallen(seen[i])
            THEN Min({told[h] + 1, 2}) ELSE told[h]]
       /\ UNCHANGED heardAt
  ELSE UNCHANGED nodes

(* evaluateQuietHours: from start to end, on the same day or overnight.    *)
HourOf(t) == (t \div HourLength) % DayHours

ShouldBeQuiet(h, q) ==
  IF q.start <= q.end THEN q.start <= h /\ h < q.end ELSE q.start <= h \/ h < q.end

EvaluateQuietHours ==
  IF timeSync.synced /\ quietHours # None
  THEN LET should == ShouldBeQuiet(HourOf(Timestamp(timeSync, Millis)), quietHours)
       IN  /\ inQuiet' = should
           /\ forwardMax' = IF should = inQuiet THEN forwardMax
                            ELSE IF should THEN QuietMax ELSE ForwardMax
           /\ UNCHANGED quietHours
  ELSE UNCHANGED quiet

Overdue == Since(lastCleanup) > Period

MinuteTasks ==
  /\ Overdue
  /\ lastCleanup' = Millis
  /\ neighbours' = CleanExpired(neighbours)
  /\ advert' = KeepAdverts(neighbours')
  /\ HealthCheck
  /\ EvaluateQuietHours
  /\ power' = NextPower(neighbours')
  /\ radioPower' = IF power' # power THEN power' ELSE radioPower
  /\ UNCHANGED <<now, time, alerts, adaptive, scene>>

(* A unit of time passes.  The loop comes round many times in a unit, so   *)
(* that tasks that are due are not put off.                                *)
Tick ==
  /\ now < scene.until /\ ~Overdue
  /\ now' = now + 1
  /\ UNCHANGED <<lastCleanup, nodes, time, alerts, links, powers, quiet, scene>>

(***************************************************************************)
(* Commands, radio faults and reboots.                                     *)
(***************************************************************************)
SetAlert(on) ==
  /\ alertOn' = on
  /\ readySince' = Ready(on, timeSync.synced)
  /\ UNCHANGED <<clock, nodes, time, links, powers, quiet, scene>>

AdaptiveOn ==
  /\ adaptive' = TRUE
  /\ UNCHANGED <<clock, nodes, time, alerts, links, power, radioPower, quiet, scene>>

(* Mutant: only the radio is told.                                         *)
SetPower_RadioOnly(w) ==
  /\ adaptive' = FALSE /\ radioPower' = w
  /\ UNCHANGED <<clock, nodes, time, alerts, links, power, quiet, scene>>

(* set tx, txpower; set tx auto off with w the maximum.                    *)
SetPower(w) ==
  /\ adaptive' = FALSE /\ power' = w /\ radioPower' = w
  /\ UNCHANGED <<clock, nodes, time, alerts, links, quiet, scene>>

(* neighbor.remove with a prefix that fits the keys in ns.                 *)
RemoveNeighbour(ns) ==
  /\ Of(neighbours, ns) # {}
  /\ neighbours' = [neighbours EXCEPT ![Min(Of(neighbours, ns))] = None]
  /\ advert' = KeepAdverts(neighbours')
  /\ UNCHANGED <<clock, nodes, time, alerts, powers, quiet, scene>>

(* setupRadio, after radio errors and for temporary parameters.            *)
SetupRadio ==
  /\ radioPower' = MaxPower
  /\ UNCHANGED <<clock, nodes, time, alerts, links, adaptive, power, quiet, scene>>

(* time: nothing that an ADVERT said before counts any more.               *)
SetTime(t) ==
  /\ t > Earliest
  /\ timeSync' = SetTo(t, Millis) /\ lastClaim' = None
  /\ readySince' = Ready(alertOn, TRUE)
  /\ UNCHANGED <<clock, nodes, alertOn, links, powers, quiet, scene>>

(* quiet: the limit changes with the next round of the minute's tasks.     *)
SetQuietHours(q) ==
  /\ quietHours' = q
  /\ UNCHANGED <<clock, nodes, time, alerts, links, powers, inQuiet, forwardMax, scene>>

(* Mutant: the limit stays.                                                *)
DisableQuietHours_KeepsLimit ==
  /\ quietHours' = None /\ inQuiet' = FALSE
  /\ UNCHANGED <<clock, nodes, time, alerts, links, powers, forwardMax, scene>>

DisableQuietHours ==
  /\ quietHours' = None /\ inQuiet' = FALSE /\ forwardMax' = ForwardMax
  /\ UNCHANGED <<clock, nodes, time, alerts, links, powers, scene>>

(* processDiscoverRequest, for a request that asks for repeaters.          *)
DiscoverRequest ==
  /\ IF MayAnswer(answerTimes, Millis)
     THEN /\ answerTimes' = Recorded(answerTimes, Millis)
          /\ answered' = IF Millis = 0 THEN answered ELSE Append(answered, now)
     ELSE answerTimes' = Cleaned(answerTimes, Millis) /\ UNCHANGED answered
  /\ UNCHANGED <<clock, nodes, time, alerts, links, powers, quiet, rights, scene>>

(* setperm, with a permission and without.                                 *)
SetPermission(n, permission) ==
  /\ acl' = Permitted(acl, n, permission, Millis)
  /\ granted' = [granted EXCEPT ![n] = permission]
  /\ UNCHANGED <<clock, nodes, time, alerts, links, powers, quiet, answers, scene>>

RemovePermission(n) ==
  /\ EntriesOf(acl, n) # {}
  /\ acl' = Withdrawn(acl, n)
  /\ granted' = [granted EXCEPT ![n] = None]
  /\ UNCHANGED <<clock, nodes, time, alerts, links, powers, quiet, answers, scene>>

Blank ==
  [seen |-> <<>>, neighbours |-> [i \in Places |-> None],
   zero |-> [h \in Hashes |-> 0], advert |-> [n \in Nodes |-> None],
   granted |-> [n \in Nodes |-> None]]

Reboot ==
  /\ now' = 0 /\ lastCleanup' = 0 /\ readySince' = None
  /\ timeSync' = NotSynced /\ lastClaim' = None
  /\ quietHours' = None /\ inQuiet' = FALSE /\ forwardMax' = ForwardMax
  /\ seen' = Blank.seen /\ heardAt' = Blank.zero /\ told' = Blank.zero
  /\ neighbours' = Blank.neighbours /\ advert' = Blank.advert
  /\ adaptive' = FALSE /\ power' = MaxPower /\ radioPower' = MaxPower
  /\ answerTimes' = NoAnswers /\ answered' = <<>>
  /\ acl' = NoPermissions /\ granted' = Blank.granted
  /\ UNCHANGED <<alertOn, scene>>

Init ==
  /\ now = 0 /\ lastCleanup = 0 /\ readySince = None
  /\ timeSync = NotSynced /\ lastClaim = None
  /\ quietHours = None /\ inQuiet = FALSE /\ forwardMax = ForwardMax
  /\ seen = Blank.seen /\ heardAt = Blank.zero /\ told = Blank.zero
  /\ neighbours = Blank.neighbours /\ advert = Blank.advert
  /\ adaptive = FALSE /\ power = MaxPower /\ radioPower = MaxPower
  /\ answerTimes = NoAnswers /\ answered = <<>>
  /\ acl = NoPermissions /\ granted = Blank.granted
  /\ alertOn = FALSE
  /\ scene \in Scenes

Does(x) == x \in scene.does

(* All that concerns neither discovery nor the access list.                *)
Watch ==
  \/ \E p \in scene.hears : \/ p.kind = "advert" /\ HearAdvert(p)
                            \/ p.kind = "path" /\ HearPath(p)
  \/ MinuteTasks \/ Tick
  \/ Does("alert") /\ \E on \in BOOLEAN : SetAlert(on)
  \/ Does("adaptive") /\ AdaptiveOn
  \/ \E w \in scene.powers : SetPower(w)
  \/ \E ns \in scene.prefixes : RemoveNeighbour(ns)
  \/ Does("setup") /\ SetupRadio
  \/ \E t \in scene.times : SetTime(t)
  \/ \E q \in scene.quiet : SetQuietHours(q)
  \/ Does("quiet off") /\ DisableQuietHours

Next ==
  \/ Watch /\ UNCHANGED <<answers, rights>>
  \/ Does("discover") /\ DiscoverRequest
  \/ \E n \in Nodes, p \in scene.permissions : SetPermission(n, p)
  \/ scene.permissions # {} /\ \E n \in Nodes : RemovePermission(n)
  \/ Reboot

Spec == Init /\ [][Next]_vars
-----------------------------------------------------------------------------
SeenNode  == [hash : Hashes, count : 1 .. AlertAt, lastSeen : 0 .. Wrap - 1,
              alerted : BOOLEAN]
Neighbour == [node : Nodes, lastHeard : 0 .. Wrap - 1, snr : Int,
              cb : {"closed", "open", "half-open"}]

(* The tables stay within their sizes, each hash and each key has one      *)
(* entry, and the power stays in the range of the commands.                *)
TypeOK ==
  /\ now \in Nat /\ lastCleanup \in 0 .. Wrap - 1
  /\ {timeSync.synced, alertOn, adaptive, inQuiet} \subseteq BOOLEAN
  /\ {timeSync.base, timeSync.pending} \subseteq 0 .. TimeRange - 1
  /\ seen \in Seq(SeenNode) /\ Len(seen) <= SeenSlots
  /\ Cardinality(Known(seen)) = Len(seen)
  /\ neighbours \in [Places -> Neighbour \cup {None}]
  /\ Cardinality(InTable(neighbours)) = Cardinality(Taken(neighbours))
  /\ {power, radioPower} \subseteq MinPower .. MaxPower
  /\ heardAt \in [Hashes -> Nat] /\ told \in [Hashes -> Nat]
  /\ readySince \in Nat \cup {None}
  /\ answerTimes \in [1 .. MaxAnswers -> 0 .. Wrap - 1]
  /\ \A i \in DOMAIN acl : acl[i] # NoEntry => acl[i].key \in Nodes

(* healthCheck comes every minute, but the owner is told once of a node    *)
(* that falls silent, however long it stays so.                            *)
OneAlertPerSilence == \A h \in Hashes : told[h] <= 1

DueAt(h) == heardAt[h] + Offline

(* A node in the table that falls silent while alerts are on and the time  *)
(* is set does not go unnoticed, also when it has fallen silent before and *)
(* when millis() wraps.  (The code takes lastSeen = 0 for never heard.)    *)
SilenceNoticed ==
  \A i \in Entries(seen) :
    LET h == seen[i].hash IN
      /\ seen[i].count >= AlertAt /\ seen[i].lastSeen # 0
      /\ readySince # None /\ readySince <= DueAt(h)
      /\ now > DueAt(h) + Period + 1
      => told[h] = 1

(* The owner is told of every silence, and once.                           *)
ToldOnce == OneAlertPerSilence /\ SilenceNoticed

SinceWrap(t) == t \div Wrap = now \div Wrap

Rebooted == seen' = <<>>

(* A full table of seen nodes forgets the one that was silent for longest, *)
(* among those heard since millis() last wrapped.                          *)
ForgetsOldest ==
  ~Rebooted =>
    \A h \in Known(seen) \ Known(seen') :
      /\ Cardinality(Known(seen')) = SeenSlots
      /\ \A g \in Known(seen') :
           SinceWrap(heardAt[h]) /\ SinceWrap(heardAt'[g]) => heardAt[h] <= heardAt'[g]

Replaces == Taken(neighbours') = Places /\ Taken(neighbours) = Places

(* A full table of neighbours gives up the one that was silent for longest,*)
(* also across a wrap: none stays in the table for long enough to look     *)
(* fresh again.                                                            *)
GivesUpLongestSilent ==
  Replaces =>
    \A n \in InTable(neighbours) \ InTable(neighbours') :
      \A m \in InTable(neighbours) : advert[n].at <= advert[m].at

(* Whoever makes room in either table was silent for longest.              *)
ForgetsLongestSilent == [][ForgetsOldest /\ GivesUpLongestSilent]_vars

(* A direct packet is withheld only because of a neighbour with the byte   *)
(* of its next hop whose last ADVERT was weak and not long ago: one good   *)
(* ADVERT, or silence for the time limit, lets packets through.            *)
WithheldForAReason ==
  \A h \in Hashes : CircuitOpen(h) =>
    \E n \in WithHash(h) :
      /\ advert[n] # None /\ advert[n].snr < WeakLink
      /\ now - advert[n].at <= CircuitTimeout + Period + 1

(* The radio has the power that the node believes it has, or the maximum,  *)
(* which setupRadio gives it behind the node's back.                       *)
NeverWeakerThanBelieved == radioPower \in {power, MaxPower}

Resynchronised ==
  /\ timeSync.synced /\ timeSync'.synced /\ lastClaim' # None
  /\ <<timeSync'.base, timeSync'.baseMillis>> # <<timeSync.base, timeSync.baseMillis>>

(* A clock that is set moves only when the two believable times heard last *)
(* agree, with none between them that fits the node's own clock, and to a  *)
(* time between the two.  Both may be of one node, even two copies of one  *)
(* ADVERT: syncFromAdvert is not told the sender.  For the first 49.7 days *)
(* after boot, and before 2038.                                            *)
MovesByConsensus ==
  Resynchronised /\ now < Wrap =>
    /\ lastClaim # None
    /\ now - lastClaim.at < ConsensusWindow
    /\ LET before == lastClaim.time + (now - lastClaim.at)
           this   == lastClaim'.time
       IN  before < TimeRange \div 2 /\ this < TimeRange \div 2 =>
             /\ before - this \in -CloseBy + 1 .. CloseBy - 1
             /\ timeSync'.base \in (before .. this) \cup (this .. before)

ClockMovesByConsensus == [][MovesByConsensus]_vars

(* With quiet hours set, each round of the minute's tasks leaves the limit *)
(* for forwards that belongs to the hour, also overnight, after a jump of  *)
(* the clock and after a change of the hours; without them the limit is    *)
(* the normal one at once.                                                 *)
FitsHour ==
  /\ quietHours' = None => forwardMax' = ForwardMax
  /\ quietHours' # None /\ lastCleanup' # lastCleanup /\ timeSync.synced =>
       LET fromStart(h) == (h - quietHours.start) % DayHours
       IN  forwardMax' = QuietMax <=>
             fromStart(HourOf(Timestamp(timeSync, Millis))) < fromStart(quietHours.end)

LimitFitsHour == [][FitsHour]_vars

(* Any two minutes have at most four answers to discovery requests (one at *)
(* millis() = 0 is not counted: the code takes its place for a free one);  *)
(* and, up to the first wrap, a request is refused only when there were    *)
(* four (DiscoverLimiter).                                                 *)
DiscoveryLimited ==
  LET recent == {i \in DOMAIN answered : now - answered[i] < AnswerWindow} IN
    /\ Cardinality(recent) <= MaxAnswers
    /\ now < Wrap /\ ~MayAnswer(answerTimes, Millis) => Cardinality(recent) = MaxAnswers

(* A key has the permission that it was given last or none: none stays     *)
(* behind in another entry when permissions change or are removed, or when *)
(* the table is full (ACLManager).                                         *)
PermissionsCurrent ==
  \A i, j \in DOMAIN acl :
    acl[i] # NoEntry =>
      /\ acl[i].permission = granted[acl[i].key]
      /\ acl[j] # NoEntry /\ acl[j].key = acl[i].key => i = j

(* Whatever enters and leaves them, the tables have one entry for each     *)
(* node or key, and it is the current one.                                 *)
TablesConsistent == TypeOK /\ PermissionsCurrent
=============================================================================
