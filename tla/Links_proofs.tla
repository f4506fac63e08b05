---------------------------- MODULE Links_proofs ----------------------------
(***************************************************************************)
(* Proofs about Links, for any traffic, table sizes and limits.  The       *)
(* inductive invariant (LinksInv) has a part for each table, which relates *)
(* the times that the table has, modulo Wrap, to the true times of the     *)
(* histories; the round of the minute's tasks keeps them close enough to   *)
(* each other to be told apart.                                            *)
(***************************************************************************)
EXTENDS Links, FiniteSetTheorems, WellFoundedInduction, TLAPS

(***************************************************************************)
(* The time of the last round of the minute's tasks: millis() has not come *)
(* round since.                                                            *)
(***************************************************************************)
LastRound == now - Since(lastCleanup)

ClockInv ==
  /\ now \in Nat /\ LastRound \in Nat
  /\ lastCleanup = LastRound % Wrap /\ now - LastRound \in 0 .. Period + 1

(* The times in the table of seen nodes are the true ones as millis() had  *)
(* them.                                                                   *)
IsSeen(s, heard, at) ==
  /\ s \in Seq(SeenNode) /\ Len(s) <= SeenSlots
  /\ \A i, j \in Entries(s) : s[i].hash = s[j].hash => i = j
  /\ \A i \in Entries(s) :
       heard[s[i].hash] <= at /\ s[i].lastSeen = heard[s[i].hash] % Wrap

SeenInv ==
  /\ heardAt \in [Hashes -> Nat] /\ IsSeen(seen, heardAt, now)

(* The mark of an alert, the alert, and the time when it was due; a node   *)
(* whose silence nobody could be told of is not told of later.             *)
Due(i)    == DueAt(seen[i].hash)
Timely(i) == readySince # None /\ readySince <= Due(i)

Marked(i) ==
  IF seen[i].alerted
  THEN Due(i) < now /\ (Timely(i) => told[seen[i].hash] = 1)
  ELSE /\ told[seen[i].hash] = 0
       /\ seen[i].count >= AlertAt /\ seen[i].lastSeen # 0 /\ Timely(i) => LastRound <= Due(i)

AlertInv ==
  /\ alertOn \in BOOLEAN /\ readySince \in Nat \cup {None}
  /\ readySince # None <=> alertOn /\ timeSync.synced
  /\ told \in [Hashes -> {0, 1}]
  /\ \A h \in Hashes \ Known(seen) : told[h] = 0
  /\ \A i \in Entries(seen) : Marked(i)

(* A neighbour was heard not long before the last round, and not at all    *)
(* long if its circuit is open.                                            *)
Heard(e, a, round, at) ==
  /\ a # None /\ a.at <= at /\ e.lastHeard = a.at % Wrap
  /\ round <= a.at + NodeTimeout
  /\ e.cb = "open" => a.snr < WeakLink /\ round <= a.at + CircuitTimeout

NeighbourInv ==
  /\ neighbours \in [Places -> Neighbour \cup {None}]
  /\ \A i, j \in Taken(neighbours) : neighbours[i].node = neighbours[j].node => i = j
  /\ advert \in [Nodes -> [snr : Int, at : Nat] \cup {None}]
  /\ \A i \in Taken(neighbours) :
       Heard(neighbours[i], advert[neighbours[i].node], LastRound, now)

PowerInv ==
  /\ adaptive \in BOOLEAN /\ {power, radioPower} \subseteq MinPower .. MaxPower
  /\ NeverWeakerThanBelieved

QuietInv ==
  /\ inQuiet \in BOOLEAN /\ quietHours \in Hours \cup {None}
  /\ forwardMax = IF inQuiet THEN QuietMax ELSE ForwardMax
  /\ quietHours = None => ~inQuiet

(* What is pending is the last believable time heard.                      *)
TimeInv ==
  /\ timeSync \in [synced : BOOLEAN, base : 0 .. TimeRange - 1, baseMillis : 0 .. Wrap - 1,
                   pending : 0 .. TimeRange - 1, pendingMillis : 0 .. Wrap - 1]
  /\ lastClaim \in [time : Int, at : Nat] \cup {None}
  /\ timeSync.pending # 0 =>
       /\ lastClaim # None
       /\ now < Wrap => /\ timeSync.pending = lastClaim.time
                        /\ timeSync.pendingMillis = lastClaim.at /\ lastClaim.at <= now

(* Each recent answer has its own place, and before the first wrap every   *)
(* fresh place stands for one.                                             *)
Recent == {x \in DOMAIN answered : now - answered[x] < AnswerWindow}
AnswerPlaces == 1 .. MaxAnswers

PlacesOf(f) ==
  /\ \A x, y \in Recent : f[x] = f[y] => x = y
  /\ \A x \in Recent : /\ answered[x] % Wrap # 0
                       /\ answerTimes[f[x]] = answered[x] % Wrap
  /\ now < Wrap => \A i \in AnswerPlaces :
                     /\ answerTimes[i] <= now
                     /\ Fresh(answerTimes[i], Millis) => \E x \in Recent : f[x] = i

AnswerInv ==
  /\ answerTimes \in [AnswerPlaces -> 0 .. Wrap - 1]
  /\ answered \in Seq(Nat) /\ \A x \in DOMAIN answered : answered[x] <= now
  /\ \E f \in [Recent -> AnswerPlaces] : PlacesOf(f)

Rights == [key : Nodes, permission : UNION {s.permissions : s \in Scenes}, at : Nat]

AclInv ==
  /\ acl \in [1 .. AclSlots -> Rights \cup {NoEntry}]
  /\ granted \in [Nodes -> (UNION {s.permissions : s \in Scenes}) \cup {None}]
  /\ PermissionsCurrent

LinksInv ==
  /\ scene \in Scenes
  /\ ClockInv /\ SeenInv /\ AlertInv /\ NeighbourInv /\ PowerInv /\ QuietInv /\ TimeInv
  /\ AnswerInv /\ AclInv

-----------------------------------------------------------------------------
(***************************************************************************)
(* Numbers: division, times modulo Wrap, and least elements.               *)
(***************************************************************************)

(* Every number has a quotient and a remainder.                            *)
LEMMA DivMod ==
  ASSUME NEW W \in Nat \ {0}, NEW x \in Int
  PROVE  \E q \in Int, r \in 0 .. W - 1 : r = x % W /\ x = W * q + r
<1> DEFINE q == x \div W  r == x % W
<1>1. q \in Int /\ r \in 0 .. W - 1 /\ x = W * q + r
  OBVIOUS
<1> QED BY <1>1

(* Quotient and remainder are unique.                                      *)
LEMMA ModIs ==
  ASSUME NEW W \in Nat \ {0}, NEW q \in Int, NEW r \in 0 .. W - 1
  PROVE  (W * q + r) % W = r
OBVIOUS

(* A small number is its own remainder.                                    *)
LEMMA SmallMod ==
  ASSUME NEW W \in Nat \ {0}, NEW r \in 0 .. W - 1
  PROVE  r % W = r
OBVIOUS

(* The ranges of millis() and of timestamps.                               *)
LEMMA WrapType == Wrap \in Nat \ {0} /\ TimeRange \in Nat \ {0}
BY TimeSyncAssumption

(* The difference of two times of millis() is that of the true times,      *)
(* modulo Wrap.                                                            *)
LEMMA ElapsedMod ==
  ASSUME NEW n \in Nat, NEW t \in Nat, t <= n
  PROVE  Elapsed(t % Wrap, n % Wrap) = (n - t) % Wrap
<1>0. Wrap \in Nat \ {0} /\ n \in Int /\ t \in Int
  BY WrapType
<1>1. PICK q \in Int, r \in 0 .. Wrap - 1 : r = n % Wrap /\ n = Wrap * q + r
  BY <1>0, DivMod, Zenon
<1>2. PICK p \in Int, s \in 0 .. Wrap - 1 : s = t % Wrap /\ t = Wrap * p + s
  BY <1>0, DivMod, Zenon
<1>3. Elapsed(t % Wrap, n % Wrap) = (r + Wrap - s) % Wrap
  BY <1>1, <1>2 DEF Elapsed
<1>4. PICK x \in Int, y \in Int : x = Wrap * q /\ y = Wrap * p /\ Wrap * (q - p) = x - y
  BY <1>0
<1>5. CASE r >= s
  <2>1. n - t = Wrap * (q - p) + (r - s) /\ r - s \in 0 .. Wrap - 1 /\ q - p \in Int
    BY <1>0, <1>1, <1>2, <1>4, <1>5
  <2>2. (n - t) % Wrap = r - s
    BY <1>0, <2>1, ModIs
  <2>3. r + Wrap - s = Wrap * 1 + (r - s)
    BY <1>0
  <2>4. (r + Wrap - s) % Wrap = r - s
    BY <1>0, <2>1, <2>3, ModIs
  <2> QED BY <1>3, <2>2, <2>4
<1>6. CASE r < s
  <2>0. Wrap * (q - p - 1) = (x - y) - Wrap
    <3>1. Wrap * (q - p - 1) = Wrap * (q - p) - Wrap
      BY <1>0
    <3> QED BY <1>4, <3>1
  <2>1. n - t = Wrap * (q - p - 1) + (r + Wrap - s)
        /\ r + Wrap - s \in 0 .. Wrap - 1 /\ q - p - 1 \in Int
    BY <1>0, <1>1, <1>2, <1>4, <1>6, <2>0
  <2>4. PICK k \in Int, d \in 0 .. Wrap - 1 : n - t = Wrap * k + d /\ d = r + Wrap - s
    BY <2>1
  <2>2. (n - t) % Wrap = r + Wrap - s
    BY <1>0, <2>4, ModIs
  <2>3. (r + Wrap - s) % Wrap = r + Wrap - s
    BY <1>0, <2>1, SmallMod
  <2> QED BY <1>3, <2>2, <2>3
<1> QED BY <1>1, <1>2, <1>5, <1>6

(* So it is the true one for times that are closer than a wrap, and never  *)
(* more.                                                                   *)
LEMMA TrueTime ==
  ASSUME NEW n \in Nat, NEW t \in Nat, t <= n
  PROVE  /\ t % Wrap \in 0 .. Wrap - 1
         /\ n - t < Wrap => Elapsed(t % Wrap, n % Wrap) = n - t
         /\ Elapsed(t % Wrap, n % Wrap) \in 0 .. Wrap - 1
         /\ Elapsed(t % Wrap, n % Wrap) <= n - t
<1>0. Wrap \in Nat \ {0} /\ n - t \in Nat
  BY WrapType
<1>1. Elapsed(t % Wrap, n % Wrap) = (n - t) % Wrap
  BY ElapsedMod
<1>2. t % Wrap \in 0 .. Wrap - 1 /\ (n - t) % Wrap \in 0 .. Wrap - 1
  BY <1>0
<1>3. n - t < Wrap => (n - t) % Wrap = n - t
  BY <1>0, SmallMod
<1>4. (n - t) % Wrap <= n - t
  BY <1>0, <1>2, <1>3
<1> QED BY <1>1, <1>2, <1>3, <1>4

(* A non-empty set of natural numbers has a least element.                 *)
LEMMA LeastNat ==
  ASSUME NEW S \in SUBSET Nat, S # {}
  PROVE  \E x \in S : \A y \in S : x <= y
<1>1. \E x \in S : \A y \in S : ~ (<<y, x>> \in OpToRel(<, Nat))
  BY WFMin, NatLessThanWellFounded
<1>2. ASSUME NEW x \in Nat, NEW y \in Nat, ~ (<<y, x>> \in OpToRel(<, Nat))
      PROVE  x <= y
  <2>1. ~ (y < x)
    BY <1>2, Zenon DEF OpToRel
  <2> QED BY <2>1
<1> QED BY <1>1, <1>2

(* A non-empty set of natural numbers has a minimum.                       *)
LEMMA MinIsLeast ==
  ASSUME NEW S \in SUBSET Nat, S # {}
  PROVE  Min(S) \in S /\ \A y \in S : Min(S) <= y
<1>1. \E x \in S : \A y \in S : x =< y
  BY LeastNat
<1> QED BY <1>1 DEF Min

(* Of natural numbers that belong to a non-empty set one is the smallest.  *)
LEMMA SmallestOf ==
  ASSUME NEW S, S # {}, NEW f, \A i \in S : f[i] \in Nat
  PROVE  \E i \in S : \A j \in S : f[i] <= f[j]
<1> DEFINE T == {f[i] : i \in S}
<1>1. T \in SUBSET Nat /\ T # {}
  OBVIOUS
<1>2. PICK x \in T : \A y \in T : x <= y
  BY <1>1, LeastNat
<1> QED BY <1>2

-----------------------------------------------------------------------------
(***************************************************************************)
(* What is not concerned stays as it is.                                   *)
(***************************************************************************)

(* The clock.                                                              *)
LEMMA LastRoundStays ==
  ASSUME UNCHANGED clock PROVE LastRound' = LastRound /\ now' = now /\ (ClockInv => ClockInv')
BY DEF clock, LastRound, Since, Millis, ClockInv

(* The table of seen nodes.                                                *)
LEMMA SeenStays == ASSUME SeenInv, UNCHANGED <<clock, nodes>> PROVE SeenInv'
BY DEF SeenInv, clock, nodes, history1

(* The alerts.                                                             *)
LEMMA AlertStays ==
  ASSUME AlertInv, UNCHANGED <<clock, nodes, alerts>>, timeSync'.synced = timeSync.synced
  PROVE  AlertInv'
BY LastRoundStays
  DEF AlertInv, Marked, Timely, Due, DueAt, Known, Entries, clock, nodes, history1, alerts

(* The neighbours.                                                         *)
LEMMA NeighbourStays ==
  ASSUME NeighbourInv, UNCHANGED <<clock, links>> PROVE NeighbourInv'
<1>1. LastRound' = LastRound /\ now' = now /\ neighbours' = neighbours /\ advert' = advert
  BY LastRoundStays DEF links
<1> QED BY <1>1 DEF NeighbourInv, Heard, Taken

(* The power.                                                              *)
LEMMA PowerStays == ASSUME PowerInv, UNCHANGED powers PROVE PowerInv'
BY DEF PowerInv, NeverWeakerThanBelieved, powers

(* The quiet hours.                                                        *)
LEMMA QuietStays == ASSUME QuietInv, UNCHANGED quiet PROVE QuietInv'
BY DEF QuietInv, quiet

(* The synchronised time.                                                  *)
LEMMA TimeStays == ASSUME TimeInv, UNCHANGED <<clock, time>> PROVE TimeInv'
BY DEF TimeInv, clock, time

(* The answers to discovery requests.                                      *)
LEMMA AnswerStays ==
  ASSUME AnswerInv, UNCHANGED <<clock, answers>> PROVE AnswerInv'
<1>1. UNCHANGED <<now, Millis, answerTimes, answered, Recent>>
  BY DEF clock, answers, Millis, Recent
<1>2. \A f : PlacesOf(f)' <=> PlacesOf(f)
  BY <1>1 DEF PlacesOf
<1> QED BY <1>1, <1>2 DEF AnswerInv

(* The access list.                                                        *)
LEMMA AclStays == ASSUME AclInv, UNCHANGED rights PROVE AclInv'
BY DEF AclInv, PermissionsCurrent, rights

-----------------------------------------------------------------------------
(***************************************************************************)
(* The clock.                                                              *)
(***************************************************************************)

(* The limits are numbers, and those of time are shorter than a wrap.      *)
LEMMA Limits ==
  /\ Wrap \in Nat \ {0} /\ Period \in Nat /\ Offline \in Nat
  /\ NodeTimeout \in Nat /\ CircuitTimeout \in Nat
  /\ Period + 1 < Wrap /\ NodeTimeout + Period + 1 < Wrap /\ Offline + Period + 1 < Wrap
  /\ SeenSlots \in Nat \ {0} /\ NeighbourSlots \in Nat \ {0} /\ AlertAt \in Nat \ {0}
BY TimeSyncAssumption, LinksAssumption

(* A true time of the past as the node sees it.                            *)
LEMMA SinceTrue ==
  ASSUME ClockInv, NEW t \in Nat, t <= now
  PROVE  /\ t % Wrap \in 0 .. Wrap - 1 /\ Since(t % Wrap) \in 0 .. Wrap - 1
         /\ now - t < Wrap => Since(t % Wrap) = now - t
         /\ Since(t % Wrap) <= now - t
<1>1. now \in Nat
  BY DEF ClockInv
<1> QED BY <1>1, TrueTime DEF Since, Millis

(* The last round of the minute's tasks is not long ago.                   *)
LEMMA RoundIsPast == ASSUME ClockInv PROVE now - LastRound \in 0 .. Period + 1 /\ LastRound <= now
<1>1. now \in Int /\ LastRound \in Int /\ now - LastRound \in 0 .. Period + 1
  BY DEF ClockInv
<1> QED BY <1>1, Limits

(* A tick keeps the round within reach: an overdue one is not put off.     *)
LEMMA TickClock ==
  ASSUME ClockInv, Tick
  PROVE  ClockInv' /\ LastRound' = LastRound /\ now' = now + 1 /\ now' \in Nat
<1>1. PICK L \in Nat : L = LastRound
  BY DEF ClockInv
<1>2. /\ now \in Nat /\ now' = now + 1 /\ lastCleanup' = lastCleanup /\ lastCleanup = L % Wrap
      /\ now - L \in 0 .. Period + 1 /\ ~(Since(lastCleanup) > Period)
  BY <1>1 DEF ClockInv, Tick, Overdue
<1>3. Since(lastCleanup) = now - L
  BY <1>2, Limits, SinceTrue
<1>4. now + 1 - L \in 0 .. Period + 1 /\ now + 1 \in Nat /\ L <= now + 1 /\ now + 1 - L < Wrap
  BY <1>2, <1>3, Limits
<1>5. Elapsed(L % Wrap, (now + 1) % Wrap) = now + 1 - L
  <2> DEFINE n == now + 1
  <2>1. n \in Nat /\ L <= n /\ n - L < Wrap /\ n - L = now + 1 - L
    BY <1>2, <1>4, Limits
  <2>2. Elapsed(L % Wrap, n % Wrap) = n - L
    <3> HIDE DEF n
    <3> QED BY <2>1, TrueTime
  <2> QED BY <2>1, <2>2
<1>6. LastRound' = now + 1 - (now + 1 - L)
  BY <1>2, <1>5 DEF LastRound, Since, Millis
<1>7. LastRound' = L
  BY <1>2, <1>6
<1> QED BY <1>1, <1>2, <1>4, <1>7 DEF ClockInv

(* The tasks of the minute are the new last round.                         *)
LEMMA MinuteClock ==
  ASSUME ClockInv, MinuteTasks
  PROVE  ClockInv' /\ LastRound' = now /\ now' = now
<1>1. now \in Nat /\ now' = now /\ lastCleanup' = now % Wrap
  BY DEF ClockInv, MinuteTasks, Millis
<1>2. Elapsed(now % Wrap, now % Wrap) = 0
  <2>1. now - now = 0 /\ now <= now /\ 0 < Wrap
    BY <1>1, Limits
  <2> QED BY <1>1, <2>1, TrueTime
<1>3. LastRound' = now
  BY <1>1, <1>2 DEF LastRound, Since, Millis
<1>4. now - now \in 0 .. Period + 1
  BY <1>1, Limits
<1> QED BY <1>1, <1>3, <1>4 DEF ClockInv

(* At boot the round has just been.                                        *)
LEMMA BootClock ==
  ASSUME now' = 0, lastCleanup' = 0
  PROVE  ClockInv' /\ LastRound' = 0
<1>1. 0 % Wrap = 0 /\ 0 - 0 = 0 /\ 0 < Wrap /\ 0 \in Nat
  BY Limits
<1>2. Elapsed(0, 0) = 0
  BY <1>1, TrueTime
<1>3. LastRound' = 0
  BY <1>1, <1>2 DEF LastRound, Since, Millis
<1>4. 0 \in 0 .. Period + 1
  BY Limits
<1> QED BY <1>1, <1>3, <1>4 DEF ClockInv

-----------------------------------------------------------------------------
(***************************************************************************)
(* The power, the quiet hours, the access list and the time.               *)
(***************************************************************************)

(* evaluateQuietHours keeps the limit in step with the mark.               *)
LEMMA MinuteQuiet ==
  ASSUME QuietInv, EvaluateQuietHours PROVE QuietInv'
BY DEF QuietInv, EvaluateQuietHours, ShouldBeQuiet, quiet

(* The greater and the smaller of two numbers.                             *)
LEMMA OfTwo ==
  ASSUME NEW a \in Int, NEW b \in Int
  PROVE  /\ Max({a, b}) = IF a >= b THEN a ELSE b
         /\ Min({a, b}) = IF a <= b THEN a ELSE b
<1>1. Max({a, b}) = CHOOSE x \in {a, b} : \A y \in {a, b} : x >= y
  BY DEF Max
<1>2. Min({a, b}) = CHOOSE x \in {a, b} : \A y \in {a, b} : x =< y
  BY DEF Min
<1>3. \E x \in {a, b} : \A y \in {a, b} : x >= y
  OBVIOUS
<1>4. \E x \in {a, b} : \A y \in {a, b} : x =< y
  OBVIOUS
<1> QED BY <1>1, <1>2, <1>3, <1>4

(* evaluateAdaptiveTxPower stays within the range of the commands.         *)
LEMMA NextPowerType ==
  ASSUME PowerInv, NEW t PROVE NextPower(t) \in MinPower .. MaxPower
<1>1. /\ power \in Int /\ PowerStep \in Nat /\ MinPower \in Int /\ MaxPower \in Int
      /\ MinPower <= power /\ power <= MaxPower /\ MinPower <= MaxPower
  BY LinksAssumption DEF PowerInv
<1>2. power - PowerStep \in Int /\ power + PowerStep \in Int
  BY <1>1
<1> DEFINE low == power - PowerStep
           high == power + PowerStep
<1>3. Max({low, MinPower}) \in MinPower .. MaxPower
  <2>1. low \in Int /\ low <= MaxPower
    BY <1>1, <1>2
  <2> HIDE DEF low
  <2>2. Max({low, MinPower}) = IF low >= MinPower THEN low ELSE MinPower
    BY <1>1, <2>1, OfTwo
  <2> QED BY <1>1, <2>1, <2>2
<1>4. Min({high, MaxPower}) \in MinPower .. MaxPower
  <2>1. high \in Int /\ MinPower <= high
    BY <1>1, <1>2
  <2> HIDE DEF high
  <2>2. Min({high, MaxPower}) = IF high <= MaxPower THEN high ELSE MaxPower
    BY <1>1, <2>1, OfTwo
  <2> QED BY <1>1, <2>1, <2>2
<1>5. power \in MinPower .. MaxPower
  BY <1>1
<1>6. NextPower(t) \in {power, Max({low, MinPower}), Min({high, MaxPower})}
  BY Zenon DEF NextPower
<1> QED BY <1>3, <1>4, <1>5, <1>6

(* With the tasks of the minute the radio gets the power believed.         *)
LEMMA MinutePower ==
  ASSUME PowerInv, MinuteTasks PROVE PowerInv'
<1>1. power' = NextPower(neighbours') /\ adaptive' = adaptive
  BY DEF MinuteTasks
<1>2. power' \in MinPower .. MaxPower
  BY <1>1, NextPowerType
<1> QED BY <1>1, <1>2 DEF PowerInv, MinuteTasks, NeverWeakerThanBelieved

(* With the commands it does too, or gets the maximum.                     *)
LEMMA CommandPower ==
  ASSUME scene \in Scenes, PowerInv,
         AdaptiveOn \/ SetupRadio \/ \E w \in scene.powers : SetPower(w)
  PROVE  PowerInv'
<1>1. scene.powers \subseteq MinPower .. MaxPower /\ MaxPower \in MinPower .. MaxPower
  <2>1. scene.powers \subseteq MinPower .. MaxPower
    BY ScenesAssumption, Zenon
  <2>2. MaxPower \in MinPower .. MaxPower
    BY LinksAssumption
  <2> QED BY <2>1, <2>2
<1>2. CASE AdaptiveOn \/ SetupRadio
  BY <1>1, <1>2 DEF PowerInv, AdaptiveOn, SetupRadio, NeverWeakerThanBelieved
<1>3. ASSUME NEW w \in scene.powers, SetPower(w) PROVE PowerInv'
  BY <1>1, <1>3 DEF PowerInv, SetPower, NeverWeakerThanBelieved
<1> QED BY <1>2, <1>3

(* Setting and clearing a permission find the key's only entry, a free one *)
(* or any: no key gets two.                                                *)
LEMMA EntryIsPlace ==
  ASSUME AclInv, NEW n \in Nodes
  PROVE  /\ EntryFor(acl, n) \in 1 .. AclSlots
         /\ EntriesOf(acl, n) # {} => EntryFor(acl, n) \in EntriesOf(acl, n)
         /\ EntriesOf(acl, n) \in SUBSET Nat /\ EntriesOf(acl, n) \in SUBSET (1 .. AclSlots)
<1>1. DOMAIN acl = 1 .. AclSlots /\ AclSlots \in Nat \ {0} /\ 1 \in 1 .. AclSlots
  BY RepeaterAssumption DEF AclInv
<1>2. /\ EntriesOf(acl, n) \in SUBSET (1 .. AclSlots)
      /\ FreeEntries(acl) \in SUBSET (1 .. AclSlots) /\ 1 .. AclSlots \in SUBSET Nat
  BY <1>1 DEF EntriesOf, FreeEntries
<1>3. CASE EntriesOf(acl, n) # {}
  <2>1. EntryFor(acl, n) = Min(EntriesOf(acl, n))
    BY <1>3 DEF EntryFor
  <2> QED BY <1>2, <1>3, <2>1, MinIsLeast
<1>4. CASE EntriesOf(acl, n) = {} /\ FreeEntries(acl) # {}
  <2>1. EntryFor(acl, n) = Min(FreeEntries(acl))
    BY <1>4 DEF EntryFor
  <2> QED BY <1>2, <1>4, <2>1, MinIsLeast
<1>5. CASE EntriesOf(acl, n) = {} /\ FreeEntries(acl) = {}
  <2> DEFINE O == {i \in DOMAIN acl : \A j \in DOMAIN acl : acl[i].at <= acl[j].at}
             at == [i \in 1 .. AclSlots |-> acl[i].at]
  <2>1. EntryFor(acl, n) = Min(O)
    BY <1>5 DEF EntryFor
  <2>2. \A i \in 1 .. AclSlots : acl[i] \in Rights
    BY <1>1, <1>5 DEF AclInv, FreeEntries
  <2>3. \A i \in 1 .. AclSlots : at[i] \in Nat
    BY <2>2 DEF Rights
  <2>4. \E i \in 1 .. AclSlots : \A j \in 1 .. AclSlots : at[i] <= at[j]
    <3> HIDE DEF at
    <3> QED BY <1>1, <2>3, SmallestOf
  <2>5. O # {} /\ O \in SUBSET (1 .. AclSlots)
    BY <1>1, <2>4
  <2> QED BY <1>2, <1>5, <2>1, <2>5, MinIsLeast
<1> QED BY <1>2, <1>3, <1>4, <1>5

(* setPermission replaces the entry of the key, wherever it is.            *)
LEMMA PermissionAcl ==
  ASSUME scene \in Scenes, ClockInv, AclInv, NEW n \in Nodes, NEW p \in scene.permissions,
         SetPermission(n, p)
  PROVE  AclInv'
<1> DEFINE k == EntryFor(acl, n)
           e == [key |-> n, permission |-> p, at |-> Millis]
<1>1. k \in 1 .. AclSlots /\ (EntriesOf(acl, n) # {} => k \in EntriesOf(acl, n))
  BY EntryIsPlace
<1>2. Millis \in Nat
  BY Limits DEF ClockInv, Millis
<1>3. p \in UNION {s.permissions : s \in Scenes}
  OBVIOUS
<1>4. e \in Rights /\ e # NoEntry
  BY <1>2, <1>3, ScenesAssumption DEF Rights
<1>5. acl' = [acl EXCEPT ![k] = e] /\ granted' = [granted EXCEPT ![n] = p]
  BY DEF SetPermission, Permitted
<1> HIDE DEF k, e
<1>6. acl' \in [1 .. AclSlots -> Rights \cup {NoEntry}]
  BY <1>1, <1>4, <1>5 DEF AclInv
<1>7. granted' \in [Nodes -> (UNION {s.permissions : s \in Scenes}) \cup {None}]
  BY <1>3, <1>5 DEF AclInv
<1>8. ASSUME NEW i \in 1 .. AclSlots, acl'[i] # NoEntry
      PROVE  acl'[i].permission = granted'[acl'[i].key]
  <2>1. CASE i = k
    BY <1>1, <1>5, <2>1 DEF AclInv, e
  <2>2. CASE i # k
    <3>1. acl'[i] = acl[i] /\ acl[i] \in Rights
      BY <1>5, <1>8, <2>2 DEF AclInv
    <3>2. acl[i].key # n
      <4> SUFFICES ASSUME acl[i].key = n PROVE FALSE
        OBVIOUS
      <4>1. i \in EntriesOf(acl, n)
        BY <1>8, <3>1 DEF EntriesOf, AclInv
      <4>2. k \in EntriesOf(acl, n)
        BY <1>1, <4>1
      <4> QED BY <2>2, <4>1, <4>2 DEF EntriesOf, AclInv, PermissionsCurrent
    <3>3. acl[i].permission = granted[acl[i].key] /\ acl[i].key \in Nodes
      BY <1>8, <3>1 DEF AclInv, PermissionsCurrent, Rights
    <3> QED BY <1>5, <3>1, <3>2, <3>3 DEF AclInv
  <2> QED BY <2>1, <2>2
<1>9. ASSUME NEW i \in 1 .. AclSlots, NEW j \in 1 .. AclSlots,
             acl'[i] # NoEntry, acl'[j] # NoEntry, acl'[j].key = acl'[i].key
      PROVE  i = j
  <2>1. ASSUME NEW x \in 1 .. AclSlots, x # k, acl[x] # NoEntry PROVE acl[x].key # n
    <3> SUFFICES ASSUME acl[x].key = n PROVE FALSE
      OBVIOUS
    <3>1. x \in EntriesOf(acl, n)
      BY <2>1 DEF EntriesOf, AclInv
    <3>2. k \in EntriesOf(acl, n)
      BY <1>1, <3>1
    <3> QED BY <2>1, <3>1, <3>2 DEF EntriesOf, AclInv, PermissionsCurrent
  <2>2. acl'[k].key = n
    BY <1>1, <1>5 DEF AclInv, e
  <2>3. \A x \in 1 .. AclSlots : x # k => acl'[x] = acl[x]
    BY <1>5 DEF AclInv
  <2> QED BY <1>1, <1>9, <2>1, <2>2, <2>3 DEF AclInv, PermissionsCurrent
<1>10. PermissionsCurrent'
  <2>1. DOMAIN acl' = 1 .. AclSlots
    BY <1>6
  <2> QED BY <1>8, <1>9, <2>1 DEF PermissionsCurrent
<1> QED BY <1>6, <1>7, <1>10 DEF AclInv

(* removeEntry leaves no other entry of the key.                           *)
LEMMA RemovalAcl ==
  ASSUME AclInv, NEW n \in Nodes, RemovePermission(n)
  PROVE  AclInv'
<1> DEFINE k == Min(EntriesOf(acl, n))
<1>1. k \in EntriesOf(acl, n) /\ k \in 1 .. AclSlots
  BY EntryIsPlace, MinIsLeast DEF RemovePermission
<1>2. acl' = [acl EXCEPT ![k] = NoEntry] /\ granted' = [granted EXCEPT ![n] = None]
  BY DEF RemovePermission, Withdrawn
<1> HIDE DEF k
<1>3. acl' \in [1 .. AclSlots -> Rights \cup {NoEntry}]
  BY <1>1, <1>2 DEF AclInv
<1>4. granted' \in [Nodes -> (UNION {s.permissions : s \in Scenes}) \cup {None}]
  <2> DEFINE P == (UNION {s.permissions : s \in Scenes}) \cup {None}
  <2>1. granted \in [Nodes -> P] /\ None \in P
    BY DEF AclInv
  <2> HIDE DEF P
  <2>2. granted' \in [Nodes -> P]
    BY <1>2, <2>1
  <2> QED BY <2>2 DEF P
<1>5. ASSUME NEW i \in 1 .. AclSlots, acl'[i] # NoEntry
      PROVE  i # k /\ acl'[i] = acl[i] /\ acl[i].key # n /\ acl[i].key \in Nodes
  BY <1>1, <1>2, <1>5 DEF AclInv, EntriesOf, PermissionsCurrent, Rights
<1>6. PermissionsCurrent'
  <2>1. DOMAIN acl' = 1 .. AclSlots /\ DOMAIN acl = 1 .. AclSlots
    BY <1>3 DEF AclInv
  <2> QED BY <1>2, <1>5, <2>1 DEF PermissionsCurrent, AclInv
<1> QED BY <1>3, <1>4, <1>6 DEF AclInv

(* What an ADVERT and a path may be.                                       *)
LEMMA Inputs ==
  ASSUME scene \in Scenes, NEW p \in scene.hears, now \in Nat
  PROVE  /\ p.kind = "advert" => /\ p.from \in Nodes /\ HashOf[p.from] \in Hashes
                                 /\ p.snr \in Int /\ TimeIn(p) \in Int
         /\ p.kind = "path" => p.path \in Seq(Hashes) /\ p.path # <<>>
<1>1. \/ p.kind = "advert" /\ p.from \in Nodes /\ p.snr \in Int /\ p.skew \in Int
      \/ p.kind = "path" /\ p.path \in Seq(Hashes) \ {<<>>}
  BY ScenesAssumption, Zenon
<1>2. HashOf \in [Nodes -> Hashes] /\ Epoch \in Nat
  BY LinksAssumption
<1>3. "advert" # "path"
  OBVIOUS
<1>4. CASE p.kind = "advert"
  <2>1. p.from \in Nodes /\ p.snr \in Int /\ p.skew \in Int
    BY <1>1, <1>3, <1>4
  <2>2. HashOf[p.from] \in Hashes /\ TimeIn(p) \in Int
    BY <1>2, <2>1 DEF TimeIn
  <2> QED BY <1>3, <1>4, <2>1, <2>2
<1>5. CASE p.kind = "path"
  BY <1>1, <1>3, <1>5
<1> QED BY <1>1, <1>4, <1>5

Clocks ==
  [synced : BOOLEAN, base : 0 .. TimeRange - 1, baseMillis : 0 .. Wrap - 1,
   pending : 0 .. TimeRange - 1, pendingMillis : 0 .. Wrap - 1]

(* A clock just set has nothing pending.                                   *)
LEMMA SetToType ==
  ASSUME NEW t \in 0 .. TimeRange - 1, NEW m \in 0 .. Wrap - 1
  PROVE  SetTo(t, m) \in Clocks /\ SetTo(t, m).pending = 0
<1>1. 0 \in 0 .. TimeRange - 1 /\ 0 \in 0 .. Wrap - 1
  BY WrapType
<1> QED BY <1>1 DEF SetTo, NotSynced, Clocks

(* Nor has one that agrees with an ADVERT.                                 *)
LEMMA ForgetPendingType ==
  ASSUME NEW c \in Clocks PROVE ForgetPending(c) \in Clocks /\ ForgetPending(c).pending = 0
<1>1. 0 \in 0 .. TimeRange - 1 /\ 0 \in 0 .. Wrap - 1
  BY WrapType
<1> QED BY <1>1 DEF ForgetPending, Clocks

(* Half of a sum is a timestamp.                                           *)
LEMMA MeanType ==
  ASSUME NEW a \in Int, NEW b \in Int PROVE Mean(a, b) \in 0 .. TimeRange - 1
<1>1. a + b \in Int /\ TimeRange \in Nat \ {0}
  BY WrapType
<1>2. PICK r \in 0 .. TimeRange - 1 : r = (a + b) % TimeRange
  BY <1>1
<1>3. r \div 2 \in 0 .. TimeRange - 1
  BY <1>1
<1> QED BY <1>2, <1>3 DEF Mean

(* So is the pending one, with the time passed since.                      *)
LEMMA PendingNowType ==
  ASSUME NEW c \in Clocks, NEW m \in 0 .. Wrap - 1
  PROVE  PendingNow(c, m) \in 0 .. TimeRange - 1
<1>1. c.pending \in Int /\ c.pendingMillis \in Int /\ m \in Int /\ Wrap \in Nat \ {0}
      /\ TimeRange \in Nat \ {0}
  BY WrapType DEF Clocks
<1>2. PICK d \in Int : d = m + Wrap - c.pendingMillis
  BY <1>1
<1>3. d % Wrap \in Int
  BY <1>1
<1>4. Elapsed(c.pendingMillis, m) \in Int
  BY <1>2, <1>3 DEF Elapsed
<1>5. c.pending + Elapsed(c.pendingMillis, m) \in Int
  BY <1>1, <1>4
<1> QED BY <1>1, <1>5 DEF PendingNow

(* syncFromAdvert keeps the pending time the last believable one.          *)
LEMMA AdvertTime ==
  ASSUME ClockInv, TimeInv, NEW p, TimeIn(p) \in Int, HearAdvert(p)
  PROVE  TimeInv'
<1> DEFINE t == TimeIn(p)
<1>1. now' = now /\ timeSync' = SyncFromAdvert(timeSync, t, Millis)
      /\ lastClaim' = IF Believable(t) THEN [time |-> t, at |-> now] ELSE lastClaim
  BY DEF HearAdvert, clock
<1>2. timeSync \in Clocks
  BY DEF TimeInv, Clocks
<1>3. Millis \in 0 .. Wrap - 1 /\ now \in Nat /\ (now < Wrap => Millis = now)
  <2>1. now \in Nat /\ Wrap \in Nat \ {0}
    BY WrapType DEF ClockInv
  <2> QED BY <2>1, SmallMod DEF Millis
<1> HIDE DEF t
<1>4. CASE ~Believable(t)
  BY <1>1, <1>4 DEF SyncFromAdvert, TimeInv
<1>5. CASE Believable(t)
  <2>1. t \in 1 .. TimeRange - 1
    BY <1>5, TimeSyncAssumption DEF Believable, t
  <2> DEFINE claim == [time |-> t, at |-> now]
  <2>2. lastClaim' = claim /\ claim \in [time : Int, at : Nat] /\ claim # None
        /\ claim.time = t /\ claim.at = now
    BY <1>1, <1>3, <1>5, <2>1, ScenesAssumption
  <2> HIDE DEF claim
  <2>3. ASSUME timeSync' \in Clocks, timeSync'.pending = 0 PROVE TimeInv'
    BY <2>2, <2>3 DEF TimeInv, Clocks
  <2>4. CASE ~timeSync.synced
    <3>1. timeSync' = SetTo(t, Millis)
      BY <1>1, <1>5, <2>4 DEF SyncFromAdvert
    <3> QED BY <1>3, <2>1, <2>3, <3>1, SetToType
  <2>5. CASE timeSync.synced /\ Agree(t, Timestamp(timeSync, Millis))
    <3>1. timeSync' = ForgetPending(timeSync)
      BY <1>1, <1>5, <2>5 DEF SyncFromAdvert
    <3> QED BY <1>2, <2>3, <3>1, ForgetPendingType
  <2>6. CASE /\ timeSync.synced /\ ~Agree(t, Timestamp(timeSync, Millis))
             /\ IsPending(timeSync, Millis) /\ Agree(t, PendingNow(timeSync, Millis))
    <3>1. timeSync' = SetTo(Mean(t, PendingNow(timeSync, Millis)), Millis)
      BY <1>1, <1>5, <2>6 DEF SyncFromAdvert
    <3>2. Mean(t, PendingNow(timeSync, Millis)) \in 0 .. TimeRange - 1
      <4>1. PICK b \in 0 .. TimeRange - 1 : b = PendingNow(timeSync, Millis)
        BY <1>2, <1>3, PendingNowType
      <4>2. t \in Int /\ b \in Int
        BY <2>1
      <4> QED BY <4>1, <4>2, MeanType
    <3> QED BY <1>3, <2>3, <3>1, <3>2, SetToType
  <2>7. CASE /\ timeSync.synced /\ ~Agree(t, Timestamp(timeSync, Millis))
             /\ ~(IsPending(timeSync, Millis) /\ Agree(t, PendingNow(timeSync, Millis)))
    <3>1. timeSync' = [timeSync EXCEPT !.pending = t, !.pendingMillis = Millis]
      BY <1>1, <1>5, <2>7 DEF SyncFromAdvert
    <3>2. timeSync' \in Clocks /\ timeSync'.pending = t /\ timeSync'.pendingMillis = Millis
      <4>2. t \in 0 .. TimeRange - 1
        BY <2>1, WrapType
      <4>3. Millis \in 0 .. Wrap - 1
        BY <1>3
      <4>4. PICK c \in Clocks, x \in 0 .. TimeRange - 1, m \in 0 .. Wrap - 1 :
              c = timeSync /\ x = t /\ m = Millis
        BY <1>2, <4>2, <4>3
      <4>5. timeSync' = [c EXCEPT !.pending = x, !.pendingMillis = m]
        BY <3>1, <4>4
      <4>6. timeSync' \in Clocks
        <5>1. [c EXCEPT !.pending = x, !.pendingMillis = m] \in Clocks
          BY DEF Clocks
        <5> QED BY <4>5, <5>1, Zenon
      <4>7. timeSync'.pending = x
        <5>1. [c EXCEPT !.pending = x, !.pendingMillis = m].pending = x
          BY DEF Clocks
        <5> QED BY <4>5, <5>1, Zenon
      <4>8. timeSync'.pendingMillis = m
        <5>1. [c EXCEPT !.pending = x, !.pendingMillis = m].pendingMillis = m
          BY DEF Clocks
        <5> QED BY <4>5, <5>1, Zenon
      <4> QED BY <4>4, <4>6, <4>7, <4>8
    <3> QED BY <1>1, <1>3, <2>2, <3>2 DEF TimeInv, Clocks
  <2> QED BY <2>4, <2>5, <2>6, <2>7
<1> QED BY <1>4, <1>5

(* setTime forgets it.                                                     *)
LEMMA CommandTime ==
  ASSUME scene \in Scenes, ClockInv, TimeInv, NEW t \in scene.times, SetTime(t)
  PROVE  TimeInv'
<1>1. t \in 0 .. TimeRange - 1
  BY ScenesAssumption, Zenon
<1>2. Millis \in 0 .. Wrap - 1
  BY WrapType DEF Millis, ClockInv
<1>3. timeSync' = SetTo(t, Millis) /\ lastClaim' = None
  BY DEF SetTime
<1>4. timeSync' \in Clocks /\ timeSync'.pending = 0
  BY <1>1, <1>2, <1>3, SetToType
<1> QED BY <1>3, <1>4 DEF TimeInv, Clocks

(* As time passes it ages.                                                 *)
LEMMA TickTime == ASSUME ClockInv, TimeInv, Tick PROVE TimeInv'
<1>1. now' = now + 1 /\ now \in Nat /\ UNCHANGED time
  BY TickClock DEF Tick, ClockInv
<1>2. now' < Wrap => now < Wrap
  BY <1>1, WrapType
<1>3. lastClaim # None => lastClaim.at \in Nat
  BY DEF TimeInv
<1> QED BY <1>1, <1>2, <1>3 DEF TimeInv, time

(* A clock that is set moves only when two times agree.                    *)
LEMMA ConsensusStep ==
  ASSUME ClockInv, TimeInv, NEW p, TimeIn(p) \in Int, HearAdvert(p)
  PROVE  MovesByConsensus
<1> DEFINE t == TimeIn(p)
           b == PendingNow(timeSync, Millis)
<1> SUFFICES ASSUME Resynchronised, now < Wrap
             PROVE  /\ lastClaim # None
                    /\ now - lastClaim.at < ConsensusWindow
                    /\ LET before == lastClaim.time + (now - lastClaim.at)
                           this   == lastClaim'.time
                       IN  before < TimeRange \div 2 /\ this < TimeRange \div 2 =>
                             /\ before - this \in -CloseBy + 1 .. CloseBy - 1
                             /\ timeSync'.base \in (before .. this) \cup (this .. before)
  BY DEF MovesByConsensus
<1>1. timeSync' = SyncFromAdvert(timeSync, t, Millis)
      /\ lastClaim' = IF Believable(t) THEN [time |-> t, at |-> now] ELSE lastClaim
  BY DEF HearAdvert
<1>2. timeSync \in Clocks /\ now \in Nat
  BY DEF TimeInv, Clocks, ClockInv
<1>3. Millis = now /\ now \in 0 .. Wrap - 1
  BY <1>2, WrapType, SmallMod DEF Millis
<1>4. Believable(t) /\ ~Agree(t, Timestamp(timeSync, Millis))
      /\ IsPending(timeSync, Millis) /\ Agree(t, b)
  <2> HIDE DEF t, b
  <2>1. timeSync.synced /\ ~(timeSync'.base = timeSync.base /\ timeSync'.baseMillis = timeSync.baseMillis)
    BY DEF Resynchronised
  <2>2. ASSUME NEW c \in Clocks, c = ForgetPending(timeSync) \/ c = timeSync
                 \/ c = [timeSync EXCEPT !.pending = t, !.pendingMillis = Millis]
        PROVE  c.base = timeSync.base /\ c.baseMillis = timeSync.baseMillis
    BY <1>2, <2>2 DEF ForgetPending, Clocks
  <2>3. \/ Believable(t) /\ ~Agree(t, Timestamp(timeSync, Millis))
           /\ IsPending(timeSync, Millis) /\ Agree(t, b)
        \/ timeSync' = ForgetPending(timeSync) \/ timeSync' = timeSync
        \/ timeSync' = [timeSync EXCEPT !.pending = t, !.pendingMillis = Millis]
    BY <1>1, <2>1 DEF SyncFromAdvert, b
  <2>4. /\ ForgetPending(timeSync).base = timeSync.base
        /\ ForgetPending(timeSync).baseMillis = timeSync.baseMillis
        /\ [timeSync EXCEPT !.pending = t, !.pendingMillis = Millis].base = timeSync.base
        /\ [timeSync EXCEPT !.pending = t, !.pendingMillis = Millis].baseMillis
             = timeSync.baseMillis
    BY <1>2 DEF ForgetPending, Clocks
  <2> QED BY <2>1, <2>3, <2>4
<1>5. /\ timeSync' = SetTo(Mean(t, b), Millis) /\ lastClaim' = [time |-> t, at |-> now]
      /\ timeSync'.base = Mean(t, b) /\ lastClaim'.time = t
  <2>1. timeSync.synced
    BY DEF Resynchronised
  <2>2. timeSync' = SetTo(Mean(t, b), Millis)
    BY <1>1, <1>4, <2>1 DEF SyncFromAdvert
  <2>3. lastClaim' = [time |-> t, at |-> now]
    BY <1>1, <1>4
  <2> QED BY <2>2, <2>3 DEF SetTo, NotSynced
<1>6. /\ lastClaim # None /\ timeSync.pending = lastClaim.time /\ timeSync.pending \in Nat
      /\ timeSync.pendingMillis = lastClaim.at /\ lastClaim.at \in Nat /\ lastClaim.at <= now
  BY <1>2, <1>4 DEF IsPending, TimeInv, Clocks
<1>7. Elapsed(timeSync.pendingMillis, Millis) = now - lastClaim.at
  <2>1. PICK a \in Nat : a = lastClaim.at /\ a <= now
    BY <1>6
  <2>2. a \in 0 .. Wrap - 1 /\ now - a < Wrap
    BY <1>2, <1>3, <2>1, WrapType
  <2>3. a % Wrap = a /\ now % Wrap = now
    BY <1>3, <2>2, WrapType, SmallMod
  <2>4. Elapsed(a % Wrap, now % Wrap) = now - a
    BY <1>2, <2>1, <2>2, TrueTime
  <2> QED BY <1>3, <1>6, <2>1, <2>3, <2>4
<1>8. now - lastClaim.at < ConsensusWindow
  BY <1>4, <1>7 DEF IsPending
<1>9. PICK before \in Nat : before = lastClaim.time + (now - lastClaim.at)
  BY <1>2, <1>6
<1>10. ASSUME before < TimeRange \div 2, t < TimeRange \div 2
       PROVE  /\ before - t \in -CloseBy + 1 .. CloseBy - 1
              /\ Mean(t, b) \in (before .. t) \cup (t .. before)
  <2>1. t \in Nat /\ CloseBy \in Nat /\ CloseBy <= TimeRange \div 2 /\ TimeRange \in Nat \ {0}
    BY <1>4, TimeSyncAssumption DEF Believable
  <2> HIDE DEF t
  <2>2. b = before
    <3>1. b = before % TimeRange
      BY <1>6, <1>7, <1>9 DEF PendingNow
    <3>2. before \in 0 .. TimeRange - 1
      BY <1>10, <2>1
    <3> QED BY <2>1, <3>1, <3>2, SmallMod
  <2>3. PICK d \in {(t - before) % TimeRange, (before - t) % TimeRange} : d < CloseBy
    BY <1>4, <2>2 DEF Agree
  <2>4. ASSUME NEW x \in Nat, NEW y \in Nat, x < TimeRange \div 2, y < TimeRange \div 2,
               (x - y) % TimeRange < CloseBy
        PROVE  x - y \in 0 .. CloseBy - 1
    <3>1. x - y >= 0 => (x - y) % TimeRange = x - y
      BY <2>1, <2>4, SmallMod
    <3>2. x - y < 0 => (x - y) % TimeRange = x - y + TimeRange
      BY <2>1, <2>4
    <3> QED BY <2>1, <2>4, <3>1, <3>2
  <2>5. t - before \in 0 .. CloseBy - 1 \/ before - t \in 0 .. CloseBy - 1
    BY <1>10, <2>1, <2>3, <2>4
  <2>6. before - t \in -CloseBy + 1 .. CloseBy - 1
    BY <2>1, <2>5
  <2>7. Mean(t, b) = (t + before) \div 2
    <3>1. t + before \in 0 .. TimeRange - 1
      BY <1>10, <2>1
    <3>2. (t + before) % TimeRange = t + before
      BY <2>1, <3>1, SmallMod
    <3> QED BY <2>2, <3>2 DEF Mean
  <2>8. (t + before) \div 2 \in (before .. t) \cup (t .. before)
    BY <2>1
  <2> QED BY <2>6, <2>7, <2>8
<1> HIDE DEF t, b
<1> QED BY <1>5, <1>6, <1>8, <1>9, <1>10

-----------------------------------------------------------------------------
(***************************************************************************)
(* The neighbours.                                                         *)
(***************************************************************************)

(* The places of the table of neighbours are numbers.                      *)
LEMMA PlacesType ==
  /\ Places \in SUBSET Nat /\ 1 \in Places
  /\ \A t, ns : Taken(t) \in SUBSET Places /\ Of(t, ns) \in SUBSET Places
BY Limits DEF Places, Taken, Of

(* The true time since a neighbour was heard.                              *)
LEMMA SinceHeard ==
  ASSUME ClockInv, NeighbourInv, NEW i \in Taken(neighbours)
  PROVE  LET e == neighbours[i]
             a == advert[neighbours[i].node]
         IN  /\ e \in Neighbour /\ e.node \in Nodes
             /\ a \in [snr : Int, at : Nat] /\ a.at <= now
             /\ Since(e.lastHeard) = now - a.at
<1> DEFINE e == neighbours[i]
           a == advert[neighbours[i].node]
<1>1. i \in Places /\ e # None /\ e \in Neighbour
  BY DEF NeighbourInv, Taken
<1>2. e.node \in Nodes
  BY <1>1 DEF Neighbour
<1>3. a \in [snr : Int, at : Nat] /\ Heard(e, a, LastRound, now)
  BY <1>2 DEF NeighbourInv, Heard
<1>4. a.at \in Nat /\ a.at <= now /\ e.lastHeard = a.at % Wrap /\ LastRound <= a.at + NodeTimeout
  BY <1>3 DEF Heard
<1>5. now \in Nat /\ LastRound \in Nat /\ now - LastRound <= Period + 1
  BY DEF ClockInv
<1>6. now - a.at < Wrap
  BY <1>4, <1>5, Limits
<1> QED BY <1>1, <1>2, <1>3, <1>4, <1>6, SinceTrue

(* An ADVERT takes its sender's place, a free one, or that of the neighbour*)
(* that was silent for longest.                                            *)
LEMMA UpdatePlace ==
  ASSUME ClockInv, NeighbourInv, NEW n \in Nodes, NEW snr \in Int
  PROVE  \E k \in Places, cb \in {"closed", "open", "half-open"} :
           /\ NeighbourUpdate(neighbours, n, snr) =
                [neighbours EXCEPT ![k] = [node |-> n, lastHeard |-> Millis, snr |-> snr, cb |-> cb]]
           /\ cb = "open" => snr < WeakLink
           /\ \A i \in Taken(neighbours) : neighbours[i].node = n => i = k
           /\ Taken(neighbours) # Places /\ n \notin InTable(neighbours) => neighbours[k] = None
           /\ Taken(neighbours) = Places /\ n \notin InTable(neighbours) =>
                \A j \in Places : Since(neighbours[k].lastHeard) >= Since(neighbours[j].lastHeard)
           /\ n \in InTable(neighbours) => k \in Taken(neighbours) /\ neighbours[k].node = n
<1>1. CASE n \in InTable(neighbours)
  <2> DEFINE k == Min(Of(neighbours, {n}))
             cb == Breaker(neighbours[k].cb, snr)
  <2>1. Of(neighbours, {n}) # {}
    BY <1>1 DEF InTable, Of
  <2>2. k \in Of(neighbours, {n})
    BY <2>1, PlacesType, MinIsLeast
  <2>3. k \in Places /\ k \in Taken(neighbours) /\ neighbours[k].node = n
    BY <2>2, PlacesType DEF Of
  <2>4. neighbours[k] \in Neighbour
    BY <2>3 DEF NeighbourInv, Taken
  <2>5. neighbours[k].cb \in {"closed", "open", "half-open"}
    BY <2>4 DEF Neighbour
  <2>6. cb \in {"closed", "open", "half-open"} /\ (cb = "open" => snr < WeakLink)
    BY <2>5, LinksAssumption DEF Breaker
  <2>7. NeighbourUpdate(neighbours, n, snr) =
          [neighbours EXCEPT ![k] = [node |-> n, lastHeard |-> Millis, snr |-> snr, cb |-> cb]]
    BY <1>1 DEF NeighbourUpdate
  <2>8. \A i \in Taken(neighbours) : neighbours[i].node = n => i = k
    BY <2>3 DEF NeighbourInv
  <2> HIDE DEF k, cb
  <2> QED BY <1>1, <2>3, <2>6, <2>7, <2>8
<1>2. CASE n \notin InTable(neighbours)
  <2> DEFINE k == PlaceFor(neighbours)
  <2>1. NeighbourUpdate(neighbours, n, snr) =
          [neighbours EXCEPT ![k] = [node |-> n, lastHeard |-> Millis, snr |-> snr, cb |-> "closed"]]
    BY <1>2 DEF NeighbourUpdate
  <2>2. \A i \in Taken(neighbours) : neighbours[i].node = n => i = k
    BY <1>2 DEF InTable
  <2>3. CASE Taken(neighbours) # Places
    <3>1. k = Min(Places \ Taken(neighbours))
      BY <2>3 DEF PlaceFor
    <3>2. Places \ Taken(neighbours) # {} /\ Places \ Taken(neighbours) \in SUBSET Nat
      BY <2>3, PlacesType
    <3>3. k \in Places \ Taken(neighbours)
      BY <3>1, <3>2, MinIsLeast
    <3>4. k \in Places /\ neighbours[k] = None
      BY <3>3 DEF Taken
    <3> HIDE DEF k
    <3> QED BY <1>2, <2>1, <2>2, <2>3, <3>4
  <2>4. CASE Taken(neighbours) = Places
    <3> DEFINE f == [i \in Places |-> Wrap - Since(neighbours[i].lastHeard)]
               L == {i \in Places : \A j \in Places :
                       Since(neighbours[i].lastHeard) >= Since(neighbours[j].lastHeard)}
    <3>1. \A i \in Places : Since(neighbours[i].lastHeard) \in 0 .. Wrap - 1
      <4> TAKE i \in Places
      <4>1. /\ neighbours[i] \in Neighbour /\ neighbours[i].lastHeard \in 0 .. Wrap - 1
            /\ Since(neighbours[i].lastHeard) = now - advert[neighbours[i].node].at
            /\ advert[neighbours[i].node].at \in Nat /\ advert[neighbours[i].node].at <= now
        BY <2>4, SinceHeard DEF Neighbour
      <4>2. Millis \in 0 .. Wrap - 1
        BY Limits DEF ClockInv, Millis
      <4>3. Millis + Wrap - neighbours[i].lastHeard \in Int
        BY <4>1, <4>2, Limits
      <4> QED BY <4>3, Limits DEF Since, Elapsed
    <3>2. \A i \in Places : f[i] \in Nat
      BY <3>1, Limits
    <3>3. \E i \in Places : \A j \in Places : f[i] <= f[j]
      <4> HIDE DEF f
      <4> QED BY <3>2, PlacesType, SmallestOf
    <3>4. PICK i \in Places : \A j \in Places : f[i] <= f[j]
      BY <3>3
    <3>5. \A j \in Places : Since(neighbours[i].lastHeard) >= Since(neighbours[j].lastHeard)
      BY <3>1, <3>4, Limits
    <3>6. L # {} /\ L \in SUBSET Nat
      BY <3>5, PlacesType
    <3>7. k = Min(L)
      BY <2>4 DEF PlaceFor, LongestSilent
    <3>8. k \in L
      <4> HIDE DEF L
      <4> QED BY <3>6, <3>7, MinIsLeast
    <3>9. k \in Places
          /\ \A j \in Places : Since(neighbours[k].lastHeard) >= Since(neighbours[j].lastHeard)
      BY <3>8
    <3> HIDE DEF k, L, f
    <3> QED BY <1>2, <2>1, <2>2, <2>4, <3>9
  <2> QED BY <2>3, <2>4
<1> QED BY <1>1, <1>2

(* An ADVERT enters its sender with the time and the signal that it had,   *)
(* and drops at most the one that was silent for longest.                  *)
LEMMA AdvertNeighbours ==
  ASSUME ClockInv, NeighbourInv, NEW p, p.from \in Nodes, p.snr \in Int, HearAdvert(p)
  PROVE  NeighbourInv' /\ GivesUpLongestSilent
<1> DEFINE n == p.from
           new == [snr |-> p.snr, at |-> now]
<1>1. UNCHANGED clock /\ now \in Nat /\ Millis \in 0 .. Wrap - 1 /\ now' = now
      /\ LastRound' = LastRound
  BY LastRoundStays, Limits DEF HearAdvert, clock, ClockInv, Millis
<1>2. CASE ~(p.repeater /\ p.hops = 0)
  <2>1. UNCHANGED links
    BY <1>2 DEF HearAdvert
  <2> QED BY <1>1, <2>1, NeighbourStays DEF GivesUpLongestSilent, links, InTable, Taken
<1>3. CASE p.repeater /\ p.hops = 0
  <2>1. /\ neighbours' = NeighbourUpdate(neighbours, n, p.snr)
        /\ advert' = [KeepAdverts(neighbours') EXCEPT ![n] = new]
    BY <1>3 DEF HearAdvert
  <2>2. PICK k \in Places, cb \in {"closed", "open", "half-open"} :
           /\ neighbours' =
                [neighbours EXCEPT ![k] = [node |-> n, lastHeard |-> Millis, snr |-> p.snr, cb |-> cb]]
           /\ cb = "open" => p.snr < WeakLink
           /\ \A i \in Taken(neighbours) : neighbours[i].node = n => i = k
           /\ Taken(neighbours) # Places /\ n \notin InTable(neighbours) => neighbours[k] = None
           /\ Taken(neighbours) = Places /\ n \notin InTable(neighbours) =>
                \A j \in Places : Since(neighbours[k].lastHeard) >= Since(neighbours[j].lastHeard)
           /\ n \in InTable(neighbours) => k \in Taken(neighbours) /\ neighbours[k].node = n
    BY <2>1, UpdatePlace, Zenon
  <2> DEFINE e == [node |-> n, lastHeard |-> Millis, snr |-> p.snr, cb |-> cb]
  <2>3. e \in Neighbour /\ e # None /\ e.node = n /\ e.lastHeard = Millis /\ e.cb = cb
    <3>1. e \in Neighbour
      BY <1>1 DEF Neighbour
    <3>2. e \in [node : Nodes, lastHeard : Nat, snr : Int, cb : {"closed", "open", "half-open"}]
      BY <1>1
    <3> QED BY <3>1, <3>2, ScenesAssumption
  <2>4. new \in [snr : Int, at : Nat] /\ new # None /\ new.at = now /\ new.snr = p.snr
    <3>1. new \in [snr : Int, at : Nat]
      BY <1>1
    <3> QED BY <3>1, ScenesAssumption
  <2> HIDE DEF e, new
  <2>5. /\ neighbours' \in [Places -> Neighbour \cup {None}]
        /\ neighbours'[k] = e /\ \A i \in Places : i # k => neighbours'[i] = neighbours[i]
        /\ Taken(neighbours') = Taken(neighbours) \cup {k}
    BY <2>2, <2>3 DEF NeighbourInv, Taken, e
  <2>6. advert' \in [Nodes -> [snr : Int, at : Nat] \cup {None}]
        /\ advert'[n] = new
        /\ \A m \in InTable(neighbours') : m \in Nodes /\ m # n => advert'[m] = advert[m]
    BY <2>1, <2>4 DEF NeighbourInv, KeepAdverts
  <2>7. \A i, j \in Taken(neighbours') : neighbours'[i].node = neighbours'[j].node => i = j
    BY <2>2, <2>3, <2>5 DEF NeighbourInv, Taken
  <2>8. ASSUME NEW i \in Taken(neighbours')
        PROVE  Heard(neighbours'[i], advert'[neighbours'[i].node], LastRound', now')
    <3>1. CASE i = k
      <4>1. LastRound \in Nat /\ LastRound <= now /\ NodeTimeout \in Nat /\ CircuitTimeout \in Nat
        BY RoundIsPast, Limits DEF ClockInv
      <4>2. LastRound <= now + NodeTimeout /\ LastRound <= now + CircuitTimeout /\ now <= now
        BY <1>1, <4>1
      <4>3. neighbours'[i] = e /\ advert'[neighbours'[i].node] = new /\ Millis = now % Wrap
        BY <2>3, <2>5, <2>6, <3>1 DEF Millis
      <4> QED BY <1>1, <2>2, <2>3, <2>4, <4>2, <4>3 DEF Heard
    <3>2. CASE i # k
      <4>1. i \in Taken(neighbours) /\ neighbours'[i] = neighbours[i]
        BY <2>5, <3>2, PlacesType
      <4>2. neighbours[i].node # n /\ neighbours[i].node \in Nodes
        BY <2>2, <3>2, <4>1, SinceHeard
      <4>3. neighbours[i].node \in InTable(neighbours')
        BY <4>1 DEF InTable
      <4>4. advert'[neighbours'[i].node] = advert[neighbours[i].node]
        BY <2>6, <4>1, <4>2, <4>3
      <4>5. Heard(neighbours[i], advert[neighbours[i].node], LastRound, now)
        BY <4>1 DEF NeighbourInv
      <4> QED BY <1>1, <4>1, <4>4, <4>5 DEF Heard
    <3> QED BY <3>1, <3>2
  <2>9. NeighbourInv'
    BY <2>5, <2>6, <2>7, <2>8 DEF NeighbourInv
  <2>10. GivesUpLongestSilent
    <3> SUFFICES ASSUME Taken(neighbours) = Places,
                        NEW g \in InTable(neighbours) \ InTable(neighbours'),
                        NEW m \in InTable(neighbours)
                 PROVE  advert[g].at <= advert[m].at
      BY DEF GivesUpLongestSilent, Replaces
    <3>1. PICK i \in Taken(neighbours) : neighbours[i].node = g
      BY DEF InTable
    <3>2. PICK j \in Taken(neighbours) : neighbours[j].node = m
      BY DEF InTable
    <3>3. i = k
      <4> SUFFICES ASSUME i # k PROVE FALSE
        OBVIOUS
      <4>1. neighbours'[i] = neighbours[i] /\ i \in Taken(neighbours')
        BY <2>5, PlacesType
      <4> QED BY <3>1, <4>1 DEF InTable
    <3>4. n \in InTable(neighbours')
      BY <2>3, <2>5 DEF InTable
    <3>5. n \notin InTable(neighbours)
      BY <2>2, <3>1, <3>3, <3>4
    <3>6. Since(neighbours[i].lastHeard) >= Since(neighbours[j].lastHeard)
      BY <2>2, <3>2, <3>3, <3>5, PlacesType
    <3> QED BY <1>1, <3>1, <3>2, <3>6, SinceHeard
  <2> QED BY <2>9, <2>10
<1> QED BY <1>2, <1>3

(* The round drops those that were silent for too long, and opens no       *)
(* circuit.                                                                *)
LEMMA MinuteNeighbours ==
  ASSUME ClockInv, NeighbourInv, MinuteTasks
  PROVE  NeighbourInv' /\ InTable(neighbours') \subseteq InTable(neighbours)
         /\ (Taken(neighbours') = Places => InTable(neighbours') = InTable(neighbours))
<1>1. LastRound' = now /\ now' = now /\ now \in Nat
  BY MinuteClock DEF ClockInv
<1>2. neighbours' = CleanExpired(neighbours) /\ advert' = KeepAdverts(neighbours')
  BY DEF MinuteTasks
<1>3. ASSUME NEW i \in Taken(neighbours), neighbours'[i] # None
      PROVE  /\ neighbours'[i] \in Neighbour /\ neighbours'[i].node = neighbours[i].node
             /\ neighbours'[i].lastHeard = neighbours[i].lastHeard
             /\ Since(neighbours[i].lastHeard) <= NodeTimeout
             /\ neighbours'[i].cb = "open" =>
                  neighbours[i].cb = "open" /\ Since(neighbours[i].lastHeard) <= CircuitTimeout
  <2>1. PICK e \in Neighbour : e = neighbours[i]
    BY SinceHeard
  <2>2. i \in Places /\ e # None
    BY <2>1, PlacesType DEF Taken
  <2>3. neighbours'[i] = Aged(e)
    BY <1>2, <2>1, <2>2 DEF CleanExpired
  <2>4. ~(Since(e.lastHeard) > NodeTimeout)
    BY <1>3, <2>3 DEF Aged
  <2>5. Since(e.lastHeard) \in Int
    BY <2>1, SinceHeard DEF ClockInv
  <2>6. CASE e.cb = "open" /\ Since(e.lastHeard) > CircuitTimeout
    <3>1. neighbours'[i] = [e EXCEPT !.cb = "half-open"]
      BY <2>3, <2>4, <2>6 DEF Aged
    <3>2. /\ [e EXCEPT !.cb = "half-open"] \in Neighbour
          /\ [e EXCEPT !.cb = "half-open"].node = e.node
          /\ [e EXCEPT !.cb = "half-open"].lastHeard = e.lastHeard
          /\ [e EXCEPT !.cb = "half-open"].cb = "half-open"
      BY DEF Neighbour
    <3>3. /\ neighbours'[i] \in Neighbour /\ neighbours'[i].node = e.node
          /\ neighbours'[i].lastHeard = e.lastHeard /\ neighbours'[i].cb = "half-open"
      BY <3>1, <3>2, Zenon
    <3> QED BY <2>1, <2>4, <2>5, <3>3, Limits
  <2>7. CASE ~(e.cb = "open" /\ Since(e.lastHeard) > CircuitTimeout)
    <3>1. neighbours'[i] = e
      BY <2>3, <2>4, <2>7 DEF Aged
    <3> QED BY <2>1, <2>4, <2>5, <2>7, <3>1, Limits
  <2> QED BY <2>6, <2>7
<1>4. Taken(neighbours') \subseteq Taken(neighbours)
  BY <1>2 DEF Taken, CleanExpired
<1>5. neighbours' \in [Places -> Neighbour \cup {None}]
  <2>1. neighbours' = [i \in Places |-> IF neighbours[i] = None THEN None ELSE Aged(neighbours[i])]
    BY <1>2 DEF CleanExpired
  <2>2. \A i \in Places : neighbours'[i] \in Neighbour \cup {None}
    BY <1>3, <1>4 DEF Taken
  <2> QED BY <2>1, <2>2
<1>6. \A i \in Taken(neighbours') :
        neighbours'[i] # None /\ i \in Taken(neighbours) /\ neighbours'[i].node = neighbours[i].node
  BY <1>3, <1>4 DEF Taken
<1>7. \A i, j \in Taken(neighbours') : neighbours'[i].node = neighbours'[j].node => i = j
  BY <1>6 DEF NeighbourInv
<1>8. advert' \in [Nodes -> [snr : Int, at : Nat] \cup {None}]
  BY <1>2 DEF KeepAdverts, NeighbourInv
<1>9. ASSUME NEW i \in Taken(neighbours')
      PROVE  Heard(neighbours'[i], advert'[neighbours'[i].node], LastRound', now')
  <2>1. /\ i \in Taken(neighbours) /\ neighbours'[i].node = neighbours[i].node
        /\ neighbours[i].node \in Nodes /\ neighbours'[i].node \in InTable(neighbours')
    BY <1>6, SinceHeard DEF InTable
  <2>2. advert'[neighbours'[i].node] = advert[neighbours[i].node]
    BY <1>2, <2>1 DEF KeepAdverts
  <2>3. PICK a \in [snr : Int, at : Nat] : a = advert[neighbours[i].node]
    BY <2>1, SinceHeard
  <2>4. a.at \in Nat /\ Since(neighbours[i].lastHeard) = now - a.at
    BY <2>1, <2>3, SinceHeard
  <2>5. Heard(neighbours[i], a, LastRound, now)
    BY <2>1, <2>3 DEF NeighbourInv
  <2>6. now <= a.at + NodeTimeout /\ (neighbours'[i].cb = "open" => now <= a.at + CircuitTimeout)
    BY <1>1, <1>3, <1>6, <2>1, <2>4, Limits
  <2>7. /\ a # None /\ a.at <= now /\ neighbours'[i].lastHeard = a.at % Wrap
        /\ neighbours'[i].cb = "open" => a.snr < WeakLink
    BY <1>3, <1>6, <2>1, <2>5 DEF Heard
  <2> QED BY <1>1, <2>2, <2>3, <2>6, <2>7 DEF Heard
<1>10. NeighbourInv'
  BY <1>5, <1>7, <1>8, <1>9 DEF NeighbourInv
<1>11. InTable(neighbours') \subseteq InTable(neighbours)
  BY <1>6 DEF InTable
<1>12. ASSUME Taken(neighbours') = Places PROVE InTable(neighbours') = InTable(neighbours)
  BY <1>4, <1>6, <1>12, PlacesType DEF InTable
<1> QED BY <1>10, <1>11, <1>12

(* Neighbours age as time passes.                                          *)
LEMMA TickNeighbours ==
  ASSUME ClockInv, NeighbourInv, Tick PROVE NeighbourInv'
<1>1. LastRound' = LastRound /\ now' = now + 1 /\ now \in Nat /\ UNCHANGED links
  BY TickClock DEF Tick, ClockInv
<1>2. neighbours' = neighbours /\ advert' = advert
  BY <1>1 DEF links
<1>3. ASSUME NEW i \in Taken(neighbours)
      PROVE  Heard(neighbours'[i], advert'[neighbours'[i].node], LastRound', now')
  <2>1. PICK a \in [snr : Int, at : Nat] : a = advert[neighbours[i].node]
    BY SinceHeard
  <2>2. Heard(neighbours[i], a, LastRound, now) /\ a.at \in Nat
    BY <2>1 DEF NeighbourInv
  <2>3. a.at <= now'
    BY <1>1, <2>2 DEF Heard
  <2> QED BY <1>1, <1>2, <2>1, <2>2, <2>3 DEF Heard
<1> QED BY <1>2, <1>3 DEF NeighbourInv, Taken

(* A removal leaves a place free.                                          *)
LEMMA RemovalNeighbours ==
  ASSUME NeighbourInv, NEW ns, RemoveNeighbour(ns)
  PROVE  NeighbourInv' /\ Taken(neighbours') # Places
<1> DEFINE k == Min(Of(neighbours, ns))
<1>1. k \in Places
  BY PlacesType, MinIsLeast DEF RemoveNeighbour
<1>2. /\ neighbours' = [neighbours EXCEPT ![k] = None] /\ advert' = KeepAdverts(neighbours')
      /\ UNCHANGED clock
  BY DEF RemoveNeighbour
<1> HIDE DEF k
<1>3. LastRound' = LastRound /\ now' = now
  BY <1>2, LastRoundStays
<1>4. /\ neighbours' \in [Places -> Neighbour \cup {None}]
      /\ \A i \in Taken(neighbours') : i \in Taken(neighbours) /\ neighbours'[i] = neighbours[i]
      /\ k \notin Taken(neighbours')
  BY <1>1, <1>2 DEF NeighbourInv, Taken
<1>5. advert' \in [Nodes -> [snr : Int, at : Nat] \cup {None}]
  BY <1>2 DEF KeepAdverts, NeighbourInv
<1>6. ASSUME NEW i \in Taken(neighbours')
      PROVE  Heard(neighbours'[i], advert'[neighbours'[i].node], LastRound', now')
  <2>1. /\ i \in Taken(neighbours) /\ neighbours'[i] = neighbours[i]
        /\ neighbours'[i].node \in InTable(neighbours')
    BY <1>4 DEF InTable
  <2>2. neighbours[i].node \in Nodes /\ Heard(neighbours[i], advert[neighbours[i].node], LastRound, now)
    BY <2>1 DEF NeighbourInv, Neighbour, Taken
  <2>3. advert'[neighbours'[i].node] = advert[neighbours[i].node]
    BY <1>2, <2>1, <2>2 DEF KeepAdverts
  <2> QED BY <1>3, <2>1, <2>2, <2>3 DEF Heard
<1>7. \A i, j \in Taken(neighbours') : neighbours'[i].node = neighbours'[j].node => i = j
  BY <1>4 DEF NeighbourInv
<1>8. NeighbourInv'
  BY <1>4, <1>5, <1>6, <1>7 DEF NeighbourInv
<1> QED BY <1>1, <1>4, <1>8

-----------------------------------------------------------------------------
(***************************************************************************)
(* The table of seen nodes.                                                *)
(***************************************************************************)

(* A sequence as a function.                                               *)
LEMMA SeqIsFunction ==
  ASSUME NEW S, NEW s \in Seq(S)
  PROVE  /\ Len(s) \in Nat /\ Entries(s) = 1 .. Len(s)
         /\ \A i \in Entries(s) : i \in 1 .. Len(s) /\ i \in Nat /\ s[i] \in S
BY DEF Entries

(* Replacing an entry by one of the same kind gives such a table.          *)
LEMMA Replaced ==
  ASSUME NEW S, NEW s \in Seq(S), NEW k \in Entries(s), NEW e \in S
  PROVE  LET u == [s EXCEPT ![k] = e]
         IN  /\ u \in Seq(S) /\ Len(u) = Len(s) /\ Entries(u) = Entries(s)
             /\ u[k] = e /\ \A i \in Entries(s) : i # k => u[i] = s[i]
BY DEF Entries

(* Distinct hashes are as many as there are entries.                       *)
LEMMA KnownSize ==
  ASSUME NEW s, NEW f, NEW n, IsSeen(s, f, n)
  PROVE  Cardinality(Known(s)) = Len(s)
<1>1. Len(s) \in Nat /\ Entries(s) = 1 .. Len(s)
  BY SeqIsFunction DEF IsSeen
<1> DEFINE g == [i \in 1 .. Len(s) |-> s[i].hash]
<1>2. g \in Bijection(1 .. Len(s), Known(s))
  BY <1>1, Zenon DEF Bijection, Injection, Surjection, IsInjective, Known, IsSeen
<1>3. ExistsBijection(1 .. Len(s), Known(s))
  BY <1>2 DEF ExistsBijection
<1> QED BY <1>1, <1>3, FS_CountingElements

(* What update does with the table: the hash has an entry, the others keep *)
(* theirs, but for the one with the smallest time when there is no room.   *)
Updated(s, u, f, h) ==
  /\ IsSeen(u, [f EXCEPT ![h] = now], now)
  /\ h \in Known(u) /\ Len(s) <= Len(u) /\ Len(u) >= 1
  /\ \A i \in Entries(u) :
       \/ u[i].hash = h /\ ~u[i].alerted
       \/ u[i].hash # h /\ i \in Entries(s) /\ u[i] = s[i]
  /\ \A g \in Known(s) \ Known(u) :
       /\ Len(u) = SeenSlots
       /\ \A i \in Entries(u) : u[i].hash # h => f[g] % Wrap <= f[u[i].hash] % Wrap

(* Entry k becomes one that was just heard.                                *)
LEMMA EntryReplaced ==
  ASSUME now \in Nat, NEW f \in [Hashes -> Nat], NEW s, IsSeen(s, f, now),
         NEW h \in Hashes, NEW k \in Entries(s), NEW e \in SeenNode,
         e.hash = h, e.lastSeen = Millis, ~e.alerted,
         \A i \in Entries(s) : s[i].hash = h => i = k,
         s[k].hash # h =>
           Len(s) = SeenSlots /\ \A j \in Entries(s) : s[k].lastSeen <= s[j].lastSeen
  PROVE  Updated(s, [s EXCEPT ![k] = e], f, h)
<1> DEFINE u == [s EXCEPT ![k] = e]
           f2 == [f EXCEPT ![h] = now]
<1>1. s \in Seq(SeenNode) /\ Len(s) <= SeenSlots /\ SeenSlots \in Nat
  BY Limits DEF IsSeen
<1>2. /\ u \in Seq(SeenNode) /\ Len(u) = Len(s) /\ Entries(u) = Entries(s)
      /\ u[k] = e /\ \A i \in Entries(s) : i # k => u[i] = s[i]
  BY <1>1, Replaced
<1>3. f2[h] = now /\ \A g \in Hashes : g # h => f2[g] = f[g]
  OBVIOUS
<1> HIDE DEF u, f2
<1>4. \A i \in Entries(s) : s[i].hash \in Hashes /\ (i # k => s[i].hash # h)
  <2>1. \A i \in Entries(s) : s[i] \in SeenNode
    BY <1>1, SeqIsFunction
  <2>2. \A i \in Entries(s) : s[i].hash \in Hashes
    BY <2>1 DEF SeenNode
  <2> QED BY <2>2, Zenon
<1>5. \A i, j \in Entries(u) : u[i].hash = u[j].hash => i = j
  BY <1>2, <1>4 DEF IsSeen
<1>6. \A i \in Entries(u) : f2[u[i].hash] <= now /\ u[i].lastSeen = f2[u[i].hash] % Wrap
  <2> TAKE i \in Entries(u)
  <2>1. CASE i = k
    <3>1. u[i].hash = h /\ u[i].lastSeen = now % Wrap
      BY <1>2, <2>1 DEF Millis
    <3> QED BY <1>3, <3>1
  <2>2. CASE i # k
    <3>1. u[i] = s[i] /\ f2[s[i].hash] = f[s[i].hash] /\ i \in Entries(s)
      BY <1>2, <1>3, <1>4, <2>2
    <3> QED BY <3>1 DEF IsSeen
  <2> QED BY <2>1, <2>2
<1>7. IsSeen(u, f2, now)
  BY <1>1, <1>2, <1>5, <1>6 DEF IsSeen
<1>8. h \in Known(u)
  BY <1>2 DEF Known
<1>9. Len(u) >= 1
  BY <1>1, <1>2, SeqIsFunction
<1>10. \A i \in Entries(u) :
         \/ u[i].hash = h /\ ~u[i].alerted
         \/ u[i].hash # h /\ i \in Entries(s) /\ u[i] = s[i]
  BY <1>2, <1>4
<1>11. ASSUME NEW g \in Known(s) \ Known(u)
       PROVE  /\ Len(u) = SeenSlots
              /\ \A i \in Entries(u) : u[i].hash # h => f[g] % Wrap <= f[u[i].hash] % Wrap
  <2>1. PICK j \in Entries(s) : s[j].hash = g
    BY DEF Known
  <2>2. j = k
    BY <1>2, <2>1 DEF Known
  <2>3. s[k].hash # h
    BY <1>8, <2>1, <2>2
  <2>4. Len(u) = SeenSlots /\ \A i \in Entries(s) : s[k].lastSeen <= s[i].lastSeen
    BY <1>2, <2>3
  <2>5. \A i \in Entries(s) : s[i].lastSeen = f[s[i].hash] % Wrap
    BY DEF IsSeen
  <2>6. ASSUME NEW i \in Entries(u), u[i].hash # h PROVE f[g] % Wrap <= f[u[i].hash] % Wrap
    <3>1. i \in Entries(s) /\ u[i] = s[i]
      BY <1>10, <2>6
    <3> QED BY <2>1, <2>2, <2>4, <2>5, <3>1
  <2> QED BY <2>4, <2>6
<1>12. Len(s) <= Len(u)
  BY <1>1, <1>2, SeqIsFunction
<1> QED BY <1>7, <1>8, <1>9, <1>10, <1>11, <1>12 DEF Updated, u, f2

(* A new entry is as just heard.                                           *)
LEMMA NewNodeType ==
  ASSUME now \in Nat, NEW h \in Hashes
  PROVE  /\ NewNode(h) \in SeenNode /\ NewNode(h).hash = h
         /\ NewNode(h).lastSeen = Millis /\ ~NewNode(h).alerted
<1>1. Millis \in 0 .. Wrap - 1 /\ 1 \in 1 .. AlertAt
  BY Limits DEF Millis
<1> QED BY <1>1 DEF NewNode, SeenNode

(* So is an entry whose node is heard again.                               *)
LEMMA HeardAgainType ==
  ASSUME now \in Nat, NEW e \in SeenNode
  PROVE  /\ HeardAgain(e) \in SeenNode /\ HeardAgain(e).hash = e.hash
         /\ HeardAgain(e).lastSeen = Millis /\ ~HeardAgain(e).alerted
<1>1. Millis \in 0 .. Wrap - 1 /\ e.count \in 1 .. AlertAt /\ AlertAt \in Nat \ {0}
  BY Limits DEF Millis, SeenNode
<1>2. PICK c \in 1 .. AlertAt : c = Min({e.count + 1, AlertAt})
  <2>1. e.count + 1 \in Int /\ AlertAt \in Int
    BY <1>1
  <2>2. Min({e.count + 1, AlertAt}) = IF e.count + 1 <= AlertAt THEN e.count + 1 ELSE AlertAt
    BY <2>1, OfTwo
  <2>3. Min({e.count + 1, AlertAt}) \in 1 .. AlertAt
    BY <1>1, <2>2
  <2> QED BY <2>3
<1>3. HeardAgain(e) = [e EXCEPT !.count = c, !.lastSeen = Millis, !.alerted = FALSE]
  BY <1>2 DEF HeardAgain
<1>4. PICK m \in 0 .. Wrap - 1 : m = Millis
  BY <1>1
<1> DEFINE d == [e EXCEPT !.count = c, !.lastSeen = m, !.alerted = FALSE]
<1>5. d \in SeenNode /\ d.hash = e.hash /\ d.lastSeen = m /\ ~d.alerted
  BY DEF SeenNode
<1> QED BY <1>3, <1>4, <1>5

(* SeenNodesTracker::update does what Updated says.                        *)
LEMMA UpdateSeen ==
  ASSUME now \in Nat, NEW f \in [Hashes -> Nat], NEW s, IsSeen(s, f, now), NEW h \in Hashes
  PROVE  Updated(s, SeenUpdate(s, h), f, h)
<1>1. /\ s \in Seq(SeenNode) /\ Len(s) \in Nat /\ Entries(s) = 1 .. Len(s) /\ Len(s) <= SeenSlots
      /\ SeenSlots \in Nat \ {0} /\ Entries(s) \in SUBSET Nat
      /\ \A i \in Entries(s) : s[i] \in SeenNode
  BY Limits, SeqIsFunction DEF IsSeen
<1>2. CASE h \in Known(s)
  <2> DEFINE k == EntryOf(s, h)
             I == {i \in Entries(s) : s[i].hash = h}
  <2>1. k \in I
    <3>1. I # {} /\ I \in SUBSET Nat
      BY <1>1, <1>2 DEF Known
    <3>2. k = Min(I)
      BY DEF EntryOf
    <3> HIDE DEF I, k
    <3> QED BY <3>1, <3>2, MinIsLeast
  <2>2. SeenUpdate(s, h) = [s EXCEPT ![k] = HeardAgain(s[k])]
    BY <1>2 DEF SeenUpdate
  <2>3. k \in Entries(s) /\ s[k].hash = h
    BY <2>1
  <2> HIDE DEF k
  <2>4. PICK e \in SeenNode : e = HeardAgain(s[k]) /\ e.hash = h /\ e.lastSeen = Millis /\ ~e.alerted
    BY <1>1, <2>3, HeardAgainType
  <2>5. \A i \in Entries(s) : s[i].hash = h => i = k
    BY <2>3 DEF IsSeen
  <2>6. Updated(s, [s EXCEPT ![k] = e], f, h)
    BY <2>3, <2>4, <2>5, EntryReplaced
  <2> QED BY <2>2, <2>4, <2>6
<1>3. CASE h \notin Known(s) /\ ~(Len(s) < SeenSlots)
  <2> DEFINE k == Oldest(s)
             O == {i \in Entries(s) : \A j \in Entries(s) : s[i].lastSeen <= s[j].lastSeen}
             last == [i \in Entries(s) |-> s[i].lastSeen]
  <2>1. \A i \in Entries(s) : last[i] \in Nat
    BY <1>1 DEF SeenNode
  <2>2. \E i \in Entries(s) : \A j \in Entries(s) : last[i] <= last[j]
    <3>1. Entries(s) # {}
      BY <1>1, <1>3
    <3> HIDE DEF last
    <3> QED BY <2>1, <3>1, SmallestOf
  <2>3. O # {} /\ O \in SUBSET Nat
    BY <1>1, <2>2
  <2>4. k \in O
    <3>1. k = Min(O)
      BY DEF Oldest
    <3> HIDE DEF O, k
    <3> QED BY <2>3, <3>1, MinIsLeast
  <2>5. k \in Entries(s) /\ \A j \in Entries(s) : s[k].lastSeen <= s[j].lastSeen
    BY <2>4
  <2>6. SeenUpdate(s, h) = [s EXCEPT ![k] = NewNode(h)]
    BY <1>3 DEF SeenUpdate
  <2> HIDE DEF k
  <2>7. PICK e \in SeenNode : e = NewNode(h) /\ e.hash = h /\ e.lastSeen = Millis /\ ~e.alerted
    BY NewNodeType
  <2>8. Len(s) = SeenSlots /\ \A i \in Entries(s) : s[i].hash = h => i = k
    BY <1>1, <1>3 DEF Known
  <2>9. Updated(s, [s EXCEPT ![k] = e], f, h)
    BY <2>5, <2>7, <2>8, EntryReplaced
  <2> QED BY <2>6, <2>7, <2>9
<1>4. CASE h \notin Known(s) /\ Len(s) < SeenSlots
  <2>1. PICK e \in SeenNode : e = NewNode(h) /\ e.hash = h /\ e.lastSeen = Millis /\ ~e.alerted
    BY NewNodeType
  <2> DEFINE u == Append(s, e)
             f2 == [f EXCEPT ![h] = now]
  <2>2. SeenUpdate(s, h) = u
    BY <1>4, <2>1 DEF SeenUpdate
  <2>3. /\ u \in Seq(SeenNode) /\ Len(u) = Len(s) + 1 /\ Entries(u) = Entries(s) \cup {Len(s) + 1}
        /\ u[Len(s) + 1] = e /\ \A i \in Entries(s) : u[i] = s[i] /\ i # Len(s) + 1
    BY <1>1 DEF Entries
  <2>4. f2[h] = now /\ \A g \in Hashes : g # h => f2[g] = f[g]
    OBVIOUS
  <2> HIDE DEF u, f2
  <2>5. \A i \in Entries(s) : s[i].hash \in Hashes /\ s[i].hash # h
    BY <1>1, <1>4 DEF Known, SeenNode
  <2>6. \A i, j \in Entries(u) : u[i].hash = u[j].hash => i = j
    BY <2>1, <2>3, <2>5 DEF IsSeen
  <2>7. \A i \in Entries(u) : f2[u[i].hash] <= now /\ u[i].lastSeen = f2[u[i].hash] % Wrap
    <3> TAKE i \in Entries(u)
    <3>1. CASE i = Len(s) + 1
      BY <2>1, <2>3, <2>4, <3>1 DEF Millis
    <3>2. CASE i \in Entries(s)
      <4>1. u[i] = s[i] /\ f2[s[i].hash] = f[s[i].hash]
        BY <2>3, <2>4, <2>5, <3>2
      <4> QED BY <3>2, <4>1 DEF IsSeen
    <3> QED BY <2>3, <3>1, <3>2
  <2>8. Len(u) <= SeenSlots /\ Len(s) <= Len(u) /\ Len(u) >= 1
    BY <1>1, <1>4, <2>3
  <2>9. IsSeen(u, f2, now)
    BY <2>3, <2>6, <2>7, <2>8 DEF IsSeen
  <2>10. h \in Known(u) /\ Known(s) \subseteq Known(u)
    BY <2>1, <2>3 DEF Known
  <2>11. \A i \in Entries(u) :
           \/ u[i].hash = h /\ ~u[i].alerted
           \/ u[i].hash # h /\ i \in Entries(s) /\ u[i] = s[i]
    BY <2>1, <2>3, <2>5
  <2>12. Updated(s, u, f, h)
    BY <2>8, <2>9, <2>10, <2>11 DEF Updated, f2
  <2> QED BY <2>2, <2>12
<1> QED BY <1>2, <1>3, <1>4

(* What the entries of a table are.                                        *)
LEMMA EntryOfTable ==
  ASSUME NEW s, NEW f, NEW n, IsSeen(s, f, n), NEW i \in Entries(s)
  PROVE  s[i] \in SeenNode /\ s[i].hash \in Hashes /\ f[s[i].hash] <= n
<1>1. s \in Seq(SeenNode)
  BY DEF IsSeen
<1>2. s[i] \in SeenNode
  BY <1>1, SeqIsFunction
<1>3. s[i].hash \in Hashes
  BY <1>2 DEF SeenNode
<1> QED BY <1>2, <1>3 DEF IsSeen

(* Two times since the last wrap are in the order of what is left of them. *)
LEMMA OrderSinceWrap ==
  ASSUME NEW x \in Nat, NEW y \in Nat, x \div Wrap = y \div Wrap, x % Wrap <= y % Wrap
  PROVE  x <= y
<1>0. Wrap \in Nat \ {0} /\ x \in Int /\ y \in Int
  BY WrapType
<1>1. PICK q \in Int : q = x \div Wrap
  BY <1>0
<1>2. PICK r \in Int, s \in Int : r = x % Wrap /\ s = y % Wrap /\ r <= s
  BY <1>0
<1>3. x = Wrap * q + r
  BY <1>0, <1>1, <1>2
<1>4. y = Wrap * q + s
  BY <1>0, <1>1, <1>2
<1>5. PICK z \in Int : z = Wrap * q
  BY <1>0
<1> QED BY <1>2, <1>3, <1>4, <1>5

(* An entry of the new table is of a node just heard, or as it was.        *)
Fresh1(e, hs) == e.hash \in hs /\ ~e.alerted /\ heardAt'[e.hash] = now /\ told'[e.hash] = 0

Kept1(i, hs) ==
  /\ i \in Entries(seen) /\ seen'[i] = seen[i] /\ seen[i].hash \notin hs
  /\ heardAt'[seen[i].hash] = heardAt[seen[i].hash] /\ told'[seen[i].hash] = told[seen[i].hash]

Noted(hs) ==
  /\ SeenInv'
  /\ seen' # <<>>
  /\ \A i \in Entries(seen') : Fresh1(seen'[i], hs) \/ Kept1(i, hs)
  /\ \A h \in Hashes \ Known(seen') : told'[h] = 0
  /\ told \in [Hashes -> {0, 1}] => told' \in [Hashes -> {0, 1}]
  /\ ForgetsOldest

(* Noting hs with a table u gives such a table, if u is one with the times *)
(* in g.                                                                   *)
LEMMA NotedTable ==
  ASSUME now \in Nat, now' = now, SeenInv, NEW hs \in SUBSET Hashes, NEW g \in [Hashes -> Nat],
         IsSeen(seen', g, now), Len(seen') >= 1,
         \A h \in Hashes : g[h] = IF h \in hs THEN now ELSE heardAt[h],
         heardAt' = [h \in Hashes |-> IF h \notin Known(seen') THEN 0
                                      ELSE IF h \in hs THEN now ELSE heardAt[h]],
         told' = [h \in Hashes |-> IF h \in Known(seen') /\ h \notin hs THEN told[h] ELSE 0],
         \A i \in Entries(seen') :
           \/ seen'[i].hash \in hs /\ ~seen'[i].alerted
           \/ seen'[i].hash \notin hs /\ i \in Entries(seen) /\ seen'[i] = seen[i],
         ForgetsOldest
  PROVE  Noted(hs)
<1>1. \A i \in Entries(seen') : seen'[i].hash \in Hashes /\ seen'[i].hash \in Known(seen')
  <2>1. \A i \in Entries(seen') : seen'[i] \in SeenNode
    BY SeqIsFunction DEF IsSeen
  <2> QED BY <2>1 DEF SeenNode, Known
<1>2. heardAt' \in [Hashes -> Nat]
  BY DEF SeenInv
<1>3. \A i \in Entries(seen') : heardAt'[seen'[i].hash] = g[seen'[i].hash]
  BY <1>1
<1>4. IsSeen(seen', heardAt', now)
  BY <1>3 DEF IsSeen
<1>5. SeenInv'
  BY <1>2, <1>4 DEF SeenInv
<1>6. seen' # <<>>
  OBVIOUS
<1>7. ASSUME NEW i \in Entries(seen') PROVE Fresh1(seen'[i], hs) \/ Kept1(i, hs)
  BY <1>1 DEF Fresh1, Kept1
<1>8. \A h \in Hashes \ Known(seen') : told'[h] = 0
  OBVIOUS
<1>9. told \in [Hashes -> {0, 1}] => told' \in [Hashes -> {0, 1}]
  OBVIOUS
<1> QED BY <1>5, <1>6, <1>7, <1>8, <1>9 DEF Noted

(* One byte is noted.                                                      *)
LEMMA NoteOne ==
  ASSUME ClockInv, UNCHANGED clock, SeenInv, NEW a \in Hashes, Note(<<a>>)
  PROVE  Noted({a})
<1> DEFINE g == [heardAt EXCEPT ![a] = now]
<1>1. now \in Nat /\ now' = now /\ ToSet(<<a>>) = {a} /\ heardAt \in [Hashes -> Nat]
  BY DEF ClockInv, clock, ToSet, SeenInv
<1>2. seen' = SeenUpdate(seen, a)
  BY DEF Note, SeenAll
<1>3. Updated(seen, seen', heardAt, a)
  BY <1>1, <1>2, UpdateSeen DEF SeenInv
<1>4. g \in [Hashes -> Nat] /\ \A h \in Hashes : g[h] = IF h \in {a} THEN now ELSE heardAt[h]
  BY <1>1
<1>5. /\ heardAt' = [h \in Hashes |-> IF h \notin Known(seen') THEN 0
                                      ELSE IF h \in {a} THEN now ELSE heardAt[h]]
      /\ told' = [h \in Hashes |-> IF h \in Known(seen') /\ h \notin {a} THEN told[h] ELSE 0]
  BY <1>1 DEF Note
<1>6. \A i \in Entries(seen') :
        \/ seen'[i].hash \in {a} /\ ~seen'[i].alerted
        \/ seen'[i].hash \notin {a} /\ i \in Entries(seen) /\ seen'[i] = seen[i]
  BY <1>3 DEF Updated
<1>7. IsSeen(seen', g, now) /\ Len(seen') >= 1
  BY <1>3 DEF Updated
<1>8. ForgetsOldest
  <2> SUFFICES ASSUME NEW h \in Known(seen) \ Known(seen')
               PROVE  /\ Cardinality(Known(seen')) = SeenSlots
                      /\ \A x \in Known(seen') :
                           SinceWrap(heardAt[h]) /\ SinceWrap(heardAt'[x]) =>
                             heardAt[h] <= heardAt'[x]
    BY DEF ForgetsOldest
  <2>1. Cardinality(Known(seen')) = SeenSlots
    BY <1>3, <1>7, KnownSize DEF Updated
  <2>2. ASSUME NEW x \in Known(seen'), SinceWrap(heardAt[h]), SinceWrap(heardAt'[x])
        PROVE  heardAt[h] <= heardAt'[x]
    <3>1. PICK i \in Entries(seen') : seen'[i].hash = x
      BY DEF Known
    <3>2. PICK j \in Entries(seen) : seen[j].hash = h
      BY DEF Known
    <3>3. x \in Hashes /\ h \in Hashes /\ heardAt[h] <= now
      BY <1>7, <3>1, <3>2, EntryOfTable DEF SeenInv
    <3>4. CASE x = a
      BY <1>5, <3>3, <3>4
    <3>5. CASE x # a
      <4>1. heardAt'[x] = heardAt[x] /\ heardAt[h] % Wrap <= heardAt[x] % Wrap
        BY <1>3, <1>5, <3>1, <3>3, <3>5 DEF Updated
      <4>2. heardAt[h] \in Nat /\ heardAt[x] \in Nat
        BY <1>1, <3>3
      <4>3. heardAt[h] \div Wrap = heardAt[x] \div Wrap
        BY <2>2, <4>1 DEF SinceWrap
      <4> QED BY <4>1, <4>2, <4>3, OrderSinceWrap
    <3> QED BY <3>4, <3>5
  <2> QED BY <2>1, <2>2
<1> HIDE DEF g
<1> QED BY <1>1, <1>4, <1>5, <1>6, <1>7, <1>8, NotedTable

(* Two bytes are noted, one after the other.                               *)
LEMMA NoteTwo ==
  ASSUME ClockInv, UNCHANGED clock, SeenInv, NEW a \in Hashes, NEW b \in Hashes, Note(<<a, b>>)
  PROVE  Noted({a, b})
<1> DEFINE s == SeenUpdate(seen, a)
           f == [heardAt EXCEPT ![a] = now]
           g == [f EXCEPT ![b] = now]
<1>1. now \in Nat /\ now' = now /\ ToSet(<<a, b>>) = {a, b} /\ heardAt \in [Hashes -> Nat]
  BY DEF ClockInv, clock, ToSet, SeenInv
<1>2. seen' = SeenUpdate(s, b)
  BY DEF Note, SeenAll
<1>3. f \in [Hashes -> Nat] /\ \A h \in Hashes : f[h] = IF h = a THEN now ELSE heardAt[h]
  BY <1>1
<1>4. /\ g \in [Hashes -> Nat] /\ \A h \in Hashes : g[h] = IF h \in {a, b} THEN now ELSE heardAt[h]
      /\ g = [f EXCEPT ![b] = now]
  BY <1>1
<1>5. Updated(seen, s, heardAt, a) /\ IsSeen(s, f, now)
  <2>1. Updated(seen, s, heardAt, a)
    BY <1>1, UpdateSeen DEF SeenInv
  <2> QED BY <2>1 DEF Updated
<1> HIDE DEF s, f, g
<1>6. Updated(s, seen', f, b)
  BY <1>1, <1>2, <1>3, <1>5, UpdateSeen
<1>7. IsSeen(seen', g, now) /\ Len(seen') >= 1
  BY <1>4, <1>6 DEF Updated
<1>8. /\ heardAt' = [h \in Hashes |-> IF h \notin Known(seen') THEN 0
                                      ELSE IF h \in {a, b} THEN now ELSE heardAt[h]]
      /\ told' = [h \in Hashes |-> IF h \in Known(seen') /\ h \notin {a, b} THEN told[h] ELSE 0]
  BY <1>1 DEF Note
<1>9. \A i \in Entries(seen') :
        \/ seen'[i].hash \in {a, b} /\ ~seen'[i].alerted
        \/ seen'[i].hash \notin {a, b} /\ i \in Entries(seen) /\ seen'[i] = seen[i]
  BY <1>5, <1>6 DEF Updated
<1>10. ForgetsOldest
  <2> SUFFICES ASSUME NEW h \in Known(seen) \ Known(seen')
               PROVE  /\ Cardinality(Known(seen')) = SeenSlots
                      /\ \A x \in Known(seen') :
                           SinceWrap(heardAt[h]) /\ SinceWrap(heardAt'[x]) =>
                             heardAt[h] <= heardAt'[x]
    BY DEF ForgetsOldest
  <2>1. Cardinality(Known(seen')) = SeenSlots
    <3>1. Len(seen') = SeenSlots
      <4>1. Len(s) = SeenSlots \/ Len(seen') = SeenSlots
        BY <1>5, <1>6 DEF Updated
      <4>2. Len(s) <= Len(seen') /\ Len(seen') <= SeenSlots /\ Len(s) \in Nat /\ Len(seen') \in Nat
        BY <1>5, <1>6, <1>7, SeqIsFunction DEF Updated, IsSeen
      <4> QED BY <4>1, <4>2, Limits
    <3> QED BY <1>7, <3>1, KnownSize
  <2>2. ASSUME NEW x \in Known(seen'), SinceWrap(heardAt[h]), SinceWrap(heardAt'[x])
        PROVE  heardAt[h] <= heardAt'[x]
    <3>1. PICK i \in Entries(seen') : seen'[i].hash = x
      BY DEF Known
    <3>2. PICK j \in Entries(seen) : seen[j].hash = h
      BY DEF Known
    <3>3. x \in Hashes /\ h \in Hashes /\ heardAt[h] <= now
      BY <1>7, <3>1, <3>2, EntryOfTable DEF SeenInv
    <3>4. heardAt[h] \in Nat /\ heardAt[x] \in Nat
      BY <1>1, <3>3
    <3>5. CASE x \in {a, b}
      BY <1>8, <3>3, <3>5
    <3>6. CASE x \notin {a, b}
      <4>1. heardAt'[x] = heardAt[x] /\ f[x] = heardAt[x]
        BY <1>3, <1>8, <3>3, <3>6
      <4>2. seen'[i] = seen[i] /\ i \in Entries(s) /\ s[i].hash = x
        BY <1>6, <1>9, <3>1, <3>6 DEF Updated
      <4>3. CASE h \notin Known(s)
        <5>1. heardAt[h] % Wrap <= heardAt[x] % Wrap
          BY <1>5, <3>6, <4>2, <4>3 DEF Updated
        <5>2. heardAt[h] \div Wrap = heardAt[x] \div Wrap
          BY <2>2, <4>1 DEF SinceWrap
        <5> QED BY <3>4, <4>1, <5>1, <5>2, OrderSinceWrap
      <4>4. CASE h \in Known(s)
        <5>1. f[h] % Wrap <= heardAt[x] % Wrap
          BY <1>6, <3>1, <3>6, <4>1, <4>4 DEF Updated
        <5>2. f[h] \in {now, heardAt[h]} /\ f[h] \in Nat /\ now \in Nat
          BY <1>1, <1>3, <3>3
        <5>3. f[h] \div Wrap = heardAt[x] \div Wrap
          BY <2>2, <4>1, <5>2 DEF SinceWrap
        <5>4. f[h] <= heardAt[x]
          BY <3>4, <5>1, <5>2, <5>3, OrderSinceWrap
        <5> QED BY <3>3, <3>4, <4>1, <5>2, <5>4
      <4> QED BY <4>3, <4>4
    <3> QED BY <3>5, <3>6
  <2> QED BY <2>1, <2>2
<1> QED BY <1>1, <1>4, <1>7, <1>8, <1>9, <1>10, NotedTable

-----------------------------------------------------------------------------
(***************************************************************************)
(* The alerts.                                                             *)
(***************************************************************************)

(* Alerts are possible since the time that the history has.                *)
LEMMA ReadyIs ==
  ASSUME AlertInv, now \in Nat, NEW on \in BOOLEAN, NEW sy \in BOOLEAN
  PROVE  /\ Ready(on, sy) \in Nat \cup {None} /\ (Ready(on, sy) # None <=> on /\ sy)
         /\ Ready(on, sy) # None => Ready(on, sy) \in {readySince, now}
         /\ readySince = Ready(alertOn, timeSync.synced)
<1>1. None \notin Nat
  BY ScenesAssumption
<1> QED BY <1>1 DEF Ready, AlertInv

(* Hearing nodes and switching alerts or the clock on and off: the table   *)
(* has new entries and old ones, and what becomes possible now was not     *)
(* missed.                                                                 *)
LEMMA HeardAlerts ==
  ASSUME ClockInv, AlertInv, SeenInv, SeenInv', UNCHANGED clock,
         alertOn' \in BOOLEAN, timeSync'.synced \in BOOLEAN,
         readySince' = Ready(alertOn', timeSync'.synced),
         told' \in [Hashes -> {0, 1}], \A h \in Hashes \ Known(seen') : told'[h] = 0,
         NEW hs, \A i \in Entries(seen') : Fresh1(seen'[i], hs) \/ Kept1(i, hs)
  PROVE  AlertInv'
<1>1. now \in Nat /\ now' = now /\ LastRound' = LastRound /\ LastRound \in Nat /\ LastRound <= now
      /\ Offline \in Nat
  BY LastRoundStays, RoundIsPast, Limits DEF ClockInv, clock
<1>2. /\ readySince' \in Nat \cup {None}
      /\ readySince' # None <=> alertOn' /\ timeSync'.synced
      /\ readySince' # None => readySince' \in {readySince, now}
  BY <1>1, ReadyIs
<1>3. ASSUME NEW i \in Entries(seen') PROVE Marked(i)'
  <2> DEFINE e == seen'[i]
  <2>1. e.hash \in Hashes /\ heardAt'[e.hash] \in Nat
    BY EntryOfTable DEF SeenInv
  <2>2. PICK t \in Nat : t = heardAt'[e.hash]
    BY <2>1
  <2>3. Due(i)' = t + Offline /\ (Timely(i)' <=> readySince' # None /\ readySince' <= t + Offline)
    BY <2>2 DEF Timely, Due, DueAt
  <2>4. CASE Fresh1(e, hs)
    <3>1. ~e.alerted /\ told'[e.hash] = 0 /\ t = now
      BY <2>2, <2>4 DEF Fresh1
    <3>2. LastRound' <= t + Offline
      BY <1>1, <3>1
    <3> QED BY <2>3, <3>1, <3>2 DEF Marked
  <2>5. CASE Kept1(i, hs)
    <3>1. /\ i \in Entries(seen) /\ e = seen[i] /\ t = heardAt[e.hash]
          /\ told'[e.hash] = told[e.hash]
      BY <2>2, <2>5 DEF Kept1
    <3>2. Marked(i)
      BY <3>1 DEF AlertInv
    <3>3. Due(i) = t + Offline /\ (Timely(i) <=> readySince # None /\ readySince <= t + Offline)
      BY <3>1 DEF Timely, Due, DueAt
    <3>4. CASE e.alerted
      <4>1. t + Offline < now /\ (Timely(i) => told[e.hash] = 1)
        BY <3>1, <3>2, <3>3, <3>4 DEF Marked
      <4>2. Timely(i)' => Timely(i)
        BY <1>1, <1>2, <2>3, <3>3, <4>1
      <4> QED BY <1>1, <2>3, <3>1, <3>4, <4>1, <4>2 DEF Marked
    <3>5. CASE ~e.alerted
      <4>1. /\ told[e.hash] = 0
            /\ e.count >= AlertAt /\ e.lastSeen # 0 /\ Timely(i) => LastRound <= t + Offline
        BY <3>1, <3>2, <3>3, <3>5 DEF Marked
      <4>2. Timely(i)' => Timely(i) \/ now <= t + Offline
        BY <1>2, <2>3, <3>3
      <4>3. now <= t + Offline => LastRound <= t + Offline
        BY <1>1
      <4> QED BY <1>1, <2>3, <3>1, <3>5, <4>1, <4>2, <4>3 DEF Marked
    <3> QED BY <3>4, <3>5
  <2> QED BY <2>4, <2>5
<1> QED BY <1>2, <1>3 DEF AlertInv

(* Alerts and the clock alone.                                             *)
LEMMA SwitchAlerts ==
  ASSUME ClockInv, AlertInv, SeenInv, UNCHANGED <<clock, nodes>>,
         alertOn' \in BOOLEAN, timeSync'.synced \in BOOLEAN,
         readySince' = Ready(alertOn', timeSync'.synced)
  PROVE  AlertInv'
<1>1. SeenInv'
  BY SeenStays
<1>2. seen' = seen /\ heardAt' = heardAt /\ told' = told
  BY DEF nodes, history1
<1>3. \A i \in Entries(seen') : Kept1(i, {})
  BY <1>2 DEF Kept1
<1>4. told' \in [Hashes -> {0, 1}] /\ \A h \in Hashes \ Known(seen') : told'[h] = 0
  BY <1>2 DEF AlertInv
<1> QED BY <1>1, <1>3, <1>4, HeardAlerts

(* A silence that gets long enough is not overlooked by the next round.    *)
LEMMA TickAlerts ==
  ASSUME ClockInv, AlertInv, SeenInv, Tick PROVE SeenInv' /\ AlertInv'
<1>1. /\ LastRound' = LastRound /\ now' = now + 1 /\ now \in Nat
      /\ seen' = seen /\ heardAt' = heardAt /\ told' = told /\ alertOn' = alertOn
      /\ readySince' = readySince /\ timeSync' = timeSync
  BY TickClock DEF Tick, ClockInv, nodes, history1, alerts, time
<1>2. heardAt \in [Hashes -> Nat] /\ IsSeen(seen, heardAt, now)
  BY DEF SeenInv
<1>3. \A i \in Entries(seen) : heardAt[seen[i].hash] \in Nat /\ heardAt[seen[i].hash] <= now
  BY <1>2, EntryOfTable
<1>4. SeenInv'
  <2>1. \A i \in Entries(seen) : heardAt[seen[i].hash] <= now + 1
    BY <1>1, <1>3
  <2> QED BY <1>1, <1>2, <2>1 DEF SeenInv, IsSeen
<1>5. ASSUME NEW i \in Entries(seen) PROVE Marked(i)'
  <2>1. Marked(i)
    BY DEF AlertInv
  <2>2. Due(i)' = Due(i) /\ (Timely(i)' <=> Timely(i))
    BY <1>1 DEF Due, DueAt, Timely
  <2>3. Due(i) \in Int
    BY <1>3, Limits DEF Due, DueAt
  <2>4. Due(i) < now => Due(i) < now + 1
    BY <1>1, <2>3
  <2> QED BY <1>1, <2>1, <2>2, <2>4 DEF Marked
<1>6. AlertInv'
  BY <1>1, <1>5 DEF AlertInv, Known, Entries
<1> QED BY <1>4, <1>6

(* A round of healthCheck: whoever fell silent is marked, and alerted of   *)
(* if that is possible; the others were heard not long before.             *)
LEMMA MinuteAlerts ==
  ASSUME ClockInv, AlertInv, SeenInv, MinuteTasks
  PROVE  SeenInv' /\ AlertInv' /\ Known(seen') = Known(seen)
<1>1. /\ LastRound' = now /\ now' = now /\ now \in Nat /\ Offline \in Nat
      /\ alertOn' = alertOn /\ readySince' = readySince /\ timeSync' = timeSync
      /\ HealthCheck
  BY MinuteClock, Limits DEF MinuteTasks, ClockInv, alerts, time
<1>2. heardAt \in [Hashes -> Nat] /\ IsSeen(seen, heardAt, now) /\ seen \in Seq(SeenNode)
  BY DEF SeenInv, IsSeen
<1>3. LastRound \in Nat /\ now - LastRound <= Period + 1
  BY DEF ClockInv
<1>4. ASSUME NEW i \in Entries(seen)
      PROVE  /\ seen[i] \in SeenNode /\ seen[i].hash \in Hashes
             /\ Due(i) \in Nat
             /\ Since(seen[i].lastSeen) > Offline => Due(i) < now
             /\ LastRound <= Due(i) /\ ~(Since(seen[i].lastSeen) > Offline) =>
                  now <= Due(i)
  <2>1. seen[i] \in SeenNode /\ seen[i].hash \in Hashes
    BY <1>2, EntryOfTable
  <2>2. PICK t \in Nat : t = heardAt[seen[i].hash]
    BY <1>2, <2>1
  <2>3. t <= now /\ seen[i].lastSeen = t % Wrap
    BY <1>2, <2>2 DEF IsSeen
  <2>4. PICK d \in Int : d = Since(seen[i].lastSeen)
    BY <2>3, SinceTrue
  <2>5. d <= now - t /\ (now - t < Wrap => d = now - t)
    BY <2>3, <2>4, SinceTrue
  <2>6. Due(i) = t + Offline
    BY <2>2 DEF Due, DueAt
  <2>7. d > Offline => t + Offline < now
    BY <1>1, <2>5
  <2>8. LastRound <= t + Offline /\ ~(d > Offline) => now <= t + Offline
    BY <1>1, <1>3, <2>5, Limits
  <2>9. t + Offline \in Nat
    BY <1>1
  <2> QED BY <2>1, <2>4, <2>6, <2>7, <2>8, <2>9
<1>5. CASE ~alertOn
  <2>1. seen' = seen /\ heardAt' = heardAt /\ told' = told
    BY <1>1, <1>5 DEF HealthCheck, nodes, history1
  <2>2. SeenInv'
    BY <1>1, <2>1 DEF SeenInv
  <2>3. readySince = None
    BY <1>5 DEF AlertInv
  <2>4. ASSUME NEW i \in Entries(seen) PROVE Marked(i)'
    <3>1. Marked(i)
      BY DEF AlertInv
    <3>2. ~Timely(i)' /\ ~Timely(i) /\ Due(i)' = Due(i)
      BY <1>1, <2>1, <2>3 DEF Timely, Due, DueAt
    <3> QED BY <1>1, <2>1, <3>1, <3>2 DEF Marked
  <2>5. AlertInv'
    BY <1>1, <2>1, <2>4 DEF AlertInv, Known, Entries
  <2> QED BY <2>1, <2>2, <2>5
<1>6. CASE alertOn
  <2>1. /\ seen' = [i \in Entries(seen) |-> Checked(seen[i])]
        /\ told' = [h \in Hashes |->
             IF timeSync.synced /\ \E i \in Entries(seen) : seen[i].hash = h /\ Fallen(seen[i])
             THEN Min({told[h] + 1, 2}) ELSE told[h]]
        /\ heardAt' = heardAt
    BY <1>1, <1>6 DEF HealthCheck
  <2>2. ASSUME NEW i \in Entries(seen)
        PROVE  /\ seen'[i] \in SeenNode /\ seen'[i].hash = seen[i].hash
               /\ seen'[i].lastSeen = seen[i].lastSeen /\ seen'[i].count = seen[i].count
               /\ seen'[i].alerted <=> seen[i].alerted \/ Fallen(seen[i])
    <3>1. PICK e \in SeenNode : e = seen[i]
      BY <1>4
    <3>2. seen'[i] = Checked(e)
      BY <2>1, <3>1
    <3>3. CASE Fallen(e)
      <4>1. seen'[i] = [e EXCEPT !.alerted = TRUE]
        BY <3>2, <3>3 DEF Checked
      <4>2. /\ [e EXCEPT !.alerted = TRUE] \in SeenNode /\ [e EXCEPT !.alerted = TRUE].hash = e.hash
            /\ [e EXCEPT !.alerted = TRUE].lastSeen = e.lastSeen
            /\ [e EXCEPT !.alerted = TRUE].count = e.count /\ [e EXCEPT !.alerted = TRUE].alerted
        BY DEF SeenNode
      <4>3. /\ seen'[i] \in SeenNode /\ seen'[i].hash = e.hash /\ seen'[i].lastSeen = e.lastSeen
            /\ seen'[i].count = e.count /\ seen'[i].alerted
        BY <4>1, <4>2, Zenon
      <4> QED BY <3>1, <3>3, <4>3
    <3>4. CASE ~Fallen(e)
      BY <3>1, <3>2, <3>4 DEF Checked
    <3> QED BY <3>3, <3>4
  <2>3. Len(seen) \in Nat /\ Entries(seen) = 1 .. Len(seen) /\ Entries(seen') = Entries(seen)
    BY <1>2, <2>1, SeqIsFunction DEF Entries
  <2>4. seen' \in Seq(SeenNode) /\ Len(seen') = Len(seen)
    <3>1. seen' \in [1 .. Len(seen) -> SeenNode]
      BY <2>1, <2>2, <2>3
    <3> QED BY <2>3, <3>1
  <2>5. IsSeen(seen', heardAt, now)
    <3>1. \A i, j \in Entries(seen') : seen'[i].hash = seen'[j].hash => i = j
      BY <1>2, <2>2, <2>3 DEF IsSeen
    <3>2. \A i \in Entries(seen') : heardAt[seen'[i].hash] <= now
                                     /\ seen'[i].lastSeen = heardAt[seen'[i].hash] % Wrap
      BY <1>2, <2>2, <2>3 DEF IsSeen
    <3> QED BY <1>2, <2>4, <3>1, <3>2 DEF IsSeen
  <2>6. SeenInv'
    BY <1>1, <1>2, <2>1, <2>5 DEF SeenInv
  <2>7. Known(seen') = Known(seen)
    BY <2>2, <2>3 DEF Known
  <2>8. \A h \in Hashes : told[h] \in {0, 1}
    BY DEF AlertInv
  <2>9. ASSUME NEW i \in Entries(seen), Fallen(seen[i])
        PROVE  told[seen[i].hash] = 0 /\ (timeSync.synced => told'[seen[i].hash] = 1)
    <3>1. told[seen[i].hash] = 0 /\ seen[i].hash \in Hashes
      BY <1>4, <2>9 DEF AlertInv, Marked, Fallen
    <3>2. timeSync.synced => told'[seen[i].hash] = Min({0 + 1, 2})
      BY <2>1, <2>9, <3>1
    <3>3. Min({0 + 1, 2}) = 1
      BY OfTwo
    <3> QED BY <3>1, <3>2, <3>3
  <2>10. ASSUME NEW h \in Hashes, \A i \in Entries(seen) : seen[i].hash = h => ~Fallen(seen[i])
         PROVE  told'[h] = told[h]
    BY <2>1, <2>10
  <2>11. told' \in [Hashes -> {0, 1}]
    <3>1. \A h \in Hashes : told'[h] \in {0, 1}
      <4> TAKE h \in Hashes
      <4>1. CASE \E i \in Entries(seen) : seen[i].hash = h /\ Fallen(seen[i])
        <5>1. PICK i \in Entries(seen) : seen[i].hash = h /\ Fallen(seen[i])
          BY <4>1
        <5>2. ~timeSync.synced => told'[h] = told[h]
          BY <2>1
        <5> QED BY <2>8, <2>9, <5>1, <5>2
      <4>2. CASE ~\E i \in Entries(seen) : seen[i].hash = h /\ Fallen(seen[i])
        BY <2>8, <2>10, <4>2
      <4> QED BY <4>1, <4>2
    <3>2. told' = [h \in Hashes |-> told'[h]]
      BY <2>1
    <3> QED BY <3>1, <3>2
  <2>12. \A h \in Hashes \ Known(seen') : told'[h] = 0
    BY <2>7, <2>10 DEF AlertInv, Known
  <2>13. ASSUME NEW i \in Entries(seen') PROVE Marked(i)'
    <3>1. i \in Entries(seen) /\ Marked(i)
      BY <2>3 DEF AlertInv
    <3> DEFINE h == seen[i].hash
    <3>2. seen'[i].hash = h /\ h \in Hashes
      BY <1>4, <2>2, <3>1
    <3>3. Due(i)' = Due(i) /\ (Timely(i)' <=> Timely(i))
      BY <1>1, <2>1, <3>2 DEF Due, DueAt, Timely
    <3>4. Timely(i) => timeSync.synced
      BY DEF Timely, AlertInv
    <3>5. CASE Fallen(seen[i])
      <4>1. seen'[i].alerted /\ Due(i) < now
        BY <1>4, <2>2, <3>1, <3>5 DEF Fallen
      <4>2. Timely(i) => told'[h] = 1
        BY <2>9, <3>1, <3>4, <3>5
      <4> QED BY <1>1, <3>2, <3>3, <4>1, <4>2 DEF Marked
    <3>6. CASE ~Fallen(seen[i])
      <4>1. told'[h] = told[h]
        BY <1>2, <2>10, <3>1, <3>2, <3>6 DEF IsSeen
      <4>2. seen'[i].alerted <=> seen[i].alerted
        BY <2>2, <3>1, <3>6
      <4>3. CASE seen[i].alerted
        BY <1>1, <3>1, <3>2, <3>3, <4>1, <4>2, <4>3 DEF Marked
      <4>4. CASE ~seen[i].alerted
        <5>1. ASSUME seen[i].count >= AlertAt, seen[i].lastSeen # 0, Timely(i)
              PROVE  now <= Due(i)
          <6>1. ~(Since(seen[i].lastSeen) > Offline)
            BY <3>6, <4>4, <5>1 DEF Fallen
          <6>2. LastRound <= Due(i)
            BY <3>1, <4>4, <5>1 DEF Marked
          <6> QED BY <1>4, <3>1, <6>1, <6>2
        <5>2. told[h] = 0
          BY <3>1, <4>4 DEF Marked
        <5>3. seen'[i].count = seen[i].count /\ seen'[i].lastSeen = seen[i].lastSeen
          BY <2>2, <3>1
        <5> QED BY <1>1, <3>2, <3>3, <4>1, <4>2, <4>4, <5>1, <5>2, <5>3 DEF Marked
      <4> QED BY <4>3, <4>4
    <3> QED BY <3>5, <3>6
  <2>14. AlertInv'
    BY <1>1, <2>11, <2>12, <2>13 DEF AlertInv
  <2> QED BY <2>6, <2>7, <2>14
<1> QED BY <1>5, <1>6 DEF AlertInv

-----------------------------------------------------------------------------
(***************************************************************************)
(* The answers to discovery requests.                                      *)
(***************************************************************************)

(* The limits of DiscoverLimiter.                                          *)
LEMMA AnswerNumbers ==
  /\ MaxAnswers \in Nat \ {0} /\ AnswerWindow \in Nat /\ 0 < AnswerWindow
  /\ AnswerWindow <= Wrap /\ Wrap \in Nat \ {0}
BY RepeaterAssumption, TimeSyncAssumption

(* The place of a recent answer looks fresh.                               *)
LEMMA RecentIsFresh ==
  ASSUME ClockInv, AnswerInv, NEW f \in [Recent -> AnswerPlaces], PlacesOf(f), NEW x \in Recent
  PROVE  Fresh(answerTimes[f[x]], Millis)
<1>1. PICK t \in Nat : t = answered[x] /\ t <= now
  BY DEF AnswerInv, Recent
<1>2. now \in Nat /\ now - t < AnswerWindow
  BY <1>1 DEF ClockInv, Recent
<1>3. answerTimes[f[x]] = t % Wrap /\ t % Wrap # 0
  BY <1>1 DEF PlacesOf
<1>4. Elapsed(t % Wrap, now % Wrap) = now - t
  <2>1. now - t < Wrap
    BY <1>1, <1>2, AnswerNumbers
  <2> QED BY <1>1, <1>2, <2>1, TrueTime
<1>5. t % Wrap > 0
  BY <1>3, AnswerNumbers
<1> QED BY <1>2, <1>3, <1>4, <1>5 DEF Fresh, Millis

(* A recent answer after a tick was recent before.                        *)
LEMMA TickAnswers ==
  ASSUME ClockInv, AnswerInv, Tick, UNCHANGED answers
  PROVE  AnswerInv'
<1>1. now' = now + 1 /\ now \in Nat /\ answerTimes' = answerTimes /\ answered' = answered
  BY TickClock DEF ClockInv, answers
<1>2. \A x \in DOMAIN answered : answered[x] \in Nat /\ answered[x] <= now /\ answered[x] <= now + 1
  BY <1>1 DEF AnswerInv
<1>3. Recent' \subseteq Recent
  BY <1>1, <1>2, AnswerNumbers DEF Recent
<1>4. PICK f \in [Recent -> AnswerPlaces] : PlacesOf(f)
  BY DEF AnswerInv
<1>5. PICK g : g = [x \in Recent' |-> f[x]]
  OBVIOUS
<1>6. g \in [Recent' -> AnswerPlaces] /\ \A x \in Recent' : g[x] = f[x]
  BY <1>3, <1>5
<1>7. \A x, y \in Recent' : g[x] = g[y] => x = y
  BY <1>3, <1>4, <1>6 DEF PlacesOf
<1>8. \A x \in Recent' : answered[x] % Wrap # 0 /\ answerTimes[g[x]] = answered[x] % Wrap
  BY <1>3, <1>4, <1>6 DEF PlacesOf
<1>9. ASSUME now' < Wrap, NEW i \in AnswerPlaces
      PROVE  /\ answerTimes[i] <= now'
             /\ Fresh(answerTimes[i], Millis') => \E x \in Recent' : g[x] = i
  <2>1. now < Wrap /\ now \in 0 .. Wrap - 1 /\ now + 1 \in 0 .. Wrap - 1
    BY <1>1, <1>9, AnswerNumbers
  <2>2. PICK t \in 0 .. Wrap - 1 : t = answerTimes[i]
    BY DEF AnswerInv
  <2>3. t <= now /\ (Fresh(t, Millis) => \E x \in Recent : f[x] = i)
    BY <1>4, <2>1, <2>2 DEF PlacesOf
  <2>4. Millis = now /\ Millis' = now + 1 /\ t % Wrap = t /\ now % Wrap = now /\ (now + 1) % Wrap = now + 1
    BY <1>1, <2>1, AnswerNumbers, SmallMod DEF Millis
  <2>5. Elapsed(t, now) = now - t
    <3>1. t \in Nat /\ now - t < Wrap
      BY <2>1, <2>2, <2>3, AnswerNumbers
    <3>2. Elapsed(t % Wrap, now % Wrap) = now - t
      BY <1>1, <2>3, <3>1, TrueTime
    <3> QED BY <2>4, <3>2
  <2>6. Elapsed(t, now + 1) = (now + 1) - t
    <3> DEFINE n == now + 1
    <3>1. n \in Nat /\ t \in Nat /\ t <= n /\ n - t < Wrap /\ n % Wrap = n /\ t % Wrap = t
      BY <1>1, <2>1, <2>2, <2>3, <2>4, AnswerNumbers
    <3> HIDE DEF n
    <3>2. Elapsed(t % Wrap, n % Wrap) = n - t
      BY <3>1, TrueTime
    <3>3. Elapsed(t, n) = n - t
      BY <3>1, <3>2
    <3> QED BY <3>3 DEF n
  <2>7. ASSUME Fresh(t, Millis') PROVE \E x \in Recent' : g[x] = i
    <3>1. t > 0 /\ (now + 1) - t < AnswerWindow
      BY <2>4, <2>6, <2>7 DEF Fresh
    <3>2. now - t < AnswerWindow
      BY <1>1, <2>2, <3>1, AnswerNumbers
    <3>3. Fresh(t, Millis)
      BY <2>4, <2>5, <3>1, <3>2 DEF Fresh
    <3>4. PICK x \in Recent : f[x] = i
      BY <2>3, <3>3
    <3>5. PICK y \in Nat : y = answered[x] /\ y <= now /\ x \in DOMAIN answered
      BY <1>2 DEF Recent
    <3>6. y % Wrap = y
      BY <2>1, <3>5, AnswerNumbers, SmallMod
    <3>7. y = t
      BY <1>4, <2>2, <3>4, <3>5, <3>6 DEF PlacesOf
    <3>8. x \in Recent'
      BY <1>1, <3>1, <3>5, <3>7 DEF Recent
    <3> QED BY <1>6, <3>4, <3>8
  <2>8. t <= now'
    BY <1>1, <2>2, <2>3
  <2> QED BY <2>2, <2>7, <2>8
<1>10. PlacesOf(g)'
  BY <1>1, <1>7, <1>8, <1>9 DEF PlacesOf
<1>11. \E h \in [Recent' -> AnswerPlaces] : PlacesOf(h)'
  BY <1>6, <1>10
<1> QED BY <1>1, <1>2, <1>11 DEF AnswerInv

(* A place that is cleaned and fresh is one that was.                      *)
LEMMA CleanedPlace ==
  ASSUME AnswerInv, NEW i \in AnswerPlaces
  PROVE  /\ DOMAIN answerTimes = AnswerPlaces
         /\ Cleaned(answerTimes, Millis) \in [AnswerPlaces -> 0 .. Wrap - 1]
         /\ Cleaned(answerTimes, Millis)[i] =
              IF Fresh(answerTimes[i], Millis) THEN answerTimes[i] ELSE 0
         /\ answerTimes[i] \in 0 .. Wrap - 1
         /\ Fresh(answerTimes[i], Millis) => answerTimes[i] > 0
<1>1. 0 \in 0 .. Wrap - 1
  BY AnswerNumbers
<1> QED BY <1>1 DEF AnswerInv, Cleaned, Fresh

(* With the places cleaned and nothing added.                              *)
LEMMA AnswersCleaned ==
  ASSUME ClockInv, UNCHANGED clock, AnswerInv, answered' = answered,
         answerTimes' = Cleaned(answerTimes, Millis)
  PROVE  AnswerInv'
<1>1. now' = now /\ Millis' = Millis /\ Recent' = Recent /\ now \in Nat
  BY DEF clock, Millis, Recent, ClockInv
<1>2. PICK f \in [Recent -> AnswerPlaces] : PlacesOf(f)
  BY DEF AnswerInv
<1>3. \A x \in Recent : answerTimes'[f[x]] = answerTimes[f[x]]
  <2> TAKE x \in Recent
  <2>1. f[x] \in AnswerPlaces /\ Fresh(answerTimes[f[x]], Millis)
    BY <1>2, RecentIsFresh
  <2> QED BY <2>1, CleanedPlace
<1>4. ASSUME NEW i \in AnswerPlaces, now < Wrap
      PROVE  answerTimes'[i] <= now /\ (Fresh(answerTimes'[i], Millis) => \E x \in Recent : f[x] = i)
  <2>1. ~Fresh(0, Millis)
    BY DEF Fresh
  <2>2. answerTimes[i] <= now /\ (Fresh(answerTimes[i], Millis) => \E x \in Recent : f[x] = i)
    BY <1>2, <1>4 DEF PlacesOf
  <2>3. answerTimes'[i] = IF Fresh(answerTimes[i], Millis) THEN answerTimes[i] ELSE 0
    BY CleanedPlace
  <2>4. 0 <= now
    BY <1>1
  <2> QED BY <2>1, <2>2, <2>3, <2>4
<1>5. PlacesOf(f)'
  BY <1>1, <1>2, <1>3, <1>4 DEF PlacesOf
<1>6. answerTimes' \in [AnswerPlaces -> 0 .. Wrap - 1]
  <2>1. 1 \in AnswerPlaces
    BY AnswerNumbers DEF AnswerPlaces
  <2> QED BY <2>1, CleanedPlace
<1> QED BY <1>1, <1>2, <1>5, <1>6 DEF AnswerInv

(* When an answer is allowed there is a place for it.                      *)
LEMMA PlaceIsFree ==
  ASSUME AnswerInv, MayAnswer(answerTimes, Millis)
  PROVE  {i \in AnswerPlaces : Cleaned(answerTimes, Millis)[i] = 0} # {}
<1> SUFFICES ASSUME \A i \in AnswerPlaces : Cleaned(answerTimes, Millis)[i] # 0 PROVE FALSE
  OBVIOUS
<1>1. \A i \in AnswerPlaces : Fresh(answerTimes[i], Millis)
  BY CleanedPlace
<1>2. DOMAIN answerTimes = AnswerPlaces
  BY DEF AnswerInv
<1>3. {i \in DOMAIN answerTimes : Fresh(answerTimes[i], Millis)} = AnswerPlaces
  BY <1>1, <1>2
<1>4. Cardinality(AnswerPlaces) = MaxAnswers
  BY AnswerNumbers, FS_Interval DEF AnswerPlaces
<1>5. MaxAnswers < MaxAnswers
  BY <1>3, <1>4 DEF MayAnswer
<1> QED BY <1>5, AnswerNumbers

(* allow finds a place for the answer, which no recent one has.            *)
LEMMA DiscoverAnswers ==
  ASSUME ClockInv, AnswerInv, DiscoverRequest
  PROVE  AnswerInv'
<1>1. UNCHANGED clock /\ now \in Nat /\ now' = now /\ Millis' = Millis /\ Millis \in 0 .. Wrap - 1
  BY AnswerNumbers DEF DiscoverRequest, clock, Millis, ClockInv
<1>2. CASE ~MayAnswer(answerTimes, Millis)
  <2>1. answerTimes' = Cleaned(answerTimes, Millis) /\ answered' = answered
    BY <1>2 DEF DiscoverRequest
  <2> QED BY <1>1, <2>1, AnswersCleaned
<1>3. CASE MayAnswer(answerTimes, Millis)
  <2> DEFINE C == Cleaned(answerTimes, Millis)
             F == {i \in AnswerPlaces : C[i] = 0}
             p == Min(F)
  <2>1. DOMAIN answerTimes = AnswerPlaces /\ AnswerPlaces \in SUBSET Nat
    BY DEF AnswerInv, AnswerPlaces
  <2>2. F # {} /\ F \in SUBSET Nat
    BY <1>3, <2>1, PlaceIsFree
  <2>3. p \in F
    <3> HIDE DEF F
    <3> QED BY <2>2, MinIsLeast
  <2>4. answerTimes' = [C EXCEPT ![p] = Millis]
    BY <1>3, <2>1, <2>2 DEF DiscoverRequest, Recorded
  <2>5. p \in AnswerPlaces /\ C[p] = 0 /\ C \in [AnswerPlaces -> 0 .. Wrap - 1]
    BY <2>3, CleanedPlace
  <2>6. CASE Millis = 0
    <3>1. answerTimes' = C /\ answered' = answered
      BY <1>3, <2>4, <2>5, <2>6 DEF DiscoverRequest
    <3> QED BY <1>1, <3>1, AnswersCleaned
  <2>7. CASE Millis # 0
    <3> HIDE DEF p, C
    <3>1. answered' = Append(answered, now)
      BY <1>3, <2>7 DEF DiscoverRequest
    <3>2. PICK f \in [Recent -> AnswerPlaces] : PlacesOf(f)
      BY DEF AnswerInv
    <3>3. PICK n \in Nat : n = Len(answered) + 1 /\ DOMAIN answered = 1 .. n - 1
      BY DEF AnswerInv
    <3>4. /\ answered' \in Seq(Nat) /\ DOMAIN answered' = 1 .. n /\ answered'[n] = now
          /\ \A x \in DOMAIN answered : answered'[x] = answered[x] /\ x # n /\ x \in 1 .. n
      BY <1>1, <3>1, <3>3 DEF AnswerInv
    <3>5. Recent' = Recent \cup {n}
      <4>1. now - now < AnswerWindow /\ n \in 1 .. n
        BY <1>1, <3>3, AnswerNumbers
      <4>2. \A x \in 1 .. n : x = n \/ x \in DOMAIN answered
        BY <3>3
      <4> QED BY <1>1, <3>4, <4>1, <4>2 DEF Recent
    <3>6. n \notin Recent
      BY <3>3 DEF Recent
    <3>7. PICK g : g = [x \in Recent' |-> IF x = n THEN p ELSE f[x]]
      OBVIOUS
    <3>8. /\ g \in [Recent' -> AnswerPlaces] /\ g[n] = p
          /\ \A x \in Recent : g[x] = f[x] /\ f[x] \in AnswerPlaces /\ x \in Recent'
      BY <2>5, <3>5, <3>6, <3>7
    <3>9. \A x \in Recent : Fresh(answerTimes[f[x]], Millis)
      BY <3>2, RecentIsFresh
    <3>10. \A x \in Recent : C[f[x]] = answerTimes[f[x]] /\ f[x] # p
      <4> TAKE x \in Recent
      <4>1. C[f[x]] = answerTimes[f[x]] /\ answerTimes[f[x]] > 0
        BY <3>8, <3>9, CleanedPlace DEF C
      <4>2. f[x] # p
        BY <2>5, <4>1
      <4> QED BY <4>1, <4>2
    <3>11. answerTimes'[p] = Millis /\ \A i \in AnswerPlaces : i # p => answerTimes'[i] = C[i]
      BY <2>4, <2>5
    <3>12. \A x, y \in Recent' : g[x] = g[y] => x = y
      BY <3>2, <3>5, <3>8, <3>10 DEF PlacesOf
    <3>13. \A x \in Recent' : answered'[x] % Wrap # 0 /\ answerTimes'[g[x]] = answered'[x] % Wrap
      <4>1. \A x \in Recent : answered'[x] = answered[x]
        BY <3>4 DEF Recent
      <4>2. \A x \in Recent : answered'[x] % Wrap # 0 /\ answerTimes'[g[x]] = answered'[x] % Wrap
        BY <3>2, <3>8, <3>10, <3>11, <4>1 DEF PlacesOf
      <4>3. answered'[n] % Wrap # 0 /\ answerTimes'[g[n]] = answered'[n] % Wrap
        BY <2>7, <3>4, <3>8, <3>11 DEF Millis
      <4> QED BY <3>5, <4>2, <4>3
    <3>14. ASSUME NEW i \in AnswerPlaces, now < Wrap
           PROVE  /\ answerTimes'[i] <= now
                  /\ Fresh(answerTimes'[i], Millis) => \E x \in Recent' : g[x] = i
      <4>1. CASE i = p
        <5>1. Millis = now
          BY <1>1, <3>14, AnswerNumbers, SmallMod DEF Millis
        <5> QED BY <1>1, <3>5, <3>8, <3>11, <4>1, <5>1
      <4>2. CASE i # p
        <5>1. ~Fresh(0, Millis) /\ 0 <= now
          BY <1>1 DEF Fresh
        <5>2. answerTimes[i] <= now /\ (Fresh(answerTimes[i], Millis) => \E x \in Recent : f[x] = i)
          BY <3>2, <3>14 DEF PlacesOf
        <5>3. answerTimes'[i] = IF Fresh(answerTimes[i], Millis) THEN answerTimes[i] ELSE 0
          BY <3>11, <4>2, CleanedPlace DEF C
        <5> QED BY <3>8, <5>1, <5>2, <5>3
      <4> QED BY <4>1, <4>2
    <3>15. PlacesOf(g)'
      BY <1>1, <3>12, <3>13, <3>14 DEF PlacesOf
    <3>16. answerTimes' \in [AnswerPlaces -> 0 .. Wrap - 1]
      BY <1>1, <2>4, <2>5
    <3>17. \A x \in DOMAIN answered' : answered'[x] <= now
      <4>1. \A x \in DOMAIN answered : answered[x] <= now
        BY DEF AnswerInv
      <4>2. now <= now
        BY <1>1
      <4>3. \A x \in 1 .. n : x = n \/ x \in DOMAIN answered
        BY <3>3
      <4> QED BY <3>4, <4>1, <4>2, <4>3
    <3>18. \E h \in [Recent' -> AnswerPlaces] : PlacesOf(h)'
      BY <3>8, <3>15
    <3> QED BY <1>1, <3>4, <3>16, <3>17, <3>18 DEF AnswerInv
  <2> QED BY <2>6, <2>7
<1> QED BY <1>2, <1>3

(* So there are at most as many recent answers as places, and as many when *)
(* a request is refused before the first wrap.                             *)
LEMMA AnswersLimited == AnswerInv => DiscoveryLimited
<1> SUFFICES ASSUME AnswerInv PROVE DiscoveryLimited
  OBVIOUS
<1>1. PICK f \in [Recent -> AnswerPlaces] : PlacesOf(f)
  BY DEF AnswerInv
<1>2. IsFiniteSet(AnswerPlaces) /\ Cardinality(AnswerPlaces) = MaxAnswers
  BY AnswerNumbers, FS_Interval DEF AnswerPlaces
<1>3. f \in Injection(Recent, AnswerPlaces)
  BY <1>1 DEF PlacesOf, Injection, IsInjective
<1>4. Cardinality(Recent) <= MaxAnswers
  BY <1>2, <1>3, FS_Injection
<1>5. ASSUME now < Wrap, ~MayAnswer(answerTimes, Millis)
      PROVE  Cardinality(Recent) = MaxAnswers
  <2> DEFINE F == {i \in AnswerPlaces : Fresh(answerTimes[i], Millis)}
  <2>1. DOMAIN answerTimes = AnswerPlaces
    BY DEF AnswerInv
  <2>2. ~(Cardinality(F) < MaxAnswers)
    BY <1>5, <2>1 DEF MayAnswer
  <2>3. Cardinality(F) <= Cardinality(AnswerPlaces) /\ IsFiniteSet(F)
        /\ (Cardinality(AnswerPlaces) = Cardinality(F) => AnswerPlaces = F)
    BY <1>2, FS_Subset
  <2>4. Cardinality(F) \in Nat
    BY <2>3, FS_CardinalityType
  <2>5. F = AnswerPlaces
    BY <1>2, <2>2, <2>3, <2>4, AnswerNumbers
  <2>6. \A i \in AnswerPlaces : \E x \in Recent : f[x] = i
    BY <1>1, <1>5, <2>5 DEF PlacesOf
  <2>7. f \in Surjection(Recent, AnswerPlaces)
    BY <1>1, <2>6 DEF Surjection
  <2> QED BY <1>2, <1>3, <2>7, FS_Injection
<1> QED BY <1>4, <1>5 DEF DiscoveryLimited, Recent

-----------------------------------------------------------------------------
(***************************************************************************)
(* After a boot the tables are empty.                                      *)
(***************************************************************************)
Booted ==
  /\ now = 0 /\ lastCleanup = 0 /\ readySince = None
  /\ timeSync = NotSynced /\ lastClaim = None
  /\ quietHours = None /\ inQuiet = FALSE /\ forwardMax = ForwardMax
  /\ seen = Blank.seen /\ heardAt = Blank.zero /\ told = Blank.zero
  /\ neighbours = Blank.neighbours /\ advert = Blank.advert
  /\ adaptive = FALSE /\ power = MaxPower /\ radioPower = MaxPower
  /\ answerTimes = NoAnswers /\ answered = <<>>
  /\ acl = NoPermissions /\ granted = Blank.granted
  /\ alertOn \in BOOLEAN /\ scene \in Scenes

(* The invariant holds with empty tables.                                  *)
LEMMA BootedInv == Booted => LinksInv
<1> SUFFICES ASSUME Booted PROVE LinksInv
  OBVIOUS
<1>0. Wrap \in Nat \ {0} /\ 0 \in 0 .. Wrap - 1 /\ 0 \in 0 .. TimeRange - 1 /\ 0 % Wrap = 0 /\ now = 0
  BY WrapType DEF Booted
<1>1. ClockInv
  <2>1. Since(0) = 0
    BY <1>0 DEF Since, Elapsed, Millis
  <2>2. LastRound = 0
    BY <1>0, <2>1 DEF LastRound, Booted
  <2> QED BY <1>0, <2>2, Limits DEF ClockInv, Booted
<1>2. seen = <<>> /\ Entries(seen) = {} /\ Known(seen) = {} /\ seen \in Seq(SeenNode) /\ Len(seen) = 0
  BY DEF Booted, Blank, Entries, Known
<1>3. SeenInv
  <2>1. heardAt \in [Hashes -> Nat]
    BY DEF Booted, Blank
  <2>2. 0 <= SeenSlots
    BY Limits
  <2> QED BY <1>2, <2>1, <2>2 DEF SeenInv, IsSeen
<1>4. AlertInv
  BY <1>2 DEF AlertInv, Booted, Blank, NotSynced
<1>5. NeighbourInv
  <2>1. neighbours = [i \in Places |-> None] /\ advert = [n \in Nodes |-> None]
    BY DEF Booted, Blank
  <2>2. Taken(neighbours) = {}
    BY <2>1 DEF Taken
  <2> QED BY <2>1, <2>2 DEF NeighbourInv
<1>6. PowerInv
  <2>1. MinPower \in Int /\ MaxPower \in Int /\ MinPower <= MaxPower
    BY LinksAssumption
  <2>2. MaxPower \in MinPower .. MaxPower
    BY <2>1
  <2> QED BY <2>2 DEF PowerInv, NeverWeakerThanBelieved, Booted
<1>7. QuietInv
  BY DEF QuietInv, Booted
<1>8. TimeInv
  BY <1>0 DEF TimeInv, Booted, NotSynced
<1>9. AnswerInv
  <2>1. answered = <<>> /\ answered \in Seq(Nat) /\ DOMAIN answered = {} /\ Recent = {}
    BY DEF Booted, Recent
  <2>2. answerTimes = [i \in AnswerPlaces |-> 0]
    BY DEF Booted, NoAnswers, AnswerPlaces
  <2>3. answerTimes \in [AnswerPlaces -> 0 .. Wrap - 1]
    BY <1>0, <2>2
  <2>4. PICK f : f = [x \in Recent |-> 1]
    OBVIOUS
  <2>5. f \in [Recent -> AnswerPlaces]
    BY <2>1, <2>4
  <2>6. PlacesOf(f)
    <3>1. \A i \in AnswerPlaces : answerTimes[i] <= now /\ ~Fresh(answerTimes[i], Millis)
      BY <1>0, <2>2 DEF Fresh
    <3> QED BY <2>1, <3>1 DEF PlacesOf
  <2> QED BY <2>1, <2>3, <2>5, <2>6 DEF AnswerInv
<1>10. AclInv
  <2>1. acl = [i \in 1 .. AclSlots |-> NoEntry] /\ granted = [n \in Nodes |-> None]
    BY DEF Booted, NoPermissions, Blank
  <2> QED BY <2>1 DEF AclInv, PermissionsCurrent
<1> QED BY <1>1, <1>3, <1>4, <1>5, <1>6, <1>7, <1>8, <1>9, <1>10 DEF LinksInv, Booted

(* Also after a reboot.                                                    *)
LEMMA RebootedInv == Booted' => LinksInv'
<1>1. Booted => LinksInv
  BY BootedInv
<1> QED BY <1>1, PTL

-----------------------------------------------------------------------------
(***************************************************************************)
(* Each action keeps the invariant.                                        *)
(***************************************************************************)
StaysNear  == UNCHANGED <<powers, quiet>>
StaysAside == UNCHANGED <<answers, rights>>

(* An ADVERT is noted for its sender, and may be of a neighbour.           *)
LEMMA AdvertInv ==
  ASSUME LinksInv, NEW p \in scene.hears, p.kind = "advert", HearAdvert(p), StaysAside
  PROVE  LinksInv'
<1>0. scene \in Scenes /\ scene' = scene /\ now \in Nat /\ UNCHANGED clock
  BY DEF LinksInv, HearAdvert, ClockInv
<1>1. p.from \in Nodes /\ HashOf[p.from] \in Hashes /\ p.snr \in Int /\ TimeIn(p) \in Int
  BY <1>0, Inputs
<1>2. ClockInv'
  BY <1>0, LastRoundStays DEF LinksInv
<1>3. TimeInv'
  BY <1>1, AdvertTime DEF LinksInv
<1>4. Noted({HashOf[p.from]})
  BY <1>0, <1>1, NoteOne DEF LinksInv, HearAdvert
<1>5. AlertInv'
  <2>1. alertOn' \in BOOLEAN /\ alertOn' = alertOn /\ readySince' = Ready(alertOn, timeSync'.synced)
    BY DEF LinksInv, AlertInv, HearAdvert
  <2>2. timeSync'.synced \in BOOLEAN
    BY <1>3 DEF TimeInv
  <2>3. /\ SeenInv' /\ told' \in [Hashes -> {0, 1}] /\ \A h \in Hashes \ Known(seen') : told'[h] = 0
        /\ \A i \in Entries(seen') : Fresh1(seen'[i], {HashOf[p.from]}) \/ Kept1(i, {HashOf[p.from]})
    BY <1>4 DEF Noted, LinksInv, AlertInv
  <2>4. readySince' = Ready(alertOn', timeSync'.synced)
    BY <2>1
  <2> QED BY <1>0, <2>1, <2>2, <2>3, <2>4, HeardAlerts DEF LinksInv
<1>6. NeighbourInv'
  BY <1>1, AdvertNeighbours DEF LinksInv
<1>7. PowerInv' /\ QuietInv' /\ AclInv'
  BY PowerStays, QuietStays, AclStays DEF HearAdvert, StaysAside, LinksInv
<1>8. AnswerInv'
  BY <1>0, AnswerStays DEF StaysAside, LinksInv
<1> QED BY <1>0, <1>2, <1>3, <1>4, <1>5, <1>6, <1>7, <1>8 DEF LinksInv, Noted

(* Another packet is noted for the first and the last byte of its path.    *)
LEMMA PathNoted ==
  ASSUME LinksInv, NEW p \in scene.hears, p.kind = "path", HearPath(p)
  PROVE  \E hs : Noted(hs)
<1>0. scene \in Scenes /\ now \in Nat /\ UNCHANGED clock
  BY DEF LinksInv, HearPath, ClockInv
<1>1. p.path \in Seq(Hashes) /\ p.path # <<>>
  BY <1>0, Inputs
<1>2. p.path[1] \in Hashes /\ Last(p.path) \in Hashes
  BY <1>1 DEF Last
<1>3. CASE p.path[1] = Last(p.path)
  <2>1. Note(<<p.path[1]>>)
    BY <1>3 DEF HearPath
  <2> QED BY <1>0, <1>2, <2>1, NoteOne DEF LinksInv
<1>4. CASE p.path[1] # Last(p.path)
  <2>1. Note(<<p.path[1], Last(p.path)>>)
    BY <1>4 DEF HearPath
  <2> QED BY <1>0, <1>2, <2>1, NoteTwo DEF LinksInv
<1> QED BY <1>3, <1>4

(* It changes the table of seen nodes only.                                *)
LEMMA PathInv ==
  ASSUME LinksInv, NEW p \in scene.hears, p.kind = "path", HearPath(p), StaysAside
  PROVE  LinksInv'
<1>0. scene \in Scenes /\ scene' = scene /\ now \in Nat /\ UNCHANGED <<clock, time, alerts, links>>
  BY DEF LinksInv, HearPath, ClockInv
<1>1. PICK hs : Noted(hs)
  BY PathNoted
<1>2. ClockInv'
  BY <1>0, LastRoundStays DEF LinksInv
<1>3. TimeInv' /\ NeighbourInv'
  BY <1>0, TimeStays, NeighbourStays DEF LinksInv
<1>4. AlertInv'
  <2>1. alertOn' \in BOOLEAN /\ alertOn' = alertOn /\ readySince' = readySince /\ timeSync' = timeSync
    BY <1>0 DEF LinksInv, AlertInv, alerts, time
  <2>2. timeSync'.synced \in BOOLEAN
    BY <1>3 DEF TimeInv
  <2>3. readySince' = Ready(alertOn', timeSync'.synced)
    BY <1>0, <2>1, <2>2, ReadyIs DEF LinksInv
  <2>4. /\ SeenInv' /\ told' \in [Hashes -> {0, 1}] /\ \A h \in Hashes \ Known(seen') : told'[h] = 0
        /\ \A i \in Entries(seen') : Fresh1(seen'[i], hs) \/ Kept1(i, hs)
    BY <1>1 DEF Noted, LinksInv, AlertInv
  <2> QED BY <1>0, <2>1, <2>2, <2>3, <2>4, HeardAlerts DEF LinksInv
<1>5. PowerInv' /\ QuietInv' /\ AclInv'
  BY PowerStays, QuietStays, AclStays DEF HearPath, StaysAside, LinksInv
<1>6. AnswerInv'
  BY <1>0, AnswerStays DEF StaysAside, LinksInv
<1> QED BY <1>0, <1>1, <1>2, <1>3, <1>4, <1>5, <1>6 DEF LinksInv, Noted

(* The tasks of the minute.                                                *)
LEMMA MinuteInv ==
  ASSUME LinksInv, MinuteTasks, StaysAside PROVE LinksInv'
<1>0. scene' = scene /\ now' = now /\ UNCHANGED time
  BY DEF MinuteTasks
<1>1. ClockInv' /\ NeighbourInv' /\ PowerInv'
  BY MinuteClock, MinuteNeighbours, MinutePower DEF LinksInv
<1>2. SeenInv' /\ AlertInv'
  BY MinuteAlerts DEF LinksInv
<1>3. QuietInv'
  BY MinuteQuiet DEF LinksInv, MinuteTasks
<1>4. TimeInv'
  BY <1>0 DEF LinksInv, TimeInv, time
<1>5. AnswerInv'
  <2>1. UNCHANGED <<now, Millis, answerTimes, answered, Recent>>
    BY <1>0 DEF StaysAside, answers, Millis, Recent
  <2>2. \A f : PlacesOf(f)' <=> PlacesOf(f)
    BY <2>1 DEF PlacesOf
  <2> QED BY <2>1, <2>2 DEF AnswerInv, LinksInv
<1>6. AclInv'
  BY AclStays DEF StaysAside, LinksInv
<1> QED BY <1>0, <1>1, <1>2, <1>3, <1>4, <1>5, <1>6 DEF LinksInv

(* The passing of time.                                                    *)
LEMMA TickInv == ASSUME LinksInv, Tick, StaysAside PROVE LinksInv'
<1>1. ClockInv' /\ NeighbourInv' /\ TimeInv'
  BY TickClock, TickNeighbours, TickTime DEF LinksInv
<1>2. SeenInv' /\ AlertInv'
  BY TickAlerts DEF LinksInv
<1>3. PowerInv' /\ QuietInv' /\ AclInv'
  BY PowerStays, QuietStays, AclStays DEF Tick, StaysAside, LinksInv
<1>4. AnswerInv'
  BY TickAnswers DEF StaysAside, LinksInv
<1> QED BY <1>1, <1>2, <1>3, <1>4 DEF LinksInv, Tick

(* The commands, those of other tables apart.                              *)
Command ==
  \/ \E on \in BOOLEAN : SetAlert(on)
  \/ AdaptiveOn \/ SetupRadio \/ \E w \in scene.powers : SetPower(w)
  \/ \E ns \in scene.prefixes : RemoveNeighbour(ns)
  \/ \E t \in scene.times : SetTime(t)
  \/ \E q \in scene.quiet : SetQuietHours(q)
  \/ DisableQuietHours

(* Each of the commands concerns one table, or the alerts with the time.   *)
LEMMA CommandInv == ASSUME LinksInv, Command, StaysAside PROVE LinksInv'
<1>0. scene \in Scenes /\ scene' = scene /\ now \in Nat /\ UNCHANGED <<clock, nodes>>
  BY DEF LinksInv, ClockInv, Command, SetAlert, AdaptiveOn, SetupRadio, SetPower,
         RemoveNeighbour, SetTime, SetQuietHours, DisableQuietHours
<1>1. ClockInv' /\ SeenInv'
  BY <1>0, LastRoundStays, SeenStays DEF LinksInv
<1>2. AnswerInv' /\ AclInv'
  BY <1>0, AnswerStays, AclStays DEF StaysAside, LinksInv
<1>3. CASE \E on \in BOOLEAN : SetAlert(on)
  <2>1. PICK on \in BOOLEAN : SetAlert(on)
    BY <1>3
  <2>2. UNCHANGED <<time, links, powers, quiet>>
    BY <2>1 DEF SetAlert
  <2>3. TimeInv' /\ NeighbourInv' /\ PowerInv' /\ QuietInv'
    BY <1>0, <2>2, TimeStays, NeighbourStays, PowerStays, QuietStays DEF LinksInv
  <2>4. alertOn' \in BOOLEAN /\ timeSync'.synced \in BOOLEAN
        /\ readySince' = Ready(alertOn', timeSync'.synced)
    BY <2>1, <2>2, <2>3 DEF SetAlert, TimeInv, time
  <2>5. AlertInv'
    BY <1>0, <2>4, SwitchAlerts DEF LinksInv
  <2> QED BY <1>0, <1>1, <1>2, <2>3, <2>5 DEF LinksInv
<1>4. CASE AdaptiveOn \/ SetupRadio \/ \E w \in scene.powers : SetPower(w)
  <2>1. UNCHANGED <<time, alerts, links, quiet>> /\ timeSync'.synced = timeSync.synced
    BY <1>4 DEF AdaptiveOn, SetupRadio, SetPower, time
  <2>2. TimeInv' /\ NeighbourInv' /\ QuietInv' /\ AlertInv'
    BY <1>0, <2>1, TimeStays, NeighbourStays, QuietStays, AlertStays DEF LinksInv
  <2>3. PowerInv'
    BY <1>4, CommandPower DEF LinksInv
  <2> QED BY <1>0, <1>1, <1>2, <2>2, <2>3 DEF LinksInv
<1>5. CASE \E ns \in scene.prefixes : RemoveNeighbour(ns)
  <2>1. PICK ns \in scene.prefixes : RemoveNeighbour(ns)
    BY <1>5
  <2>2. UNCHANGED <<time, alerts, powers, quiet>> /\ timeSync'.synced = timeSync.synced
    BY <2>1 DEF RemoveNeighbour, time
  <2>3. TimeInv' /\ PowerInv' /\ QuietInv' /\ AlertInv'
    BY <1>0, <2>2, TimeStays, PowerStays, QuietStays, AlertStays DEF LinksInv
  <2>4. NeighbourInv'
    BY <2>1, RemovalNeighbours DEF LinksInv
  <2> QED BY <1>0, <1>1, <1>2, <2>3, <2>4 DEF LinksInv
<1>6. CASE \E t \in scene.times : SetTime(t)
  <2>1. PICK t \in scene.times : SetTime(t)
    BY <1>6
  <2>2. UNCHANGED <<alertOn, links, powers, quiet>>
    BY <2>1 DEF SetTime
  <2>3. NeighbourInv' /\ PowerInv' /\ QuietInv'
    BY <1>0, <2>2, NeighbourStays, PowerStays, QuietStays DEF LinksInv
  <2>4. TimeInv'
    BY <1>0, <2>1, CommandTime DEF LinksInv
  <2>5. timeSync'.synced = TRUE
    BY <2>1 DEF SetTime, SetTo, NotSynced
  <2>6. alertOn' \in BOOLEAN /\ readySince' = Ready(alertOn', timeSync'.synced)
    BY <2>1, <2>5 DEF SetTime, LinksInv, AlertInv
  <2>7. AlertInv'
    BY <1>0, <2>5, <2>6, SwitchAlerts DEF LinksInv
  <2> QED BY <1>0, <1>1, <1>2, <2>3, <2>4, <2>7 DEF LinksInv
<1>7. CASE (\E q \in scene.quiet : SetQuietHours(q)) \/ DisableQuietHours
  <2>1. UNCHANGED <<time, alerts, links, powers>> /\ timeSync'.synced = timeSync.synced
    BY <1>7 DEF SetQuietHours, DisableQuietHours, time
  <2>2. TimeInv' /\ NeighbourInv' /\ PowerInv' /\ AlertInv'
    BY <1>0, <2>1, TimeStays, NeighbourStays, PowerStays, AlertStays DEF LinksInv
  <2>3. scene.quiet \subseteq Hours
    BY <1>0, ScenesAssumption
  <2>4. None \notin Hours
    BY ScenesAssumption
  <2>5. QuietInv'
    <3>1. ASSUME NEW q \in scene.quiet, SetQuietHours(q) PROVE QuietInv'
      <4>1. q \in Hours /\ q # None
        BY <2>3, <2>4
      <4>2. quietHours' = q /\ inQuiet' = inQuiet /\ forwardMax' = forwardMax
        BY <3>1 DEF SetQuietHours
      <4> QED BY <4>1, <4>2 DEF QuietInv, LinksInv
    <3>2. ASSUME DisableQuietHours PROVE QuietInv'
      BY <3>2 DEF QuietInv, DisableQuietHours
    <3> QED BY <1>7, <3>1, <3>2
  <2> QED BY <1>0, <1>1, <1>2, <2>2, <2>5 DEF LinksInv
<1> QED BY <1>3, <1>4, <1>5, <1>6, <1>7 DEF Command

(* Discovery requests and permissions leave the rest alone.                *)
LEMMA AsideInv ==
  ASSUME LinksInv,
         UNCHANGED <<clock, nodes, time, alerts, links, powers, quiet, scene>>,
         AnswerInv', AclInv'
  PROVE  LinksInv'
<1>1. timeSync'.synced = timeSync.synced
  BY DEF time
<1>2. ClockInv' /\ SeenInv' /\ AlertInv' /\ NeighbourInv' /\ TimeInv'
  BY <1>1, LastRoundStays, SeenStays, AlertStays, NeighbourStays, TimeStays DEF LinksInv
<1>3. PowerInv' /\ QuietInv'
  BY PowerStays, QuietStays DEF LinksInv
<1> QED BY <1>2, <1>3 DEF LinksInv

(* Which action it is, by what it concerns.                                *)
LEMMA StepKinds ==
  ASSUME [Next]_vars
  PROVE  \/ \E p \in scene.hears : p.kind = "advert" /\ HearAdvert(p) /\ StaysAside
         \/ \E p \in scene.hears : p.kind = "path" /\ HearPath(p) /\ StaysAside
         \/ MinuteTasks /\ StaysAside
         \/ Tick /\ StaysAside
         \/ Command /\ StaysAside
         \/ DiscoverRequest
         \/ \E n \in Nodes, p \in scene.permissions : SetPermission(n, p)
         \/ \E n \in Nodes : RemovePermission(n)
         \/ Reboot
         \/ UNCHANGED vars
<1>1. CASE Watch /\ UNCHANGED <<answers, rights>>
  BY <1>1, Zenon DEF Watch, Command, StaysAside
<1>2. CASE ~Watch
  BY <1>2, Zenon DEF Next
<1>3. CASE UNCHANGED vars
  BY <1>3
<1> QED BY <1>1, <1>2, <1>3, Zenon DEF Next

(* Every step keeps the invariant.                                         *)
LEMMA LinksStep == LinksInv /\ [Next]_vars => LinksInv'
<1> SUFFICES ASSUME LinksInv, [Next]_vars PROVE LinksInv'
  OBVIOUS
<1>1. CASE \E p \in scene.hears : p.kind = "advert" /\ HearAdvert(p) /\ StaysAside
  BY <1>1, AdvertInv
<1>2. CASE \E p \in scene.hears : p.kind = "path" /\ HearPath(p) /\ StaysAside
  BY <1>2, PathInv
<1>3. CASE MinuteTasks /\ StaysAside
  BY <1>3, MinuteInv
<1>4. CASE Tick /\ StaysAside
  BY <1>4, TickInv
<1>5. CASE Command /\ StaysAside
  BY <1>5, CommandInv
<1>6. CASE DiscoverRequest
  <2>1. AnswerInv'
    BY <1>6, DiscoverAnswers DEF LinksInv
  <2>2. AclInv' /\ UNCHANGED <<clock, nodes, time, alerts, links, powers, quiet, scene>>
    BY <1>6, AclStays DEF LinksInv, DiscoverRequest
  <2> QED BY <2>1, <2>2, AsideInv
<1>7. CASE \E n \in Nodes, p \in scene.permissions : SetPermission(n, p)
  <2>1. PICK n \in Nodes, p \in scene.permissions : SetPermission(n, p)
    BY <1>7
  <2>2. AclInv'
    BY <2>1, PermissionAcl DEF LinksInv
  <2>3. AnswerInv' /\ UNCHANGED <<clock, nodes, time, alerts, links, powers, quiet, scene>>
    BY <2>1, AnswerStays DEF LinksInv, SetPermission
  <2> QED BY <2>2, <2>3, AsideInv
<1>8. CASE \E n \in Nodes : RemovePermission(n)
  <2>1. PICK n \in Nodes : RemovePermission(n)
    BY <1>8
  <2>2. AclInv'
    BY <2>1, RemovalAcl DEF LinksInv
  <2>3. AnswerInv' /\ UNCHANGED <<clock, nodes, time, alerts, links, powers, quiet, scene>>
    BY <2>1, AnswerStays DEF LinksInv, RemovePermission
  <2> QED BY <2>2, <2>3, AsideInv
<1>9. CASE Reboot
  <2>1. alertOn \in BOOLEAN /\ scene \in Scenes
    BY DEF LinksInv, AlertInv
  <2>2. Booted'
    BY <1>9, <2>1 DEF Booted, Reboot
  <2> QED BY <2>2, RebootedInv
<1>10. CASE UNCHANGED vars
  <2>1. UNCHANGED <<clock, nodes, time, alerts, links, powers, quiet, scene>>
        /\ UNCHANGED <<answers, rights>>
    BY <1>10 DEF vars
  <2>2. AnswerInv' /\ AclInv'
    BY <2>1, AnswerStays, AclStays DEF LinksInv
  <2> QED BY <2>1, <2>2, AsideInv
<1> QED BY <1>1, <1>2, <1>3, <1>4, <1>5, <1>6, <1>7, <1>8, <1>9, <1>10, StepKinds

(* The invariant holds.                                                    *)
THEOREM LinksInvariant == Spec => []LinksInv
<1>1. Init => LinksInv
  <2>1. Init => Booted
    BY DEF Init, Booted
  <2> QED BY <2>1, BootedInv
<1> QED BY <1>1, LinksStep, PTL DEF Spec

-----------------------------------------------------------------------------
(***************************************************************************)
(* What the invariant says of the tables.                                  *)
(***************************************************************************)

(* The types, and one entry for each node and for each key.                *)
LEMMA InvTypes == LinksInv => TypeOK
<1> SUFFICES ASSUME LinksInv PROVE TypeOK
  OBVIOUS
<1>1. now \in Nat /\ lastCleanup \in 0 .. Wrap - 1
  BY WrapType DEF LinksInv, ClockInv
<1>2. {timeSync.synced, alertOn, adaptive, inQuiet} \subseteq BOOLEAN
      /\ {timeSync.base, timeSync.pending} \subseteq 0 .. TimeRange - 1
  BY DEF LinksInv, TimeInv, AlertInv, PowerInv, QuietInv
<1>3. seen \in Seq(SeenNode) /\ Len(seen) <= SeenSlots /\ heardAt \in [Hashes -> Nat]
  BY DEF LinksInv, SeenInv, IsSeen
<1>4. Cardinality(Known(seen)) = Len(seen)
  BY KnownSize DEF LinksInv, SeenInv
<1>5. neighbours \in [Places -> Neighbour \cup {None}]
  BY DEF LinksInv, NeighbourInv
<1>6. Cardinality(InTable(neighbours)) = Cardinality(Taken(neighbours))
  <2>1. IsFiniteSet(Taken(neighbours))
    <3>1. IsFiniteSet(Places)
      BY Limits, FS_Interval DEF Places
    <3> QED BY <3>1, FS_Subset DEF Taken
  <2>2. PICK f : f = [i \in Taken(neighbours) |-> neighbours[i].node]
    OBVIOUS
  <2>3. f \in [Taken(neighbours) -> InTable(neighbours)]
        /\ (\A x \in InTable(neighbours) : \E i \in Taken(neighbours) : f[i] = x)
    BY <2>2 DEF InTable
  <2>4. \A i, j \in Taken(neighbours) : f[i] = f[j] => i = j
    BY <2>2 DEF LinksInv, NeighbourInv
  <2>5. f \in Bijection(Taken(neighbours), InTable(neighbours))
    BY <2>3, <2>4 DEF Bijection, Injection, IsInjective, Surjection
  <2>6. ExistsBijection(Taken(neighbours), InTable(neighbours))
    BY <2>5 DEF ExistsBijection
  <2> QED BY <2>1, <2>6, FS_Bijection
<1>7. {power, radioPower} \subseteq MinPower .. MaxPower
  BY DEF LinksInv, PowerInv
<1>8. told \in [Hashes -> Nat] /\ readySince \in Nat \cup {None}
  <2>1. told \in [Hashes -> {0, 1}]
    BY DEF LinksInv, AlertInv
  <2>2. told \in [Hashes -> Nat]
    BY <2>1
  <2> QED BY <2>2 DEF LinksInv, AlertInv
<1>9. answerTimes \in [1 .. MaxAnswers -> 0 .. Wrap - 1]
  BY DEF LinksInv, AnswerInv, AnswerPlaces
<1>10. \A i \in DOMAIN acl : acl[i] # NoEntry => acl[i].key \in Nodes
  BY DEF LinksInv, AclInv, Rights
<1> QED BY <1>1, <1>2, <1>3, <1>4, <1>5, <1>6, <1>7, <1>8, <1>9, <1>10 DEF TypeOK

(* No silence is missed, and none told of twice.                           *)
LEMMA InvTold == LinksInv => ToldOnce
<1> SUFFICES ASSUME LinksInv PROVE ToldOnce
  OBVIOUS
<1>1. OneAlertPerSilence
  BY DEF LinksInv, AlertInv, OneAlertPerSilence
<1>2. ASSUME NEW i \in Entries(seen), seen[i].count >= AlertAt, seen[i].lastSeen # 0,
             readySince # None, readySince <= Due(i), now > Due(i) + Period + 1
      PROVE  told[seen[i].hash] = 1
  <2>1. Marked(i) /\ Timely(i)
    BY <1>2 DEF LinksInv, AlertInv, Timely
  <2>2. now - LastRound \in 0 .. Period + 1 /\ LastRound \in Nat /\ now \in Nat /\ Period \in Nat
    BY Limits DEF LinksInv, ClockInv
  <2>3. Due(i) \in Nat
    <3>1. seen[i].hash \in Hashes
      BY EntryOfTable DEF LinksInv, SeenInv
    <3>2. heardAt[seen[i].hash] \in Nat /\ Offline \in Nat
      BY <3>1, Limits DEF LinksInv, SeenInv
    <3> QED BY <3>2 DEF Due, DueAt
  <2>4. PICK r \in Nat, d \in Nat : r = LastRound /\ d = Due(i)
    BY <2>2, <2>3
  <2>5. ~ (LastRound <= Due(i))
    <3>1. now - r \in 0 .. Period + 1 /\ now > d + Period + 1
      BY <1>2, <2>2, <2>4
    <3>2. ~ (r <= d)
      BY <2>2, <3>1
    <3> QED BY <2>4, <3>2
  <2> QED BY <1>2, <2>1, <2>5 DEF Marked
<1>3. SilenceNoticed
  BY <1>2 DEF SilenceNoticed, Due
<1> QED BY <1>1, <1>3 DEF ToldOnce

(* A circuit is open for a neighbour with a weak ADVERT not long ago.      *)
LEMMA InvWithheld == LinksInv => WithheldForAReason
<1> SUFFICES ASSUME LinksInv, NEW h \in Hashes, CircuitOpen(h)
             PROVE  \E n \in WithHash(h) :
                      /\ advert[n] # None /\ advert[n].snr < WeakLink
                      /\ now - advert[n].at <= CircuitTimeout + Period + 1
  BY DEF WithheldForAReason
<1> DEFINE M == Of(neighbours, WithHash(h))
           i == Min(M)
           n == neighbours[i].node
<1>1. M \in SUBSET Nat /\ M # {} /\ neighbours[i].cb = "open"
  BY PlacesType DEF CircuitOpen
<1>2. i \in M
  <2> HIDE DEF M
  <2> QED BY <1>1, MinIsLeast
<1>3. i \in Taken(neighbours) /\ n \in WithHash(h)
  BY <1>2 DEF Of
<1>4. Heard(neighbours[i], advert[n], LastRound, now)
  BY <1>3 DEF LinksInv, NeighbourInv
<1>5. advert[n] # None /\ advert[n].snr < WeakLink /\ LastRound <= advert[n].at + CircuitTimeout
  BY <1>1, <1>4 DEF Heard
<1>6. PICK a \in Nat : a = advert[n].at
  BY <1>3, <1>5 DEF LinksInv, NeighbourInv, WithHash
<1>7. PICK r \in Nat : r = LastRound /\ now - r \in 0 .. Period + 1 /\ now \in Nat
  BY DEF LinksInv, ClockInv
<1>8. now - a <= CircuitTimeout + Period + 1
  <2>1. r <= a + CircuitTimeout /\ CircuitTimeout \in Nat /\ Period \in Nat
    BY <1>5, <1>6, <1>7, Limits
  <2> QED BY <1>6, <1>7, <2>1
<1> QED BY <1>3, <1>5, <1>6, <1>8

(* The tables have one current entry for each node or key, whatever enters *)
(* and leaves them, and stay within their sizes (TypeOK).                  *)
THEOREM TablesAreConsistent == Spec => []TablesConsistent
<1>1. LinksInv => TablesConsistent
  BY InvTypes DEF TablesConsistent, LinksInv, AclInv
<1> QED BY <1>1, LinksInvariant, PTL

(* healthCheck tells the owner of every silence that could be told, once.  *)
THEOREM SilenceIsToldOnce == Spec => []ToldOnce
BY InvTold, LinksInvariant, PTL

(* isCircuitOpen withholds packets only for a signal that was weak not     *)
(* long ago, across wraps of millis().                                     *)
THEOREM CircuitsOpenForAReason == Spec => []WithheldForAReason
BY InvWithheld, LinksInvariant, PTL

(* The radio has the power that the node believes it has, or the maximum.  *)
THEOREM RadioIsNotWeaker == Spec => []NeverWeakerThanBelieved
<1>1. LinksInv => NeverWeakerThanBelieved
  BY DEF LinksInv, PowerInv
<1> QED BY <1>1, LinksInvariant, PTL

(* DiscoverLimiter allows no more answers than its places in any window,   *)
(* and before the first wrap refuses none with a place left.               *)
THEOREM DiscoveryIsLimited == Spec => []DiscoveryLimited
<1>1. LinksInv => DiscoveryLimited
  BY AnswersLimited DEF LinksInv
<1> QED BY <1>1, LinksInvariant, PTL

-----------------------------------------------------------------------------
(***************************************************************************)
(* What a step does.                                                       *)
(***************************************************************************)

(* Nobody is forgotten where the tables keep their entries.                *)
LEMMA NothingForgotten ==
  ASSUME Known(seen') = Known(seen), InTable(neighbours') = InTable(neighbours) \/ ~Replaces
  PROVE  ForgetsOldest /\ GivesUpLongestSilent
BY DEF ForgetsOldest, GivesUpLongestSilent

(* Every step forgets only who was silent for longest.                     *)
LEMMA StepForgets ==
  ASSUME LinksInv, [Next]_vars PROVE ForgetsOldest /\ GivesUpLongestSilent
<1>0. scene \in Scenes /\ now \in Nat
  BY DEF LinksInv, ClockInv
<1>1. ASSUME NEW p \in scene.hears, p.kind = "advert", HearAdvert(p)
      PROVE  ForgetsOldest /\ GivesUpLongestSilent
  <2>1. p.from \in Nodes /\ HashOf[p.from] \in Hashes /\ p.snr \in Int /\ UNCHANGED clock
    BY <1>0, <1>1, Inputs DEF HearAdvert
  <2>2. Noted({HashOf[p.from]})
    BY <1>0, <1>1, <2>1, NoteOne DEF LinksInv, HearAdvert
  <2> QED BY <1>1, <2>1, <2>2, AdvertNeighbours DEF LinksInv, Noted
<1>2. ASSUME NEW p \in scene.hears, p.kind = "path", HearPath(p)
      PROVE  ForgetsOldest /\ GivesUpLongestSilent
  <2>1. ForgetsOldest
    BY <1>2, PathNoted DEF Noted
  <2>2. neighbours' = neighbours
    BY <1>2 DEF HearPath, links
  <2> QED BY <2>1, <2>2 DEF GivesUpLongestSilent
<1>3. ASSUME MinuteTasks PROVE ForgetsOldest /\ GivesUpLongestSilent
  <2>1. Known(seen') = Known(seen)
    BY <1>3, MinuteAlerts DEF LinksInv
  <2>2. InTable(neighbours') = InTable(neighbours) \/ ~Replaces
    BY <1>3, MinuteNeighbours DEF LinksInv, Replaces
  <2> QED BY <2>1, <2>2, NothingForgotten
<1>4. ASSUME seen' = seen, neighbours' = neighbours
      PROVE  ForgetsOldest /\ GivesUpLongestSilent
  BY <1>4, NothingForgotten
<1>5. ASSUME NEW ns, RemoveNeighbour(ns) PROVE ForgetsOldest /\ GivesUpLongestSilent
  <2>1. seen' = seen
    BY <1>5 DEF RemoveNeighbour, nodes
  <2>2. ~Replaces
    BY <1>5, RemovalNeighbours DEF LinksInv, Replaces
  <2> QED BY <2>1, <2>2, NothingForgotten
<1>6. ASSUME Command, ~ \E ns \in scene.prefixes : RemoveNeighbour(ns)
      PROVE  seen' = seen /\ neighbours' = neighbours
  BY <1>6 DEF Command, SetAlert, AdaptiveOn, SetupRadio, SetPower, SetTime, SetQuietHours,
       DisableQuietHours, nodes, links
<1>7. ASSUME \/ Tick \/ DiscoverRequest \/ UNCHANGED vars
             \/ \E n \in Nodes, p \in scene.permissions : SetPermission(n, p)
             \/ \E n \in Nodes : RemovePermission(n)
      PROVE  seen' = seen /\ neighbours' = neighbours
  BY <1>7 DEF Tick, DiscoverRequest, SetPermission, RemovePermission, vars, nodes, links
<1>8. ASSUME Reboot PROVE ForgetsOldest /\ GivesUpLongestSilent
  <2>1. Rebooted
    BY <1>8 DEF Reboot, Rebooted, Blank
  <2>2. neighbours' = [i \in Places |-> None] /\ 1 \in Places
    BY <1>8, PlacesType DEF Reboot, Blank
  <2>3. 1 \notin Taken(neighbours')
    BY <2>2 DEF Taken
  <2> QED BY <2>1, <2>2, <2>3 DEF ForgetsOldest, GivesUpLongestSilent, Replaces
<1> QED BY <1>1, <1>2, <1>3, <1>4, <1>5, <1>6, <1>7, <1>8, StepKinds

(* Every step moves a clock that is set by consensus only.                 *)
LEMMA StepMoves == ASSUME LinksInv, [Next]_vars PROVE MovesByConsensus
<1>0. scene \in Scenes /\ now \in Nat
  BY DEF LinksInv, ClockInv
<1>1. ASSUME NEW p \in scene.hears, p.kind = "advert", HearAdvert(p)
      PROVE  MovesByConsensus
  <2>1. TimeIn(p) \in Int
    BY <1>0, <1>1, Inputs
  <2> QED BY <1>1, <2>1, ConsensusStep DEF LinksInv
<1>2. ASSUME timeSync' = timeSync PROVE MovesByConsensus
  BY <1>2 DEF MovesByConsensus, Resynchronised
<1>3. ASSUME lastClaim' = None PROVE MovesByConsensus
  BY <1>3 DEF MovesByConsensus, Resynchronised
<1>4. ASSUME NEW p, HearPath(p) PROVE timeSync' = timeSync
  BY <1>4 DEF HearPath, time
<1>5. ASSUME Command PROVE timeSync' = timeSync \/ lastClaim' = None
  BY <1>5 DEF Command, SetAlert, AdaptiveOn, SetupRadio, SetPower, RemoveNeighbour, SetTime,
       SetQuietHours, DisableQuietHours, time
<1>6. ASSUME \/ MinuteTasks \/ Tick \/ DiscoverRequest \/ UNCHANGED vars
             \/ \E n \in Nodes, p \in scene.permissions : SetPermission(n, p)
             \/ \E n \in Nodes : RemovePermission(n)
      PROVE  timeSync' = timeSync
  BY <1>6 DEF MinuteTasks, Tick, DiscoverRequest, SetPermission, RemovePermission, vars, time
<1>7. ASSUME Reboot PROVE lastClaim' = None
  BY <1>7 DEF Reboot
<1> QED BY <1>1, <1>2, <1>3, <1>4, <1>5, <1>6, <1>7, StepKinds

(* Hours counted from another one.                                         *)
LEMMA HoursFrom ==
  ASSUME NEW D \in Nat \ {0}, NEW s \in 0 .. D - 1, NEW h \in 0 .. D - 1
  PROVE  (h - s) % D = IF s <= h THEN h - s ELSE h - s + D
<1>1. CASE s <= h
  <2>1. h - s \in 0 .. D - 1
    BY <1>1
  <2> QED BY <1>1, <2>1, SmallMod
<1>2. CASE h < s
  <2>1. h - s + D \in 0 .. D - 1
    BY <1>2
  <2>2. PICK r \in 0 .. D - 1 : r = h - s + D
    BY <2>1
  <2>3. (D * (-1) + r) % D = r
    BY ModIs
  <2>4. D * (-1) + r = h - s
    BY <2>2
  <2> QED BY <1>2, <2>2, <2>3, <2>4
<1> QED BY <1>1, <1>2

(* The test for overnight hours is one on hours counted from the start.    *)
LEMMA QuietFromStart ==
  ASSUME NEW q \in Hours, NEW h \in 0 .. DayHours - 1
  PROVE  ShouldBeQuiet(h, q) <=> (h - q.start) % DayHours < (q.end - q.start) % DayHours
<1>0. DayHours \in Nat \ {0}
  BY LinksAssumption
<1>1. PICK s \in 0 .. DayHours - 1, e \in 0 .. DayHours - 1 : s = q.start /\ e = q.end
  BY DEF Hours
<1>2. /\ (h - s) % DayHours = IF s <= h THEN h - s ELSE h - s + DayHours
      /\ (e - s) % DayHours = IF s <= e THEN e - s ELSE e - s + DayHours
  BY <1>0, HoursFrom
<1>3. (IF s <= e THEN s <= h /\ h < e ELSE s <= h \/ h < e)
        <=> (h - s) % DayHours < (e - s) % DayHours
  BY <1>0, <1>2
<1> QED BY <1>1, <1>3 DEF ShouldBeQuiet

(* Every step leaves a limit that fits, once the tasks are done.           *)
LEMMA StepFits == ASSUME LinksInv, [Next]_vars PROVE FitsHour
<1>1. QuietInv' /\ QuietInv
  BY LinksStep DEF LinksInv
<1>2. quietHours' = None => forwardMax' = ForwardMax
  BY <1>1 DEF QuietInv
<1>3. ASSUME MinuteTasks, quietHours' # None, timeSync.synced
      PROVE  LET fromStart(h) == (h - quietHours.start) % DayHours
             IN  forwardMax' = QuietMax <=>
                   fromStart(HourOf(Timestamp(timeSync, Millis))) < fromStart(quietHours.end)
  <2> DEFINE h == HourOf(Timestamp(timeSync, Millis))
  <2>1. quietHours' = quietHours /\ inQuiet' = ShouldBeQuiet(h, quietHours)
    BY <1>3 DEF MinuteTasks, EvaluateQuietHours, quiet
  <2>2. quietHours \in Hours
    BY <1>1, <1>3, <2>1 DEF QuietInv
  <2>3. h \in 0 .. DayHours - 1
    <3>1. Timestamp(timeSync, Millis) \in Int
      <4>1. \A x : x \in Int => x % TimeRange \in Int
        BY WrapType
      <4>2. timeSync.base \in Int /\ Since(timeSync.baseMillis) \in Int
        BY WrapType DEF LinksInv, ClockInv, TimeInv, Since, Elapsed, Millis
      <4> QED BY <4>1, <4>2 DEF Timestamp, Since
    <3>2. DayHours \in Nat \ {0} /\ HourLength \in Nat \ {0}
      BY LinksAssumption
    <3>3. Timestamp(timeSync, Millis) \div HourLength \in Int
      BY <3>1, <3>2
    <3> QED BY <3>2, <3>3 DEF HourOf
  <2>4. ForwardMax # QuietMax
    BY LinksAssumption
  <2>5. forwardMax' = QuietMax <=> inQuiet'
    BY <1>1, <2>4 DEF QuietInv
  <2>6. ShouldBeQuiet(h, quietHours) <=>
          (h - quietHours.start) % DayHours < (quietHours.end - quietHours.start) % DayHours
    <3> HIDE DEF h
    <3> QED BY <2>2, <2>3, QuietFromStart
  <2> QED BY <2>1, <2>5, <2>6
<1>4. ASSUME ~MinuteTasks, ~Reboot PROVE lastCleanup' = lastCleanup
  <2>1. ASSUME NEW p, HearAdvert(p) \/ HearPath(p) PROVE lastCleanup' = lastCleanup
    BY <2>1 DEF HearAdvert, HearPath, clock
  <2>2. ASSUME Command PROVE lastCleanup' = lastCleanup
    BY <2>2 DEF Command, SetAlert, AdaptiveOn, SetupRadio, SetPower, RemoveNeighbour, SetTime,
         SetQuietHours, DisableQuietHours, clock
  <2>3. ASSUME \/ Tick \/ DiscoverRequest \/ UNCHANGED vars
               \/ \E n \in Nodes, p \in scene.permissions : SetPermission(n, p)
               \/ \E n \in Nodes : RemovePermission(n)
        PROVE  lastCleanup' = lastCleanup
    BY <2>3 DEF Tick, DiscoverRequest, SetPermission, RemovePermission, vars, clock
  <2> QED BY <1>4, <2>1, <2>2, <2>3, StepKinds
<1>5. ASSUME Reboot PROVE quietHours' = None
  BY <1>5 DEF Reboot
<1>6. quietHours' # None /\ lastCleanup' # lastCleanup => MinuteTasks
  BY <1>4, <1>5
<1> QED BY <1>2, <1>3, <1>6 DEF FitsHour

(* A full table of seen nodes or of neighbours gives up the one that was   *)
(* silent for longest.                                                     *)
THEOREM LongestSilentIsForgotten == Spec => ForgetsLongestSilent
<1>1. LinksInv /\ [Next]_vars => [ForgetsOldest /\ GivesUpLongestSilent]_vars
  BY StepForgets
<1> QED BY <1>1, LinksInvariant, PTL DEF Spec, ForgetsLongestSilent

(* TimeSync moves a clock that is set only when two receptions in a row    *)
(* agree, be they of two senders, of one, or of one ADVERT.                *)
THEOREM ClockNeedsConsensus == Spec => ClockMovesByConsensus
<1>1. LinksInv /\ [Next]_vars => [MovesByConsensus]_vars
  BY StepMoves
<1> QED BY <1>1, LinksInvariant, PTL DEF Spec, ClockMovesByConsensus

(* evaluateQuietHours leaves the limit that belongs to the hour, overnight *)
(* too.                                                                    *)
THEOREM LimitFollowsTheHour == Spec => LimitFitsHour
<1>1. LinksInv /\ [Next]_vars => [FitsHour]_vars
  BY StepFits
<1> QED BY <1>1, LinksInvariant, PTL DEF Spec, LimitFitsHour
=============================================================================
