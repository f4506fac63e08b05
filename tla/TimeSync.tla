------------------------------ MODULE TimeSync ------------------------------
(***************************************************************************)
(* TimeSync of mesh/Advert.h as operators on a record: the clock of a node *)
(* that has none but millis(), set by the timestamps in the ADVERTs of     *)
(* others.  Timestamps and millis() are in the same unit and start again   *)
(* from zero after TimeRange and Wrap; 0 is no timestamp.  Two timestamps  *)
(* that are TimeRange / 2 apart, for which abs() is undefined, count as    *)
(* far apart.                                                              *)
(***************************************************************************)
EXTENDS Integers

CONSTANTS
  Earliest, Latest, \* the timestamps that are believed: 2020 to 2100
  CloseBy,          \* MAX_TIMESTAMP_DIFF
  ConsensusWindow,  \* CONSENSUS_WINDOW_MS
  TimeRange,        \* 2^32 seconds
  Wrap              \* when millis() starts again from zero

ASSUME TimeSyncAssumption ==
  /\ {Earliest, CloseBy, TimeRange, Wrap} \subseteq Nat \ {0}
  /\ ConsensusWindow \in Nat /\ Latest \in Earliest .. TimeRange - 1
  /\ CloseBy <= TimeRange \div 2

Elapsed(since, millis) == (millis + Wrap - since) % Wrap

NotSynced ==
  [synced |-> FALSE, base |-> 0, baseMillis |-> 0, pending |-> 0, pendingMillis |-> 0]

(* setTime, the first synchronisation and a re-synchronisation.            *)
SetTo(t, millis) == [NotSynced EXCEPT !.synced = TRUE, !.base = t, !.baseMillis = millis]

(* getTimestamp of a clock that is set.                                    *)
Timestamp(c, millis) == (c.base + Elapsed(c.baseMillis, millis)) % TimeRange

(* The difference, taken as a signed number, is small.                     *)
Agree(a, b) ==
  \E d \in {(a - b) % TimeRange, (b - a) % TimeRange} : d < CloseBy

(* The pending timestamp, with the time that has passed since.             *)
IsPending(c, millis) ==
  c.pending > 0 /\ Elapsed(c.pendingMillis, millis) < ConsensusWindow

PendingNow(c, millis) == (c.pending + Elapsed(c.pendingMillis, millis)) % TimeRange

(* Half of a sum of 32 bits.                                               *)
Mean(a, b) == ((a + b) % TimeRange) \div 2

(* Mutant: the pending timestamp stays when another one agrees with ours.  *)
ForgetPending_Keeps(c) == c

ForgetPending(c) == [c EXCEPT !.pending = 0, !.pendingMillis = 0]

Believable(t) == Earliest <= t /\ t <= Latest

SyncFromAdvert(c, t, millis) ==
  IF ~Believable(t) THEN c
  ELSE IF ~c.synced THEN SetTo(t, millis)
  ELSE IF Agree(t, Timestamp(c, millis)) THEN ForgetPending(c)
  ELSE IF IsPending(c, millis) /\ Agree(t, PendingNow(c, millis))
       THEN SetTo(Mean(t, PendingNow(c, millis)), millis)
       ELSE [c EXCEPT !.pending = t, !.pendingMillis = millis]
=============================================================================
