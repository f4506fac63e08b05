------------------------------ MODULE Repeater ------------------------------
(***************************************************************************)
(* Two small tables of mesh/Repeater.h as operators: DiscoverLimiter, the  *)
(* times of the last answers to discovery requests, in any order, 0 for a  *)
(* free place; and ACLManager, the permissions that "setperm" gives to     *)
(* keys, known by their first six bytes, 0 for a free place.               *)
(***************************************************************************)
EXTENDS TimeSync, FiniteSets, FiniteSetsExt

CONSTANTS
  MaxAnswers,    \* MAX_DISCOVER_PER_WINDOW
  AnswerWindow,  \* DISCOVER_WINDOW_MS
  AclSlots,      \* MAX_ACL_ENTRIES
  NoEntry

ASSUME RepeaterAssumption ==
  {MaxAnswers, AclSlots} \subseteq Nat \ {0} /\ AnswerWindow \in 1 .. Wrap

(***************************************************************************)
(* DiscoverLimiter.                                                        *)
(***************************************************************************)
NoAnswers == [i \in 1 .. MaxAnswers |-> 0]

Fresh(t, millis) == t > 0 /\ Elapsed(t, millis) < AnswerWindow

Cleaned(times, millis) ==
  [i \in DOMAIN times |-> IF Fresh(times[i], millis) THEN times[i] ELSE 0]

(* Mutant: one more.                                                       *)
MayAnswer_OneMore(times, millis) ==
  Cardinality({i \in DOMAIN times : Fresh(times[i], millis)}) <= MaxAnswers

MayAnswer(times, millis) ==
  Cardinality({i \in DOMAIN times : Fresh(times[i], millis)}) < MaxAnswers

(* allow, when it does.                                                    *)
Recorded(times, millis) ==
  LET cleaned == Cleaned(times, millis)
      free    == {i \in DOMAIN times : cleaned[i] = 0}
  IN  IF free = {} THEN cleaned ELSE [cleaned EXCEPT ![Min(free)] = millis]

(***************************************************************************)
(* ACLManager.                                                             *)
(***************************************************************************)
NoPermissions == [i \in 1 .. AclSlots |-> NoEntry]

EntriesOf(acl, key) == {i \in DOMAIN acl : acl[i] # NoEntry /\ acl[i].key = key}
FreeEntries(acl)    == {i \in DOMAIN acl : acl[i] = NoEntry}

EntryFor_FreeFirst(acl, key) ==
  IF FreeEntries(acl) # {} THEN Min(FreeEntries(acl))
  ELSE IF EntriesOf(acl, key) # {} THEN Min(EntriesOf(acl, key))
  ELSE Min({i \in DOMAIN acl : \A j \in DOMAIN acl : acl[i].at <= acl[j].at})

(* The key's entry, a free one, or that of the smallest time.  Mutant: a   *)
(* free one before the key's.                                              *)
EntryFor(acl, key) ==
  IF EntriesOf(acl, key) # {} THEN Min(EntriesOf(acl, key))
  ELSE IF FreeEntries(acl) # {} THEN Min(FreeEntries(acl))
  ELSE Min({i \in DOMAIN acl : \A j \in DOMAIN acl : acl[i].at <= acl[j].at})

(* setPermission.                                                          *)
Permitted(acl, key, permission, at) ==
  [acl EXCEPT ![EntryFor(acl, key)] = [key |-> key, permission |-> permission, at |-> at]]

(* removeEntry, for a key with an entry.                                   *)
Withdrawn(acl, key) == [acl EXCEPT ![Min(EntriesOf(acl, key))] = NoEntry]
=============================================================================
