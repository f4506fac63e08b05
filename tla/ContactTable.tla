---------------------------- MODULE ContactTable ----------------------------
(***************************************************************************)
(* ContactManager (mesh/Contacts.h): the nodes whose ADVERTs were heard,   *)
(* with their key, name and the secret shared with them.  A table is a     *)
(* function from slots to contacts; nodes are told apart by the first byte *)
(* of their key.  A secret is known by the two keys it was made of.        *)
(***************************************************************************)
EXTENDS Integers

CONSTANTS
  Slots,        \* MC_MAX_CONTACTS
  KeyHash,      \* KeyHash[k]: first byte of a key
  NameLength,   \* NameLength[n]: length of a name
  NameHas,      \* NameHas[n]: the texts that occur in a name, if case is ignored
  NoName,       \* an empty name, as parseAdvert makes of flags that are 0
  NoSecret,
  Free          \* an entry that is not valid

ASSUME TableAssumption == Slots \in Nat \ {0}

Empty == [i \in 1 .. Slots |-> Free]

Used(t) == {i \in 1 .. Slots : t[i] # Free}

First(S) == CHOOSE i \in S : \A j \in S : i <= j

WithHash(t, hash) == {i \in Used(t) : KeyHash[t[i].key] = hash}

(* The slot for a node that is not in the table: the first free one, or    *)
(* that of the smallest lastSeen.                                          *)
SlotForNew(t) ==
  IF Used(t) # 1 .. Slots THEN First((1 .. Slots) \ Used(t))
  ELSE First({i \in Used(t) : \A j \in Used(t) : t[i].seen <= t[j].seen})

(* Mutant: the cached secret stays.                                        *)
Updated_KeepsSecret(t, key, name, time) ==
  LET same == WithHash(t, KeyHash[key]) IN
    IF same # {}
    THEN [t EXCEPT ![First(same)].key = key, ![First(same)].seen = time,
                   ![First(same)].name = IF name = NoName THEN @ ELSE name]
    ELSE [t EXCEPT ![SlotForNew(t)] =
            [key |-> key, name |-> name, seen |-> time, secret |-> NoSecret]]

(* updateFromAdvert: a node with a known hash replaces the key, keeps the  *)
(* name if it sends none, and its secret will be computed anew.            *)
Updated(t, key, name, time) ==
  LET same == WithHash(t, KeyHash[key]) IN
    IF same # {}
    THEN [t EXCEPT ![First(same)].key = key,
                   ![First(same)].seen = time,
                   ![First(same)].secret = NoSecret,
                   ![First(same)].name = IF name = NoName THEN @ ELSE name]
    ELSE [t EXCEPT ![SlotForNew(t)] =
            [key |-> key, name |-> name, seen |-> time, secret |-> NoSecret]]

(* What findByName may find for a text.  The number of places at which the *)
(* text may start is computed without sign: a text longer than the name is *)
(* looked for in all the memory behind it.  It may be found there, and the *)
(* contact is taken; the processor may fault, which is a PowerLoss, always *)
(* possible; only when neither happens does the search go on.              *)
Candidates(t, text) ==
  {i \in Used(t) : t[i].name # NoName /\
                   (text \in NameHas[t[i].name] \/ NameLength[text] > NameLength[t[i].name])}

FoundByName(t, text) ==
  IF Candidates(t, text) = {} THEN {} ELSE {First(Candidates(t, text))}

(* getSharedSecret.                                                        *)
WithSecret(t, i, own) ==
  [t EXCEPT ![i].secret = IF @ = NoSecret THEN [own |-> own, theirs |-> t[i].key] ELSE @]
=============================================================================
