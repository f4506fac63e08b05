--------------------------- MODULE Access_proofs ---------------------------
(***************************************************************************)
(* Proofs about Access.  The inductive invariant adds to the type          *)
(* invariant, OneSession and OnceInOrder what ties the history to the      *)
(* sessions (Newest): no request that was carried out in a session is      *)
(* newer than the session's timestamp, and without a session there is none.*)
(***************************************************************************)
EXTENDS Access, FiniteSetTheorems, WellFoundedInduction, TLAPS

Newest ==
  \A c \in Clients : \A n \in 1 .. Len(done[c]) :
    \E i \in SlotsOf(slots, c) : done[c][n].ts <= slots[i].lastTimestamp

IInv == TypeOK /\ OneSession /\ Newest /\ OnceInOrder

(***************************************************************************)
(* Min of a set of slots, and the slot with the oldest activity.           *)
(***************************************************************************)
LEMMA LeastNat ==
  ASSUME NEW S \in SUBSET Nat, S # {}
  PROVE  \E x \in S : \A y \in S : x <= y
<1>1. \E x \in S : \A y \in S : ~ (<<y, x>> \in OpToRel(<, Nat))
  BY WFMin, NatLessThanWellFounded
<1>2. ASSUME NEW x \in Nat, NEW y \in Nat, ~ (<<y, x>> \in OpToRel(<, Nat))
      PROVE  x <= y
  <2>1. ~ (y < x)
    BY <1>2, Zenon DEF OpToRel
  <2> QED BY <2>1
<1> QED BY <1>1, <1>2

(* A non-empty set of slots has a least element, and Min finds it.         *)
LEMMA MinOfSlots ==
  ASSUME NEW S \in SUBSET Slots, S # {}
  PROVE  Min(S) \in S
<1>1. S \in SUBSET Nat
  BY DEF Slots
<1>2. \E x \in S : \A y \in S : x =< y
  BY <1>1, LeastNat
<1> QED BY <1>2 DEF Min

(* When all slots are taken there is one of least lastActivity.            *)
LEMMA OldestExists ==
  ASSUME TypeOK, Active(slots) = Slots
  PROVE  Oldest # {}
<1> DEFINE T == {slots[i].lastActivity : i \in Slots}
<1>1. \A i \in Slots : slots[i] \in Session
  BY DEF TypeOK, Active
<1>2. T \in SUBSET Nat
  BY <1>1 DEF Session
<1>3. T # {}
  <2>1. 1 \in Slots
    BY AccessAssumption DEF Slots
  <2> QED BY <2>1
<1>4. PICK x \in T : \A y \in T : x <= y
  BY <1>2, <1>3, LeastNat
<1> QED BY <1>4 DEF Oldest

(* A login gets one of the slots.                                          *)
LEMMA SlotForIsSlot ==
  ASSUME TypeOK, NEW c \in Clients
  PROVE  /\ SlotFor(c) \in Slots
         /\ SlotsOf(slots, c) # {} => SlotFor(c) \in SlotsOf(slots, c)
<1>0. SlotsOf(slots, c) \in SUBSET Slots /\ Free \in SUBSET Slots /\ Oldest \in SUBSET Slots
  BY DEF SlotsOf, Active, Free, Oldest
<1>1. CASE SlotsOf(slots, c) # {}
  <2>1. SlotFor(c) = Min(SlotsOf(slots, c))
    BY <1>1 DEF SlotFor
  <2> QED BY <1>0, <1>1, <2>1, MinOfSlots
<1>2. CASE SlotsOf(slots, c) = {} /\ Free # {}
  <2>1. SlotFor(c) = Min(Free)
    BY <1>2 DEF SlotFor
  <2> QED BY <1>0, <1>2, <2>1, MinOfSlots
<1>3. CASE SlotsOf(slots, c) = {} /\ Free = {}
  <2>1. SlotFor(c) = Min(Oldest)
    BY <1>3 DEF SlotFor
  <2>2. Active(slots) = Slots
    BY <1>3 DEF Free, Active
  <2> QED BY <1>0, <1>3, <2>1, <2>2, OldestExists, MinOfSlots
<1> QED BY <1>1, <1>2, <1>3

(***************************************************************************)
(* The type invariant.                                                     *)
(***************************************************************************)
LEMMA KeepForType ==
  ASSUME NEW S, NEW f \in [Clients -> S], NEW s, NEW none \in S
  PROVE  KeepFor(f, s, none) \in [Clients -> S]
BY DEF KeepFor

(* A limiter stays a limiter.                                              *)
LEMMA AfterType ==
  ASSUME NEW l \in [start : Nat, count : Nat], NEW max \in Nat, NEW secs \in Nat
  PROVE  After(l, max, secs) \in [start : Nat, count : Nat]
BY DEF After, InWindow

(* The time as the limiters see it is a number.                            *)
LEMMA SecsType == ASSUME TypeOK PROVE Secs \in Nat
BY AccessAssumption DEF Secs, TypeOK

(* The type of the operations of each kind.                                *)
Operations(f) ==
  /\ f \in [Kinds -> SUBSET [at : Nat, nr : Nat]]
  /\ \A k \in Kinds : IsFiniteSet(f[k])

(* Counting keeps limiters and their history of their types.               *)
LEMMA CountType ==
  ASSUME TypeOK, NEW k \in Kinds, Count(k)
  PROVE  /\ limiter' \in [Kinds -> [start : Nat, count : Nat]]
         /\ Operations(recent')
<1>1. After(limiter[k], LimitOf[k], Secs) \in [start : Nat, count : Nat]
  BY AfterType, SecsType, AccessAssumption DEF TypeOK
<1>2. limiter' \in [Kinds -> [start : Nat, count : Nat]]
  BY <1>1 DEF Count, TypeOK
<1>3. recent[k] \in SUBSET [at : Nat, nr : Nat] /\ IsFiniteSet(recent[k])
  BY DEF TypeOK
<1>4. Cardinality(recent[k]) + 1 \in Nat
  BY <1>3, FS_CardinalityType
<1> DEFINE op == [at |-> now, nr |-> Cardinality(recent[k]) + 1]
<1>5. op \in [at : Nat, nr : Nat]
  BY <1>4 DEF TypeOK
<1>6. recent' = recent \/ recent' = [recent EXCEPT ![k] = recent[k] \cup {op}]
  BY DEF Count
<1> HIDE DEF op
<1>7. IsFiniteSet(recent[k] \cup {op})
  BY <1>3, FS_AddElement
<1>8. ASSUME recent' = [recent EXCEPT ![k] = recent[k] \cup {op}] PROVE Operations(recent')
  <2>1. \A j \in Kinds : recent'[j] = IF j = k THEN recent[k] \cup {op} ELSE recent[j]
    BY <1>8 DEF TypeOK
  <2>2. recent' \in [Kinds -> SUBSET [at : Nat, nr : Nat]]
    BY <1>3, <1>5, <1>8 DEF TypeOK
  <2> QED BY <1>7, <2>1, <2>2 DEF TypeOK, Operations
<1>9. Operations(recent)
  BY DEF TypeOK, Operations
<1> QED BY <1>2, <1>6, <1>8, <1>9

(* A password gives a role or none.                                        *)
LEMMA RoleType == ASSUME NEW pw PROVE Role(pw) \in Roles \cup {None}
BY DEF Role, Roles

(* The invariant holds at first.                                           *)
LEMMA InitInv == Init => IInv
<1> SUFFICES ASSUME Init PROVE IInv
  OBVIOUS
<1>1. /\ slots \in [Slots -> Session \cup {None}] /\ Active(slots) = {}
  BY DEF Init, NoSession, Active
<1>2. TypeOK
  <2>1. {admin, guest} \subseteq Passwords \cup {None} /\ reportDest \in Clients \cup {None}
    BY AccessAssumption DEF Init
  <2>2. limiter \in [Kinds -> [start : Nat, count : Nat]]
    BY DEF Init, NoLimits, NewLimiter
  <2>3. Operations(recent)
    BY FS_EmptySet DEF Init, NoneYet, Operations
  <2>4. /\ heard \in [Clients -> Nat] /\ granted \in [Clients -> Roles \cup {None}]
        /\ done \in [Clients -> Seq(Packets)]
    BY DEF Init
  <2> QED BY <1>1, <2>1, <2>2, <2>3, <2>4 DEF Init, TypeOK, Operations
<1>3. \A c \in Clients : Len(done[c]) = 0
  BY DEF Init
<1>4. OneSession
  BY <1>1 DEF OneSession
<1>5. Newest /\ OnceInOrder
  BY <1>3 DEF Newest, OnceInOrder
<1> QED BY <1>2, <1>4, <1>5 DEF IInv

(***************************************************************************)
(* A login: the client has the one slot it was given, and the others only  *)
(* lose the session that was evicted.                                      *)
(***************************************************************************)
LEMMA LoginSlots ==
  ASSUME IInv, NEW p \in Packets, Login(p)
  PROVE  /\ slots' \in [Slots -> Session \cup {None}]
         /\ Active(slots') = Active(slots) \cup {SlotFor(p.client)}
         /\ slots'[SlotFor(p.client)] = Opened(p)
         /\ \A i \in Slots \ {SlotFor(p.client)} : slots'[i] = slots[i]
         /\ Opened(p) \in Session /\ Opened(p) # None
         /\ \A i \in Active(slots) :
              slots[i].client = p.client => i = SlotFor(p.client)
<1>0. TypeOK /\ OneSession /\ p.client \in Clients /\ p.ts \in Nat
  BY AccessAssumption DEF IInv
<1> DEFINE k == SlotFor(p.client)
<1>1. k \in Slots
  BY <1>0, SlotForIsSlot
<1>2. Role(p.pw) \in Roles
  BY RoleType, Zenon DEF Login, LoginAccepted
<1>3. Opened(p) \in Session
  BY <1>0, <1>2, SecsType DEF Opened, Session
<1>4. Opened(p) # None
  BY <1>3, AccessAssumption
<1>5. slots' = [slots EXCEPT ![k] = Opened(p)]
  BY DEF Login
<1>6. \A i \in Active(slots) : slots[i].client = p.client => i = k
  <2> SUFFICES ASSUME NEW i \in Active(slots), slots[i].client = p.client
               PROVE  i = k
    OBVIOUS
  <2>1. i \in SlotsOf(slots, p.client)
    BY DEF SlotsOf
  <2>2. k \in SlotsOf(slots, p.client)
    BY <1>0, <2>1, SlotForIsSlot
  <2> QED BY <1>0, <2>2 DEF OneSession, SlotsOf
<1> HIDE DEF k
<1>7. slots' \in [Slots -> Session \cup {None}]
  BY <1>0, <1>1, <1>3, <1>5 DEF TypeOK
<1>8. slots'[k] = Opened(p) /\ \A i \in Slots \ {k} : slots'[i] = slots[i]
  BY <1>0, <1>1, <1>5 DEF TypeOK
<1>9. Active(slots') = Active(slots) \cup {k}
  BY <1>1, <1>4, <1>8 DEF Active
<1> QED BY <1>3, <1>4, <1>6, <1>7, <1>8, <1>9 DEF k

(* A login keeps the invariant.                                            *)
LEMMA LoginStep ==
  ASSUME IInv, NEW p \in Packets, Login(p)
  PROVE  IInv'
<1> DEFINE k == SlotFor(p.client)
<1>0. TypeOK /\ p.client \in Clients /\ p.ts \in Nat
  BY AccessAssumption DEF IInv
<1>k. k \in Slots
  BY <1>0, SlotForIsSlot
<1>1. /\ slots' \in [Slots -> Session \cup {None}]
      /\ Active(slots') = Active(slots) \cup {k}
      /\ slots'[k] = Opened(p) /\ \A i \in Slots \ {k} : slots'[i] = slots[i]
      /\ Opened(p) \in Session
      /\ \A i \in Active(slots) : slots[i].client = p.client => i = k
  BY LoginSlots
<1>2. Opened(p).client = p.client /\ Opened(p).lastTimestamp = p.ts
  BY DEF Opened
<1> HIDE DEF k
<1>3. done' = KeepFor(done, slots', <<>>)
  BY DEF Login
<1>4. TypeOK'
  <2>1. limiter' \in [Kinds -> [start : Nat, count : Nat]]
        /\ Operations(recent')
    BY <1>0, CountType DEF Login, Kinds
  <2>2. reportDest' \in Clients \cup {None}
    BY <1>0 DEF Login, TypeOK
  <2>3. heard' \in [Clients -> Nat]
    BY <1>0, KeepForType DEF Login, TypeOK
  <2>4. granted' \in [Clients -> Roles \cup {None}]
    BY <1>0, KeepForType, RoleType DEF Login, TypeOK
  <2>5. done' \in [Clients -> Seq(Packets)]
    <3>1. <<>> \in Seq(Packets)
      OBVIOUS
    <3> QED BY <1>0, <1>3, <3>1, KeepForType DEF TypeOK
  <2> QED BY <1>0, <1>1, <2>1, <2>2, <2>3, <2>4, <2>5 DEF Login, TypeOK, Operations
<1>5. OneSession'
  <2> SUFFICES ASSUME NEW i \in Active(slots'), NEW j \in Active(slots'),
                      slots'[i].client = slots'[j].client
               PROVE  i = j
    BY DEF OneSession
  <2> QED BY <1>1, <1>2 DEF IInv, OneSession, Active
<1>6. \A c \in Clients : Len(done'[c]) > 0 => done'[c] = done[c] /\ c \in Holders(slots')
  BY <1>3 DEF KeepFor
<1>7. Newest'
  <2> SUFFICES ASSUME NEW c \in Clients, NEW n \in 1 .. Len(done'[c])
               PROVE  \E i \in SlotsOf(slots', c) : done'[c][n].ts <= slots'[i].lastTimestamp
    BY DEF Newest
  <2>0. done \in [Clients -> Seq(Packets)] /\ done' \in [Clients -> Seq(Packets)]
    BY <1>0, <1>4 DEF TypeOK
  <2>1. done'[c] = done[c] /\ c \in Holders(slots')
    BY <1>6, <2>0
  <2>2. PICK i \in SlotsOf(slots, c) : done[c][n].ts <= slots[i].lastTimestamp
    BY <2>1 DEF IInv, Newest
  <2>3. CASE i # k
    <3>1. i \in SlotsOf(slots', c) /\ slots'[i] = slots[i]
      BY <1>1, <2>3 DEF SlotsOf, Active
    <3> QED BY <2>1, <2>2, <3>1
  <2>4. CASE i = k /\ c = p.client
    <3>1. k \in SlotsOf(slots', c)
      BY <1>1, <1>2, <2>4 DEF SlotsOf
    <3>2. slots[k].lastTimestamp < p.ts
      <4>1. ~ (p.ts <= slots[k].lastTimestamp)
        BY <2>2, <2>4 DEF Login, LoginAccepted, Replayed
      <4>2. slots[k] \in Session
        BY <1>0, <2>2, <2>4 DEF TypeOK, SlotsOf, Active
      <4> QED BY <1>0, <4>1, <4>2 DEF Session
    <3>3. done[c][n].ts \in Nat /\ slots[k].lastTimestamp \in Nat
      <4>1. done[c][n] \in Packets
        BY <2>0, <2>1
      <4>2. slots[k] \in Session
        BY <1>0, <2>2, <2>4 DEF TypeOK, SlotsOf, Active
      <4> QED BY <4>1, <4>2, AccessAssumption DEF Session
    <3>4. done[c][n].ts <= p.ts
      BY <1>0, <2>2, <2>4, <3>2, <3>3
    <3> QED BY <1>1, <1>2, <2>1, <3>1, <3>4
  <2>5. CASE i = k /\ c # p.client
    <3>1. PICK j \in Active(slots') : slots'[j].client = c
      BY <2>1 DEF Holders
    <3>2. j # k /\ j \in Active(slots) /\ slots[j].client = c
      BY <1>1, <1>2, <2>5, <3>1 DEF Active
    <3> QED BY <2>2, <2>5, <3>2 DEF IInv, OneSession, SlotsOf
  <2> QED BY <2>3, <2>4, <2>5
<1>8. OnceInOrder'
  <2> SUFFICES ASSUME NEW c \in Clients, NEW i \in 1 .. Len(done'[c]),
                      NEW j \in 1 .. Len(done'[c]), i < j
               PROVE  done'[c][i].ts < done'[c][j].ts
    BY DEF OnceInOrder
  <2>0. done' \in [Clients -> Seq(Packets)]
    BY <1>4 DEF TypeOK
  <2>1. done'[c] = done[c]
    BY <1>6, <2>0
  <2> QED BY <2>1 DEF IInv, OnceInOrder
<1> QED BY <1>4, <1>5, <1>7, <1>8 DEF IInv

(***************************************************************************)
(* A request: the session's timestamp moves past every request carried out *)
(* in it before.                                                           *)
(***************************************************************************)
LEMMA RequestStep ==
  ASSUME IInv, NEW p \in Packets, Request(p)
  PROVE  IInv'
<1> DEFINE k == Min(Matching(p))
           s == slots[k]
<1>0. TypeOK /\ p.client \in Clients /\ p.ts \in Nat
  BY AccessAssumption DEF IInv
<1>1. k \in Active(slots) /\ s.client = p.client /\ p.ts > s.lastTimestamp
  <2>1. Matching(p) \in SUBSET Slots /\ Matching(p) # {}
    BY DEF Matching, Active, Request, Authentic
  <2>2. k \in Matching(p)
    BY <2>1, MinOfSlots
  <2> QED BY <2>2 DEF Matching, Request, Authentic
<1>2. k \in Slots /\ s \in Session
  BY <1>0, <1>1 DEF Active, TypeOK
<1>3. /\ slots' = [slots EXCEPT ![k] = Touched(slots[k], p)]
      /\ done' = done \/ done' = [done EXCEPT ![p.client] = Append(done[p.client], p)]
      /\ admin' \in Passwords \cup {None}
  <2>1. p.kind = "cli" => p.pw \in Passwords \cup {None}
    BY AccessAssumption
  <2>2. admin \in Passwords \cup {None}
    BY <1>0 DEF TypeOK
  <2>3. slots' = [slots EXCEPT ![k] = Touched(slots[k], p)]
    BY DEF Request
  <2>4. done' = done \/ done' = [done EXCEPT ![p.client] = Append(done[p.client], p)]
    BY Zenon DEF Request
  <2>5. admin' \in Passwords \cup {None}
    BY <2>1, <2>2, Zenon DEF Request
  <2> QED BY <2>3, <2>4, <2>5
<1> HIDE DEF k
<1>4. /\ slots'[k] = [s EXCEPT !.lastTimestamp = p.ts, !.lastActivity = Secs]
      /\ \A i \in Slots \ {k} : slots'[i] = slots[i]
  BY <1>0, <1>2, <1>3 DEF TypeOK, Touched
<1>5. /\ slots'[k] \in Session /\ slots'[k] # None
      /\ slots'[k].client = p.client /\ slots'[k].lastTimestamp = p.ts
  <2>1. Secs \in Nat
    BY <1>0, SecsType
  <2>2. s.client \in Clients /\ s.role \in Roles /\ s.lastTimestamp \in Nat
    BY <1>2 DEF Session
  <2> HIDE DEF s
  <2>3. slots'[k] \in Session
    BY <1>0, <1>2, <1>4, <2>1, <2>2 DEF Session
  <2>4. slots'[k].client = p.client /\ slots'[k].lastTimestamp = p.ts
    BY <1>1, <1>2, <1>4 DEF Session
  <2> QED BY <2>3, <2>4, AccessAssumption
<1>6. Active(slots') = Active(slots)
      /\ \A i \in Active(slots) : slots'[i].client = slots[i].client
  BY <1>1, <1>4, <1>5 DEF Active
<1>7. \A c \in Clients : SlotsOf(slots', c) = SlotsOf(slots, c)
  BY <1>6 DEF SlotsOf
<1>8. TypeOK'
  <2>1. limiter' \in [Kinds -> [start : Nat, count : Nat]]
        /\ Operations(recent')
    BY <1>0, CountType DEF Request, Kinds
  <2>2. slots' \in [Slots -> Session \cup {None}]
    BY <1>0, <1>2, <1>3, <1>4, <1>5 DEF TypeOK
  <2>3. done' \in [Clients -> Seq(Packets)]
    <3>1. done \in [Clients -> Seq(Packets)]
      BY <1>0 DEF TypeOK
    <3>2. Append(done[p.client], p) \in Seq(Packets)
      BY <1>0, <3>1
    <3> QED BY <1>3, <3>1, <3>2
  <2>4. heard' \in [Clients -> Nat]
    BY <1>0 DEF Request, TypeOK
  <2> QED BY <1>0, <1>3, <2>1, <2>2, <2>3, <2>4 DEF Request, TypeOK, Operations
<1>9. OneSession'
  BY <1>6 DEF IInv, OneSession
<1>10. \A n \in 1 .. Len(done[p.client]) : done[p.client][n].ts < p.ts
  <2> SUFFICES ASSUME NEW n \in 1 .. Len(done[p.client])
               PROVE  done[p.client][n].ts < p.ts
    OBVIOUS
  <2>1. PICK i \in SlotsOf(slots, p.client) : done[p.client][n].ts <= slots[i].lastTimestamp
    BY <1>0 DEF IInv, Newest
  <2>2. i = k
    BY <1>1 DEF IInv, OneSession, SlotsOf
  <2>3. done[p.client][n] \in Packets
    BY <1>0 DEF TypeOK
  <2>4. done[p.client][n].ts \in Nat
    BY <2>3, AccessAssumption
  <2> QED BY <1>0, <1>1, <1>2, <2>1, <2>2, <2>4 DEF Session
<1>11. CASE done' = done
  <2>1. OnceInOrder'
    BY <1>11 DEF IInv, OnceInOrder
  <2>2. Newest'
    <3> SUFFICES ASSUME NEW c \in Clients, NEW n \in 1 .. Len(done[c])
                 PROVE  \E i \in SlotsOf(slots', c) : done[c][n].ts <= slots'[i].lastTimestamp
      BY <1>11 DEF Newest
    <3>1. PICK i \in SlotsOf(slots, c) : done[c][n].ts <= slots[i].lastTimestamp
      BY DEF IInv, Newest
    <3>2. CASE i # k
      BY <1>4, <1>7, <3>1, <3>2 DEF SlotsOf, Active
    <3>3. CASE i = k
      <4>1. c = p.client
        BY <1>1, <3>1, <3>3 DEF SlotsOf
      <4>2. done[c][n].ts < p.ts
        BY <1>10, <4>1
      <4>3. done[c][n] \in Packets
        BY <1>0 DEF TypeOK
      <4>4. done[c][n].ts \in Nat
        BY <4>3, AccessAssumption
      <4> QED BY <1>0, <1>5, <1>7, <3>1, <3>3, <4>2, <4>4
    <3> QED BY <3>2, <3>3
  <2> QED BY <1>8, <1>9, <2>1, <2>2 DEF IInv
<1>12. CASE done' = [done EXCEPT ![p.client] = Append(done[p.client], p)]
  <2> DEFINE d == done[p.client]
  <2>1. /\ done'[p.client] = Append(d, p)
        /\ \A c \in Clients \ {p.client} : done'[c] = done[c]
        /\ d \in Seq(Packets)
    BY <1>0, <1>12 DEF TypeOK
  <2>2. /\ Len(Append(d, p)) = Len(d) + 1 /\ Append(d, p)[Len(d) + 1] = p
        /\ \A n \in 1 .. Len(d) : Append(d, p)[n] = d[n]
        /\ Len(d) \in Nat
    BY <2>1
  <2>3. OnceInOrder'
    <3> SUFFICES ASSUME NEW c \in Clients, NEW i \in 1 .. Len(done'[c]),
                        NEW j \in 1 .. Len(done'[c]), i < j
                 PROVE  done'[c][i].ts < done'[c][j].ts
      BY DEF OnceInOrder
    <3>1. CASE c # p.client
      BY <2>1, <3>1 DEF IInv, OnceInOrder
    <3>2. CASE c = p.client /\ j # Len(d) + 1
      <4>1. i \in 1 .. Len(d) /\ j \in 1 .. Len(d)
        BY <2>1, <2>2, <3>2
      <4>2. d[i].ts < d[j].ts
        BY <1>0, <4>1 DEF IInv, OnceInOrder
      <4> QED BY <2>1, <2>2, <3>2, <4>1, <4>2
    <3>3. CASE c = p.client /\ j = Len(d) + 1
      <4>1. i \in 1 .. Len(d)
        BY <2>1, <2>2, <3>3
      <4> QED BY <1>10, <2>1, <2>2, <3>3, <4>1
    <3> QED BY <3>1, <3>2, <3>3
  <2>4. Newest'
    <3> SUFFICES ASSUME NEW c \in Clients, NEW n \in 1 .. Len(done'[c])
                 PROVE  \E i \in SlotsOf(slots', c) : done'[c][n].ts <= slots'[i].lastTimestamp
      BY DEF Newest
    <3>1. CASE c # p.client
      <4>1. PICK i \in SlotsOf(slots, c) : done[c][n].ts <= slots[i].lastTimestamp
        BY <2>1, <3>1 DEF IInv, Newest
      <4>2. i # k
        BY <1>1, <3>1, <4>1 DEF SlotsOf
      <4> QED BY <1>4, <1>7, <2>1, <3>1, <4>1, <4>2 DEF SlotsOf, Active
    <3>2. CASE c = p.client
      <4>1. k \in SlotsOf(slots', c)
        BY <1>1, <1>7, <3>2 DEF SlotsOf
      <4>2. n = Len(d) + 1 \/ n \in 1 .. Len(d)
        BY <2>1, <2>2, <3>2
      <4>3. CASE n = Len(d) + 1
        BY <1>0, <1>5, <2>1, <2>2, <3>2, <4>1, <4>3
      <4>4. CASE n \in 1 .. Len(d)
        <5>1. d[n].ts < p.ts /\ done'[c][n] = d[n]
          BY <1>10, <2>1, <2>2, <3>2, <4>4
        <5>2. d[n].ts \in Nat
          <6>1. d[n] \in Packets
            BY <2>1, <4>4
          <6> QED BY <6>1, AccessAssumption
        <5> QED BY <1>0, <1>5, <4>1, <5>1, <5>2
      <4> QED BY <4>2, <4>3, <4>4
    <3> QED BY <3>1, <3>2
  <2> QED BY <1>8, <1>9, <2>3, <2>4 DEF IInv
<1> QED BY <1>3, <1>11, <1>12

(***************************************************************************)
(* The steps that only end sessions, and those that leave them alone.      *)
(***************************************************************************)
LEMMA CleanupStep == ASSUME IInv, Cleanup PROVE IInv'
<1>0. TypeOK
  BY DEF IInv
<1>1. /\ slots' \in [Slots -> Session \cup {None}]
      /\ \A i \in Active(slots') : i \in Active(slots) /\ slots'[i] = slots[i]
  BY <1>0 DEF Cleanup, TypeOK, Active
<1>2. /\ done' = KeepFor(done, slots', <<>>)
      /\ heard' = KeepFor(heard, slots', 0)
      /\ granted' = KeepFor(granted, slots', None)
  BY DEF Cleanup
<1>3. TypeOK'
  <2>1. <<>> \in Seq(Packets)
    OBVIOUS
  <2>2. /\ done' \in [Clients -> Seq(Packets)] /\ heard' \in [Clients -> Nat]
        /\ granted' \in [Clients -> Roles \cup {None}]
    BY <1>0, <1>2, <2>1, KeepForType DEF TypeOK
  <2>3. lastCleanup' \in Nat
    BY <1>0, SecsType DEF Cleanup
  <2> QED BY <1>0, <1>1, <2>2, <2>3 DEF Cleanup, TypeOK, settings, limits
<1>4. OneSession'
  BY <1>1 DEF IInv, OneSession
<1>5. \A c \in Clients : Len(done'[c]) > 0 => done'[c] = done[c] /\ c \in Holders(slots')
  BY <1>2 DEF KeepFor
<1>6. done' \in [Clients -> Seq(Packets)]
  BY <1>3 DEF TypeOK
<1>7. Newest'
  <2> SUFFICES ASSUME NEW c \in Clients, NEW n \in 1 .. Len(done'[c])
               PROVE  \E i \in SlotsOf(slots', c) : done'[c][n].ts <= slots'[i].lastTimestamp
    BY DEF Newest
  <2>1. done'[c] = done[c] /\ c \in Holders(slots')
    BY <1>5, <1>6
  <2>2. PICK j \in Active(slots') : slots'[j].client = c
    BY <2>1 DEF Holders
  <2>3. PICK i \in SlotsOf(slots, c) : done[c][n].ts <= slots[i].lastTimestamp
    BY <2>1 DEF IInv, Newest
  <2>4. i = j
    BY <1>1, <2>2 DEF IInv, OneSession, SlotsOf
  <2> QED BY <1>1, <2>1, <2>2, <2>3, <2>4 DEF SlotsOf
<1>8. OnceInOrder'
  <2> SUFFICES ASSUME NEW c \in Clients, NEW i \in 1 .. Len(done'[c]),
                      NEW j \in 1 .. Len(done'[c]), i < j
               PROVE  done'[c][i].ts < done'[c][j].ts
    BY DEF OnceInOrder
  <2>1. done'[c] = done[c]
    BY <1>5, <1>6
  <2> QED BY <2>1 DEF IInv, OnceInOrder
<1> QED BY <1>3, <1>4, <1>7, <1>8 DEF IInv

(* A reboot keeps it: there is no session left.                            *)
LEMMA RebootStep == ASSUME IInv, Reboot PROVE IInv'
<1>1. /\ slots' \in [Slots -> Session \cup {None}] /\ Active(slots') = {}
  BY DEF Reboot, NoSession, Active
<1>2. TypeOK'
  <2>1. limiter' \in [Kinds -> [start : Nat, count : Nat]]
    BY DEF Reboot, NoLimits, NewLimiter
  <2>2. Operations(recent')
    BY FS_EmptySet DEF Reboot, NoneYet, Operations
  <2>3. /\ heard' \in [Clients -> Nat] /\ granted' \in [Clients -> Roles \cup {None}]
        /\ done' \in [Clients -> Seq(Packets)]
    BY DEF Reboot
  <2> QED BY <1>1, <2>1, <2>2, <2>3 DEF Reboot, IInv, TypeOK, Operations, settings
<1>3. \A c \in Clients : Len(done'[c]) = 0
  BY DEF Reboot
<1>4. OneSession'
  BY <1>1 DEF OneSession
<1>5. Newest' /\ OnceInOrder'
  BY <1>3 DEF Newest, OnceInOrder
<1> QED BY <1>2, <1>4, <1>5 DEF IInv

(* So does whatever leaves sessions and history alone.                     *)
LEMMA QuietStep ==
  ASSUME IInv, TypeOK', UNCHANGED <<slots, done>>
  PROVE  IInv'
BY DEF IInv, OneSession, Newest, OnceInOrder, SlotsOf, Active

(* Refused packets touch limiters only.                                    *)
LEMMA RefusedStep ==
  ASSUME IInv, NEW p \in Packets, LoginRefused(p) \/ RequestRefused(p)
  PROVE  IInv'
<1>1. /\ limiter' \in [Kinds -> [start : Nat, count : Nat]]
      /\ Operations(recent')
  BY CountType DEF LoginRefused, RequestRefused, Kinds, IInv
<1>2. UNCHANGED <<now, lastCleanup, slots, settings, history>>
  BY DEF LoginRefused, RequestRefused
<1>3. TypeOK'
  BY <1>1, <1>2 DEF IInv, TypeOK, Operations, settings, history
<1> QED BY <1>2, <1>3, QuietStep DEF history

(* The owner's commands change passwords only.                             *)
LEMMA OwnerStep ==
  ASSUME IInv,
         \/ \E pw \in OwnerPasswords : SetAdminPassword(pw) \/ SetGuestPassword(pw)
         \/ ResetConfig
  PROVE  IInv'
<1>1. UNCHANGED <<now, lastCleanup, slots, limits, history>>
  BY DEF SetAdminPassword, SetGuestPassword, ResetConfig
<1>2. /\ {admin', guest'} \subseteq Passwords \cup {None}
      /\ reportDest' \in Clients \cup {None}
  BY AccessAssumption DEF SetAdminPassword, SetGuestPassword, ResetConfig, IInv, TypeOK
<1>3. TypeOK'
  BY <1>1, <1>2 DEF IInv, TypeOK, limits, history
<1> QED BY <1>1, <1>3, QuietStep DEF history

(* Time passes without an effect on the sessions.                          *)
LEMMA TickStep == ASSUME IInv, Tick PROVE IInv'
<1>1. Operations(recent')
  <2>1. ASSUME NEW k \in Kinds
        PROVE  recent'[k] \subseteq recent[k] /\ IsFiniteSet(recent'[k])
    <3>1. recent'[k] \subseteq recent[k] /\ IsFiniteSet(recent[k])
      BY DEF Tick, IInv, TypeOK
    <3> QED BY <3>1, FS_Subset
  <2>2. recent' \in [Kinds -> SUBSET [at : Nat, nr : Nat]]
    BY <2>1 DEF Tick, IInv, TypeOK
  <2> QED BY <2>1, <2>2 DEF Operations
<1>2. now' \in Nat
  BY DEF Tick, IInv, TypeOK
<1>3. UNCHANGED <<lastCleanup, slots, settings, limiter, history>>
  BY DEF Tick
<1>4. TypeOK'
  BY <1>1, <1>2, <1>3 DEF IInv, TypeOK, Operations, settings, history
<1> QED BY <1>3, <1>4, QuietStep DEF history

(***************************************************************************)
(* The theorems.                                                           *)
(***************************************************************************)

(* IInv is an invariant of every behaviour.                                *)
THEOREM Invariance == Spec => []IInv
<1>1. IInv /\ [Next]_vars => IInv'
  <2> SUFFICES ASSUME IInv, [Next]_vars PROVE IInv'
    OBVIOUS
  <2>1. CASE UNCHANGED vars
    <3>1. TypeOK' /\ UNCHANGED <<slots, done>>
      BY <2>1 DEF IInv, TypeOK, vars, settings, limits, history
    <3> QED BY <3>1, QuietStep
  <2>2. ASSUME NEW p \in Packets, Login(p) PROVE IInv'
    BY <2>2, LoginStep
  <2>3. ASSUME NEW p \in Packets, Request(p) PROVE IInv'
    BY <2>3, RequestStep
  <2>4. ASSUME NEW p \in Packets, LoginRefused(p) \/ RequestRefused(p) PROVE IInv'
    BY <2>4, RefusedStep
  <2>5. CASE \/ \E pw \in OwnerPasswords : SetAdminPassword(pw) \/ SetGuestPassword(pw)
             \/ ResetConfig
    BY <2>5, OwnerStep
  <2>6. CASE Tick
    BY <2>6, TickStep
  <2>7. CASE Cleanup
    BY <2>7, CleanupStep
  <2>8. CASE Reboot
    BY <2>8, RebootStep
  <2> QED BY <2>1, <2>2, <2>3, <2>4, <2>5, <2>6, <2>7, <2>8 DEF Next
<1> QED BY InitInv, <1>1, PTL DEF Spec

(* The variables keep their types, for any clients, packets and limits.    *)
THEOREM TypeCorrect == Spec => []TypeOK
<1>1. IInv => TypeOK
  BY DEF IInv
<1> QED BY Invariance, <1>1, PTL

(* However many slots there are and in whatever order they come free, a    *)
(* client never has two sessions (processLogin).                           *)
THEOREM NoSecondSession == Spec => []OneSession
<1>1. IInv => OneSession
  BY DEF IInv
<1> QED BY Invariance, <1>1, PTL

(* Late and repeated copies never make a node carry out a request twice or *)
(* after a later one in the same session, for any packets of any clients.  *)
THEOREM NeverRepeated == Spec => []OnceInOrder
<1>1. IInv => OnceInOrder
  BY DEF IInv
<1> QED BY Invariance, <1>1, PTL

(***************************************************************************)
(* Who may give commands: the role in a session is the one that the        *)
(* client's last login in it was granted.                                  *)
(***************************************************************************)
RolesAgree == \A i \in Active(slots) : slots[i].role = granted[slots[i].client]

(* Clean-up keeps the sessions it does not end as they are.                *)
LEMMA KeptAsGranted ==
  ASSUME IInv, RolesAgree, slots' \in [Slots -> Session \cup {None}],
         \A i \in Active(slots') : i \in Active(slots) /\ slots'[i] = slots[i],
         granted' = KeepFor(granted, slots', None)
  PROVE  RolesAgree'
<1> SUFFICES ASSUME NEW i \in Active(slots') PROVE slots'[i].role = granted'[slots'[i].client]
  BY DEF RolesAgree
<1>1. slots'[i].client \in Clients
  BY DEF Active, Session
<1>2. slots'[i].client \in Holders(slots')
  BY DEF Holders
<1> QED BY <1>1, <1>2 DEF KeepFor, RolesAgree

(* A login writes the same role into its session and its history.          *)
LEMMA LoginGrants ==
  ASSUME IInv, RolesAgree, NEW p \in Packets, Login(p) PROVE RolesAgree'
<1> DEFINE k == SlotFor(p.client)
<1>1. /\ slots' \in [Slots -> Session \cup {None}]
      /\ Active(slots') = Active(slots) \cup {k}
      /\ slots'[k] = Opened(p) /\ \A i \in Slots \ {k} : slots'[i] = slots[i]
      /\ \A i \in Active(slots) : slots[i].client = p.client => i = k
  BY LoginSlots
<1> HIDE DEF k
<1>2. /\ granted' = [KeepFor(granted, slots', None) EXCEPT ![p.client] = Role(p.pw)]
      /\ p.client \in Clients
  BY AccessAssumption DEF Login
<1> SUFFICES ASSUME NEW i \in Active(slots') PROVE slots'[i].role = granted'[slots'[i].client]
  BY DEF RolesAgree
<1>3. slots'[i].client \in Clients
  BY <1>1 DEF Active, Session
<1>4. slots'[i].client \in Holders(slots')
  BY DEF Holders
<1>5. CASE i = k
  <2>1. slots'[i].client = p.client /\ slots'[i].role = Role(p.pw)
    BY <1>1, <1>5 DEF Opened
  <2>2. granted'[p.client] = Role(p.pw)
    BY <1>2 DEF KeepFor
  <2> QED BY <2>1, <2>2
<1>6. CASE i # k
  <2>1. i \in Active(slots) /\ slots'[i] = slots[i] /\ slots[i].client # p.client
    BY <1>1, <1>6 DEF Active
  <2>2. granted'[slots'[i].client] = granted[slots'[i].client]
    BY <1>2, <1>3, <1>4, <2>1 DEF KeepFor
  <2> QED BY <2>1, <2>2 DEF RolesAgree
<1> QED BY <1>5, <1>6

(* A request is carried out in the session that its client has.            *)
LEMMA RequestSlot ==
  ASSUME IInv, NEW p \in Packets, Request(p)
  PROVE  /\ Min(Matching(p)) \in Active(slots)
         /\ slots[Min(Matching(p))].client = p.client
         /\ slots[Min(Matching(p))] \in Session
<1>1. Matching(p) \in SUBSET Slots /\ Matching(p) # {}
  BY DEF Matching, Active, Request, Authentic
<1>2. Min(Matching(p)) \in Matching(p)
  BY <1>1, MinOfSlots
<1> QED BY <1>2 DEF Matching, Request, Authentic, Active, IInv, TypeOK

(* A request leaves every role as it is.                                   *)
LEMMA RequestGrants ==
  ASSUME IInv, RolesAgree, NEW p \in Packets, Request(p) PROVE RolesAgree'
<1> DEFINE k == Min(Matching(p))
           s == slots[k]
<1>1. k \in Active(slots) /\ s \in Session
  BY RequestSlot
<1>2. slots' = [slots EXCEPT ![k] = Touched(s, p)] /\ granted' = granted
  BY DEF Request
<1>3. slots \in [Slots -> Session \cup {None}]
  BY DEF IInv, TypeOK
<1>4. Touched(s, p).role = s.role /\ Touched(s, p).client = s.client
  BY <1>1 DEF Touched, Session
<1> HIDE DEF k
<1>5. k \in Slots /\ slots'[k] = Touched(s, p) /\ \A i \in Slots \ {k} : slots'[i] = slots[i]
  BY <1>1, <1>2, <1>3 DEF Active
<1> SUFFICES ASSUME NEW i \in Active(slots') PROVE slots'[i].role = granted[slots'[i].client]
  BY <1>2 DEF RolesAgree
<1>6. i \in Active(slots) /\ slots'[i].role = slots[i].role /\ slots'[i].client = slots[i].client
  <2>1. CASE i = k
    BY <1>1, <1>4, <1>5, <2>1
  <2>2. CASE i # k
    BY <1>5, <2>2 DEF Active
  <2> QED BY <2>1, <2>2
<1> QED BY <1>6 DEF RolesAgree

(* Whatever happens, a session's role is the one it was granted.           *)
LEMMA StepGrants == IInv /\ RolesAgree /\ [Next]_vars => RolesAgree'
<1> SUFFICES ASSUME IInv, RolesAgree, [Next]_vars PROVE RolesAgree'
  OBVIOUS
<1>1. ASSUME UNCHANGED <<slots, granted>> PROVE RolesAgree'
  BY <1>1 DEF RolesAgree, Active
<1>2. ASSUME NEW p \in Packets, Login(p) PROVE RolesAgree'
  BY <1>2, LoginGrants
<1>3. ASSUME NEW p \in Packets, Request(p) PROVE RolesAgree'
  BY <1>3, RequestGrants
<1>4. CASE Cleanup
  <2>1. granted' = KeepFor(granted, slots', None)
    BY <1>4 DEF Cleanup
  <2>2. slots' \in [Slots -> Session \cup {None}]
    BY <1>4 DEF Cleanup, IInv, TypeOK
  <2>3. \A i \in Active(slots') : i \in Active(slots) /\ slots'[i] = slots[i]
    BY <1>4 DEF Cleanup, Active
  <2> QED BY <2>1, <2>2, <2>3, KeptAsGranted
<1>5. CASE Reboot
  BY <1>5 DEF Reboot, RolesAgree, Active, NoSession
<1>6. CASE \/ \E p \in Packets : LoginRefused(p) \/ RequestRefused(p)
           \/ \E pw \in OwnerPasswords : SetAdminPassword(pw) \/ SetGuestPassword(pw)
           \/ ResetConfig \/ Tick \/ UNCHANGED vars
  <2>1. UNCHANGED <<slots, granted>>
    BY <1>6 DEF LoginRefused, RequestRefused, SetAdminPassword, SetGuestPassword, ResetConfig,
                Tick, vars, history
  <2> QED BY <1>1, <2>1
<1> QED BY <1>2, <1>3, <1>4, <1>5, <1>6 DEF Next

(* A command is carried out only for a client whose last login showed the  *)
(* password that was the administrator's then: over evictions, time limits,*)
(* reboots, changed passwords, and late copies of logins and commands.     *)
THEOREM CommandsAlwaysNeedLogin == Spec => CommandsNeedAdminLogin
<1>1. Init => RolesAgree
  BY DEF Init, RolesAgree, Active, NoSession
<1>2. IInv /\ RolesAgree /\ [Next]_vars =>
        [\A c \in Clients : RanCommand(c) => granted[c] = "admin"]_vars
  <2> SUFFICES ASSUME IInv, RolesAgree, Next, NEW c \in Clients, RanCommand(c)
               PROVE  granted[c] = "admin"
    OBVIOUS
  <2>0. done \in [Clients -> Seq(Packets)] /\ Len(done[c]) \in Nat
    BY DEF IInv, TypeOK
  <2>1. ASSUME NEW p \in Packets, Request(p) PROVE granted[c] = "admin"
    <3> DEFINE s == slots[Min(Matching(p))]
    <3>1. s.client = p.client /\ s.role = granted[p.client]
      BY <2>1, RequestSlot DEF RolesAgree
    <3>2. done' = IF MayDo(s, p) THEN [done EXCEPT ![p.client] = Append(@, p)] ELSE done
      BY <2>1 DEF Request
    <3> HIDE DEF s
    <3>3. done'[c] # done[c]
      BY <2>0 DEF RanCommand
    <3>4. MayDo(s, p) /\ c = p.client
      BY <2>0, <3>2, <3>3
    <3>5. done'[c] = Append(done[c], p)
      BY <2>0, <3>2, <3>4
    <3>6. p.kind = "cli"
      BY <2>0, <3>5 DEF RanCommand
    <3> QED BY <3>1, <3>4, <3>6 DEF MayDo
  <2>2. ASSUME ~ \E p \in Packets : Request(p) PROVE FALSE
    <3>1. done'[c] = done[c] \/ done'[c] = <<>>
      BY <2>2 DEF Next, Login, LoginRefused, RequestRefused, SetAdminPassword,
                  SetGuestPassword, ResetConfig, Tick, Cleanup, Reboot, history, KeepFor
    <3>2. Len(done'[c]) > Len(done[c])
      BY DEF RanCommand
    <3> QED BY <2>0, <3>1, <3>2
  <2> QED BY <2>1, <2>2
<1> QED BY <1>1, <1>2, Invariance, StepGrants, PTL DEF Spec, CommandsNeedAdminLogin

(***************************************************************************)
(* How long sessions last, as long as millis() has not wrapped.            *)
(***************************************************************************)
LEMMA SmallMod ==
  ASSUME NEW W \in Nat \ {0}, NEW x \in 0 .. W - 1
  PROVE  x % W = x /\ (x + W) % W = x
OBVIOUS

Clock ==
  /\ now \in 0 .. MaxTime
  /\ lastCleanup \in 0 .. now
  /\ now <= lastCleanup + Period + 1

(* A session's activity is its client's, and none was idle for longer than *)
(* the time limit at the last clean-up.                                    *)
FreshAt(i) ==
  LET c == slots[i].client
  IN  /\ slots[i].lastActivity = heard[c]
      /\ heard[c] \in 0 .. now
      /\ lastCleanup <= heard[c] + Timeout

Fresh == \A i \in Active(slots) : FreshAt(i)

(* Before the wrap the node sees the time as it is.                        *)
LEMMA TrueTime ==
  ASSUME MaxTime < Wrap, Clock
  PROVE  Secs = now /\ \A t \in 0 .. now : Since(t) = now - t
<1>1. Wrap \in Nat \ {0} /\ MaxTime \in Nat
  BY AccessAssumption
<1>2. now \in Nat /\ now \in 0 .. Wrap - 1
  BY <1>1 DEF Clock
<1>3. Secs = now
  BY <1>1, <1>2, SmallMod DEF Secs
<1>4. ASSUME NEW t \in 0 .. now PROVE Since(t) = now - t
  <2>1. now - t \in 0 .. Wrap - 1
    BY <1>1, <1>2
  <2>2. ((now - t) + Wrap) % Wrap = now - t
    BY <1>1, <2>1, SmallMod
  <2>3. Secs + Wrap - t = (now - t) + Wrap
    BY <1>1, <1>2, <1>3
  <2> QED BY <2>2, <2>3 DEF Since
<1> QED BY <1>3, <1>4

(* A session that is opened, used or kept is fresh.                        *)
LEMMA LoginFresh ==
  ASSUME MaxTime < Wrap, IInv, Clock, Fresh, NEW p \in Packets, Login(p)
  PROVE  Fresh'
<1> DEFINE k == SlotFor(p.client)
<1>1. /\ slots' \in [Slots -> Session \cup {None}]
      /\ Active(slots') = Active(slots) \cup {k}
      /\ slots'[k] = Opened(p) /\ \A i \in Slots \ {k} : slots'[i] = slots[i]
      /\ \A i \in Active(slots) : slots[i].client = p.client => i = k
  BY LoginSlots
<1> HIDE DEF k
<1>2. /\ heard' = [KeepFor(heard, slots', 0) EXCEPT ![p.client] = now]
      /\ UNCHANGED <<now, lastCleanup>> /\ p.client \in Clients
  BY AccessAssumption DEF Login
<1> SUFFICES ASSUME NEW i \in Active(slots') PROVE FreshAt(i)'
  BY DEF Fresh
<1>3. slots'[i].client \in Clients /\ slots'[i].client \in Holders(slots')
  BY <1>1 DEF Active, Session, Holders
<1>4. CASE i = k
  <2>1. slots'[i].client = p.client /\ slots'[i].lastActivity = now
    BY <1>1, <1>4, TrueTime DEF Opened
  <2>2. heard'[p.client] = now
    BY <1>2 DEF KeepFor
  <2>3. now \in Nat /\ lastCleanup \in 0 .. now /\ Timeout \in Nat
    BY AccessAssumption DEF Clock
  <2>4. now \in 0 .. now /\ lastCleanup <= now + Timeout
    BY <2>3
  <2> QED BY <1>2, <2>1, <2>2, <2>4 DEF FreshAt
<1>5. CASE i # k
  <2>1. i \in Active(slots) /\ slots'[i] = slots[i] /\ slots[i].client # p.client
    BY <1>1, <1>5 DEF Active
  <2>2. heard'[slots'[i].client] = heard[slots'[i].client]
    BY <1>2, <1>3, <2>1 DEF KeepFor
  <2> QED BY <1>2, <2>1, <2>2 DEF Fresh, FreshAt
<1> QED BY <1>4, <1>5

(* A request makes its own session fresh and no other stale.               *)
LEMMA RequestFresh ==
  ASSUME MaxTime < Wrap, IInv, Clock, Fresh, NEW p \in Packets, Request(p)
  PROVE  Fresh'
<1> DEFINE k == Min(Matching(p))
           s == slots[k]
<1>1. k \in Active(slots) /\ s \in Session /\ s.client = p.client
  BY RequestSlot
<1>2. /\ slots' = [slots EXCEPT ![k] = Touched(s, p)]
      /\ heard' = [heard EXCEPT ![p.client] = now] /\ UNCHANGED <<now, lastCleanup>>
  BY DEF Request
<1>3. slots \in [Slots -> Session \cup {None}] /\ heard \in [Clients -> Nat]
      /\ p.client \in Clients
  BY AccessAssumption DEF IInv, TypeOK
<1>4. Touched(s, p).client = p.client /\ Touched(s, p).lastActivity = now
  BY <1>1, TrueTime DEF Touched, Session
<1> HIDE DEF k
<1>5. k \in Slots /\ slots'[k] = Touched(s, p) /\ \A i \in Slots \ {k} : slots'[i] = slots[i]
  BY <1>1, <1>2, <1>3 DEF Active
<1> SUFFICES ASSUME NEW i \in Active(slots') PROVE FreshAt(i)'
  BY DEF Fresh
<1>6. CASE i = k
  <2>1. slots'[i].client = p.client /\ slots'[i].lastActivity = now
    BY <1>4, <1>5, <1>6
  <2>2. heard'[p.client] = now
    BY <1>2, <1>3
  <2>3. now \in Nat /\ lastCleanup \in 0 .. now /\ Timeout \in Nat
    BY AccessAssumption DEF Clock
  <2>4. now \in 0 .. now /\ lastCleanup <= now + Timeout
    BY <2>3
  <2> QED BY <1>2, <2>1, <2>2, <2>4 DEF FreshAt
<1>7. CASE i # k
  <2>1. i \in Active(slots) /\ slots'[i] = slots[i]
    BY <1>5, <1>7 DEF Active
  <2>2. slots[i].client # p.client
    BY <1>1, <1>7, <2>1 DEF IInv, OneSession
  <2>3. heard'[slots[i].client] = heard[slots[i].client]
    BY <1>2, <1>3, <2>2
  <2> QED BY <1>2, <2>1, <2>3 DEF Fresh, FreshAt
<1> QED BY <1>6, <1>7

(* What the clean-up leaves was heard within the time limit.               *)
LEMMA CleanupFresh ==
  ASSUME MaxTime < Wrap, IInv, Clock, Fresh, Cleanup
  PROVE  Fresh'
<1>1. /\ lastCleanup' = now /\ now' = now /\ heard' = KeepFor(heard, slots', 0)
  BY TrueTime DEF Cleanup
<1>2. \A i \in Active(slots') :
        i \in Active(slots) /\ slots'[i] = slots[i] /\ ~Expired(slots[i])
  BY DEF Cleanup, Active
<1> SUFFICES ASSUME NEW i \in Active(slots') PROVE FreshAt(i)'
  BY DEF Fresh
<1> DEFINE c == slots[i].client
<1>3. c \in Clients /\ c \in Holders(slots')
  BY <1>2 DEF IInv, TypeOK, Active, Session, Holders
<1>4. heard'[c] = heard[c]
  BY <1>1, <1>3 DEF KeepFor
<1>5. slots[i].lastActivity = heard[c] /\ heard[c] \in 0 .. now
  BY <1>2 DEF Fresh, FreshAt
<1>6. Since(heard[c]) = now - heard[c] /\ ~(Since(heard[c]) > Timeout)
  BY <1>2, <1>5, TrueTime DEF Expired
<1>7. now <= heard[c] + Timeout
  <2>1. now \in Nat /\ Timeout \in Nat
    BY AccessAssumption DEF Clock
  <2>2. PICK h \in 0 .. now : h = heard[c]
    BY <1>5
  <2> QED BY <1>6, <2>1, <2>2
<1> QED BY <1>1, <1>2, <1>4, <1>5, <1>7 DEF FreshAt

(* Time goes by only when no clean-up is due.                              *)
LEMMA ClockStep ==
  ASSUME MaxTime < Wrap, Clock, [Next]_vars
  PROVE  Clock'
<1>1. Period \in Nat /\ MaxTime \in Nat /\ now \in Nat /\ lastCleanup \in Nat
  BY AccessAssumption DEF Clock
<1>2. CASE UNCHANGED <<now, lastCleanup>>
  BY <1>2 DEF Clock
<1>3. CASE Tick
  <2>1. now < MaxTime /\ now' = now + 1 /\ lastCleanup' = lastCleanup
        /\ ~(Since(lastCleanup) > Period)
    BY <1>3 DEF Tick, Overdue
  <2>2. Since(lastCleanup) = now - lastCleanup
    BY TrueTime DEF Clock
  <2> QED BY <1>1, <2>1, <2>2 DEF Clock
<1>4. CASE Cleanup
  <2>1. lastCleanup' = now /\ now' = now
    BY <1>4, TrueTime DEF Cleanup
  <2> QED BY <1>1, <2>1 DEF Clock
<1>5. CASE Reboot
  BY <1>1, <1>5 DEF Reboot, Clock
<1> QED BY <1>2, <1>3, <1>4, <1>5 DEF Next, Login, LoginRefused, Request, RequestRefused,
           SetAdminPassword, SetGuestPassword, ResetConfig, vars

(* Sessions stay fresh from one clean-up to the next.                      *)
LEMMA FreshStep ==
  ASSUME MaxTime < Wrap, IInv, Clock, Fresh, [Next]_vars
  PROVE  Fresh'
<1>1. ASSUME UNCHANGED <<slots, heard, lastCleanup>>, now' \in Nat, now <= now' PROVE Fresh'
  <2> SUFFICES ASSUME NEW i \in Active(slots) PROVE FreshAt(i)'
    BY <1>1 DEF Fresh, Active
  <2>1. FreshAt(i)
    BY DEF Fresh
  <2>2. heard[slots[i].client] \in 0 .. now'
    <3>1. now \in Nat /\ heard[slots[i].client] \in 0 .. now
      BY <2>1 DEF FreshAt, Clock
    <3> QED BY <1>1, <3>1
  <2> QED BY <1>1, <2>1, <2>2 DEF FreshAt
<1>2. ASSUME NEW p \in Packets, Login(p) PROVE Fresh'
  BY <1>2, LoginFresh
<1>3. ASSUME NEW p \in Packets, Request(p) PROVE Fresh'
  BY <1>3, RequestFresh
<1>4. CASE Cleanup
  BY <1>4, CleanupFresh
<1>5. CASE Reboot
  BY <1>5 DEF Reboot, Fresh, Active, NoSession
<1>6. CASE Tick
  <2>1. now \in Nat /\ now' = now + 1 /\ UNCHANGED <<slots, heard, lastCleanup>>
    BY <1>6 DEF Tick, Clock, history
  <2> QED BY <1>1, <2>1
<1>7. CASE \/ \E p \in Packets : LoginRefused(p) \/ RequestRefused(p)
           \/ \E pw \in OwnerPasswords : SetAdminPassword(pw) \/ SetGuestPassword(pw)
           \/ ResetConfig \/ UNCHANGED vars
  <2>1. UNCHANGED <<slots, heard, lastCleanup, now>>
    BY <1>7 DEF LoginRefused, RequestRefused, SetAdminPassword, SetGuestPassword, ResetConfig,
                vars, history
  <2>2. now \in Nat
    BY DEF Clock
  <2> QED BY <1>1, <2>1, <2>2
<1> QED BY <1>2, <1>3, <1>4, <1>5, <1>6, <1>7 DEF Next

(* What ends a session: a reboot, a clean-up when it was idle too long, or *)
(* a login that finds no free slot and none that was idle for longer.      *)
LEMMA WhoLoses ==
  ASSUME MaxTime < Wrap, IInv, Clock, Fresh, Next,
         NEW c \in Holders(slots) \ Holders(slots')
  PROVE  \/ Reboot
         \/ IdleFor(c) > Timeout
         \/ Free = {} /\ \A d \in Holders(slots) : heard[c] <= heard[d]
<1>1. PICK i \in Active(slots) : slots[i].client = c
  BY DEF Holders
<1>2. \A j \in Active(slots') : slots'[j].client # c
  BY DEF Holders
<1>3. FreshAt(i) /\ i \in Slots
  BY DEF Fresh, Active
<1>4. ASSUME UNCHANGED slots PROVE FALSE
  BY <1>1, <1>2, <1>4 DEF Active
<1>5. ASSUME NEW p \in Packets, Login(p)
      PROVE  Free = {} /\ \A d \in Holders(slots) : heard[c] <= heard[d]
  <2> DEFINE k == SlotFor(p.client)
  <2>1. /\ Active(slots') = Active(slots) \cup {k}
        /\ slots'[k] = Opened(p) /\ \A j \in Slots \ {k} : slots'[j] = slots[j]
    BY <1>5, LoginSlots
  <2>2. k \in Slots /\ (SlotsOf(slots, p.client) # {} => k \in SlotsOf(slots, p.client))
    BY SlotForIsSlot, AccessAssumption DEF IInv
  <2>3. i = k
    BY <1>1, <1>2, <1>3, <2>1
  <2>4. c # p.client
    BY <1>2, <2>1 DEF Opened
  <2>5. SlotsOf(slots, p.client) = {}
    BY <1>1, <2>2, <2>3, <2>4 DEF SlotsOf
  <2>6. Free = {}
    <3> SUFFICES ASSUME Free # {} PROVE FALSE
      OBVIOUS
    <3>1. k = Min(Free) /\ Free \in SUBSET Slots
      BY <2>5 DEF SlotFor, Free
    <3>2. k \in Free
      BY <3>1, MinOfSlots
    <3> QED BY <2>3, <3>2 DEF Free
  <2>7. k \in Oldest
    <3>1. k = Min(Oldest) /\ Oldest \in SUBSET Slots
      BY <2>5, <2>6 DEF SlotFor, Oldest
    <3>2. Oldest # {}
      BY <2>6, OldestExists DEF Free, Active, IInv
    <3> QED BY <3>1, <3>2, MinOfSlots
  <2> HIDE DEF k
  <2>8. ASSUME NEW d \in Holders(slots) PROVE heard[c] <= heard[d]
    <3>1. PICK j \in Active(slots) : slots[j].client = d
      BY DEF Holders
    <3>2. j \in Slots /\ slots[i].lastActivity <= slots[j].lastActivity
      BY <2>3, <2>7, <3>1 DEF Oldest, Active
    <3>3. slots[i].lastActivity = heard[c] /\ slots[j].lastActivity = heard[d]
      BY <1>1, <3>1 DEF Fresh, FreshAt
    <3> QED BY <3>2, <3>3
  <2> QED BY <2>6, <2>8
<1>6. ASSUME NEW p \in Packets, Request(p) PROVE FALSE
  <2> DEFINE k == Min(Matching(p))
             s == slots[k]
  <2>1. k \in Active(slots) /\ s \in Session
    BY <1>6, RequestSlot
  <2>2. slots' = [slots EXCEPT ![k] = Touched(s, p)] /\ Touched(s, p).client = s.client
    BY <1>6, <2>1 DEF Request, Touched, Session
  <2>3. slots'[i].client = c /\ slots \in [Slots -> Session \cup {None}]
    BY <1>1, <1>3, <2>2 DEF IInv, TypeOK
  <2>4. slots' \in [Slots -> Session \cup {None}]
    BY <1>6, RequestStep DEF IInv, TypeOK
  <2>5. slots'[i] # None
    <3>1. CASE i = k
      <4>1. slots'[i] = Touched(s, p)
        BY <1>3, <2>2, <2>3, <3>1
      <4>2. s.client \in Clients /\ s.role \in Roles /\ p.ts \in Nat /\ Secs \in Nat
        BY <2>1, SecsType, AccessAssumption DEF Session, IInv
      <4>3. Touched(s, p) \in Session
        BY <2>1, <4>2 DEF Touched, Session
      <4> QED BY <4>1, <4>3, AccessAssumption
    <3>2. CASE i # k
      BY <1>1, <1>3, <2>2, <2>3, <3>2 DEF Active
    <3> QED BY <3>1, <3>2
  <2> QED BY <1>2, <1>3, <2>3, <2>5 DEF Active
<1>7. CASE Cleanup
  <2>1. Expired(slots[i])
    BY <1>1, <1>2, <1>3, <1>7 DEF Cleanup, Active
  <2>2. slots[i].lastActivity = heard[c] /\ heard[c] \in 0 .. now
    BY <1>1, <1>3 DEF FreshAt
  <2>3. Since(heard[c]) = now - heard[c]
    BY <2>2, TrueTime
  <2> QED BY <2>1, <2>2, <2>3 DEF Expired, IdleFor
<1> QED BY <1>4, <1>5, <1>6, <1>7 DEF Next, LoginRefused, RequestRefused, SetAdminPassword,
           SetGuestPassword, ResetConfig, Tick

(* Until millis() wraps a session lasts as long as its client uses it and  *)
(* ends soon after: for any number of clients and slots, any limits, and   *)
(* whatever others send.                                                   *)
THEOREM SessionsAlwaysLast == ASSUME MaxTime < Wrap PROVE Spec => SessionsLast
<1>1. Init => Clock /\ Fresh
  BY AccessAssumption DEF Init, Clock, Fresh, Active, NoSession
<1>2. IInv /\ Clock /\ Fresh /\ [Next]_vars => (Clock /\ Fresh)'
  BY ClockStep, FreshStep
<1>3. IInv /\ Clock /\ Fresh => IdleSessionsEnd
  <2> SUFFICES ASSUME Clock, Fresh, NEW c \in Holders(slots)
               PROVE  IdleFor(c) <= Timeout + Period + 1
    BY DEF IdleSessionsEnd
  <2>1. PICK i \in Active(slots) : slots[i].client = c
    BY DEF Holders
  <2>2. PICK h \in Nat : h = heard[c] /\ lastCleanup <= h + Timeout
    BY <2>1 DEF Clock, Fresh, FreshAt
  <2>3. now \in Nat /\ lastCleanup \in Nat /\ now <= lastCleanup + Period + 1
        /\ Timeout \in Nat /\ Period \in Nat
    BY AccessAssumption DEF Clock
  <2> QED BY <2>2, <2>3 DEF IdleFor
<1>4. IInv /\ Clock /\ Fresh /\ [Next]_vars =>
        [\A c \in Holders(slots) \ Holders(slots') :
           \/ Reboot
           \/ IdleFor(c) > Timeout
           \/ /\ Free = {}
              /\ \A d \in Holders(slots) : heard[c] <= heard[d]]_vars
  BY WhoLoses
<1>5. Spec => [](IInv /\ Clock /\ Fresh)
  BY <1>1, <1>2, Invariance, PTL DEF Spec
<1>6. Spec => []IdleSessionsEnd
  BY <1>3, <1>5, PTL
<1>7. Spec => KeepsSession
  BY <1>4, <1>5, PTL DEF Spec, KeepsSession
<1> QED BY <1>6, <1>7 DEF SessionsLast

(***************************************************************************)
(* The limiters.  Of the operations of the last window, in R, those in the *)
(* limiter's window are as many as it has counted, up to the limit, and    *)
(* the others belong to the window before.                                 *)
(***************************************************************************)
Inside(l, R) == {r \in R : r.at >= l.start}
Before(l, R) == {r \in R : r.at < l.start}

CountedBy(l, R, max, n) ==
  /\ l.start <= n
  /\ \A r \in R : /\ r.at <= n /\ n - r.at < Window /\ r.at < l.start + Window
                  /\ r.at = n => r.nr <= Cardinality(R)
  /\ Cardinality(Inside(l, R)) <= max /\ Cardinality(Before(l, R)) <= max
  /\ InWindow(l, n) => Cardinality(Inside(l, R)) = IF l.count <= max THEN l.count ELSE max

Counted == \A k \in Kinds : CountedBy(limiter[k], recent[k], LimitOf[k], now)

Limiter   == [start : Nat, count : Nat]
Operation == [at : Nat, nr : Nat]

(* The two parts of the operations.                                        *)
LEMMA TwoParts ==
  ASSUME NEW l \in Limiter, NEW R \in SUBSET Operation, IsFiniteSet(R)
  PROVE  /\ IsFiniteSet(Inside(l, R)) /\ IsFiniteSet(Before(l, R))
         /\ Cardinality(Inside(l, R)) \in Nat /\ Cardinality(Before(l, R)) \in Nat
         /\ Cardinality(R) = Cardinality(Inside(l, R)) + Cardinality(Before(l, R))
<1>1. IsFiniteSet(Inside(l, R)) /\ IsFiniteSet(Before(l, R))
  BY FS_Subset DEF Inside, Before
<1>2. Cardinality(Inside(l, R)) \in Nat /\ Cardinality(Before(l, R)) \in Nat
  BY <1>1, FS_CardinalityType
<1>3. R = Inside(l, R) \cup Before(l, R) /\ Inside(l, R) \cap Before(l, R) = {}
  BY DEF Inside, Before, Limiter, Operation
<1>4. Cardinality(R) = Cardinality(Inside(l, R)) + Cardinality(Before(l, R)) - Cardinality({})
  BY <1>1, <1>3, FS_Union
<1> QED BY <1>1, <1>2, <1>4, FS_EmptySet

(* What the count says of the operations.                                  *)
LEMMA CountSays ==
  ASSUME NEW l \in Limiter, NEW R \in SUBSET Operation, IsFiniteSet(R),
         NEW max \in Nat \ {0}, NEW n \in Nat, CountedBy(l, R, max, n)
  PROVE  /\ ~Allows(l, max, n) => Cardinality(R) >= max
         /\ Cardinality(R) <= 2 * max
<1>1. PICK i \in Nat, b \in Nat :
        i = Cardinality(Inside(l, R)) /\ b = Cardinality(Before(l, R)) /\ Cardinality(R) = i + b
  BY TwoParts
<1>2. i <= max /\ b <= max
  BY <1>1 DEF CountedBy
<1>3. ASSUME ~Allows(l, max, n) PROVE i = max
  <2>1. InWindow(l, n) /\ ~(l.count < max) /\ l.count \in Nat
    BY <1>3 DEF Allows, Limiter
  <2>2. i = IF l.count <= max THEN l.count ELSE max
    BY <1>1, <2>1 DEF CountedBy
  <2> QED BY <2>1, <2>2
<1> QED BY <1>1, <1>2, <1>3

(* An operation that is allowed within the window is counted.              *)
LEMMA CountOne ==
  ASSUME NEW l \in Limiter, NEW R \in SUBSET Operation, IsFiniteSet(R),
         NEW max \in Nat \ {0}, NEW n \in Nat, CountedBy(l, R, max, n), Allows(l, max, n)
  PROVE  CountedBy(After(l, max, n), R \cup {[at |-> n, nr |-> Cardinality(R) + 1]}, max, n)
<1> DEFINE op == [at |-> n, nr |-> Cardinality(R) + 1]
           S == R \cup {op}
           a == After(l, max, n)
<1> SUFFICES CountedBy(a, S, max, n)
  OBVIOUS
<1>0. Cardinality(R) \in Nat
  BY FS_CardinalityType
<1>1. op \in Operation /\ op.at = n /\ op.nr = Cardinality(R) + 1
  BY <1>0 DEF Operation
<1> HIDE DEF op
<1>2. op \notin R
  BY <1>0, <1>1 DEF CountedBy
<1>3. Cardinality(S) = Cardinality(R) + 1
  BY <1>2, FS_AddElement
<1>4. Window \in Nat /\ 0 < Window
  BY WindowAssumption
<1>5. \A r \in S : r.at <= n /\ n - r.at < Window /\ (r.at = n => r.nr <= Cardinality(S))
  <2>1. ASSUME NEW r \in R
        PROVE  r.at <= n /\ n - r.at < Window /\ (r.at = n => r.nr <= Cardinality(S))
    <3>1. r.at <= n /\ n - r.at < Window /\ (r.at = n => r.nr <= Cardinality(R))
      BY DEF CountedBy
    <3>2. r.nr \in Nat
      BY DEF Operation
    <3> QED BY <1>0, <1>3, <3>1, <3>2
  <2>2. op.at <= n /\ n - op.at < Window /\ op.nr <= Cardinality(S)
    BY <1>0, <1>1, <1>3, <1>4
  <2> QED BY <2>1, <2>2
<1>6. PICK i \in Nat : i = Cardinality(Inside(l, R)) /\ i <= max /\ Cardinality(Before(l, R)) <= max
  BY TwoParts DEF CountedBy
<1>7. CASE InWindow(l, n)
  <2>1. l.count \in Nat /\ l.count < max /\ l.start \in Nat /\ l.start <= n /\ n < l.start + Window
    BY <1>7 DEF Allows, Limiter, InWindow, CountedBy
  <2>2. a = [l EXCEPT !.count = l.count + 1]
    BY <1>7, <2>1 DEF After
  <2>3. a.start = l.start /\ a.count = l.count + 1
    BY <2>2 DEF Limiter
  <2>4. i = l.count
    BY <1>6, <1>7, <2>1 DEF CountedBy
  <2>5. Inside(a, S) = Inside(l, R) \cup {op}
    BY <1>1, <2>1, <2>3 DEF Inside
  <2>6. Before(a, S) = Before(l, R)
    BY <1>1, <2>1, <2>3 DEF Before
  <2>7. op \notin Inside(l, R) /\ IsFiniteSet(Inside(l, R))
    BY <1>2, TwoParts DEF Inside
  <2>8. Cardinality(Inside(a, S)) = i + 1
    BY <1>6, <2>5, <2>7, FS_AddElement
  <2>9. \A r \in S : r.at < a.start + Window
    BY <1>1, <2>1, <2>3 DEF CountedBy
  <2>10. i + 1 <= max /\ (IF a.count <= max THEN a.count ELSE max) = i + 1 /\ a.start <= n
    BY <2>1, <2>3, <2>4
  <2> HIDE DEF a, S
  <2> QED BY <1>5, <1>6, <2>6, <2>8, <2>9, <2>10 DEF CountedBy
<1>8. CASE ~InWindow(l, n)
  <2>1. l.start \in Nat /\ l.start + Window <= n
    BY <1>4, <1>8 DEF InWindow, Limiter
  <2>2. a = [start |-> n, count |-> 1]
    BY <1>8 DEF After
  <2>3. a.start = n /\ a.count = 1
    BY <2>2
  <2>4. \A r \in R : r.at \in Nat /\ r.at < n /\ r.at >= l.start
    <3> TAKE r \in R
    <3>1. r.at \in Nat /\ r.at < l.start + Window /\ n - r.at < Window
      BY DEF CountedBy, Operation
    <3> QED BY <1>4, <2>1, <3>1
  <2>5. Inside(a, S) = {op}
    BY <1>1, <2>3, <2>4 DEF Inside
  <2>6. Before(a, S) = Inside(l, R)
    BY <1>1, <2>3, <2>4 DEF Before, Inside
  <2>7. Cardinality(Inside(a, S)) = 1
    BY <2>5, FS_Singleton
  <2>8. \A r \in S : r.at < a.start + Window
    <3> SUFFICES ASSUME NEW r \in S PROVE r.at < n + Window
      BY <2>3
    <3>1. r.at \in Nat /\ r.at <= n
      BY <1>1, <2>4
    <3> QED BY <1>4, <3>1
  <2>9. 1 <= max /\ (IF a.count <= max THEN a.count ELSE max) = 1 /\ a.start <= n
    BY <2>3
  <2> HIDE DEF a, S
  <2> QED BY <1>5, <1>6, <2>6, <2>7, <2>8, <2>9 DEF CountedBy
<1> QED BY <1>7, <1>8

(* A refused one changes nothing but the count above the limit.            *)
LEMMA CountRefused ==
  ASSUME NEW l \in Limiter, NEW R, NEW max \in Nat \ {0}, NEW n \in Nat,
         CountedBy(l, R, max, n), ~Allows(l, max, n)
  PROVE  CountedBy(After(l, max, n), R, max, n)
<1> DEFINE a == After(l, max, n)
<1>1. InWindow(l, n) /\ l.count \in Nat /\ l.count >= max
  BY DEF Allows, Limiter
<1>2. a = [l EXCEPT !.count = IF l.count <= max THEN l.count + 1 ELSE l.count]
  BY <1>1 DEF After
<1>3. a.start = l.start /\ a.count = IF l.count <= max THEN l.count + 1 ELSE l.count
  BY <1>2 DEF Limiter
<1>4. (IF a.count <= max THEN a.count ELSE max) = max /\ (IF l.count <= max THEN l.count ELSE max) = max
  BY <1>1, <1>3
<1> HIDE DEF a
<1>5. Inside(a, R) = Inside(l, R) /\ Before(a, R) = Before(l, R) /\ InWindow(a, n)
  BY <1>1, <1>3 DEF Inside, Before, InWindow
<1>6. CountedBy(a, R, max, n)
  BY <1>1, <1>3, <1>4, <1>5 DEF CountedBy
<1> QED BY <1>6 DEF a

(* As time passes operations leave the window before.                      *)
LEMMA CountTick ==
  ASSUME NEW l \in Limiter, NEW R \in SUBSET Operation, IsFiniteSet(R),
         NEW max \in Nat \ {0}, NEW n \in Nat, CountedBy(l, R, max, n)
  PROVE  CountedBy(l, {r \in R : (n + 1) - r.at < Window}, max, n + 1)
<1> DEFINE S == {r \in R : (n + 1) - r.at < Window}
<1>0. Window \in Nat /\ l.start \in Nat /\ l.start <= n
  BY WindowAssumption DEF Limiter, CountedBy
<1>1. \A r \in R : r.at \in Nat /\ r.at <= n /\ r.at < l.start + Window
  BY DEF CountedBy, Operation
<1>2. \A r \in S : r.at <= n + 1 /\ (n + 1) - r.at < Window /\ r.at < l.start + Window /\ r.at # n + 1
  BY <1>0, <1>1
<1>3. Inside(l, S) \subseteq Inside(l, R) /\ Before(l, S) \subseteq Before(l, R)
  BY DEF Inside, Before
<1>4. /\ Cardinality(Inside(l, S)) <= Cardinality(Inside(l, R))
      /\ Cardinality(Before(l, S)) <= Cardinality(Before(l, R))
      /\ Cardinality(Inside(l, S)) \in Nat /\ Cardinality(Before(l, S)) \in Nat
  BY <1>3, TwoParts, FS_Subset, FS_CardinalityType
<1>5. Cardinality(Inside(l, S)) <= max /\ Cardinality(Before(l, S)) <= max
  <2>1. /\ Cardinality(Inside(l, R)) <= max /\ Cardinality(Before(l, R)) <= max
        /\ Cardinality(Inside(l, R)) \in Nat /\ Cardinality(Before(l, R)) \in Nat
    BY TwoParts DEF CountedBy
  <2> QED BY <1>4, <2>1
<1>6. ASSUME InWindow(l, n + 1)
      PROVE  Cardinality(Inside(l, S)) = IF l.count <= max THEN l.count ELSE max
  <2>1. n + 1 < l.start + Window /\ InWindow(l, n)
    BY <1>0, <1>6 DEF InWindow
  <2>2. \A r \in R : r.at >= l.start => (n + 1) - r.at < Window
    BY <1>0, <1>1, <2>1
  <2>3. Inside(l, S) = Inside(l, R)
    BY <2>2 DEF Inside
  <2> QED BY <2>1, <2>3 DEF CountedBy
<1> HIDE DEF S
<1>7. l.start <= n + 1
  BY <1>0
<1>8. CountedBy(l, S, max, n + 1)
  BY <1>2, <1>5, <1>6, <1>7 DEF CountedBy
<1> QED BY <1>8 DEF S

(* At boot there is nothing to count.                                      *)
LEMMA CountedAtBoot ==
  ASSUME NEW max \in Nat \ {0}
  PROVE  CountedBy([start |-> 0, count |-> 0], {}, max, 0)
<1>1. Inside([start |-> 0, count |-> 0], {}) = {} /\ Before([start |-> 0, count |-> 0], {}) = {}
  BY DEF Inside, Before
<1>2. Cardinality({}) = 0
  BY FS_EmptySet
<1> QED BY <1>1, <1>2 DEF CountedBy

(* Counting for one kind leaves the other alone.                           *)
LEMMA CountStep ==
  ASSUME MaxTime < Wrap, IInv, Clock, Counted, NEW k \in Kinds, Count(k), now' = now
  PROVE  Counted'
<1>1. /\ limiter \in [Kinds -> Limiter] /\ recent \in [Kinds -> SUBSET Operation]
      /\ \A j \in Kinds : IsFiniteSet(recent[j])
  BY DEF IInv, TypeOK, Limiter, Operation
<1>2. LimitOf \in [Kinds -> Nat \ {0}] /\ now \in Nat /\ Secs = now
  BY AccessAssumption, TrueTime DEF Clock
<1>3. /\ limiter' = [limiter EXCEPT ![k] = After(limiter[k], LimitOf[k], now)]
      /\ recent' = IF Allows(limiter[k], LimitOf[k], now)
                   THEN [recent EXCEPT ![k] = recent[k] \cup
                           {[at |-> now, nr |-> Cardinality(recent[k]) + 1]}]
                   ELSE recent
  BY <1>2 DEF Count, Passes
<1> SUFFICES ASSUME NEW j \in Kinds
             PROVE  CountedBy(limiter'[j], recent'[j], LimitOf[j], now)
  BY DEF Counted
<1>4. CountedBy(limiter[j], recent[j], LimitOf[j], now)
  BY DEF Counted
<1>5. CASE j # k
  <2>1. limiter'[j] = limiter[j] /\ recent'[j] = recent[j]
    BY <1>1, <1>3, <1>5
  <2> QED BY <1>4, <2>1
<1>6. CASE j = k
  <2>1. limiter'[j] = After(limiter[j], LimitOf[j], now)
    BY <1>1, <1>3, <1>6
  <2>2. recent'[j] = IF Allows(limiter[j], LimitOf[j], now)
                     THEN recent[j] \cup {[at |-> now, nr |-> Cardinality(recent[j]) + 1]}
                     ELSE recent[j]
    BY <1>1, <1>3, <1>6
  <2>3. limiter[j] \in Limiter /\ recent[j] \in SUBSET Operation /\ IsFiniteSet(recent[j])
        /\ LimitOf[j] \in Nat \ {0}
    BY <1>1, <1>2
  <2> QED BY <1>2, <1>4, <2>1, <2>2, <2>3, CountOne, CountRefused
<1> QED BY <1>5, <1>6

(* Every step keeps the count.                                             *)
LEMMA CountedStep ==
  ASSUME MaxTime < Wrap, IInv, Clock, Counted, [Next]_vars
  PROVE  Counted'
<1>1. ASSUME NEW k \in Kinds, Count(k), now' = now PROVE Counted'
  BY <1>1, CountStep
<1>2. ASSUME NEW p \in Packets, Login(p) \/ LoginRefused(p) \/ Request(p) \/ RequestRefused(p)
      PROVE  Counted'
  <2>1. (Count("login") \/ Count("request")) /\ now' = now
    BY <1>2 DEF Login, LoginRefused, Request, RequestRefused
  <2> QED BY <1>1, <2>1 DEF Kinds
<1>3. ASSUME UNCHANGED <<now, limits>> PROVE Counted'
  BY <1>3 DEF Counted, limits
<1>4. CASE Tick
  <2>1. /\ limiter' = limiter /\ now' = now + 1
        /\ recent' = [k \in Kinds |-> {r \in recent[k] : now' - r.at < Window}]
    BY <1>4 DEF Tick
  <2> SUFFICES ASSUME NEW k \in Kinds
               PROVE  CountedBy(limiter'[k], recent'[k], LimitOf[k], now')
    BY DEF Counted
  <2>2. recent'[k] = {r \in recent[k] : (now + 1) - r.at < Window}
    <3>1. recent'[k] = {r \in recent[k] : now' - r.at < Window}
      BY <2>1, Zenon
    <3> QED BY <2>1, <3>1, Zenon
  <2>3. limiter[k] \in Limiter /\ recent[k] \in SUBSET Operation /\ IsFiniteSet(recent[k])
        /\ LimitOf[k] \in Nat \ {0} /\ now \in Nat
    BY AccessAssumption DEF IInv, TypeOK, Limiter, Operation, Clock
  <2>4. CountedBy(limiter[k], recent[k], LimitOf[k], now)
    BY DEF Counted
  <2> QED BY <2>1, <2>2, <2>3, <2>4, CountTick
<1>5. CASE Reboot
  <2>1. /\ \A k \in Kinds : limiter'[k] = [start |-> 0, count |-> 0] /\ recent'[k] = {}
        /\ now' = 0
    BY <1>5 DEF Reboot, NoLimits, NewLimiter, NoneYet
  <2>2. \A k \in Kinds : LimitOf[k] \in Nat \ {0}
    BY AccessAssumption
  <2>3. \A k \in Kinds : CountedBy([start |-> 0, count |-> 0], {}, LimitOf[k], 0)
    BY <2>2, CountedAtBoot
  <2> QED BY <2>1, <2>3, Zenon DEF Counted
<1> QED BY <1>2, <1>3, <1>4, <1>5
  DEF Next, Cleanup, SetAdminPassword, SetGuestPassword, ResetConfig, vars

(* The limiters refuse only at the limit and let at most twice as much     *)
(* through in the length of a window (RateLimiter::allow), for any limits, *)
(* windows and traffic, until millis() wraps.                              *)
THEOREM LimitsAlwaysHold == ASSUME MaxTime < Wrap PROVE Spec => []LimitsHold
<1>1. Init => Clock /\ Fresh /\ Counted
  <2>1. Init => Clock /\ Fresh
    BY AccessAssumption DEF Init, Clock, Fresh, Active, NoSession
  <2>2. ASSUME Init PROVE Counted
    <3>1. /\ \A k \in Kinds : limiter[k] = [start |-> 0, count |-> 0] /\ recent[k] = {}
          /\ now = 0
      BY <2>2 DEF Init, NoLimits, NewLimiter, NoneYet
    <3>2. \A k \in Kinds : LimitOf[k] \in Nat \ {0}
      BY AccessAssumption
    <3>3. \A k \in Kinds : CountedBy([start |-> 0, count |-> 0], {}, LimitOf[k], 0)
      BY <3>2, CountedAtBoot
    <3> QED BY <3>1, <3>3, Zenon DEF Counted
  <2> QED BY <2>1, <2>2
<1>2. IInv /\ Clock /\ Counted /\ [Next]_vars => (Clock /\ Counted)'
  BY ClockStep, CountedStep
<1>3. IInv /\ Clock /\ Counted => LimitsHold
  <2> SUFFICES ASSUME IInv, Clock, Counted, NEW k \in Kinds
               PROVE  /\ ~Passes(k) => AllowedLately(k) >= LimitOf[k]
                      /\ AllowedLately(k) <= 2 * LimitOf[k]
    BY DEF LimitsHold, RefusedOnlyWhenBusy, AtMostTwice
  <2>1. limiter[k] \in Limiter /\ recent[k] \in SUBSET Operation /\ IsFiniteSet(recent[k])
        /\ LimitOf[k] \in Nat \ {0} /\ now \in Nat /\ Secs = now
    BY AccessAssumption, TrueTime DEF IInv, TypeOK, Limiter, Operation, Clock
  <2>2. CountedBy(limiter[k], recent[k], LimitOf[k], now)
    BY DEF Counted
  <2> QED BY <2>1, <2>2, CountSays DEF Passes, AllowedLately
<1> QED BY <1>1, <1>2, <1>3, Invariance, PTL DEF Spec
=============================================================================
