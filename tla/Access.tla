------------------------------- MODULE Access -------------------------------
(***************************************************************************)
(* Who may do what on a node: the passwords, the sessions of SessionManager*)
(* (mesh/Crypto.h), the login and request handlers with the rate limiters  *)
(* in front of them, and the clean-up every minute (main.cpp).             *)
(*                                                                         *)
(* The mesh may deliver a packet late, out of order and several times, and *)
(* the handlers see every copy.  A packet is a record: the client that     *)
(* sent it, its timestamp (ts), its kind, and a password (pw), which in a  *)
(* "login" is the one offered and in a "cli" the administrator's new one,  *)
(* the command that matters here; a "status" stands for every request that *)
(* any client may make.  The cryptography is perfect: a session opens only *)
(* the packets of its own client.  An answer goes to the transmit queue in *)
(* the same step; the history done stands for it.                          *)
(***************************************************************************)
EXTENDS RateLimiter, Integers, Sequences, FiniteSets, FiniteSetsExt

CONSTANTS
  Clients,      \* public keys
  Packets,      \* the packets they send, each with a timestamp of its own
  Passwords,
  OwnerPasswords,                 \* those the owner may set at the serial line
  AdminPassword, GuestPassword,   \* the defaults
  None,         \* no password, no client, no session
  KeyByte,      \* pubKey[0] of each client
  Sessions,     \* MAX_CLIENT_SESSIONS
  LimitOf,      \* operations per window, for "login" and "request"
  Timeout,      \* idle time after which a session ends
  Period,       \* time between two clean-ups
  Wrap,         \* when millis() starts again from zero
  MaxTime       \* bound on the time since boot

Kinds   == {"login", "request"}
Roles   == {"guest", "admin"}
Session == [client : Clients, role : Roles, lastTimestamp : Nat, lastActivity : Nat]

ASSUME AccessAssumption ==
  /\ Packets \subseteq [client : Clients, ts : Nat \ {0},
                        kind : {"login", "cli", "status"}, pw : Passwords \cup {None}]
  /\ \A p, q \in Packets : p.client = q.client /\ p.ts = q.ts => p = q
  /\ None \notin Clients \cup Passwords \cup Roles \cup Session
  /\ {AdminPassword, GuestPassword} \cup OwnerPasswords \subseteq Passwords \cup {None}
  /\ KeyByte \in [Clients -> Nat]
  /\ Sessions \in Nat \ {0}
  /\ LimitOf \in [Kinds -> Nat \ {0}]
  /\ Timeout \in Nat /\ Period \in Nat /\ MaxTime \in Nat /\ Wrap \in Nat \ {0}

VARIABLES
  now,          \* time since boot, which the node sees modulo Wrap
  lastCleanup,
  slots,        \* sessionManager.sessions
  admin, guest, \* its passwords, also in the EEPROM
  reportDest,   \* reportDestPubKey, also in the EEPROM
  limiter,      \* loginLimiter and requestLimiter
  recent,       \* history: operations allowed in the time of the last window
  heard,        \* history: when a client with a session was last accepted
  granted,      \* history: what the password of its last login allowed
  done          \* history: its requests carried out in this session

settings == <<admin, guest, reportDest>>
limits   == <<limiter, recent>>
history  == <<heard, granted, done>>
vars     == <<now, lastCleanup, slots, settings, limits, history>>

Slots   == 1 .. Sessions

Secs     == now % Wrap
Since(t) == (Secs + Wrap - t) % Wrap

(* The slots in use, those of a client, and the clients that have one.     *)
Active(s)     == {i \in Slots : s[i] # None}
SlotsOf(s, c) == {i \in Active(s) : s[i].client = c}
Holders(s)    == {s[i].client : i \in Active(s)}

(* What remains of a history when only the sessions in s do.               *)
KeepFor(f, s, none) == [c \in Clients |-> IF c \in Holders(s) THEN f[c] ELSE none]

(***************************************************************************)
(* SessionManager::processLogin.                                           *)
(***************************************************************************)
Role(pw) ==
  CASE admin # None /\ pw = admin -> "admin"
    [] guest # None /\ pw = guest /\ pw # admin -> "guest"
    [] OTHER -> None

Free    == Slots \ Active(slots)
Oldest  == {i \in Slots : \A j \in Slots : slots[i].lastActivity <= slots[j].lastActivity}

(* Mutant: the search for the client's session ends at the first free slot.*)
SlotFor_FirstFree(c) ==
  IF Free # {} THEN Min(Free)
  ELSE IF SlotsOf(slots, c) # {} THEN Min(SlotsOf(slots, c))
  ELSE Min(Oldest)

(* The slot for a login: its own, or the first free one, or the oldest.    *)
SlotFor(c) ==
  IF SlotsOf(slots, c) # {} THEN Min(SlotsOf(slots, c))
  ELSE IF Free # {} THEN Min(Free)
  ELSE Min(Oldest)

(* Mutant: no test of the timestamp.                                       *)
Replayed_Never(p) == FALSE

Replayed(p) == \E i \in SlotsOf(slots, p.client) : p.ts <= slots[i].lastTimestamp

(* Mutant: a client that logs in again keeps its permissions.              *)
Opened_KeepsRole(p) ==
  [client |-> p.client, lastTimestamp |-> p.ts, lastActivity |-> Secs,
   role |-> IF SlotsOf(slots, p.client) = {} THEN Role(p.pw)
            ELSE slots[Min(SlotsOf(slots, p.client))].role]

Opened(p) ==
  [client |-> p.client, lastTimestamp |-> p.ts, lastActivity |-> Secs,
   role |-> Role(p.pw)]

(***************************************************************************)
(* The handlers.  Every packet first passes the limiter of its kind.       *)
(***************************************************************************)
Passes(k) == Allows(limiter[k], LimitOf[k], Secs)

Count(k) ==
  /\ limiter' = [limiter EXCEPT ![k] = After(@, LimitOf[k], Secs)]
  /\ recent' = IF Passes(k)
               THEN [recent EXCEPT ![k] = @ \cup {[at |-> now, nr |-> Cardinality(@) + 1]}]
               ELSE recent

(* Mutant: a wrong password is no obstacle.                                *)
LoginAccepted_Any(p) == Passes("login") /\ ~Replayed(p)

LoginAccepted(p) == Passes("login") /\ Role(p.pw) # None /\ ~Replayed(p)

(* processAnonRequest with an accepted login: an administrator becomes the *)
(* addressee of the daily report.                                          *)
Login(p) ==
  /\ p.kind = "login" /\ LoginAccepted(p)
  /\ Count("login")
  /\ slots' = [slots EXCEPT ![SlotFor(p.client)] = Opened(p)]
  /\ reportDest' = IF Role(p.pw) = "admin" THEN p.client ELSE reportDest
  /\ heard' = [KeepFor(heard, slots', 0) EXCEPT ![p.client] = now]
  /\ granted' = [KeepFor(granted, slots', None) EXCEPT ![p.client] = Role(p.pw)]
  /\ done' = KeepFor(done, slots', <<>>)
  /\ UNCHANGED <<now, lastCleanup, admin, guest>>

LoginRefused(p) ==
  /\ p.kind = "login" /\ ~LoginAccepted(p)
  /\ Count("login")
  /\ UNCHANGED <<now, lastCleanup, slots, settings, history>>

(* The handlers of requests look for the session by one byte of the key    *)
(* and take the first; another client's session does not open the packet.  *)
Matching(p) == {i \in Active(slots) : KeyByte[slots[i].client] = KeyByte[p.client]}

Authentic(p) ==
  /\ Matching(p) # {}
  /\ slots[Min(Matching(p))].client = p.client
  /\ p.ts > slots[Min(Matching(p))].lastTimestamp

Touched(s, p) == [s EXCEPT !.lastTimestamp = p.ts, !.lastActivity = Secs]

(* processAuthenticatedRequest and processTxtMsgCLI: a command of a guest  *)
(* is refused after its timestamp was taken.  processRemoteCommand sets    *)
(* the password.                                                           *)
MayDo(s, p) == p.kind = "cli" => s.role = "admin"

Request(p) ==
  /\ p.kind \in {"cli", "status"} /\ Passes("request") /\ Authentic(p)
  /\ Count("request")
  /\ LET i == Min(Matching(p)) IN
       /\ slots' = [slots EXCEPT ![i] = Touched(@, p)]
       /\ done' = IF MayDo(slots[i], p)
                  THEN [done EXCEPT ![p.client] = Append(@, p)] ELSE done
       /\ admin' = IF p.kind = "cli" /\ MayDo(slots[i], p) THEN p.pw ELSE admin
  /\ heard' = [heard EXCEPT ![p.client] = now]
  /\ UNCHANGED <<now, lastCleanup, guest, reportDest, granted>>

(* Mutant: the activity is noted before the tests.                         *)
RequestRefused_Touches(p) ==
  /\ p.kind \in {"cli", "status"} /\ ~(Passes("request") /\ Authentic(p))
  /\ Count("request")
  /\ slots' = [i \in Slots |-> IF i \in SlotsOf(slots, p.client)
                               THEN [slots[i] EXCEPT !.lastActivity = Secs] ELSE slots[i]]
  /\ UNCHANGED <<now, lastCleanup, settings, history>>

RequestRefused(p) ==
  /\ p.kind \in {"cli", "status"} /\ ~(Passes("request") /\ Authentic(p))
  /\ Count("request")
  /\ UNCHANGED <<now, lastCleanup, slots, settings, history>>

(***************************************************************************)
(* The owner at the serial line, the clock and the clean-up.               *)
(***************************************************************************)
SetAdminPassword(pw) ==
  /\ admin' = pw
  /\ UNCHANGED <<now, lastCleanup, slots, guest, reportDest, limits, history>>

SetGuestPassword(pw) ==
  /\ guest' = pw
  /\ UNCHANGED <<now, lastCleanup, slots, admin, reportDest, limits, history>>

ResetConfig ==
  /\ admin' = AdminPassword /\ guest' = GuestPassword /\ reportDest' = None
  /\ UNCHANGED <<now, lastCleanup, slots, limits, history>>

Overdue == Since(lastCleanup) > Period

(* A unit of time passes.  The loop comes round many times in a unit, so   *)
(* that a clean-up that is due is not put off.                             *)
Tick ==
  /\ now < MaxTime /\ ~Overdue
  /\ now' = now + 1
  /\ recent' = [k \in Kinds |-> {r \in recent[k] : now' - r.at < Window}]
  /\ UNCHANGED <<lastCleanup, slots, settings, limiter, history>>

Expired(s) == Since(s.lastActivity) > Timeout

Cleanup ==
  /\ Overdue
  /\ lastCleanup' = Secs
  /\ slots' = [i \in Slots |->
                 IF slots[i] # None /\ Expired(slots[i]) THEN None ELSE slots[i]]
  /\ heard' = KeepFor(heard, slots', 0)
  /\ granted' = KeepFor(granted, slots', None)
  /\ done' = KeepFor(done, slots', <<>>)
  /\ UNCHANGED <<now, settings, limits>>

NoLimits  == [k \in Kinds |-> NewLimiter]
NoneYet   == [k \in Kinds |-> {}]
NoSession == [i \in Slots |-> None]

(* A reboot keeps what saveConfig has written.                             *)
Reboot ==
  /\ now' = 0 /\ lastCleanup' = 0 /\ slots' = NoSession
  /\ limiter' = NoLimits /\ recent' = NoneYet
  /\ heard' = [c \in Clients |-> 0]
  /\ granted' = [c \in Clients |-> None]
  /\ done' = [c \in Clients |-> <<>>]
  /\ UNCHANGED settings

Init ==
  /\ now = 0 /\ lastCleanup = 0 /\ slots = NoSession
  /\ admin = AdminPassword /\ guest = GuestPassword /\ reportDest = None
  /\ limiter = NoLimits /\ recent = NoneYet
  /\ heard = [c \in Clients |-> 0]
  /\ granted = [c \in Clients |-> None]
  /\ done = [c \in Clients |-> <<>>]

Next ==
  \/ \E p \in Packets : Login(p) \/ LoginRefused(p) \/ Request(p) \/ RequestRefused(p)
  \/ \E pw \in OwnerPasswords : SetAdminPassword(pw) \/ SetGuestPassword(pw)
  \/ ResetConfig \/ Tick \/ Cleanup \/ Reboot

Spec == Init /\ [][Next]_vars
-----------------------------------------------------------------------------
TypeOK ==
  /\ now \in Nat /\ lastCleanup \in Nat
  /\ slots \in [Slots -> Session \cup {None}]
  /\ {admin, guest} \subseteq Passwords \cup {None}
  /\ reportDest \in Clients \cup {None}
  /\ limiter \in [Kinds -> [start : Nat, count : Nat]]
  /\ recent \in [Kinds -> SUBSET [at : Nat, nr : Nat]]
  /\ \A k \in Kinds : IsFiniteSet(recent[k])
  /\ heard \in [Clients -> Nat]
  /\ granted \in [Clients -> Roles \cup {None}]
  /\ done \in [Clients -> Seq(Packets)]

(* A client has at most one session, whatever slots came free in between.  *)
OneSession ==
  \A i, j \in Active(slots) : slots[i].client = slots[j].client => i = j

(* Copies of a packet that arrive late or again never repeat a request or  *)
(* carry it out after a later one, as long as the client's session lasts.  *)
OnceInOrder ==
  \A c \in Clients : \A i, j \in 1 .. Len(done[c]) :
    i < j => done[c][i].ts < done[c][j].ts

RanCommand(c) ==
  Len(done'[c]) > Len(done[c]) /\ done'[c][Len(done'[c])].kind = "cli"

(* A command is carried out only for a client whose last login showed the  *)
(* password that was the administrator's then.                             *)
CommandsNeedAdminLogin == [][\A c \in Clients : RanCommand(c) => granted[c] = "admin"]_vars

IdleFor(c) == now - heard[c]

(* A client loses its session in a reboot, after the time limit, or when   *)
(* every slot is taken and none of the others has been idle for longer.    *)
KeepsSession ==
  [][\A c \in Holders(slots) \ Holders(slots') :
       \/ Reboot
       \/ IdleFor(c) > Timeout
       \/ /\ Free = {}
          /\ \A d \in Holders(slots) : heard[c] <= heard[d]]_vars

(* A session that its client no longer uses is over one clean-up after the *)
(* time limit: what is refused does not keep it alive.                     *)
IdleSessionsEnd == \A c \in Holders(slots) : IdleFor(c) <= Timeout + Period + 1

(* A session lasts as long as its client uses it, and not longer: others   *)
(* cannot end it early, nor can what is refused prolong it.                *)
SessionsLast == []IdleSessionsEnd /\ KeepsSession

AllowedLately(k) == Cardinality(recent[k])

(* The limiter refuses only when the operations of the last window reached *)
(* the limit.                                                              *)
RefusedOnlyWhenBusy == \A k \in Kinds : ~Passes(k) => AllowedLately(k) >= LimitOf[k]

(* The windows follow each other instead of sliding, so that twice the     *)
(* limit may pass in the length of one, and no more.                       *)
AtMostTwice == \A k \in Kinds : AllowedLately(k) <= 2 * LimitOf[k]

(* The limiters refuse when they should and let no more through than that. *)
LimitsHold == RefusedOnlyWhenBusy /\ AtMostTwice
=============================================================================
