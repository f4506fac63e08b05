----------------------------- MODULE Forwarding -----------------------------
(***************************************************************************)
(* What a repeater does with a received packet as far as relaying goes:    *)
(* the packet identifier (getPacketId), the ring of recent identifiers     *)
(* (PacketIdCache), the tests of shouldForward and the change of the path  *)
(* at the end of processReceivedPacket (src/main.cpp, core/globals.cpp).   *)
(* The module has no variables; Mesh applies it at every node.             *)
(*                                                                         *)
(* A packet is a record:                                                   *)
(*   route   "flood" or "direct"                                           *)
(*   type    the kind of payload                                           *)
(*   origin, seq   who built the payload, and its number for that node     *)
(*   dest    the hash in payload[0], or NoHash                             *)
(*   path    the hashes in the path field                                  *)
(*   via     history: the nodes that relayed this copy, and                *)
(*   start   history: its path when it was first sent                      *)
(***************************************************************************)
EXTENDS Naturals, Sequences, FiniteSets

CONSTANTS
  NoHash,      \* no destination
  CacheSize,   \* MC_PACKET_ID_CACHE
  MaxPath,     \* MC_MAX_PATH_SIZE
  IdPath       \* how many bytes of the path getPacketId looks at

ASSUME ForwardingAssumption ==
  /\ CacheSize \in Nat \ {0}
  /\ MaxPath \in Nat \ {0}
  /\ IdPath \in Nat

(* The first 16 bytes of the payload, which are all that getPacketId looks *)
(* at.  An ADVERT starts with 32 bytes of public key, a PONG with the two  *)
(* hashes, "PO" and the sender's name (here of 12 characters or more):     *)
(* neither tells one from the next.                                        *)
PayloadHead(p) ==
  <<p.origin, p.dest, IF p.type \in {"advert", "pong"} THEN 0 ELSE p.seq>>

(* getPacketId, taken to be free of collisions.                            *)
PacketId(p) ==
  <<p.route, p.type, PayloadHead(p),
    SubSeq(p.path, 1, IF Len(p.path) < IdPath THEN Len(p.path) ELSE IdPath)>>

(* PacketIdCache::addIfNew: the ring holds the last CacheSize identifiers. *)
IsCached(cache, id) == \E i \in 1 .. Len(cache) : cache[i] = id

CacheAdd(cache, id) ==
  IF IsCached(cache, id) THEN cache
  ELSE IF Len(cache) = CacheSize THEN Append(Tail(cache), id)
  ELSE Append(cache, id)

(* How often h occurs in a path.                                           *)
Occurrences(path, h) == Cardinality({i \in 1 .. Len(path) : path[i] = h})

(* The tests of shouldForward that come before the cache.                  *)
NextHop(h, p) == p.route = "direct" => p.path # <<>> /\ p.path[1] = h

AddressedTo(h, p) == p.type \in {"request", "response"} /\ p.dest = h

(* The tests that come after it, for a flood only.  Loop detection refuses *)
(* at limit occurrences; 0 is off.                                         *)
PathHasRoom(p) == p.route = "flood" => Len(p.path) < MaxPath - 1

(* Mutants: one occurrence more, or one less, is let through.              *)
NoLoop_OneLess(h, p, limit) ==
  p.route = "flood" /\ limit > 0 => Occurrences(p.path, h) + 1 < limit

NoLoop_OffByOne(h, p, limit) ==
  p.route = "flood" /\ limit > 0 => Occurrences(p.path, h) <= limit

NoLoop(h, p, limit) ==
  p.route = "flood" /\ limit > 0 => Occurrences(p.path, h) < limit

(* Mutant: the hop after this one is taken out of the route.               *)
Relayed_PeelsNext(n, h, p) ==
  [p EXCEPT !.path = IF p.route = "flood" THEN Append(p.path, h)
                     ELSE SubSeq(p.path, 1, Len(p.path) - 1),
            !.via = Append(p.via, n)]

(* The packet that node n with hash h queues: a flood grows by h, a direct *)
(* packet loses its first hop.                                             *)
Relayed(n, h, p) ==
  [p EXCEPT !.path = IF p.route = "flood" THEN Append(p.path, h) ELSE Tail(p.path),
            !.via = Append(p.via, n)]

(* shouldForward and the end of processReceivedPacket: the possible new    *)
(* caches and relayed packets (a set with at most one).  A packet may be   *)
(* refused before the cache (weak signal or region), and after it (rate    *)
(* limit or open circuit) when the set refusals says so.                   *)
Outcome(cache, relay) == [cache |-> cache, relay |-> relay]

ForwardOutcomes(n, h, p, cache, limit, refusals) ==
  IF ~NextHop(h, p) \/ AddressedTo(h, p) \/ IsCached(cache, PacketId(p))
  THEN {Outcome(cache, {})}
  ELSE (IF "early" \in refusals THEN {Outcome(cache, {})} ELSE {})
       \cup (IF "late" \in refusals \/ ~PathHasRoom(p) \/ ~NoLoop(h, p, limit)
             THEN {Outcome(CacheAdd(cache, PacketId(p)), {})} ELSE {})
       \cup (IF PathHasRoom(p) /\ NoLoop(h, p, limit)
             THEN {Outcome(CacheAdd(cache, PacketId(p)), {Relayed(n, h, p)})}
             ELSE {})
=============================================================================
