---------------------------- MODULE Mesh_proofs ----------------------------
(***************************************************************************)
(* Proofs about Mesh, for any number of repeaters, any topology, any       *)
(* hashes, also equal ones, and whatever is lost, delayed or refused: the  *)
(* arrays are never outgrown, loop detection bounds the relays of a flood, *)
(* and a direct packet keeps to its route.                                 *)
(***************************************************************************)
EXTENDS Mesh, TxQueue_proofs, FiniteSetTheorems, SequenceTheorems

(* A direct packet: the route it started with is what it has behind it,    *)
(* and what it has still in its path.                                      *)
OnRoute(start, via, path) ==
  /\ Len(start) = Len(via) + Len(path)
  /\ \A i \in 1 .. Len(via) : start[i] = HashOf[via[i]]
  /\ \A i \in 1 .. Len(path) : start[Len(via) + i] = path[i]

(* A flood: its path is what it started with, and who relayed it.          *)
Recorded(start, via, path) ==
  /\ Len(path) = Len(start) + Len(via)
  /\ \A i \in 1 .. Len(via) : path[Len(start) + i] = HashOf[via[i]]

RelaysOf(via, n) == {i \in 1 .. Len(via) : via[i] = n}

FewRelays(via) ==
  scene.loopLimit > 0 => \A n \in Nodes : Cardinality(RelaysOf(via, n)) <= scene.loopLimit

Good ==
  {p \in Packet :
     /\ Len(p.path) <= MaxPath
     /\ p.type # "trace" =>
          IF p.route = "direct" THEN OnRoute(p.start, p.via, p.path)
          ELSE Recorded(p.start, p.via, p.path) /\ FewRelays(p.via)}

(* What the ring of identifiers may hold.                                  *)
Ids == {PacketId(p) : p \in Packet}

IsRing(c) ==
  /\ c \in Seq(Ids) /\ Len(c) <= CacheSize
  /\ \A i, j \in 1 .. Len(c) : c[i] = c[j] => i = j

IsQueue(q) == q \in Seq(Good) /\ Len(q) <= QueueSize

MeshInv ==
  /\ scene \in Scenes
  /\ created \subseteq scene.sources
  /\ buffer \in [Nodes -> Good \cup {NoPacket}]
  /\ DOMAIN txq = Nodes /\ \A n \in Nodes : IsQueue(txq[n])
  /\ DOMAIN cache = Nodes /\ \A n \in Nodes : IsRing(cache[n])

-----------------------------------------------------------------------------
(* The values of a scene.                                                  *)
LEMMA SceneFacts ==
  ASSUME scene \in Scenes
  PROVE  /\ HashOf \in [Nodes -> Byte] /\ scene.loopLimit \in Nat
         /\ \A s \in scene.sources : IsNewPacket(s.packet)
BY MeshAssumption DEF HashOf

(* PacketIdCache::addIfNew keeps the ring a ring.                          *)
LEMMA CacheAddRing ==
  ASSUME NEW c, IsRing(c), NEW p \in Packet
  PROVE  IsRing(CacheAdd(c, PacketId(p)))
<1> DEFINE id == PacketId(p)
<1>1. c \in Seq(Ids) /\ Len(c) <= CacheSize /\ CacheSize \in Nat \ {0}
  BY ForwardingAssumption DEF IsRing
<1>2. id \in Ids
  BY DEF Ids
<1> HIDE DEF id
<1>3. CASE IsCached(c, id)
  BY <1>3 DEF CacheAdd, id
<1>4. CASE ~IsCached(c, id) /\ Len(c) = CacheSize
  <2> DEFINE r == Append(Tail(c), id)
  <2>1. CacheAdd(c, id) = r
    BY <1>4 DEF CacheAdd
  <2>2. r \in Seq(Ids) /\ Len(r) = Len(c)
    BY <1>1, <1>2, <1>4
  <2>3. r[Len(c)] = id /\ \A i \in 1 .. Len(c) - 1 : r[i] = c[i + 1]
    BY <1>1, <1>2, <1>4
  <2>4. \A i \in 1 .. Len(c) : c[i] # id
    BY <1>4 DEF IsCached
  <2> HIDE DEF r
  <2>5. \A i, j \in 1 .. Len(r) : r[i] = r[j] => i = j
    <3> SUFFICES ASSUME NEW i \in 1 .. Len(c), NEW j \in 1 .. Len(c), r[i] = r[j]
                 PROVE  i = j
      BY <2>2
    <3> QED BY <1>1, <2>3, <2>4 DEF IsRing
  <2> QED BY <1>1, <2>1, <2>2, <2>5 DEF IsRing, id
<1>5. CASE ~IsCached(c, id) /\ Len(c) # CacheSize
  <2> DEFINE r == Append(c, id)
  <2>1. CacheAdd(c, id) = r
    BY <1>5 DEF CacheAdd
  <2>2. r \in Seq(Ids) /\ Len(r) = Len(c) + 1 /\ Len(r) <= CacheSize
    BY <1>1, <1>2, <1>5
  <2>3. r[Len(c) + 1] = id /\ \A i \in 1 .. Len(c) : r[i] = c[i]
    BY <1>1, <1>2
  <2>4. \A i \in 1 .. Len(c) : c[i] # id
    BY <1>5 DEF IsCached
  <2> HIDE DEF r
  <2>5. \A i, j \in 1 .. Len(r) : r[i] = r[j] => i = j
    BY <1>1, <2>2, <2>3, <2>4 DEF IsRing
  <2> QED BY <2>1, <2>2, <2>5 DEF IsRing, id
<1> QED BY <1>3, <1>4, <1>5

(* A packet that nobody relayed is good.                                   *)
LEMMA NewIsGood ==
  ASSUME scene \in Scenes, NEW p, IsNewPacket(p) PROVE p \in Good
<1>1. /\ p \in Packet /\ p.via = <<>> /\ p.start = p.path /\ Len(p.path) <= MaxPath
      /\ Len(p.via) = 0 /\ Len(p.path) \in Nat
  BY DEF IsNewPacket, Packet
<1>2. OnRoute(p.start, p.via, p.path) /\ Recorded(p.start, p.via, p.path)
  BY <1>1 DEF OnRoute, Recorded
<1>3. FewRelays(p.via)
  <2>1. \A n : RelaysOf(p.via, n) = {}
    BY <1>1 DEF RelaysOf
  <2>2. \A n : Cardinality(RelaysOf(p.via, n)) = 0
    BY <2>1, FS_EmptySet
  <2> QED BY <2>2, SceneFacts DEF FewRelays
<1> QED BY <1>1, <1>2, <1>3 DEF Good

(* Indices of a sequence are finitely many.                                *)
LEMMA IndicesFinite ==
  ASSUME NEW k \in Nat, NEW S \in SUBSET (1 .. k)
  PROVE  IsFiniteSet(S) /\ Cardinality(S) \in Nat
<1>1. IsFiniteSet(1 .. k)
  BY FS_Interval
<1>2. IsFiniteSet(S)
  BY <1>1, FS_Subset
<1> QED BY <1>2, FS_CardinalityType

(* A node that relayed a flood is in its path as often.                    *)
LEMMA RelaysInPath ==
  ASSUME NEW start \in Seq(Byte), NEW via \in Seq(Nodes), NEW path \in Seq(Byte),
         Recorded(start, via, path), NEW n \in Nodes
  PROVE  Cardinality(RelaysOf(via, n)) <= Occurrences(path, HashOf[n])
<1> DEFINE S == RelaysOf(via, n)
           T == {i \in 1 .. Len(path) : path[i] = HashOf[n]}
           f == [i \in S |-> Len(start) + i]
<1>1. PICK a \in Nat, b \in Nat, c \in Nat : a = Len(start) /\ b = Len(via) /\ c = Len(path)
  OBVIOUS
<1>2. c = a + b /\ \A i \in 1 .. b : path[a + i] = HashOf[via[i]]
  BY <1>1 DEF Recorded
<1>3. S \in SUBSET (1 .. b) /\ T \in SUBSET (1 .. c)
  BY <1>1 DEF RelaysOf
<1>4. ASSUME NEW i \in S PROVE a + i \in T
  <2>1. i \in 1 .. b /\ via[i] = n
    BY <1>1 DEF RelaysOf
  <2>2. a + i \in 1 .. c /\ path[a + i] = HashOf[n]
    BY <1>2, <2>1
  <2> QED BY <1>1, <2>2
<1>5. f \in [S -> T]
  BY <1>1, <1>4
<1>6. \A i, j \in S : f[i] = f[j] => i = j
  BY <1>1, <1>3
<1>7. f \in Injection(S, T)
  BY <1>5, <1>6 DEF Injection, IsInjective
<1>8. IsFiniteSet(T)
  BY <1>3, IndicesFinite
<1> QED BY <1>7, <1>8, FS_Injection DEF Occurrences

(* The next hop takes itself off the front of the path of a direct packet. *)
LEMMA RouteShortens ==
  ASSUME NEW start \in Seq(Byte), NEW via \in Seq(Nodes), NEW path \in Seq(Byte),
         OnRoute(start, via, path), path # <<>>, NEW n \in Nodes, path[1] = HashOf[n]
  PROVE  OnRoute(start, Append(via, n), Tail(path))
<1>1. PICK a \in Nat, b \in Nat, c \in Nat \ {0} :
        a = Len(start) /\ b = Len(via) /\ c = Len(path)
  OBVIOUS
<1> DEFINE v == Append(via, n)
           r == Tail(path)
<1>2. /\ Len(v) = b + 1 /\ v[b + 1] = n /\ \A i \in 1 .. b : v[i] = via[i]
      /\ Len(r) = c - 1 /\ \A i \in 1 .. c - 1 : r[i] = path[i + 1]
  BY <1>1
<1>3. /\ a = b + c
      /\ \A i \in 1 .. b : start[i] = HashOf[via[i]]
      /\ \A i \in 1 .. c : start[b + i] = path[i]
  BY <1>1 DEF OnRoute
<1> HIDE DEF v, r
<1>4. a = (b + 1) + (c - 1)
  BY <1>3
<1>5. \A i \in 1 .. b + 1 : start[i] = HashOf[v[i]]
  <2>1. start[b + 1] = path[1]
    BY <1>3
  <2> QED BY <1>2, <1>3, <2>1
<1>6. \A i \in 1 .. c - 1 : start[(b + 1) + i] = r[i]
  <2> SUFFICES ASSUME NEW i \in 1 .. c - 1 PROVE start[(b + 1) + i] = r[i]
    OBVIOUS
  <2>1. i + 1 \in 1 .. c /\ b + (i + 1) = (b + 1) + i
    OBVIOUS
  <2> QED BY <1>2, <1>3, <2>1
<1>7. OnRoute(start, v, r)
  BY <1>1, <1>2, <1>4, <1>5, <1>6 DEF OnRoute
<1> QED BY <1>7 DEF v, r

(* A relay of a flood appends itself; it is not in the path too often.     *)
LEMMA FloodGrows ==
  ASSUME scene \in Scenes,
         NEW start \in Seq(Byte), NEW via \in Seq(Nodes), NEW path \in Seq(Byte),
         Recorded(start, via, path), FewRelays(via), NEW n \in Nodes,
         scene.loopLimit > 0 => Occurrences(path, HashOf[n]) < scene.loopLimit
  PROVE  /\ Recorded(start, Append(via, n), Append(path, HashOf[n]))
         /\ FewRelays(Append(via, n))
<1>1. PICK a \in Nat, b \in Nat, c \in Nat : a = Len(start) /\ b = Len(via) /\ c = Len(path)
  OBVIOUS
<1> DEFINE v == Append(via, n)
           r == Append(path, HashOf[n])
<1>2. HashOf[n] \in Byte /\ scene.loopLimit \in Nat
  BY SceneFacts
<1>3. /\ Len(v) = b + 1 /\ v[b + 1] = n /\ \A i \in 1 .. b : v[i] = via[i]
      /\ Len(r) = c + 1 /\ r[c + 1] = HashOf[n] /\ \A i \in 1 .. c : r[i] = path[i]
  BY <1>1, <1>2
<1>4. c = a + b /\ \A i \in 1 .. b : path[a + i] = HashOf[via[i]]
  BY <1>1 DEF Recorded
<1> HIDE DEF v, r
<1>5. Recorded(start, v, r)
  <2>1. c + 1 = a + (b + 1)
    BY <1>4
  <2>2. ASSUME NEW i \in 1 .. b + 1 PROVE r[a + i] = HashOf[v[i]]
    <3>1. CASE i = b + 1
      <4>1. a + i = c + 1
        BY <1>4, <3>1
      <4> QED BY <1>3, <3>1, <4>1
    <3>2. CASE i # b + 1
      <4>1. i \in 1 .. b /\ a + i \in 1 .. c
        BY <1>4, <3>2
      <4> QED BY <1>3, <1>4, <4>1
    <3> QED BY <3>1, <3>2
  <2> QED BY <1>1, <1>3, <2>1, <2>2 DEF Recorded
<1>6. FewRelays(v)
  <2> SUFFICES ASSUME scene.loopLimit > 0, NEW m \in Nodes
               PROVE  Cardinality(RelaysOf(v, m)) <= scene.loopLimit
    BY DEF FewRelays
  <2>1. RelaysOf(via, m) \in SUBSET (1 .. b)
    BY <1>1 DEF RelaysOf
  <2>2. IsFiniteSet(RelaysOf(via, m)) /\ Cardinality(RelaysOf(via, m)) \in Nat
    BY <2>1, IndicesFinite
  <2>3. Cardinality(RelaysOf(via, m)) <= scene.loopLimit
    BY DEF FewRelays
  <2>4. CASE m # n
    <3>1. RelaysOf(v, m) = RelaysOf(via, m)
      BY <1>1, <1>3, <2>4 DEF RelaysOf
    <3> QED BY <2>3, <3>1
  <2>5. CASE m = n
    <3>1. RelaysOf(v, m) = RelaysOf(via, m) \cup {b + 1} /\ b + 1 \notin RelaysOf(via, m)
      BY <1>1, <1>3, <2>5 DEF RelaysOf
    <3>2. Cardinality(RelaysOf(v, m)) = Cardinality(RelaysOf(via, m)) + 1
      BY <2>2, <3>1, FS_AddElement
    <3>3. {i \in 1 .. Len(path) : path[i] = HashOf[n]} \in SUBSET (1 .. c)
      BY <1>1
    <3>4. Occurrences(path, HashOf[n]) \in Nat
      BY <3>3, IndicesFinite DEF Occurrences
    <3>5. Cardinality(RelaysOf(via, m)) <= Occurrences(path, HashOf[n])
      BY <2>5, RelaysInPath
    <3> QED BY <1>2, <2>2, <3>2, <3>4, <3>5
  <2> QED BY <2>4, <2>5
<1> QED BY <1>5, <1>6 DEF v, r

(* What passes the tests of shouldForward is good once it is relayed.      *)
LEMMA RelayedIsGood ==
  ASSUME scene \in Scenes, NEW n \in Nodes, NEW p \in Good,
         NextHop(HashOf[n], p), PathHasRoom(p), NoLoop(HashOf[n], p, scene.loopLimit)
  PROVE  Relayed(n, HashOf[n], p) \in Good
<1> DEFINE h == HashOf[n]
           r == Relayed(n, h, p)
<1>1. p \in Packet /\ Len(p.path) <= MaxPath /\ h \in Byte /\ MaxPath \in Nat \ {0}
  BY SceneFacts, ForwardingAssumption DEF Good
<1>2. /\ p.path \in Seq(Byte) /\ p.via \in Seq(Nodes) /\ p.start \in Seq(Byte)
      /\ p.route \in {"flood", "direct"}
  BY <1>1 DEF Packet
<1>3. /\ r.path = IF p.route = "flood" THEN Append(p.path, h) ELSE Tail(p.path)
      /\ r.via = Append(p.via, n)
      /\ r.route = p.route /\ r.type = p.type /\ r.start = p.start
  BY <1>1 DEF Relayed, Packet
<1>4. p.route = "direct" => p.path # <<>> /\ p.path[1] = h
  BY DEF NextHop
<1>5. r.path \in Seq(Byte) /\ Len(r.path) <= MaxPath
  <2>1. CASE p.route = "flood"
    <3>1. r.path = Append(p.path, h) /\ Len(p.path) < MaxPath - 1
      BY <1>3, <2>1 DEF PathHasRoom
    <3> QED BY <1>1, <1>2, <3>1
  <2>2. CASE p.route = "direct"
    <3>1. r.path = Tail(p.path) /\ p.path # <<>>
      BY <1>3, <1>4, <2>2
    <3> QED BY <1>1, <1>2, <3>1
  <2> QED BY <1>2, <2>1, <2>2
<1>6. r.via \in Seq(Nodes)
  BY <1>2, <1>3
<1>7. r \in Packet
  <2> DEFINE pa == r.path
             vi == r.via
  <2>1. r = [p EXCEPT !.path = pa, !.via = vi]
    BY <1>3 DEF Relayed
  <2>2. pa \in Seq(Byte) /\ vi \in Seq(Nodes)
    BY <1>5, <1>6
  <2> HIDE DEF pa, vi, r
  <2> QED BY <1>1, <2>1, <2>2 DEF Packet
<1> HIDE DEF r, h
<1>8. ASSUME p.type # "trace", p.route = "direct"
      PROVE  OnRoute(r.start, r.via, r.path)
  <2>1. OnRoute(p.start, p.via, p.path) /\ p.path # <<>> /\ p.path[1] = h
    BY <1>4, <1>8 DEF Good
  <2>2. OnRoute(p.start, Append(p.via, n), Tail(p.path))
    BY <1>2, <2>1, RouteShortens DEF h
  <2> QED BY <1>3, <1>8, <2>2
<1>9. ASSUME p.type # "trace", p.route = "flood"
      PROVE  Recorded(r.start, r.via, r.path) /\ FewRelays(r.via)
  <2>1. Recorded(p.start, p.via, p.path) /\ FewRelays(p.via)
    BY <1>9 DEF Good
  <2>2. scene.loopLimit > 0 => Occurrences(p.path, h) < scene.loopLimit
    BY <1>9 DEF NoLoop, h
  <2>3. Recorded(p.start, Append(p.via, n), Append(p.path, h)) /\ FewRelays(Append(p.via, n))
    BY <1>2, <2>1, <2>2, FloodGrows DEF h
  <2> QED BY <1>3, <1>9, <2>3
<1>10. r \in Good
  BY <1>2, <1>3, <1>5, <1>7, <1>8, <1>9 DEF Good
<1> QED BY <1>10 DEF r, h

-----------------------------------------------------------------------------
(* What the handlers add to the queue is good.                             *)
LEMMA AnswerIsGood ==
  ASSUME scene \in Scenes, NEW n \in Nodes, NEW p \in Packet, NEW type \in {"pong", "response"}
  PROVE  Answer(n, p, type) \in Good
<1> DEFINE path == IF type = "pong" THEN <<HashOf[n]>> ELSE <<>>
           dest == IF p.origin \in Nodes THEN HashOf[p.origin] ELSE p.origin
           a == [route |-> "flood", type |-> type, origin |-> n, seq |-> p.seq, dest |-> dest,
                 path |-> path, via |-> <<>>, start |-> path]
<1>1. HashOf \in [Nodes -> Byte] /\ MaxPath \in Nat \ {0}
  BY SceneFacts, ForwardingAssumption
<1>2. p.origin \in Nodes \cup Byte /\ p.seq \in Nat
  BY DEF Packet
<1>3. dest \in Byte \cup {NoHash}
  BY <1>1, <1>2
<1>4. path \in Seq(Byte) /\ Len(path) <= MaxPath
  <2>1. CASE type = "pong"
    BY <1>1, <2>1
  <2>2. CASE type # "pong"
    BY <1>1, <2>2
  <2> QED BY <2>1, <2>2
<1>5. a = Answer(n, p, type)
  BY DEF Answer
<1> HIDE DEF path, dest
<1>6. <<>> \in Seq(Nodes) /\ type \in PayloadTypes
  BY DEF PayloadTypes
<1>7. a \in Packet
  BY <1>2, <1>3, <1>4, <1>6 DEF Packet
<1>8. IsNewPacket(a)
  BY <1>4, <1>7 DEF IsNewPacket
<1> QED BY <1>5, <1>8, NewIsGood

(* The answer to a discovery request is a new packet.                      *)
LEMMA FoundIsGood ==
  ASSUME scene \in Scenes, NEW n \in Nodes, NEW p \in Good
  PROVE  Found(n, p) \in Good
<1>1. p \in Packet /\ Len(p.path) <= MaxPath
  BY DEF Good
<1>2. p.route \in {"flood", "direct"} /\ p.path \in Seq(Byte) /\ p.seq \in Nat
  BY <1>1 DEF Packet
<1>3. <<>> \in Seq(Nodes) /\ "found" \in PayloadTypes
  BY DEF PayloadTypes
<1>4. Found(n, p) \in Packet
  BY <1>2, <1>3 DEF Found, Packet
<1>5. IsNewPacket(Found(n, p))
  BY <1>1, <1>4 DEF Found, IsNewPacket
<1> QED BY <1>5, NewIsGood

(* A trace that has gained a hop still fits.                               *)
LEMMA TracedIsGood ==
  ASSUME scene \in Scenes, NEW n \in Nodes, NEW p \in Good, p.type = "trace",
         Len(p.path) < MaxPath, NEW snr \in SnrBytes
  PROVE  Traced(n, p, snr) \in Good
<1>1. p \in Packet /\ snr \in Byte /\ MaxPath \in Nat
  BY MeshAssumption, ForwardingAssumption DEF Good
<1>2. p.path \in Seq(Byte) /\ p.via \in Seq(Nodes)
  BY <1>1 DEF Packet
<1> DEFINE path == Append(p.path, snr)
           via == Append(p.via, n)
<1>3. path \in Seq(Byte) /\ via \in Seq(Nodes) /\ Len(path) <= MaxPath
  BY <1>1, <1>2
<1>4. Traced(n, p, snr) = [p EXCEPT !.path = path, !.via = via]
  BY DEF Traced
<1> HIDE DEF path, via
<1>5. /\ Traced(n, p, snr) \in Packet
      /\ Traced(n, p, snr).path = path /\ Traced(n, p, snr).type = "trace"
  BY <1>1, <1>3, <1>4 DEF Packet
<1> QED BY <1>3, <1>5 DEF Good

(* The end of the handler: at most one packet more in the queue, and one   *)
(* identifier more in the ring.                                            *)
LEMMA ForwardKeeps ==
  ASSUME scene \in Scenes, DOMAIN txq = Nodes, DOMAIN cache = Nodes,
         \A m \in Nodes : IsQueue(txq[m]) /\ IsRing(cache[m]),
         NEW n \in Nodes, NEW p \in Good, NEW q, IsQueue(q), NEW c, IsRing(c),
         Forward(n, p, q, c)
  PROVE  /\ DOMAIN txq' = Nodes /\ \A m \in Nodes : IsQueue(txq'[m])
         /\ DOMAIN cache' = Nodes /\ \A m \in Nodes : IsRing(cache'[m])
<1> DEFINE h == HashOf[n]
           O == ForwardOutcomes(n, h, p, c, scene.loopLimit, scene.refusals)
<1>1. \A o \in O :
        /\ o.cache \in {c, CacheAdd(c, PacketId(p))}
        /\ o.relay = {} \/ /\ o.relay = {Relayed(n, h, p)} /\ NextHop(h, p)
                           /\ PathHasRoom(p) /\ NoLoop(h, p, scene.loopLimit)
  BY DEF ForwardOutcomes, Outcome
<1> HIDE DEF O
<1>2. PICK o \in O :
        /\ cache' = [cache EXCEPT ![n] = o.cache]
        /\ IF o.relay = {}
           THEN txq' = [txq EXCEPT ![n] = q]
           ELSE \E r \in o.relay : txq' = [txq EXCEPT ![n] = QueueAdd(q, r)]
  BY DEF Forward, O
<1>3. IsRing(o.cache)
  <2>1. p \in Packet
    BY DEF Good
  <2> QED BY <1>1, <1>2, <2>1, CacheAddRing
<1>4. \E x : IsQueue(x) /\ txq' = [txq EXCEPT ![n] = x]
  <2>1. CASE o.relay = {}
    BY <1>2, <2>1
  <2>2. CASE o.relay # {}
    <3>1. /\ txq' = [txq EXCEPT ![n] = QueueAdd(q, Relayed(n, h, p))]
          /\ NextHop(h, p) /\ PathHasRoom(p) /\ NoLoop(h, p, scene.loopLimit)
      BY <1>1, <1>2, <2>2
    <3>2. Relayed(n, h, p) \in Good
      BY <3>1, RelayedIsGood
    <3>3. IsQueue(QueueAdd(q, Relayed(n, h, p)))
      BY <3>2, QueueAddType DEF IsQueue
    <3> QED BY <3>1, <3>3
  <2> QED BY <2>1, <2>2
<1>5. PICK x : IsQueue(x) /\ txq' = [txq EXCEPT ![n] = x]
  BY <1>4
<1>6. DOMAIN cache' = Nodes /\ \A m \in Nodes : IsRing(cache'[m])
  BY <1>2, <1>3
<1>7. DOMAIN txq' = Nodes /\ \A m \in Nodes : IsQueue(txq'[m])
  BY <1>5
<1> QED BY <1>6, <1>7

(* On the air a packet gets into buffers as it is.                         *)
LEMMA OnAirKeeps ==
  ASSUME buffer \in [Nodes -> Good \cup {NoPacket}], NEW p \in Good, NEW receivers,
         OnAir(p, receivers)
  PROVE  buffer' \in [Nodes -> Good \cup {NoPacket}]
<1>1. CASE Lossy
  <2>1. PICK missed \in SUBSET receivers :
          buffer' = [n \in Nodes |-> IF n \in receivers \ missed /\ buffer[n] = NoPacket
                                     THEN p ELSE buffer[n]]
    BY <1>1 DEF OnAir
  <2> QED BY <2>1
<1>2. CASE ~Lossy
  BY <1>2 DEF OnAir
<1> QED BY <1>1, <1>2

(* What is good, a queue or a ring does not change while the scene stays.  *)
LEMMA SceneStays ==
  ASSUME scene' = scene
  PROVE  /\ Good' = Good
         /\ \A q : IsQueue(q)' <=> IsQueue(q)
BY DEF Good, IsQueue, OnRoute, Recorded, FewRelays, HashOf

(* A sender's packets are good.                                            *)
LEMMA SourceIsGood ==
  ASSUME scene \in Scenes, NEW s \in scene.sources PROVE s.packet \in Good
BY SceneFacts, NewIsGood

(* Each kind of step, with what is good before it.                         *)
Kept ==
  /\ buffer' \in [Nodes -> Good \cup {NoPacket}]
  /\ DOMAIN txq' = Nodes /\ \A n \in Nodes : IsQueue(txq'[n])
  /\ DOMAIN cache' = Nodes /\ \A n \in Nodes : IsRing(cache'[n])

(* What clients and nodes create keeps what is good.                       *)
LEMMA CreateKeeps ==
  ASSUME MeshInv, NEW s \in scene.sources, ClientSends(s) \/ SendDirectly(s) \/ SendAlert(s)
  PROVE  Kept
<1>1. scene \in Scenes /\ s.packet \in Good /\ s.packet \in Packet
  BY SourceIsGood DEF MeshInv, Good
<1>2. /\ buffer \in [Nodes -> Good \cup {NoPacket}]
      /\ DOMAIN txq = Nodes /\ \A n \in Nodes : IsQueue(txq[n])
      /\ DOMAIN cache = Nodes /\ \A n \in Nodes : IsRing(cache[n])
  BY DEF MeshInv
<1>3. CASE ClientSends(s)
  BY <1>1, <1>2, <1>3, OnAirKeeps DEF ClientSends, Kept
<1>4. \A n \in Nodes : IsRing(CacheAdd(cache[n], PacketId(s.packet)))
  BY <1>1, <1>2, CacheAddRing
<1>5. CASE SendDirectly(s)
  <2>1. buffer' \in [Nodes -> Good \cup {NoPacket}]
    BY <1>1, <1>2, <1>5, OnAirKeeps DEF SendDirectly
  <2>2. DOMAIN cache' = Nodes /\ \A n \in Nodes : IsRing(cache'[n])
    BY <1>2, <1>4, <1>5 DEF SendDirectly
  <2> QED BY <1>2, <1>5, <2>1, <2>2 DEF SendDirectly, Kept
<1>6. CASE SendAlert(s)
  <2>1. DOMAIN cache' = Nodes /\ \A n \in Nodes : IsRing(cache'[n])
    BY <1>2, <1>4, <1>6 DEF SendAlert
  <2>2. \A n \in Nodes : IsQueue(QueueAdd(txq[n], s.packet))
    BY <1>1, <1>2, QueueAddType DEF IsQueue
  <2>3. DOMAIN txq' = Nodes /\ \A n \in Nodes : IsQueue(txq'[n])
    BY <1>2, <1>6, <2>2 DEF SendAlert
  <2> QED BY <1>2, <1>6, <2>1, <2>3 DEF SendAlert, Kept
<1> QED BY <1>3, <1>5, <1>6

(* The packet handler keeps it.                                            *)
LEMMA ReceiveKeeps ==
  ASSUME MeshInv, NEW n \in Nodes, Receive(n)
  PROVE  Kept
<1> DEFINE p == buffer[n]
<1>1. scene \in Scenes
  BY DEF MeshInv
<1>2. /\ buffer \in [Nodes -> Good \cup {NoPacket}]
      /\ DOMAIN txq = Nodes /\ \A m \in Nodes : IsQueue(txq[m])
      /\ DOMAIN cache = Nodes /\ \A m \in Nodes : IsRing(cache[m])
  BY DEF MeshInv
<1>3. buffer[n] # NoPacket /\ buffer' = [buffer EXCEPT ![n] = NoPacket]
  BY DEF Receive, ReceiveOther, ReceivePing, ReceiveRequest, ReceiveDiscover, ReceiveTrace,
         TakePacket
<1>4. p \in Good /\ p \in Packet
  BY <1>2, <1>3 DEF Good
<1>5. buffer' \in [Nodes -> Good \cup {NoPacket}]
  BY <1>2, <1>3
<1> HIDE DEF p
<1>6. \E g \in Good : \E q, c : IsQueue(q) /\ IsRing(c) /\ Forward(n, g, q, c)
  <2>1. IsQueue(txq[n]) /\ IsRing(cache[n])
    BY <1>2
  <2>2. ASSUME NEW a \in Good PROVE IsQueue(QueueAdd(txq[n], a))
    BY <2>1, QueueAddType DEF IsQueue
  <2>3. CASE ReceiveOther(n)
    BY <1>4, <2>1, <2>3 DEF ReceiveOther, p
  <2>4. \A a \in Answers(n, p) : a \in Good /\ a \in Packet
    <3> SUFFICES ASSUME NEW a \in Answers(n, p) PROVE a \in Good /\ a \in Packet
      OBVIOUS
    <3>1. \E type \in {"pong", "response"} : a = Answer(n, p, type)
      BY DEF Answers
    <3>2. a \in Good
      BY <1>1, <1>4, <3>1, AnswerIsGood
    <3> QED BY <3>2 DEF Good
  <2>5. CASE ReceivePing(n)
    <3>1. PICK a \in Answers(n, p) :
            Forward(n, p, QueueAdd(txq[n], a), CacheAdd(cache[n], PacketId(a)))
      BY <2>5 DEF ReceivePing, p
    <3>2. a \in Good /\ a \in Packet
      BY <2>4
    <3> QED BY <1>4, <2>1, <2>2, <3>1, <3>2, CacheAddRing
  <2>6. CASE ReceiveRequest(n)
    <3>1. PICK a \in Answers(n, p) : Forward(n, p, QueueAdd(txq[n], a), cache[n])
      BY <2>6 DEF ReceiveRequest, p
    <3>2. a \in Good
      BY <2>4
    <3> QED BY <1>4, <2>1, <2>2, <3>1, <3>2
  <2>7. CASE ReceiveDiscover(n)
    <3>1. Forward(n, p, QueueAdd(txq[n], Found(n, p)), cache[n])
      BY <2>7 DEF ReceiveDiscover, p
    <3>2. Found(n, p) \in Good
      BY <1>1, <1>4, FoundIsGood
    <3> QED BY <1>4, <2>1, <2>2, <3>1, <3>2
  <2>8. CASE ReceiveTrace(n)
    <3>1. CASE Len(p.path) < MaxPath
      <4>1. PICK snr \in SnrBytes :
              Forward(n, Traced(n, p, snr), QueueAdd(txq[n], Traced(n, p, snr)), cache[n])
        BY <2>8, <3>1 DEF ReceiveTrace, p
      <4>2. Traced(n, p, snr) \in Good
        BY <1>1, <1>4, <2>8, <3>1, TracedIsGood DEF ReceiveTrace, p
      <4> QED BY <2>1, <2>2, <4>1, <4>2
    <3>2. CASE ~(Len(p.path) < MaxPath)
      BY <1>4, <2>1, <2>8, <3>2 DEF ReceiveTrace, p
    <3> QED BY <3>1, <3>2
  <2> QED BY <2>3, <2>5, <2>6, <2>7, <2>8 DEF Receive
<1>7. PICK g \in Good : \E q, c : IsQueue(q) /\ IsRing(c) /\ Forward(n, g, q, c)
  BY <1>6
<1>8. /\ DOMAIN txq' = Nodes /\ \A m \in Nodes : IsQueue(txq'[m])
      /\ DOMAIN cache' = Nodes /\ \A m \in Nodes : IsRing(cache'[m])
  BY <1>1, <1>2, <1>7, ForwardKeeps
<1> QED BY <1>5, <1>8 DEF Kept

(* Sending and putting back keep it.                                       *)
LEMMA SendKeeps ==
  ASSUME MeshInv, NEW n \in Nodes, Transmit(n) \/ PutBack(n)
  PROVE  Kept
<1>1. /\ buffer \in [Nodes -> Good \cup {NoPacket}]
      /\ DOMAIN txq = Nodes /\ \A m \in Nodes : IsQueue(txq[m])
      /\ DOMAIN cache = Nodes /\ \A m \in Nodes : IsRing(cache[m])
  BY DEF MeshInv
<1>2. txq[n] # <<>>
  BY <1>1 DEF Transmit, PutBack, IsQueue
<1>3. /\ QueueFront(txq[n]) \in Good
      /\ QueueRest(txq[n]) \in Seq(Good) /\ Len(QueueRest(txq[n])) < QueueSize
  BY <1>1, <1>2, QueuePopType DEF IsQueue
<1>4. Len(QueueRest(txq[n])) <= QueueSize
  BY <1>3, QueueSizeAssumption
<1>5. CASE Transmit(n)
  <2>1. buffer' \in [Nodes -> Good \cup {NoPacket}]
    BY <1>1, <1>3, <1>5, OnAirKeeps DEF Transmit
  <2>2. DOMAIN txq' = Nodes /\ \A m \in Nodes : IsQueue(txq'[m])
    BY <1>1, <1>3, <1>4, <1>5 DEF Transmit, IsQueue
  <2> QED BY <1>1, <1>5, <2>1, <2>2 DEF Transmit, Kept
<1>6. CASE PutBack(n)
  <2>1. IsQueue(QueueAdd(QueueRest(txq[n]), QueueFront(txq[n])))
    BY <1>3, <1>4, QueueAddType DEF IsQueue
  <2>2. DOMAIN txq' = Nodes /\ \A m \in Nodes : IsQueue(txq'[m])
    BY <1>1, <1>6, <2>1 DEF PutBack
  <2> QED BY <1>1, <1>6, <2>2 DEF PutBack, Kept
<1> QED BY <1>5, <1>6

(* Every step keeps the invariant.                                         *)
LEMMA MeshStep == MeshInv /\ [Next]_vars => MeshInv'
<1> SUFFICES ASSUME MeshInv, [Next]_vars PROVE MeshInv'
  OBVIOUS
<1>1. scene' = scene /\ created' \subseteq scene.sources
  <2>1. CASE UNCHANGED vars
    BY <2>1 DEF vars, MeshInv
  <2>2. ASSUME NEW s \in scene.sources, ClientSends(s) \/ SendDirectly(s) \/ SendAlert(s)
        PROVE  scene' = scene /\ created' \subseteq scene.sources
    BY <2>2 DEF ClientSends, SendDirectly, SendAlert, MeshInv
  <2>3. ASSUME NEW n \in Nodes, Receive(n) \/ Transmit(n) \/ PutBack(n)
        PROVE  scene' = scene /\ created' \subseteq scene.sources
    BY <2>3 DEF Receive, ReceiveOther, ReceivePing, ReceiveRequest, ReceiveDiscover,
                ReceiveTrace, TakePacket, Transmit, PutBack, MeshInv
  <2> QED BY <2>1, <2>2, <2>3 DEF Next
<1>2. Kept
  <2>1. CASE UNCHANGED vars
    BY <2>1 DEF vars, MeshInv, Kept
  <2>2. CASE Next
    BY <2>2, CreateKeeps, ReceiveKeeps, SendKeeps DEF Next
  <2> QED BY <2>1, <2>2
<1>3. Good' = Good /\ \A q : IsQueue(q)' <=> IsQueue(q)
  BY <1>1, SceneStays
<1> QED BY <1>1, <1>2, <1>3 DEF MeshInv, Kept

(* The invariant holds at first.                                           *)
LEMMA MeshStart == Init => MeshInv
<1> SUFFICES ASSUME Init PROVE MeshInv
  OBVIOUS
<1>1. IsQueue(<<>>) /\ IsRing(<<>>)
  BY QueueSizeAssumption, ForwardingAssumption DEF IsQueue, IsRing
<1> QED BY <1>1 DEF Init, MeshInv

(* And so it holds always.                                                 *)
LEMMA MeshInvariant == Spec => []MeshInv
BY MeshStart, MeshStep, PTL DEF Spec

-----------------------------------------------------------------------------
(* What is in flight is good.                                              *)
LEMMA InFlightGood == ASSUME MeshInv PROVE InFlight \subseteq Good
<1>1. InBuffers \subseteq Good
  BY DEF MeshInv, InBuffers
<1>2. ASSUME NEW n \in Nodes PROVE Queued(txq[n]) \subseteq Good
  BY <1>2 DEF MeshInv, IsQueue, Queued
<1> QED BY <1>1, <1>2 DEF InFlight

(* Queues, rings and paths never outgrow their arrays, and no flood goes   *)
(* through one node more often than its loop detection allows, in every    *)
(* net, also one with equal hashes, with any losses and refusals.          *)
THEOREM AlwaysBounded == Spec => []Bounded
<1> SUFFICES MeshInv => Bounded
  BY MeshInvariant, PTL
<1> SUFFICES ASSUME MeshInv PROVE Bounded
  OBVIOUS
<1>1. InFlight \subseteq Good
  BY InFlightGood
<1>2. TypeOK
  BY <1>1 DEF MeshInv, IsQueue, IsRing, Good, TypeOK
<1>3. RelaysBounded
  <2> SUFFICES ASSUME scene.loopLimit > 0, NEW p \in InFlight,
                      p.route = "flood", p.type # "trace", NEW n \in Nodes
               PROVE  Cardinality({i \in 1 .. Len(p.via) : p.via[i] = n}) <= scene.loopLimit
    BY DEF RelaysBounded
  <2>1. FewRelays(p.via)
    BY <1>1 DEF Good
  <2> QED BY <2>1 DEF FewRelays, RelaysOf
<1> QED BY <1>2, <1>3 DEF Bounded

(* A direct packet takes exactly the hops that its sender wrote into it.   *)
THEOREM RouteAlwaysFollowed == Spec => []RouteFollowed
<1> SUFFICES ASSUME MeshInv PROVE RouteFollowed
  BY MeshInvariant, PTL
<1> SUFFICES ASSUME NEW p \in InFlight, p.route = "direct", p.type # "trace"
             PROVE  p.start = [i \in 1 .. Len(p.via) |-> HashOf[p.via[i]]] \o p.path
  BY DEF RouteFollowed
<1> DEFINE behind == [i \in 1 .. Len(p.via) |-> HashOf[p.via[i]]]
<1>1. p \in Good
  BY InFlightGood
<1>2. OnRoute(p.start, p.via, p.path)
  BY <1>1 DEF Good
<1>3. p.start \in Seq(Byte) /\ p.via \in Seq(Nodes) /\ p.path \in Seq(Byte)
  BY <1>1 DEF Good, Packet
<1>4. HashOf \in [Nodes -> Byte]
  BY SceneFacts DEF MeshInv
<1>5. PICK a \in Nat, b \in Nat, c \in Nat :
        a = Len(p.start) /\ b = Len(p.via) /\ c = Len(p.path)
  BY <1>3
<1>6. behind \in Seq(Byte) /\ Len(behind) = b
  <2>1. \A i \in 1 .. b : p.via[i] \in Nodes
    BY <1>3, <1>5
  <2>2. behind \in [1 .. b -> Byte]
    BY <1>4, <1>5, <2>1
  <2> HIDE DEF behind
  <2>3. behind \in Seq(Byte)
    BY <2>2, SeqDef
  <2>4. DOMAIN behind = 1 .. b
    BY <2>2
  <2> QED BY <2>3, <2>4
<1>7. \A i \in 1 .. b : behind[i] = HashOf[p.via[i]]
  BY <1>5
<1> HIDE DEF behind
<1>8. /\ a = b + c
      /\ \A i \in 1 .. b : p.start[i] = behind[i]
      /\ \A i \in 1 .. c : p.start[b + i] = p.path[i]
  BY <1>2, <1>5, <1>7 DEF OnRoute
<1>9. /\ behind \o p.path \in Seq(Byte) /\ Len(behind \o p.path) = b + c
      /\ \A i \in 1 .. b + c :
           (behind \o p.path)[i] = IF i <= b THEN behind[i] ELSE p.path[i - b]
  <2>1. PICK q \in Seq(Byte) : q = p.path
    BY <1>3
  <2>2. PICK s \in Seq(Byte) : s = behind
    BY <1>6
  <2>3. Len(s) = b /\ Len(q) = c
    BY <1>5, <1>6, <2>1, <2>2
  <2>4. /\ s \o q \in Seq(Byte) /\ Len(s \o q) = Len(s) + Len(q)
        /\ \A i \in 1 .. Len(s) + Len(q) :
             (s \o q)[i] = IF i <= Len(s) THEN s[i] ELSE q[i - Len(s)]
    BY ConcatProperties
  <2> QED BY <2>1, <2>2, <2>3, <2>4
<1>10. ASSUME NEW i \in 1 .. a PROVE p.start[i] = (behind \o p.path)[i]
  <2>1. CASE i <= b
    BY <1>8, <1>9, <2>1
  <2>2. CASE ~(i <= b)
    <3>1. i - b \in 1 .. c /\ b + (i - b) = i
      BY <1>8, <2>2
    <3>2. p.start[b + (i - b)] = p.path[i - b]
      BY <1>8, <3>1
    <3> QED BY <1>8, <1>9, <2>2, <3>1, <3>2
  <2> QED BY <2>1, <2>2
<1>11. p.start = behind \o p.path
  <2>1. PICK s \in Seq(Byte), t \in Seq(Byte) : s = p.start /\ t = behind \o p.path
    BY <1>3, <1>9
  <2>2. Len(s) = Len(t) /\ \A i \in 1 .. Len(s) : s[i] = t[i]
    BY <1>5, <1>8, <1>9, <1>10, <2>1
  <2>3. s = t
    BY <2>2, SeqEqual
  <2> QED BY <2>1, <2>3
<1> QED BY <1>11 DEF behind
=============================================================================
