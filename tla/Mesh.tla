-------------------------------- MODULE Mesh --------------------------------
(***************************************************************************)
(* Repeaters running this firmware, and the clients next to them, on one   *)
(* radio channel.  A repeater receives into one buffer, processes what it  *)
(* finds there (processReceivedPacket) and transmits from its queue; the   *)
(* steps of RadioLoop between the two are summarised by what they can do   *)
(* to a packet: send it, put it back at the end of the queue, or lose it.  *)
(*                                                                         *)
(* A scene is the first bytes of the repeaters' keys, the mode of loop     *)
(* detection, the same at every repeater, whether packets get lost or      *)
(* overtake each other, what ForwardOutcomes may refuse, and the sources:  *)
(* the packets that clients and repeaters create, each once.               *)
(* A source is a record with the packet, the repeaters that hear it first  *)
(* (at), and the repeater that creates it (by), or a client.               *)
(***************************************************************************)
EXTENDS Forwarding, TxQueue

CONSTANTS
  Nodes,       \* the repeaters
  Hears,       \* Hears[n]: the repeaters that receive what n sends
  Scenes,      \* records: hashOf (hashes may collide), loopLimit, lossy,
               \* refusals and sources; a client's name is its hash
  SnrBytes,    \* values that a PATH_TRACE hop appends to the path
  NoPacket     \* an empty radio buffer

Byte == 0 .. 255

PayloadTypes ==
  {"advert", "ping", "dping", "pong", "alert", "request", "response", "trace",
   "discover", "found"}

(* MCPacket; a client is named by a byte.                                  *)
Packet ==
  [route : {"flood", "direct"}, type : PayloadTypes, origin : Nodes \cup Byte, seq : Nat,
   dest : Byte \cup {NoHash}, path : Seq(Byte), via : Seq(Nodes), start : Seq(Byte)]

(* A packet as its creator sends it.                                       *)
IsNewPacket(p) ==
  p \in Packet /\ p.via = <<>> /\ p.start = p.path /\ Len(p.path) <= MaxPath

ASSUME MeshAssumption ==
  /\ Hears \in [Nodes -> SUBSET Nodes]
  /\ \A n \in Nodes : n \notin Hears[n]
  /\ SnrBytes \subseteq Byte
  /\ \A s \in Scenes :
       /\ s.hashOf \in [Nodes -> Byte]
       /\ s.loopLimit \in Nat
       /\ s.lossy \in BOOLEAN
       /\ s.refusals \subseteq {"early", "late"}
       /\ \A source \in s.sources : IsNewPacket(source.packet)

VARIABLES
  buffer,      \* buffer[n]: the packet in n's radio, or NoPacket
  cache,       \* packetCache of n
  txq,         \* txQueue of n
  session,     \* session[n]: client and timestamp of the requests n accepted
  scene,       \* the scene, which never changes
  created,     \* the sources used up
  processed    \* history: what payloads n processed

vars == <<buffer, cache, txq, session, scene, created, processed>>

Sources == UNION {s.sources : s \in Scenes}
HashOf  == scene.hashOf
Lossy   == scene.lossy

Payload(p) == <<p.type, p.origin, p.dest, p.seq>>

(***************************************************************************)
(* The channel.  A receiver whose buffer is full misses the packet; on a   *)
(* lossy channel so may any other.  Without loss a sender finds its        *)
(* neighbours' buffers empty.                                              *)
(***************************************************************************)
OnAir(p, receivers) ==
  IF Lossy
  THEN \E missed \in SUBSET receivers :
         buffer' = [n \in Nodes |->
                      IF n \in receivers \ missed /\ buffer[n] = NoPacket
                      THEN p ELSE buffer[n]]
  ELSE /\ \A n \in receivers : buffer[n] = NoPacket
       /\ buffer' = [n \in Nodes |-> IF n \in receivers THEN p ELSE buffer[n]]

(***************************************************************************)
(* Creating packets.                                                       *)
(***************************************************************************)
(* A client sends: the repeaters near it hear it.                          *)
ClientSends(s) ==
  /\ s \notin created
  /\ s.by \notin Nodes
  /\ created' = created \cup {s}
  /\ OnAir(s.packet, s.at)
  /\ UNCHANGED <<cache, txq, session, scene, processed>>

(* sendAdvert, sendPing, sendDirectedPing: the identifier goes into the    *)
(* node's own cache and the packet on the air, past the queue.             *)
SendDirectly(s) ==
  /\ s \notin created
  /\ s.by \in Nodes
  /\ s.packet.type # "alert"
  /\ created' = created \cup {s}
  /\ cache' = [cache EXCEPT ![s.by] = CacheAdd(@, PacketId(s.packet))]
  /\ OnAir(s.packet, Hears[s.by])
  /\ UNCHANGED <<txq, session, scene, processed>>

(* sendEncryptedToAdmin: the same, through the queue.                      *)
SendAlert(s) ==
  /\ s \notin created
  /\ s.by \in Nodes
  /\ s.packet.type = "alert"
  /\ created' = created \cup {s}
  /\ cache' = [cache EXCEPT ![s.by] = CacheAdd(@, PacketId(s.packet))]
  /\ txq' = [txq EXCEPT ![s.by] = QueueAdd(@, s.packet)]
  /\ UNCHANGED <<buffer, session, scene, processed>>

(***************************************************************************)
(* processReceivedPacket.                                                  *)
(***************************************************************************)
(* sendPong and the answers to a request: what n adds to its queue when p  *)
(* is for it.  A PONG's identifier is cached, a RESPONSE's is not.         *)
Answer(n, p, type) ==
  LET path == IF type = "pong" THEN <<HashOf[n]>> ELSE <<>>
  IN  [route |-> "flood", type |-> type, origin |-> n, seq |-> p.seq,
       dest |-> IF p.origin \in Nodes THEN HashOf[p.origin] ELSE p.origin,
       path |-> path, via |-> <<>>, start |-> path]

(* The replay test: a request is newer than those accepted before.         *)
IsNew(n, p) == \A s \in session[n] : s[1] = p.origin => s[2] < p.seq

(* The answers that p asks of n.  A request may be refused: it exceeds the *)
(* rate limit, or it is meant for another node with n's hash.              *)
Answers(n, p) ==
  IF p.dest # HashOf[n] THEN {}
  ELSE IF p.type = "dping" THEN {Answer(n, p, "pong")}
  ELSE IF p.type = "request" /\ IsNew(n, p) THEN {Answer(n, p, "response")}
  ELSE {}

(* Mutant: what looks like a discovery request is answered, unfiltered.    *)
AsksRepeaters_Unfiltered(p) == p.type \in {"discover", "found"}

(* A discovery response passes for a request by the half of its first byte *)
(* that is tested; what it has in the place of the filter does not ask for *)
(* repeaters.                                                              *)
AsksRepeaters(p) == p.type = "discover"

(* processDiscoverRequest: a response with the route and the path of the   *)
(* request, not cached.                                                    *)
Found(n, p) ==
  [route |-> p.route, type |-> "found", origin |-> n, seq |-> p.seq, dest |-> NoHash,
   path |-> p.path, via |-> <<>>, start |-> p.path]

(* Both kinds have a limit.                                                *)
MayRefuse(p) == p.type \in {"request", "discover"} /\ "late" \in scene.refusals

(* A PATH_TRACE gets the signal quality appended and is queued as it is.   *)
Traced(n, p, snr) ==
  [p EXCEPT !.path = Append(p.path, snr), !.via = Append(p.via, n)]

(* The rest: q and c are the queue and cache after the packet's handler,   *)
(* p the packet as the handler leaves it.                                  *)
Forward(n, p, q, c) ==
  \E o \in ForwardOutcomes(n, HashOf[n], p, c, scene.loopLimit, scene.refusals) :
    /\ cache' = [cache EXCEPT ![n] = o.cache]
    /\ IF o.relay = {}
       THEN txq' = [txq EXCEPT ![n] = q]
       ELSE \E r \in o.relay : txq' = [txq EXCEPT ![n] = QueueAdd(q, r)]

TakePacket(n) ==
  /\ buffer[n] # NoPacket
  /\ buffer' = [buffer EXCEPT ![n] = NoPacket]
  /\ processed' = [processed EXCEPT ![n] = @ \cup {Payload(buffer[n])}]
  /\ UNCHANGED <<scene, created>>

ReceiveOther(n) ==
  /\ TakePacket(n)
  /\ buffer[n].type # "trace"
  /\ (Answers(n, buffer[n]) = {} /\ ~AsksRepeaters(buffer[n])) \/ MayRefuse(buffer[n])
  /\ Forward(n, buffer[n], txq[n], cache[n])
  /\ UNCHANGED session

(* A directed ping is answered however often it comes.                     *)
ReceivePing(n) ==
  /\ TakePacket(n)
  /\ buffer[n].type = "dping"
  /\ \E a \in Answers(n, buffer[n]) :
       Forward(n, buffer[n], QueueAdd(txq[n], a), CacheAdd(cache[n], PacketId(a)))
  /\ UNCHANGED session

ReceiveRequest(n) ==
  /\ TakePacket(n)
  /\ buffer[n].type = "request"
  /\ \E a \in Answers(n, buffer[n]) :
       Forward(n, buffer[n], QueueAdd(txq[n], a), cache[n])
  /\ session' = [session EXCEPT ![n] = @ \cup {<<buffer[n].origin, buffer[n].seq>>}]

ReceiveDiscover(n) ==
  /\ TakePacket(n)
  /\ AsksRepeaters(buffer[n])
  /\ Forward(n, buffer[n], QueueAdd(txq[n], Found(n, buffer[n])), cache[n])
  /\ UNCHANGED session

ReceiveTrace(n) ==
  /\ TakePacket(n)
  /\ buffer[n].type = "trace"
  /\ IF Len(buffer[n].path) < MaxPath
     THEN \E snr \in SnrBytes :
            LET t == Traced(n, buffer[n], snr)
            IN  Forward(n, t, QueueAdd(txq[n], t), cache[n])
     ELSE Forward(n, buffer[n], txq[n], cache[n])
  /\ UNCHANGED session

(***************************************************************************)
(* The transmit side of the loop.  A packet the loop drops is one that     *)
(* every neighbour misses.                                                 *)
(***************************************************************************)
Transmit(n) ==
  /\ txq[n] # <<>>
  /\ txq' = [txq EXCEPT ![n] = QueueRest(@)]
  /\ OnAir(QueueFront(txq[n]), Hears[n])
  /\ UNCHANGED <<cache, session, scene, created, processed>>

PutBack(n) ==
  /\ Lossy
  /\ Len(txq[n]) > 1
  /\ txq' = [txq EXCEPT ![n] = QueueAdd(QueueRest(@), QueueFront(@))]
  /\ UNCHANGED <<buffer, cache, session, scene, created, processed>>

(***************************************************************************)
(* The specification.                                                      *)
(***************************************************************************)
Receive(n) ==
  \/ ReceiveOther(n) \/ ReceivePing(n) \/ ReceiveRequest(n)
  \/ ReceiveDiscover(n) \/ ReceiveTrace(n)

Next ==
  \/ \E s \in scene.sources : ClientSends(s) \/ SendDirectly(s) \/ SendAlert(s)
  \/ \E n \in Nodes : Receive(n) \/ Transmit(n) \/ PutBack(n)

Init ==
  /\ buffer = [n \in Nodes |-> NoPacket]
  /\ cache = [n \in Nodes |-> <<>>]
  /\ txq = [n \in Nodes |-> <<>>]
  /\ session = [n \in Nodes |-> {}]
  /\ created = {}
  /\ scene \in Scenes
  /\ processed = [n \in Nodes |-> {}]

Spec == Init /\ [][Next]_vars

(* Every repeater keeps processing and transmitting (RadioLoop shows that  *)
(* its loop does); whether anybody creates a packet is left open.          *)
Fairness == \A n \in Nodes : WF_vars(Receive(n)) /\ WF_vars(Transmit(n))

FairSpec == Spec /\ Fairness

(***************************************************************************)
(* Properties.                                                             *)
(***************************************************************************)
InBuffers == {buffer[n] : n \in Nodes} \ {NoPacket}
InFlight  == InBuffers \cup UNION {Queued(txq[n]) : n \in Nodes}

(* Sizes: the queue, the ring and the path field never outgrow their       *)
(* arrays, whatever handler adds to them last.                             *)
TypeOK ==
  /\ \A n \in Nodes :
       /\ Len(txq[n]) <= QueueSize
       /\ Len(cache[n]) <= CacheSize
       /\ \A i, j \in 1 .. Len(cache[n]) : cache[n][i] = cache[n][j] => i = j
  /\ \A p \in InFlight : Len(p.path) <= MaxPath
  /\ created \subseteq scene.sources

(* Loop detection bounds how often one node relays the same copy of a      *)
(* flood, even when its identifier has left the ring of recent ones and    *)
(* when several nodes share a hash (shouldForward).                        *)
RelaysBounded ==
  scene.loopLimit > 0 =>
    \A p \in InFlight : p.route = "flood" /\ p.type # "trace" =>
      \A n \in Nodes : Cardinality({i \in 1 .. Len(p.via) : p.via[i] = n})
                           <= scene.loopLimit

(* Nothing outgrows its bound: neither the arrays nor the relaying of one  *)
(* flood by one node.                                                      *)
Bounded == TypeOK /\ RelaysBounded

(* A direct packet takes exactly the hops its sender wrote into it: those  *)
(* behind it and those still in its path make up the route it started      *)
(* with (the next-hop test and the peeling of the path).                   *)
RouteFollowed ==
  \A p \in InFlight : p.route = "direct" /\ p.type # "trace" =>
    p.start = [i \in 1 .. Len(p.via) |-> HashOf[p.via[i]]] \o p.path

(* Without loss, traffic dies out: relaying, answering and tracing never   *)
(* keep each other going.                                                  *)
FloodsEnd == ~Lossy => <>[](InFlight = {})

(* Without loss, what a node floods is processed by every other repeater.  *)
Reached(s) == \A n \in Nodes \ {s.by} : Payload(s.packet) \in processed[n]

FloodsReach ==
  \A s \in Sources :
    s.packet.route = "flood" /\ s.packet.type # "advert" => (s \in created /\ ~Lossy ~> Reached(s))

(* Without loss, a request along a direct route is answered: the response  *)
(* gets back to a repeater that the client hears.                          *)
DirectAnswered ==
  \A s \in Sources :
    s.packet.route = "direct" /\ s.packet.type = "request" =>
      (s \in created /\ ~Lossy ~> \E n \in s.at, m \in Nodes :
          <<"response", m, s.packet.origin, s.packet.seq>> \in processed[n])

(* Without loss and refusals the mesh delivers: floods to every repeater,  *)
(* requests along a route to their node, and the responses back.           *)
TrafficArrives == FloodsReach /\ DirectAnswered

(* Every ADVERT a node floods is processed by every other repeater.        *)
AdvertsReach ==
  \A s \in Sources : s.packet.type = "advert" => (s \in created /\ ~Lossy ~> Reached(s))
=============================================================================
