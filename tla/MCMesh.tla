------------------------------- MODULE MCMesh -------------------------------
(***************************************************************************)
(* Small networks and traffic for Mesh.  Nodes are numbers, hashes are     *)
(* numbers too; clients are named by their hash.                           *)
(***************************************************************************)
EXTENDS Mesh, TLC

Line(k)     == [n \in 1 .. k |-> {n - 1, n + 1} \cap (1 .. k)]
Clique(k)   == [n \in 1 .. k |-> (1 .. k) \ {n}]
Distinct3   == [n \in 1 .. 3 |-> 10 + n]
Colliding3  == <<11, 12, 11>>

Line3   == Line(3)
Clique3 == Clique(3)

PacketFrom(origin, route, type, seq, dest, path) ==
  [route |-> route, type |-> type, origin |-> origin, seq |-> seq, dest |-> dest,
   path |-> path, via |-> <<>>, start |-> path]

Own(n, type, seq, dest, path) ==
  [by |-> n, at |-> {}, packet |-> PacketFrom(n, "flood", type, seq, dest, path)]

FromClient(c, at, route, type, seq, dest, path) ==
  [by |-> c, at |-> at, packet |-> PacketFrom(c, route, type, seq, dest, path)]

Advert(n, seq)   == Own(n, "advert", seq, NoHash, <<>>)
Ping(n, seq)     == Own(n, "ping", seq, NoHash, <<90 + n>>)
PingTo(n, h)     == Own(n, "dping", 1, h, <<10 + n>>)
Alert(n, c)      == Own(n, "alert", 1, c, <<>>)
Request(c, at, route, dest, path) == FromClient(c, at, route, "request", 1, dest, path)
Trace(c, at)     == FromClient(c, at, "flood", "trace", 1, NoHash, <<>>)
Discover(c, at)  == FromClient(c, at, "flood", "discover", 1, NoHash, <<>>)

Scene(sources, limit) ==
  [sources |-> sources, loopLimit |-> limit, hashOf |-> Distinct3, lossy |-> FALSE,
   refusals |-> {}]

LossyScene ==
  [sources |-> {Request(50, {1}, "direct", 13, <<11, 12>>), Request(51, {1}, "flood", 12, <<>>)},
   loopLimit |-> 2, hashOf |-> Colliding3, lossy |-> TRUE, refusals |-> {"early"}]

(* With loop detection off only the length of the path ends a flood; the   *)
(* answers to a discovery then push other packets out of a full queue.     *)
LosslessScenes ==
  {Scene({Trace(50, {1}), PingTo(1, 13)}, 0),
   Scene({Discover(50, {1})}, 1),
   Scene({Ping(1, 1), Alert(3, 50), Request(50, {1}, "direct", 13, <<11, 12>>)}, 1)}

MCScenes     == LosslessScenes \cup {LossyScene}
AdvertScenes == {Scene({Advert(1, 1), Advert(1, 2)}, 1)}
=============================================================================
