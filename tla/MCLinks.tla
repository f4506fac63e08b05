------------------------------ MODULE MCLinks ------------------------------
(***************************************************************************)
(* Scenes for Links: repeaters next to the node, two of them with the same *)
(* first byte, with the commands about power; nodes further away, with the *)
(* alerts; clocks that are wrong by little and by much; quiet hours;       *)
(* discovery requests; permissions.                                        *)
(***************************************************************************)
EXTENDS Links

MCHashOf == [n \in {"a", "b", "c"} |-> IF n = "c" THEN 2 ELSE 1]

Weak == -44
Fair == 0
Good == 44
NoTime == -Epoch

Advert(n, hops, snr, repeater, skew) ==
  [kind |-> "advert", from |-> n, hops |-> hops, snr |-> snr,
   repeater |-> repeater, skew |-> skew]
Path(p) == [kind |-> "path", path |-> p]

Idle == [hears |-> {}, does |-> {}, powers |-> {}, prefixes |-> {},
         times |-> {}, quiet |-> {}, permissions |-> {}, until |-> 6]

NearScene ==
  [Idle EXCEPT
    !.hears    = {Advert(n, 0, snr, TRUE, NoTime) : n \in {"a", "b"}, snr \in {Weak, Good}}
                 \cup {Advert("c", 0, Fair, TRUE, NoTime)},
    !.does     = {"adaptive", "setup"},
    !.powers   = {6},
    !.prefixes = {{"a", "b"}}]

FarScene ==
  [Idle EXCEPT
    !.hears = {Advert("c", 1, Good, TRUE, 0), Path(<<1>>), Path(<<3>>), Path(<<3, 1>>)},
    !.does  = {"alert"}]

ClockScene ==
  [Idle EXCEPT
    !.hears = {Advert("a", 1, Good, FALSE, 0), Advert("b", 1, Good, FALSE, 4),
               Advert("b", 1, Good, FALSE, 5), Advert("b", 1, Good, FALSE, -8)},
    !.times = {Epoch + 8},
    !.until = 3]

QuietScene ==
  [Idle EXCEPT
    !.times = {Epoch, Epoch + 2},
    !.quiet = {[start |-> 1, end |-> 3], [start |-> 3, end |-> 1], [start |-> 2, end |-> 2]},
    !.does  = {"quiet off"}]

DiscoverScene == [Idle EXCEPT !.does = {"discover"}]
RightsScene   == [Idle EXCEPT !.permissions = {0, 3}, !.until = 3]

MCScenes == {NearScene, FarScene, ClockScene, QuietScene, DiscoverScene, RightsScene}
MCWeakLink == -40
MCLowSnr   == -20
=============================================================================
