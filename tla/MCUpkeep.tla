------------------------------ MODULE MCUpkeep ------------------------------
(***************************************************************************)
(* Scenes for Upkeep: an owner who changes settings, and one who changes   *)
(* the identity, while writes fail and the node reboots; packets that are  *)
(* counted; contacts, two of them with the same first byte; deadlines on   *)
(* both sides of a wrap of millis(); reports on two days.                  *)
(***************************************************************************)
EXTENDS Upkeep

Idle ==
  [does |-> {}, sets |-> {}, keys |-> {}, names |-> {}, degrees |-> {}, times |-> {},
   adverts |-> {}, texts |-> {}, freqs |-> {}, mods |-> {}, spans |-> {},
   counted |-> 0, failures |-> 0, boots |-> 0, until |-> 0]

Option(f, v) == [field |-> f, value |-> v]
Advert(k, n, hops, t) == [key |-> k, name |-> n, hops |-> hops, time |-> t]

OwnerScene ==
  [Idle EXCEPT !.does = {"report", "save"}, !.sets = {Option("rxboost", 1)},
               !.keys = {"k1"}, !.counted = 1, !.failures = 1, !.boots = 2]

AlertScene ==
  [Idle EXCEPT !.does = {"alert"}, !.adverts = {Advert("k1", "Rome", 0, 0)},
               !.texts = {"ro"}, !.boots = 1]

IdentityScene ==
  [Idle EXCEPT !.does = {"newid", "type"}, !.names = {"Rome", "Oslo north"}, !.degrees = {0, -180000000, 72000000},
               !.failures = 1, !.boots = 1]

CountingScene ==
  [Idle EXCEPT !.does = {"savestats"}, !.counted = 1, !.failures = 2,
               !.boots = 1, !.until = 6]

LosslessScene ==
  [Idle EXCEPT !.counted = 2, !.boots = 2, !.until = 7]

FirstBootScene ==
  [Idle EXCEPT !.adverts = {Advert("k1", "Rome", 0, 16), Advert("k1", "Rome", 0, 20)},
               !.times = {16, 20}, !.boots = 1, !.until = 3]

ContactScene ==
  [Idle EXCEPT !.does = {"newid"}, !.sets = {Option("maxhops", 1)}, !.times = {16},
               !.adverts = {Advert("k1", "Rome", 1, 0), Advert("k2", NoName, 2, 16),
                            Advert("k3", "Oslo", 0, 0), Advert("k4", NoName, 0, 0)},
               !.texts = {"ro", "os"}, !.until = 1]

DeadlineScene ==
  [Idle EXCEPT !.does = {"reboot", "save"}, !.sets = {Option("rxboost", 1)},
               !.freqs = {868}, !.mods = {"slow"}, !.spans = {0, 2, 3},
               !.boots = 1, !.until = 9]

ReportScene ==
  [Idle EXCEPT !.does = {"report", "reboot"}, !.keys = {"k1"}, !.counted = 1,
               !.sets = {Option("reportAt", 6)}, !.times = {16, 30}, !.until = 7]

TwoDaysScene ==
  [Idle EXCEPT !.does = {"report"}, !.keys = {"k1"}, !.counted = 1,
               !.times = {16}, !.until = 17]

NameScene ==
  [Idle EXCEPT !.adverts = {Advert("k1", "Rome", 0, 0), Advert("k3", "Oslo north", 0, 0)},
               !.texts = {"oslo n"}]

MCScenes ==
  {OwnerScene, AlertScene, IdentityScene, CountingScene, LosslessScene,
   FirstBootScene, ContactScene, DeadlineScene, ReportScene,
   TwoDaysScene}
MCNameScenes == {NameScene}

MCFields    == {"rxboost", "maxhops", "reportAt"}
MCDefaultOf == [f \in MCFields |-> IF f = "reportAt" THEN 3 ELSE 0]
MCBase      == [freq |-> 869, mod |-> "fast"]
MCKeyHash   == [k \in Keys |-> IF k \in {"k1", "k2"} THEN 1 ELSE IF k = "k3" THEN 3 ELSE 4]

MCDegrees == {0, -180000000, 72000000}

(* "node" stands for a name as the firmware makes it.                      *)
MCTextOf ==
  [n \in Names |->
     CASE n = "node" -> <<67, 67, 45, 65, 49, 66, 50, 67, 51>>
       [] n = "Rome" -> <<82, 111, 109, 101>>
       [] n = "Oslo" -> <<79, 115, 108, 111>>
       [] OTHER      -> <<79, 115, 108, 111, 32, 110, 111, 114, 116, 104>>]

MCNameHas ==
  [n \in Names |-> CASE n = "Rome"       -> {"ro"}
                     [] n = "Oslo"       -> {"os"}
                     [] n = "Oslo north" -> {"os", "oslo n"}
                     [] OTHER            -> {}]
MCNameLength ==
  [n \in Names \cup {"ro", "os", "oslo n"} |->
     CASE n \in {"ro", "os"} -> 2 [] n = "oslo n" -> 6 [] n = "Oslo north" -> 10
       [] OTHER -> 4]
=============================================================================
