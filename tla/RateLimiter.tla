---------------------------- MODULE RateLimiter ----------------------------
(***************************************************************************)
(* class RateLimiter of mesh/Repeater.h: a record of when the window began *)
(* (start) and the operations counted in it (count), and what allow() does *)
(* with it.  The count is a uint16_t that goes on with every refusal; here *)
(* it stops one above the limit, so that 65536 operations in one window    *)
(* are outside the model.  The totals for the statistics are left out.     *)
(***************************************************************************)
EXTENDS Naturals

CONSTANT Window    \* windowSecs, in units of the clock

ASSUME WindowAssumption == Window \in Nat \ {0}

NewLimiter == [start |-> 0, count |-> 0]

InWindow(l, secs) == secs < l.start + Window

(* allow(): the answer, and the limiter it leaves.                         *)
Allows(l, max, secs) == InWindow(l, secs) => l.count < max

(* Mutant: a refused operation prolongs the window.                        *)
After_Prolongs(l, max, secs) ==
  IF InWindow(l, secs)
  THEN [start |-> IF l.count < max THEN l.start ELSE secs,
        count |-> IF l.count <= max THEN l.count + 1 ELSE l.count]
  ELSE [start |-> secs, count |-> 1]

After(l, max, secs) ==
  IF InWindow(l, secs)
  THEN [l EXCEPT !.count = IF @ <= max THEN @ + 1 ELSE @]
  ELSE [start |-> secs, count |-> 1]
=============================================================================
