------------------------------- MODULE Eeprom -------------------------------
(***************************************************************************)
(* The EEPROM as the firmware uses it: the board's library keeps a copy in *)
(* RAM; get and put work on the copy, begin() at boot fills it from the    *)
(* flash, and commit() writes all of it or reports a failure.  So what a   *)
(* failed commit left behind is written by the next one that succeeds,     *)
(* whoever calls it.                                                       *)
(***************************************************************************)
CONSTANT Blank    \* a section without the magic number and version

Sections == {"config", "identity", "stats"}

Put(e, section, content) == [e EXCEPT !.buffer[section] = content]

(* begin().                                                                *)
Mounted(e) == [e EXCEPT !.buffer = e.flash]

(* A commit that succeeds.                                                 *)
Flushed(e) == [e EXCEPT !.flash = e.buffer]

Erased ==
  [buffer |-> [s \in Sections |-> Blank], flash |-> [s \in Sections |-> Blank]]
=============================================================================
