------------------------------ MODULE MCAccess ------------------------------
(***************************************************************************)
(* Three clients for Access, of which two share the first byte of the key, *)
(* and their packets.                                                      *)
(***************************************************************************)
EXTENDS Access, TLC

Packet(c, t, k, p) == [client |-> c, ts |-> t, kind |-> k, pw |-> p]

MCKeyByte == ("a" :> 1) @@ ("b" :> 1) @@ ("c" :> 2)
MCLimitOf == [login |-> 2, request |-> 1]

(* a logs in as administrator, then as guest, and gives a command; the     *)
(* others log in, and b asks for the status.                               *)
MCPackets ==
  {Packet("a", 1, "login", "p1"), Packet("a", 2, "login", "p2"),
   Packet("a", 3, "cli", "p2"),
   Packet("b", 1, "login", "p2"), Packet("b", 2, "status", None),
   Packet("c", 1, "login", "p1")}
=============================================================================
