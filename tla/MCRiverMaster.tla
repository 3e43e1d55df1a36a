--------------------------- MODULE MCRiverMaster ----------------------------
(***************************************************************************)
(* RiverMaster with two concurrent Push calls, one of them with a          *)
(* deadline, over a few masters.                                           *)
(***************************************************************************)
EXTENDS RiverMaster

CONSTANTS p1, p2

MCPushers   == {p1, p2}
MCDeadlined == {p2}
MCNone      == {}
=============================================================================
