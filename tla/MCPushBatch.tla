---------------------------- MODULE MCPushBatch -----------------------------
(***************************************************************************)
(* PushBatch for a batch of three notifications: one for each verdict.     *)
(***************************************************************************)
EXTENDS PushBatch

CONSTANTS d1, d2, d3

MCDevices == {d1, d2, d3}
=============================================================================
