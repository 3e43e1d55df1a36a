----------------------------- MODULE MCListener -----------------------------
(***************************************************************************)
(* Listener closed by two goroutines.                                      *)
(***************************************************************************)
EXTENDS Listener

CONSTANTS c1, c2

MCClosers == {c1, c2}
=============================================================================
