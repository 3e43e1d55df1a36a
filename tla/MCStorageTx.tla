---------------------------- MODULE MCStorageTx ----------------------------
(***************************************************************************)
(* StorageTx with two calls of any kind, three fallback masters and two    *)
(* replicas; a retry makes up to three attempts and two answers of a call  *)
(* may be lost.                                                            *)
(***************************************************************************)
EXTENDS StorageTx

CONSTANTS c1, c2

MCCalls == {c1, c2}
=============================================================================
