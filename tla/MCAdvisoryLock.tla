--------------------------- MODULE MCAdvisoryLock ---------------------------
(***************************************************************************)
(* Two runtimes. The pool of the first has two connections, so that a      *)
(* retried Lock can meet an older session of its own, and that of the      *)
(* second has one. The second mutex object is made in the first runtime,   *)
(* where it shares the entry of the registry with the first one, or in the *)
(* second runtime.                                                         *)
(***************************************************************************)
EXTENDS AdvisoryLock

CONSTANTS r1, r2, m1, m2, k1, k2, k3

MCRuntimes == {r1, r2}
MCMutexes == {m1, m2}
MCConns == {k1, k2, k3}
MCRuntimeOf == [c \in MCConns |-> IF c = k3 THEN r2 ELSE r1]
MCHomesOf == [m \in MCMutexes |-> IF m = m2 THEN MCRuntimes ELSE {r1}]
=============================================================================
