----------------------------- MODULE MCPushSink -----------------------------
(***************************************************************************)
(* PushSink with three callers of Send (one of them with an expired        *)
(* context), two workers, two calls of Close, batches of two and a channel *)
(* that holds one batch.                                                   *)
(***************************************************************************)
EXTENDS PushSink

CONSTANTS n1, n2, n3, w1, w2, c1, c2

MCNotifs    == {n1, n2, n3}
MCExpired   == {n3}
MCWorkers   == {w1, w2}
MCClosers   == {c1, c2}
MCNone      == {}
MCBothRead  == {n1, n2}
MCOneWorker == {w1}
MCOneCloser == {c1}
MCTwoNotifs == {n1, n2}
=============================================================================
