------------------------- MODULE MCMessageConsumer --------------------------
(***************************************************************************)
(* MessageConsumer with two partitions of three records; the first and the *)
(* last record of a partition have the same key.                           *)
(***************************************************************************)
EXTENDS MessageConsumer

MCPartitions      == {1, 2}
MCKey(p, o)       == o % 2
MCOnePerPartition == {2}
=============================================================================
