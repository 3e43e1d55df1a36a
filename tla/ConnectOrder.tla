---------------------------- MODULE ConnectOrder ----------------------------
(***************************************************************************)
(* riverqueue: the order in which switchMaster tries the configured        *)
(* masters, and what its callers expect of it.                             *)
(***************************************************************************)
EXTENDS Integers, Sequences

\* calculateConnectOrder for n masters, numbered from 0 as in the code: those
\* after the current one, those before it, and the current one last.
ConnectOrder(n, current) ==
    LET all == [i \in 1 .. n |-> i - 1] IN
    CASE n = 1 -> <<0>>
      [] n = 2 -> <<(current + 1) % 2, current>>
      [] OTHER -> SubSeq(all, current + 2, n) \o SubSeq(all, 1, current)
                    \o <<current>>

\* Every master is tried, exactly once, and with more than one of them the
\* current one is not the first but the last (database_test.go:120-137).
IsFailoverOrder(order, n, current) ==
    /\ Len(order) = n
    /\ {order[k] : k \in 1 .. n} = 0 .. n - 1
    /\ \A j, k \in 1 .. n : order[j] = order[k] => j = k
    /\ order[n] = current
=============================================================================
