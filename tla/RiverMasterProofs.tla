-------------------------- MODULE RiverMasterProofs --------------------------
(***************************************************************************)
(* Proofs about RiverMaster, for any number of concurrent Push calls, any  *)
(* number of masters and any bounds: no pool leaks, CurrentIndex belongs   *)
(* to the active pool, and the current master is always tried last.        *)
(***************************************************************************)
EXTENDS RiverMaster, SequenceTheorems, TLAPS

\* The order is the masters after the current one, round to the current one: the
\* k-th master tried is the current one plus k, modulo their number.
LEMMA ConnectOrderElements ==
    ASSUME NEW n \in Nat \ {0}, NEW current \in 0 .. n - 1
    PROVE  /\ Len(ConnectOrder(n, current)) = n
           /\ \A k \in 1 .. n :
                ConnectOrder(n, current)[k] =
                    IF k < n - current THEN current + k ELSE current + k - n
<1>1. CASE n = 1
  BY <1>1 DEF ConnectOrder
<1>2. CASE n = 2
  <2>1. current = 0 \/ current = 1
    BY <1>2
  <2>2. (0 + 1) % 2 = 1 /\ (1 + 1) % 2 = 0
    OBVIOUS
  <2>. QED  BY <1>2, <2>1, <2>2 DEF ConnectOrder
<1>3. CASE n > 2
  <2>. DEFINE all    == [i \in 1 .. n |-> i - 1]
              after  == SubSeq(all, current + 2, n)
              before == SubSeq(all, 1, current)
  <2>1. all \in Seq(Nat) /\ Len(all) = n
    OBVIOUS
  <2>2. /\ after \in Seq(Nat) /\ Len(after) = n - current - 1
        /\ \A k \in 1 .. n - current - 1 : after[k] = current + k
    BY <2>1
  <2>3. /\ before \in Seq(Nat) /\ Len(before) = current
        /\ \A k \in 1 .. current : before[k] = k - 1
    BY <2>1
  <2>. HIDE DEF all, after, before
  <2>4. /\ after \o before \in Seq(Nat) /\ Len(after \o before) = n - 1
        /\ \A k \in 1 .. n - 1 :
             (after \o before)[k] =
                 IF k < n - current THEN current + k ELSE current + k - n
    BY <1>3, <2>2, <2>3
  <2>5. ConnectOrder(n, current) = after \o before \o <<current>>
    <3>1. n # 1 /\ n # 2
      BY <1>3
    <3>. QED  BY <3>1, Zenon DEF ConnectOrder, all, after, before
  <2>. QED  BY <1>3, <2>4, <2>5
<1>. QED  BY <1>1, <1>2, <1>3

\* Every master is tried, exactly once, and the current one last, however many
\* masters are configured and whichever is current (database.go:239-257).
THEOREM ConnectOrderCorrect ==
    ASSUME NEW n \in Nat \ {0}, NEW current \in 0 .. n - 1
    PROVE  IsFailoverOrder(ConnectOrder(n, current), n, current)
<1>. DEFINE order == ConnectOrder(n, current)
<1>1. /\ Len(order) = n
      /\ \A k \in 1 .. n :
           order[k] = IF k < n - current THEN current + k ELSE current + k - n
  BY ConnectOrderElements
<1>. HIDE DEF order
<1>2. {order[k] : k \in 1 .. n} = 0 .. n - 1
  <2>1. \A k \in 1 .. n : order[k] \in 0 .. n - 1
    BY <1>1
  <2>2. \A m \in 0 .. n - 1 : \E k \in 1 .. n : order[k] = m
    <3>. TAKE m \in 0 .. n - 1
    <3>1. CASE m > current
      <4>1. m - current \in 1 .. n /\ order[m - current] = m
        BY <1>1, <3>1
      <4>. QED  BY <4>1
    <3>2. CASE m <= current
      <4>1. m - current + n \in 1 .. n /\ order[m - current + n] = m
        BY <1>1, <3>2
      <4>. QED  BY <4>1
    <3>. QED  BY <3>1, <3>2
  <2>. QED  BY <2>1, <2>2
<1>3. \A j, k \in 1 .. n : order[j] = order[k] => j = k
  BY <1>1
<1>4. order[n] = current
  BY <1>1
<1>. QED  BY <1>1, <1>2, <1>3, <1>4 DEF IsFailoverOrder, order

-----------------------------------------------------------------------------

\* SwitchMu: one Push at a time is in trySwitchMaster, and `trying` is its own.
Exclusive ==
    \A p \in Pushers :
        /\ pc[p] \in {"switching", "connecting", "migrating", "reinit", "starting"} =>
             switchMu = p
        /\ pc[p] = "connecting" => trying > 0

IInv == TypeOK /\ Exclusive /\ OnlyActiveOpen /\ IndexOfActive

-----------------------------------------------------------------------------

\* What a switch connects to is one of the masters.
LEMMA TriedIsMaster ==
    ASSUME TypeOK, NEW k \in 1 .. NumMasters
    PROVE  ConnectOrder(NumMasters, index)[k] \in Masters
<1>1. NumMasters \in Nat \ {0}
  BY RiverAssumption
<1>2. index \in 0 .. NumMasters - 1
  BY DEF TypeOK, Masters
<1>3. ConnectOrder(NumMasters, index)[k] =
        IF k < NumMasters - index THEN index + k ELSE index + k - NumMasters
  BY <1>1, <1>2, ConnectOrderElements
<1>. QED  BY <1>1, <1>2, <1>3 DEF Masters

\* Closing the active pool changes nothing but that it is no longer open.
LEMMA ClosedActive ==
    ASSUME IInv
    PROVE  /\ CloseActive \in Seq([master : Masters, open : BOOLEAN])
           /\ Len(CloseActive) = Len(pools)
           /\ \A k \in 1 .. Len(pools) : ~CloseActive[k].open
<1>. USE DEF IInv, TypeOK, OnlyActiveOpen, CloseActive
<1>1. CASE active = 0
  BY <1>1
<1>2. CASE active # 0
  <2>1. active \in 1 .. Len(pools)
    BY <1>2
  <2>. DEFINE closedPool == [pools[active] EXCEPT !.open = FALSE]
  <2>2. closedPool \in [master : Masters, open : BOOLEAN] /\ ~closedPool.open
    <3>1. pools \in Seq([master : Masters, open : BOOLEAN])
      OBVIOUS
    <3>. HIDE DEF IInv, CloseActive
    <3>2. pools[active] \in [master : Masters, open : BOOLEAN]
      BY <2>1, <3>1, ElementOfSeq
    <3>. QED  BY <3>2
  <2>3. CloseActive = [pools EXCEPT ![active] = closedPool]
    BY <1>2
  <2>. HIDE DEF closedPool, CloseActive
  <2>4. /\ CloseActive \in Seq([master : Masters, open : BOOLEAN])
        /\ Len(CloseActive) = Len(pools)
        /\ \A k \in 1 .. Len(pools) :
             CloseActive[k] = IF k = active THEN closedPool ELSE pools[k]
    BY <2>1, <2>2, <2>3, ExceptSeq
  <2>. QED  BY <2>1, <2>2, <2>4
<1>. QED  BY <1>1, <1>2

\* A switch opens one pool, of the master it makes current, and closes all others.
LEMMA SwitchOpensOne ==
    ASSUME IInv, NEW p \in Pushers, Switch(p)
    PROVE  /\ pools' \in Seq([master : Masters, open : BOOLEAN])
           /\ Len(pools') = Len(pools) + 1 /\ Len(pools) \in Nat
           /\ active' = Len(pools')
           /\ \A k \in 1 .. Len(pools') : pools'[k].open => k = active'
           /\ index' \in Masters
           /\ pools'[active'].master = index'
<1>. DEFINE new == [master |-> Candidate, open |-> TRUE]
<1>1. /\ pools' = Append(CloseActive, new)
      /\ index' = Candidate /\ active' = Len(pools) + 1
  BY DEF Switch, SwitchTo
<1>2. Candidate \in Masters
  <2>1. trying \in 1 .. NumMasters
    BY RiverAssumption DEF Switch, SwitchTo, Answers, IInv, TypeOK, Exclusive
  <2>. QED  BY <2>1, TriedIsMaster DEF IInv, Candidate
<1>3. new \in [master : Masters, open : BOOLEAN] /\ new.master = index'
  BY <1>1, <1>2
<1>4. pools \in Seq([master : Masters, open : BOOLEAN])
  BY DEF IInv, TypeOK
<1>. HIDE DEF new
<1>. QED  BY <1>1, <1>2, <1>3, <1>4, ClosedActive

\* A Push goes from place to place.
LEMMA GoKeepsType ==
    ASSUME pc \in [Pushers -> Places], NEW p, NEW place \in Places, Go(p, place)
    PROVE  pc' \in [Pushers -> Places]
  BY DEF Go

\* A step keeps the types.
LEMMA TypePreserved ==
    IInv /\ [Next]_vars => TypeOK'
<1>. SUFFICES ASSUME IInv, [Next]_vars
             PROVE  TypeOK'
  OBVIOUS
<1>. USE RiverAssumption DEF envVars, dbVars, pushVars, Unlock, Forget
<1>1. ASSUME NEW p \in Pushers, Call(p) PROVE TypeOK'
  BY <1>1, GoKeepsType DEF Call, IInv, TypeOK, Places, Results
<1>2. ASSUME NEW p \in Pushers, Loop(p) PROVE TypeOK'
  BY <1>2, GoKeepsType DEF Loop, IInv, TypeOK, Places, Results
<1>3. ASSUME NEW p \in Pushers, Insert(p) PROVE TypeOK'
  <2>1. \E place \in {"ok", "error", "waiting"} : Go(p, place)
    BY <1>3, Zenon DEF Insert
  <2>2. pc' \in [Pushers -> Places]
    BY GoKeepsType, <2>1 DEF IInv, TypeOK, Places, Results
  <2>3. /\ seen' = seen \/ seen' = [seen EXCEPT ![p] = active]
        /\ loaded' = [loaded EXCEPT ![p] = 0]
    BY <1>3, Zenon DEF Insert
  <2>4. seen' \in [Pushers -> 0 .. Len(pools)] /\ loaded' \in [Pushers -> 0 .. Len(pools)]
    <3>1. /\ seen \in [Pushers -> 0 .. Len(pools)] /\ loaded \in [Pushers -> 0 .. Len(pools)]
          /\ active \in 0 .. Len(pools) /\ 0 \in 0 .. Len(pools)
      BY DEF IInv, TypeOK
    <3>. QED  BY <2>3, <3>1
  <2>5. UNCHANGED <<trying, up, flaps, ctxDone, pools, active, index, river, switchMu,
                    client, snapshot>>
    BY <1>3 DEF Insert
  <2>. QED  BY <2>2, <2>4, <2>5 DEF IInv, TypeOK
<1>4. ASSUME NEW p \in Pushers, Wait(p) PROVE TypeOK'
  BY <1>4, GoKeepsType DEF Wait, IInv, TypeOK, Places, Results
<1>5. ASSUME NEW p \in Pushers, Check(p) PROVE TypeOK'
  BY <1>5, GoKeepsType DEF Check, IInv, TypeOK, Places, Results
<1>6. ASSUME NEW p \in Pushers, Lock(p) PROVE TypeOK'
  BY <1>6, GoKeepsType DEF Lock, IInv, TypeOK, Places, Results
<1>7. ASSUME NEW p \in Pushers, AlreadySwitched(p) PROVE TypeOK'
  BY <1>7, GoKeepsType DEF AlreadySwitched, IInv, TypeOK, Places, Results
<1>8. ASSUME NEW p \in Pushers, MustSwitch(p) PROVE TypeOK'
  BY <1>8, GoKeepsType DEF MustSwitch, IInv, TypeOK, Places, Results
<1>9. ASSUME NEW p \in Pushers, TryNext(p) PROVE TypeOK'
  BY <1>9, GoKeepsType DEF TryNext, IInv, TypeOK, Places, Results
<1>10. ASSUME NEW p \in Pushers, SwitchFails(p) PROVE TypeOK'
  BY <1>10, GoKeepsType DEF SwitchFails, IInv, TypeOK, Places, Results
<1>11. ASSUME NEW p \in Pushers, Switch(p) PROVE TypeOK'
  <2>1. /\ pools' \in Seq([master : Masters, open : BOOLEAN])
        /\ Len(pools') = Len(pools) + 1 /\ Len(pools) \in Nat
        /\ active' = Len(pools') /\ index' \in Masters
    BY <1>11, SwitchOpensOne
  <2>2. \/ switchMu' = Nobody /\ Go(p, "loop")
        \/ switchMu' = switchMu /\ Go(p, "migrating")
    BY <1>11, Zenon DEF Switch, SwitchTo
  <2>3. pc' \in [Pushers -> Places]
    BY GoKeepsType, <2>2 DEF IInv, TypeOK, Places
  <2>4. trying' = 0 /\ UNCHANGED <<up, flaps, ctxDone, river, client, loaded, snapshot, seen>>
    BY <1>11 DEF Switch, SwitchTo
  <2>5. switchMu' \in Pushers \cup {Nobody} /\ Len(pools) < MaxPools
    BY <1>11, <2>2 DEF Switch, SwitchTo, IInv, TypeOK
  <2>6. /\ river' \in [pool : 1 .. Len(pools'), run : {"created", "running", "stopped"}]
        /\ loaded' \in [Pushers -> 0 .. Len(pools')]
        /\ snapshot' \in [Pushers -> 0 .. Len(pools')]
        /\ seen' \in [Pushers -> 0 .. Len(pools')]
    BY <2>1, <2>4 DEF IInv, TypeOK
  <2>. QED  BY <2>1, <2>3, <2>4, <2>5, <2>6 DEF IInv, TypeOK
<1>12. ASSUME NEW p \in Pushers, Migrate(p) PROVE TypeOK'
  BY <1>12, GoKeepsType DEF Migrate, IInv, TypeOK, Places, Results
<1>13. ASSUME NEW p \in Pushers, Reinit(p) PROVE TypeOK'
  BY <1>13, GoKeepsType DEF Reinit, IInv, TypeOK, Places, Results
<1>14. ASSUME NEW p \in Pushers, Restart(p) PROVE TypeOK'
  BY <1>14, GoKeepsType DEF Restart, IInv, TypeOK, Places, Results
<1>15. ASSUME NEW p \in Pushers, ContextDone(p) PROVE TypeOK'
  BY <1>15, GoKeepsType DEF ContextDone, IInv, TypeOK, Places, Results
<1>16. ASSUME StartClient PROVE TypeOK'
  BY <1>16, GoKeepsType DEF StartClient, IInv, TypeOK, Places, Results
<1>17. ASSUME CloseStop PROVE TypeOK'
  BY <1>17, GoKeepsType DEF CloseStop, IInv, TypeOK, Places, Results
<1>18. ASSUME CloseDB PROVE TypeOK'
  <2>1. /\ pools' \in Seq([master : Masters, open : BOOLEAN])
        /\ Len(pools') = Len(pools) /\ Len(pools) \in Nat
    BY <1>18, ClosedActive DEF CloseDB, IInv, TypeOK
  <2>. QED  BY <1>18, <2>1 DEF CloseDB, IInv, TypeOK
<1>19. ASSUME NEW m \in Masters, Flap(m) PROVE TypeOK'
  BY <1>19 DEF Flap, IInv, TypeOK, Places, Results
<1>20. CASE UNCHANGED vars
  BY <1>20 DEF vars, IInv, TypeOK, Places, Results
<1>. QED
  BY <1>1, <1>2, <1>3, <1>4, <1>5, <1>6, <1>7, <1>8, <1>9, <1>10, <1>11, <1>12, <1>13,
     <1>14, <1>15, <1>16, <1>17, <1>18, <1>19, <1>20
     DEF Next, Step, Switching

\* A step lets one Push at a time into trySwitchMaster.
LEMMA ExclusivePreserved ==
    IInv /\ [Next]_vars => Exclusive'
<1>. SUFFICES ASSUME IInv, [Next]_vars
             PROVE  Exclusive'
  OBVIOUS
<1>. USE RiverAssumption DEF envVars, dbVars, pushVars, Unlock, Forget
<1>1. ASSUME NEW p \in Pushers, Call(p) PROVE Exclusive'
  BY <1>1 DEF Call, IInv, TypeOK, Exclusive, Go
<1>2. ASSUME NEW p \in Pushers, Loop(p) PROVE Exclusive'
  BY <1>2 DEF Loop, IInv, TypeOK, Exclusive, Go
<1>3. ASSUME NEW p \in Pushers, Insert(p) PROVE Exclusive'
  BY <1>3 DEF Insert, IInv, TypeOK, Exclusive, Go
<1>4. ASSUME NEW p \in Pushers, Wait(p) PROVE Exclusive'
  BY <1>4 DEF Wait, IInv, TypeOK, Exclusive, Go
<1>5. ASSUME NEW p \in Pushers, Check(p) PROVE Exclusive'
  BY <1>5 DEF Check, IInv, TypeOK, Exclusive, Go
<1>6. ASSUME NEW p \in Pushers, Lock(p) PROVE Exclusive'
  BY <1>6 DEF Lock, IInv, TypeOK, Exclusive, Go
<1>7. ASSUME NEW p \in Pushers, AlreadySwitched(p) PROVE Exclusive'
  BY <1>7 DEF AlreadySwitched, IInv, TypeOK, Exclusive, Go
<1>8. ASSUME NEW p \in Pushers, MustSwitch(p) PROVE Exclusive'
  BY <1>8 DEF MustSwitch, IInv, TypeOK, Exclusive, Go
<1>9. ASSUME NEW p \in Pushers, TryNext(p) PROVE Exclusive'
  BY <1>9 DEF TryNext, IInv, TypeOK, Exclusive, Go
<1>10. ASSUME NEW p \in Pushers, SwitchFails(p) PROVE Exclusive'
  BY <1>10 DEF SwitchFails, IInv, TypeOK, Exclusive, Go
<1>11. ASSUME NEW p \in Pushers, Switch(p) PROVE Exclusive'
  BY <1>11 DEF Switch, SwitchTo, IInv, TypeOK, Exclusive, Go
<1>12. ASSUME NEW p \in Pushers, Migrate(p) PROVE Exclusive'
  BY <1>12 DEF Migrate, IInv, TypeOK, Exclusive, Go
<1>13. ASSUME NEW p \in Pushers, Reinit(p) PROVE Exclusive'
  BY <1>13 DEF Reinit, IInv, TypeOK, Exclusive, Go
<1>14. ASSUME NEW p \in Pushers, Restart(p) PROVE Exclusive'
  BY <1>14 DEF Restart, IInv, TypeOK, Exclusive, Go
<1>15. ASSUME NEW p \in Pushers, ContextDone(p) PROVE Exclusive'
  BY <1>15 DEF ContextDone, IInv, TypeOK, Exclusive, Go
<1>16. ASSUME StartClient PROVE Exclusive'
  BY <1>16 DEF StartClient, IInv, TypeOK, Exclusive, Go
<1>17. ASSUME CloseStop PROVE Exclusive'
  BY <1>17 DEF CloseStop, IInv, TypeOK, Exclusive, Go
<1>18. ASSUME CloseDB PROVE Exclusive'
  BY <1>18 DEF CloseDB, IInv, TypeOK, Exclusive, Go
<1>19. ASSUME NEW m \in Masters, Flap(m) PROVE Exclusive'
  BY <1>19 DEF Flap, IInv, TypeOK, Exclusive, Go
<1>20. CASE UNCHANGED vars
  BY <1>20 DEF vars, IInv, TypeOK, Exclusive, Go
<1>. QED
  BY <1>1, <1>2, <1>3, <1>4, <1>5, <1>6, <1>7, <1>8, <1>9, <1>10, <1>11, <1>12, <1>13,
     <1>14, <1>15, <1>16, <1>17, <1>18, <1>19, <1>20
     DEF Next, Step, Switching

\* A step keeps one pool open, and the index on its master.
LEMMA PoolsPreserved ==
    IInv /\ [Next]_vars => (OnlyActiveOpen /\ IndexOfActive)'
<1>. SUFFICES ASSUME IInv, [Next]_vars
             PROVE  (OnlyActiveOpen /\ IndexOfActive)'
  OBVIOUS
<1>. USE RiverAssumption DEF envVars, dbVars, pushVars, Unlock, Forget
<1>1. ASSUME NEW p \in Pushers, Call(p) PROVE (OnlyActiveOpen /\ IndexOfActive)'
  BY <1>1 DEF Call, IInv, TypeOK, OnlyActiveOpen, IndexOfActive
<1>2. ASSUME NEW p \in Pushers, Loop(p) PROVE (OnlyActiveOpen /\ IndexOfActive)'
  BY <1>2 DEF Loop, IInv, TypeOK, OnlyActiveOpen, IndexOfActive
<1>3. ASSUME NEW p \in Pushers, Insert(p) PROVE (OnlyActiveOpen /\ IndexOfActive)'
  BY <1>3 DEF Insert, IInv, TypeOK, OnlyActiveOpen, IndexOfActive
<1>4. ASSUME NEW p \in Pushers, Wait(p) PROVE (OnlyActiveOpen /\ IndexOfActive)'
  BY <1>4 DEF Wait, IInv, TypeOK, OnlyActiveOpen, IndexOfActive
<1>5. ASSUME NEW p \in Pushers, Check(p) PROVE (OnlyActiveOpen /\ IndexOfActive)'
  BY <1>5 DEF Check, IInv, TypeOK, OnlyActiveOpen, IndexOfActive
<1>6. ASSUME NEW p \in Pushers, Lock(p) PROVE (OnlyActiveOpen /\ IndexOfActive)'
  BY <1>6 DEF Lock, IInv, TypeOK, OnlyActiveOpen, IndexOfActive
<1>7. ASSUME NEW p \in Pushers, AlreadySwitched(p) PROVE (OnlyActiveOpen /\ IndexOfActive)'
  BY <1>7 DEF AlreadySwitched, IInv, TypeOK, OnlyActiveOpen, IndexOfActive
<1>8. ASSUME NEW p \in Pushers, MustSwitch(p) PROVE (OnlyActiveOpen /\ IndexOfActive)'
  BY <1>8 DEF MustSwitch, IInv, TypeOK, OnlyActiveOpen, IndexOfActive
<1>9. ASSUME NEW p \in Pushers, TryNext(p) PROVE (OnlyActiveOpen /\ IndexOfActive)'
  BY <1>9 DEF TryNext, IInv, TypeOK, OnlyActiveOpen, IndexOfActive
<1>10. ASSUME NEW p \in Pushers, SwitchFails(p) PROVE (OnlyActiveOpen /\ IndexOfActive)'
  BY <1>10 DEF SwitchFails, IInv, TypeOK, OnlyActiveOpen, IndexOfActive
<1>11. ASSUME NEW p \in Pushers, Switch(p) PROVE (OnlyActiveOpen /\ IndexOfActive)'
  BY <1>11, SwitchOpensOne DEF OnlyActiveOpen, IndexOfActive
<1>12. ASSUME NEW p \in Pushers, Migrate(p) PROVE (OnlyActiveOpen /\ IndexOfActive)'
  BY <1>12 DEF Migrate, IInv, TypeOK, OnlyActiveOpen, IndexOfActive
<1>13. ASSUME NEW p \in Pushers, Reinit(p) PROVE (OnlyActiveOpen /\ IndexOfActive)'
  BY <1>13 DEF Reinit, IInv, TypeOK, OnlyActiveOpen, IndexOfActive
<1>14. ASSUME NEW p \in Pushers, Restart(p) PROVE (OnlyActiveOpen /\ IndexOfActive)'
  BY <1>14 DEF Restart, IInv, TypeOK, OnlyActiveOpen, IndexOfActive
<1>15. ASSUME NEW p \in Pushers, ContextDone(p) PROVE (OnlyActiveOpen /\ IndexOfActive)'
  BY <1>15 DEF ContextDone, IInv, TypeOK, OnlyActiveOpen, IndexOfActive
<1>16. ASSUME StartClient PROVE (OnlyActiveOpen /\ IndexOfActive)'
  BY <1>16 DEF StartClient, IInv, TypeOK, OnlyActiveOpen, IndexOfActive
<1>17. ASSUME CloseStop PROVE (OnlyActiveOpen /\ IndexOfActive)'
  BY <1>17 DEF CloseStop, IInv, TypeOK, OnlyActiveOpen, IndexOfActive
<1>18. ASSUME CloseDB PROVE (OnlyActiveOpen /\ IndexOfActive)'
  BY <1>18, ClosedActive DEF CloseDB, OnlyActiveOpen, IndexOfActive
<1>19. ASSUME NEW m \in Masters, Flap(m) PROVE (OnlyActiveOpen /\ IndexOfActive)'
  BY <1>19 DEF Flap, IInv, TypeOK, OnlyActiveOpen, IndexOfActive
<1>20. CASE UNCHANGED vars
  BY <1>20 DEF vars, IInv, TypeOK, OnlyActiveOpen, IndexOfActive
<1>. QED
  BY <1>1, <1>2, <1>3, <1>4, <1>5, <1>6, <1>7, <1>8, <1>9, <1>10, <1>11, <1>12, <1>13,
     <1>14, <1>15, <1>16, <1>17, <1>18, <1>19, <1>20
     DEF Next, Step, Switching

-----------------------------------------------------------------------------

\* The invariant holds when newClient has connected to the first master.
LEMMA InitIInv == Init => IInv
<1>. SUFFICES ASSUME Init
              PROVE  IInv
  OBVIOUS
<1>. USE RiverAssumption
<1>1. 0 \in Masters
  BY DEF Masters
<1>2. /\ pools \in Seq([master : Masters, open : BOOLEAN]) /\ Len(pools) = 1
      /\ pools[1] = [master |-> 0, open |-> TRUE]
  BY <1>1 DEF Init
<1>3. /\ pc \in [Pushers -> Places] /\ ctxDone \in [Pushers -> BOOLEAN]
      /\ loaded \in [Pushers -> 0 .. 1] /\ snapshot \in [Pushers -> 0 .. 1]
      /\ seen \in [Pushers -> 0 .. 1]
  BY DEF Init, Places
<1>4. TypeOK
  BY <1>1, <1>2, <1>3 DEF Init, TypeOK
<1>5. Exclusive
  BY DEF Init, Exclusive
<1>. QED  BY <1>2, <1>4, <1>5 DEF Init, IInv, OnlyActiveOpen, IndexOfActive

\* The invariant holds for ever.
THEOREM IInvHolds == Spec => []IInv
<1>1. IInv /\ [Next]_vars => IInv'
  BY TypePreserved, ExclusivePreserved, PoolsPreserved DEF IInv
<1>. QED  BY InitIInv, <1>1, PTL DEF Spec

\* Every variable keeps its type; the pool of the river client is one that was
\* opened, even when a switch and Close interleave (client.go:200-203, 288-331).
THEOREM TypeCorrect == Spec => []TypeOK
<1>1. IInv => TypeOK
  BY DEF IInv
<1>. QED  BY IInvHolds, <1>1, PTL

\* No pool leaks: whatever switches and Close interleave, only the active pool is
\* open (database.go:144-157, 201-237).
THEOREM NoPoolLeaks == Spec => []OnlyActiveOpen
<1>1. IInv => OnlyActiveOpen
  BY DEF IInv
<1>. QED  BY IInvHolds, <1>1, PTL

\* CurrentIndex names the master of the active pool (database.go:226-227).
THEOREM IndexFollowsActive == Spec => []IndexOfActive
<1>1. IInv => IndexOfActive
  BY DEF IInv
<1>. QED  BY IInvHolds, <1>1, PTL

\* Every switch tries all masters, that of the active pool last (database.go:226-257).
THEOREM CurrentTriedLast == Spec => []TriesCurrentLast
<1>1. IInv => TriesCurrentLast
  <2>. SUFFICES ASSUME IInv
                PROVE  TriesCurrentLast
    OBVIOUS
  <2>1. NumMasters \in Nat \ {0} /\ index \in 0 .. NumMasters - 1
    BY RiverAssumption DEF IInv, TypeOK, Masters
  <2>2. active # 0 => pools[active].master = index
    BY DEF IInv, IndexOfActive
  <2>3. index = IF active = 0 THEN index ELSE pools[active].master
    BY <2>2
  <2>. QED  BY <2>1, <2>3, ConnectOrderCorrect DEF TriesCurrentLast
<1>. QED  BY IInvHolds, <1>1, PTL
=============================================================================
