------------------------- MODULE AdvisoryLockProofs -------------------------
(***************************************************************************)
(* Whoever is told that the lock is his has it, and can use it: for any    *)
(* runtimes, mutex objects, connections and faults.                        *)
(***************************************************************************)
EXTENDS AdvisoryLock, TLAPS

\* What a mutex object points to is acquired, and by nobody else.
OwnConn ==
    /\ \A m \in Mutexes : conn[m] \in Conns =>
          place[conn[m]] = "acquired" /\ OfSameDB(m, conn[m])
    /\ \A m, n \in Mutexes : conn[m] = conn[n] /\ conn[m] \in Conns => m = n

\* A query has a connection, unless DB.Close took it, which knows of none before it is
\* answered with yes.
HasConn ==
    /\ \A r \in Runtimes : registry[r] # Nil =>
          place[registry[r]] = "acquired" /\ RuntimeOf[registry[r]] = r
    /\ \A m \in Mutexes :
          /\ pc[m] = "tryLock" =>
                conn[m] \in Conns /\ \A r \in Runtimes : registry[r] # conn[m]
          /\ pc[m] \in {"unlock", "release", "ping"} => conn[m] # Nil

\* A mutex object's good connection has the lock, but before it was asked for and after
\* it was given up.
ConnHasLock ==
    \A m \in Mutexes :
        /\ conn[m] \in Conns /\ session[conn[m]] = "alive"
        /\ ~doubt[m] /\ pc[m] \notin {"tryLock", "release"}
        => holder = conn[m]

\* As long as the DB is open whoever was told that the lock is his has a connection.
ToldHasConn ==
    \A m \in Mutexes :
        result[m] = "ok" /\ db[dbOf[m]] = "open" =>
            conn[m] \in Conns \/ pc[m] \in {"acquire", "panicked"}

Depth == depth = 0 <=> holder = Nil

LInv == TypeOK /\ Depth /\ OwnConn /\ HasConn /\ ConnHasLock /\ ToldHasConn

\* What the steps need of the constants.
LEMMA Distinct ==
  /\ RuntimeOf \in [Conns -> Runtimes]
  /\ Nil \notin Conns /\ Stale \notin Conns /\ Nil # Stale
  /\ MaxFaults \in Nat
BY LockAssumption

USE Distinct

\* No mutex object has been used at first.
LEMMA LInit == Init => LInv
BY DEF Init, LInv, TypeOK, Depth, OwnConn, HasConn, ConnHasLock, ToldHasConn

\* Every step keeps the invariant: a query, its answer, and the faults around it.
LEMMA LStep == LInv /\ [Next]_vars => LInv'
<1> SUFFICES ASSUME LInv, [Next]_vars PROVE LInv' OBVIOUS
<1> USE DEF LInv, TypeOK, Depth, OwnConn, HasConn, ConnHasLock, ToldHasConn, OfSameDB,
            Go, Return, Panic, connVars, lockVars, mutexVars
<1>1. CASE UNCHANGED vars BY <1>1 DEF vars
<1>2. ASSUME NEW m \in Mutexes, CallLock(m) \/ CallUnlock(m) \/ CallEnsureLocked(m) PROVE LInv'
  BY <1>2 DEF CallLock, CallUnlock, CallEnsureLocked
<1>3. ASSUME NEW m \in Mutexes, Acquire(m) PROVE LInv'
  BY <1>3 DEF Acquire, CanAcquire, TakeOut
<1>4. ASSUME NEW m \in Mutexes, AcquireFails(m) \/ Locked(m) \/ Refused(m) PROVE LInv'
  <2>1. CASE AcquireFails(m) BY <2>1 DEF AcquireFails
  <2>2. CASE Locked(m) BY <2>2 DEF Locked
  <2>3. CASE Refused(m) BY <2>3 DEF Refused
  <2>4. QED BY <1>4, <2>1, <2>2, <2>3
<1>5. ASSUME NEW m \in Mutexes, LockFails(m) PROVE LInv'
  BY <1>5 DEF LockFails, QueryFails
<1>6. ASSUME NEW m \in Mutexes, Unlock(m) PROVE LInv'
  <2>1. CASE session[conn[m]] = "alive" /\ holder # conn[m] BY <1>6, <2>1 DEF Unlock, QueryFails
  <2>2. CASE session[conn[m]] = "alive" /\ holder = conn[m]
    <3>1. PICK c \in Conns : c = conn[m] /\ holder = c BY <1>6, <2>2 DEF Unlock
    <3>2. depth \in Nat \ {0} BY <3>1
    <3>3. CASE QueryFails(c) BY <1>6, <2>2, <3>1, <3>3 DEF Unlock, QueryFails
    <3>4. CASE ~QueryFails(c)
      <4>1. /\ depth' = depth - 1 /\ holder' = (IF depth = 1 THEN Nil ELSE c)
            /\ pc' = [pc EXCEPT ![m] = "release"]
            /\ UNCHANGED <<dbOf, place, session, conn, result, doubt, registry, db, left, faults>>
        BY <1>6, <2>2, <3>1, <3>4 DEF Unlock
      <4>2. TypeOK' BY <3>1, <3>2, <4>1
      <4>3. Depth' BY <3>1, <3>2, <4>1
      <4>4. OwnConn' BY <4>1
      <4>5. ToldHasConn' BY <3>1, <4>1
      <4>6. HasConn' BY <1>6, <4>1 DEF Unlock
      <4>7. ConnHasLock' BY <1>6, <3>1, <4>1 DEF Unlock
      <4>8. QED BY <4>2, <4>3, <4>4, <4>5, <4>6, <4>7
    <3>5. QED BY <3>3, <3>4
  <2>3. CASE session[conn[m]] # "alive" BY <1>6, <2>3 DEF Unlock, QueryFails
  <2>4. QED BY <2>1, <2>2, <2>3
<1>7. ASSUME NEW m \in Mutexes, UnlockReturn(m) PROVE LInv'
  <2>1. CASE conn[m] = Stale BY <1>7, <2>1 DEF UnlockReturn
  <2>2. CASE conn[m] # Stale BY <1>7, <2>2, SMTT(30) DEF UnlockReturn, Release
  <2>3. QED BY <2>1, <2>2
<1>8. ASSUME NEW m \in Mutexes, Check(m) \/ PingOk(m) \/ UseStale(m) PROVE LInv'
  BY <1>8 DEF Check, PingOk, UseStale
<1>9. ASSUME NEW m \in Mutexes, PingFails(m) PROVE LInv'
  BY <1>9, SMTT(30) DEF PingFails
<1>10. ASSUME NEW m \in Mutexes, PingCancelled(m) PROVE LInv'
  BY <1>10, SMTT(30) DEF PingCancelled, Release
<1>11. ASSUME NEW r \in Runtimes, CloseReleasesLocks(r) PROVE LInv'
  BY <1>11 DEF CloseReleasesLocks, Begin, Out, Release
<1>12. ASSUME NEW r \in Runtimes, ClosePool(r) \/ CloseReturn(r) PROVE LInv'
  BY <1>12 DEF ClosePool, CloseReturn, FreedBy
<1>13. ASSUME NEW c \in Conns, SessionEnds(c) \/ IdleEnds(c) PROVE LInv'
  BY <1>13 DEF SessionEnds, IdleEnds, FreedBy
<1>14. QED BY <1>1, <1>2, <1>3, <1>4, <1>5, <1>6, <1>7, <1>8, <1>9, <1>10, <1>11, <1>12,
              <1>13 DEF Next, Call

\* Only a mutex object whose l.conn is nil or stale panics.
LEMMA PanicsWithout ==
  ASSUME LInv, [Next]_vars, NEW m \in Mutexes, pc[m] # "panicked", pc'[m] = "panicked"
  PROVE  conn[m] \in {Nil, Stale} /\ pc[m] \in {"idle", "ping", "unlock"}
<1> USE DEF LInv, TypeOK, Go, Return, Panic, connVars, lockVars, mutexVars
<1>1. ASSUME NEW n \in Mutexes, CallLock(n) \/ CallUnlock(n) \/ CallEnsureLocked(n)
      PROVE  conn[m] \in {Nil, Stale} /\ pc[m] \in {"idle", "ping", "unlock"}
  BY <1>1 DEF CallLock, CallUnlock, CallEnsureLocked
<1>2. ASSUME NEW n \in Mutexes, Call(n)
      PROVE  conn[m] \in {Nil, Stale} /\ pc[m] \in {"idle", "ping", "unlock"}
  <2>1. CASE UseStale(n) BY <2>1 DEF UseStale
  <2>2. CASE ~UseStale(n)
    BY <1>2, <2>2 DEF Call, Acquire, AcquireFails, Locked, Refused, LockFails, Unlock,
                      UnlockReturn, Check, PingOk, PingFails, PingCancelled
  <2>3. QED BY <2>1, <2>2
<1>3. CASE UNCHANGED pc BY <1>3
<1>4. QED
  BY <1>1, <1>2, <1>3 DEF Next, vars, CloseReleasesLocks, Begin, ClosePool, CloseReturn,
                          SessionEnds, IdleEnds

\* It always holds.
LEMMA LAlways == Spec => []LInv
BY LInit, LStep, PTL DEF Spec

\* Every variable keeps its type: the lock is never unlocked more often than locked.
THEOREM TypeCorrect == Spec => []TypeOK
<1>1. LInv => TypeOK BY DEF LInv
<1>2. QED BY <1>1, LAlways, PTL

\* Whoever was last told that the lock is his has it while his session lasts, unless his
\* Lock was not answered (lock.go:26-33, 66-74).
THEOREM MutexIsTruthful == Spec => []ToldSoHasIt
<1>1. LInv => ToldSoHasIt BY DEF LInv, ConnHasLock, ToldSoHasIt, Holds
<1>2. QED BY <1>1, LAlways, PTL

\* Nobody whose last call said that the lock is his uses a connection that is nil or was
\* released, unless the DB is being closed (lock.go:45, 69).
THEOREM HolderNeverPanics == Spec => HeldIsUsable
<1> DEFINE Usable == \A m \in Mutexes :
             pc[m] # "panicked" /\ pc'[m] = "panicked" /\ result[m] = "ok"
             => db[dbOf[m]] # "open"
<1>1. LInv /\ [Next]_vars => [Usable]_vars
  <2> SUFFICES ASSUME LInv, [Next]_vars, NEW m \in Mutexes,
                      pc[m] # "panicked", pc'[m] = "panicked", result[m] = "ok"
               PROVE  db[dbOf[m]] # "open"
    OBVIOUS
  <2>1. conn[m] \notin Conns /\ pc[m] \notin {"acquire", "panicked"}
    BY PanicsWithout
  <2>2. QED BY <2>1 DEF LInv, ToldHasConn
<1>2. QED BY <1>1, LAlways, PTL DEF Spec, HeldIsUsable
=============================================================================
