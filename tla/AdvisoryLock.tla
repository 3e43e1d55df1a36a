---------------------------- MODULE AdvisoryLock ----------------------------
(***************************************************************************)
(* connectors/storage/v2/lock.go: a mutex shared by several runtimes, made *)
(* of a PostgreSQL advisory lock that belongs to the session of a pooled   *)
(* connection; with DB.Close, which waits for the same pool.               *)
(*                                                                         *)
(* All mutex objects here were made by NewMutex with one lock ID.          *)
(***************************************************************************)
EXTENDS Integers, FiniteSets

CONSTANTS
    Runtimes,      \* processes, each with a *DB
    Mutexes,       \* objects made by NewMutex
    Conns,         \* the connections the pools can have open
    RuntimeOf,     \* the runtime whose pool each connection belongs to
    HomesOf,       \* the runtimes in which each mutex object may be made
    Nil,           \* a pointer to nothing
    Stale,         \* a pointer to a pgxpool.Conn that was released
    MaxFaults      \* bound: sessions that end by themselves and contexts that end

ASSUME LockAssumption ==
    /\ RuntimeOf \in [Conns -> Runtimes]
    /\ HomesOf \in [Mutexes -> SUBSET Runtimes]
    /\ Mutexes \cap Conns = {}
    /\ {Nil, Stale} \cap (Conns \cup Mutexes) = {} /\ Nil # Stale
    /\ MaxFaults \in Nat

VARIABLES
    dbOf,      \* l.db of each mutex object, by the runtime it was made in
    place,     \* where a connection is: not open, idle in its pool, or acquired
    session,   \* alive, ended without the client's knowledge, or closed
    holder,    \* the connection whose session has the advisory lock, or Nil
    depth,     \* how many times it has locked it
    conn,      \* l.conn of each mutex object
    pc,        \* where the call on each mutex object is
    result,    \* what the last call returned
    doubt,     \* the query of a Lock failed and left its connection in l.conn
    registry,  \* db.acquiredLocks of each runtime: a connection not yet released
    db,        \* DB.Close: open, closing its pools, or closed
    left,      \* history: connections that were out when DB.Close began, and not those
               \* of a lock that its holder had
    faults     \* sessions and contexts that have ended

connVars  == <<place, session>>
lockVars  == <<holder, depth>>
mutexVars == <<conn, pc, result, doubt>>
vars == <<dbOf, connVars, lockVars, mutexVars, registry, db, left, faults>>

OfSameDB(m, c) == dbOf[m] = RuntimeOf[c]

Init ==
    /\ dbOf \in [Mutexes -> Runtimes] /\ \A m \in Mutexes : dbOf[m] \in HomesOf[m]
    /\ place = [c \in Conns |-> "none"]
    /\ session = [c \in Conns |-> "closed"]
    /\ holder = Nil /\ depth = 0
    /\ conn = [m \in Mutexes |-> Nil]
    /\ pc = [m \in Mutexes |-> "idle"]
    /\ result = [m \in Mutexes |-> "none"]
    /\ doubt = [m \in Mutexes |-> FALSE]
    /\ registry = [r \in Runtimes |-> Nil]
    /\ db = [r \in Runtimes |-> "open"]
    /\ left = [r \in Runtimes |-> {}]
    /\ faults = 0

(***************************************************************************)
(* The pool and the sessions.                                              *)
(***************************************************************************)

\* A pooled connection that is idle, or one the pool still may open.
CanAcquire(m, c) == OfSameDB(m, c) /\ db[RuntimeOf[c]] = "open" /\ place[c] # "acquired"

TakeOut(c) ==
    /\ place' = [place EXCEPT ![c] = "acquired"]
    /\ session' = IF place[c] = "none" THEN [session EXCEPT ![c] = "alive"] ELSE session

\* pgxpool.Conn.Release: every pointer to this pgxpool.Conn is stale from now on.
\* The session, and the lock it has, live on in the pool unless the connection is
\* known to be closed or the pool is.
Release(c) ==
    LET keep == session[c] # "closed" /\ db[RuntimeOf[c]] = "open" IN
    /\ place' = [place EXCEPT ![c] = IF keep THEN "idle" ELSE "none"]
    /\ conn' = [m \in Mutexes |-> IF conn[m] = c THEN Stale ELSE conn[m]]
    /\ registry' = [r \in Runtimes |-> IF registry[r] = c THEN Nil ELSE registry[r]]
    /\ IF keep THEN UNCHANGED <<session, lockVars>>
       ELSE /\ session' = [session EXCEPT ![c] = "closed"]
            /\ IF holder = c THEN holder' = Nil /\ depth' = 0 ELSE UNCHANGED lockVars

\* The server ends sessions C: what they had locked is free.
FreedBy(C) == IF holder \in C THEN holder' = Nil /\ depth' = 0 ELSE UNCHANGED lockVars

Return(m, r) ==
    /\ pc' = [pc EXCEPT ![m] = "idle"]
    /\ result' = [result EXCEPT ![m] = r]

Panic(m) == pc' = [pc EXCEPT ![m] = "panicked"] /\ UNCHANGED result

Go(m, p) == pc' = [pc EXCEPT ![m] = p] /\ UNCHANGED result

(***************************************************************************)
(* Lock.                                                                   *)
(***************************************************************************)
CallLock(m) ==
    /\ pc[m] = "idle"
    /\ Go(m, "acquire")
    /\ UNCHANGED <<dbOf, connVars, lockVars, conn, doubt, registry, db, left, faults>>

\* l.conn is overwritten: what it pointed to, if anything, is lost.
Acquire(m) ==
    /\ pc[m] = "acquire"
    /\ \E c \in Conns :
          /\ CanAcquire(m, c)
          /\ TakeOut(c)
          /\ conn' = [conn EXCEPT ![m] = c]
    /\ doubt' = [doubt EXCEPT ![m] = FALSE]
    /\ Go(m, "tryLock")
    /\ UNCHANGED <<dbOf, lockVars, registry, db, left, faults>>

\* Mutant of AcquireFails: EnsureLocked drops the error of the Lock it falls back to.
AcquireFailsUnnoticed(m) ==
    /\ pc[m] = "acquire"
    /\ \A c \in Conns : ~CanAcquire(m, c)
    /\ Return(m, "ok")
    /\ UNCHANGED <<dbOf, connVars, lockVars, conn, doubt, registry, db, left, faults>>

\* The context ends while all connections are acquired, or the pool is closed.
AcquireFails(m) ==
    /\ pc[m] = "acquire"
    /\ \A c \in Conns : ~CanAcquire(m, c)
    /\ Return(m, "error")
    /\ UNCHANGED <<dbOf, connVars, lockVars, conn, doubt, registry, db, left, faults>>

\* pg_try_advisory_lock says yes, also to the session that has the lock already.
Locked(m) ==
    /\ pc[m] = "tryLock"
    /\ session[conn[m]] = "alive" /\ holder \in {Nil, conn[m]}
    /\ holder' = conn[m] /\ depth' = depth + 1
    /\ registry' = [registry EXCEPT ![dbOf[m]] = conn[m]]
    /\ Return(m, "ok")
    /\ UNCHANGED <<dbOf, connVars, conn, doubt, db, left, faults>>

\* Mutant of Refused: the pointer is kept.
RefusedKeepsConn(m) ==
    /\ pc[m] = "tryLock"
    /\ session[conn[m]] = "alive" /\ holder \notin {Nil, conn[m]}
    /\ Return(m, "notLocked")
    /\ UNCHANGED <<dbOf, connVars, lockVars, conn, doubt, registry, db, left, faults>>

\* It says no: the connection is forgotten, not released.
Refused(m) ==
    /\ pc[m] = "tryLock"
    /\ session[conn[m]] = "alive" /\ holder \notin {Nil, conn[m]}
    /\ conn' = [conn EXCEPT ![m] = Nil]
    /\ Return(m, "notLocked")
    /\ UNCHANGED <<dbOf, connVars, lockVars, doubt, registry, db, left, faults>>

\* A query fails: the session has ended, or it goes on (a statement timeout).
QueryFails(c) ==
    \/ session[c] # "alive" /\ session' = [session EXCEPT ![c] = "closed"] /\ UNCHANGED faults
    \/ /\ session[c] = "alive" /\ faults < MaxFaults
       /\ faults' = faults + 1 /\ UNCHANGED session

LockFails(m) ==
    /\ pc[m] = "tryLock"
    /\ QueryFails(conn[m])
    /\ doubt' = [doubt EXCEPT ![m] = TRUE]
    /\ Return(m, "error")
    /\ UNCHANGED <<dbOf, place, lockVars, conn, registry, db, left>>

(***************************************************************************)
(* Unlock.                                                                 *)
(***************************************************************************)
CallUnlock(m) ==
    /\ pc[m] = "idle"
    /\ IF conn[m] \in {Nil, Stale} THEN Panic(m) ELSE Go(m, "unlock")
    /\ UNCHANGED <<dbOf, connVars, lockVars, conn, doubt, registry, db, left, faults>>

\* The query is done, or has failed and the connection stays.
Unlock(m) ==
    /\ pc[m] = "unlock" /\ conn[m] # Stale
    /\ \/ /\ session[conn[m]] = "alive"
          /\ IF holder # conn[m] THEN UNCHANGED lockVars
             ELSE depth' = depth - 1 /\ holder' = IF depth = 1 THEN Nil ELSE holder
          /\ Go(m, "release")
          /\ UNCHANGED <<session, faults>>
       \/ QueryFails(conn[m]) /\ Return(m, "error") /\ UNCHANGED lockVars
    /\ UNCHANGED <<dbOf, place, conn, doubt, registry, db, left>>

\* The entry of the registry is left there, with a connection that is released.
UnlockReturn(m) ==
    /\ pc[m] = "release"
    /\ IF conn[m] = Stale THEN UNCHANGED <<connVars, lockVars, conn, registry>>
       ELSE Release(conn[m])
    /\ Return(m, "unlocked")
    /\ UNCHANGED <<dbOf, doubt, db, left, faults>>

(***************************************************************************)
(* EnsureLocked.                                                           *)
(***************************************************************************)
CallEnsureLocked(m) ==
    /\ pc[m] = "idle"
    /\ \/ conn[m] = Nil /\ Go(m, "check")
       \/ conn[m] # Nil /\ db[dbOf[m]] = "closed" /\ Return(m, "aborted")
       \/ conn[m] = Stale /\ db[dbOf[m]] # "closed" /\ Panic(m)
       \/ /\ conn[m] \notin {Nil, Stale} /\ db[dbOf[m]] # "closed"
          /\ Go(m, IF session[conn[m]] = "closed" THEN "acquire" ELSE "ping")
    /\ UNCHANGED <<dbOf, connVars, lockVars, conn, doubt, registry, db, left, faults>>

\* checkIfAnotherRuntimeHandlesLock, on another connection of the pool, which is
\* given back at once; any error but ErrNotFound counts as yes.
Check(m) ==
    /\ pc[m] = "check"
    /\ \/ holder = Nil /\ (\E c \in Conns : CanAcquire(m, c)) /\ Go(m, "acquire")
       \/ holder # Nil /\ Return(m, "notLocked")
       \/ (\A c \in Conns : ~CanAcquire(m, c)) /\ Return(m, "notLocked")
    /\ UNCHANGED <<dbOf, connVars, lockVars, conn, doubt, registry, db, left, faults>>

PingOk(m) ==
    /\ pc[m] = "ping" /\ conn[m] # Stale
    /\ session[conn[m]] = "alive"
    /\ Return(m, "ok")
    /\ UNCHANGED <<dbOf, connVars, lockVars, conn, doubt, registry, db, left, faults>>

\* The session has ended: the connection is known to be closed and given back.
PingFails(m) ==
    /\ pc[m] = "ping" /\ conn[m] # Stale
    /\ session[conn[m]] # "alive"
    /\ session' = [session EXCEPT ![conn[m]] = "closed"]
    /\ place' = [place EXCEPT ![conn[m]] = "none"]
    /\ conn' = [conn EXCEPT ![m] = Stale]
    /\ registry' = [r \in Runtimes |-> IF registry[r] = conn[m] THEN Nil ELSE registry[r]]
    /\ Go(m, "acquire")
    /\ UNCHANGED <<dbOf, lockVars, doubt, db, left, faults>>

\* The context ends before the ping is sent: the connection goes back to the pool
\* with its session and its lock, and Acquire fails with the same context.
PingCancelled(m) ==
    /\ pc[m] = "ping" /\ conn[m] # Stale
    /\ session[conn[m]] = "alive" /\ faults < MaxFaults
    /\ faults' = faults + 1
    /\ Release(conn[m])
    /\ Return(m, "error")
    /\ UNCHANGED <<dbOf, doubt, db, left>>

\* DB.Close has released the connection in the middle of a call.
UseStale(m) ==
    /\ pc[m] \in {"ping", "unlock"} /\ conn[m] = Stale
    /\ Panic(m)
    /\ UNCHANGED <<dbOf, connVars, lockVars, conn, doubt, registry, db, left, faults>>

(***************************************************************************)
(* DB.Close.                                                               *)
(***************************************************************************)
\* The object was told that the lock is its own, and the session it got it with lasts.
\* An object whose Lock was not answered may have been told so without being asked.
Holds(m) ==
    /\ result[m] = "ok" /\ pc[m] = "idle" /\ ~doubt[m]
    /\ conn[m] \in Conns /\ session[conn[m]] = "alive"

Out(r) == {c \in Conns : RuntimeOf[c] = r /\ place[c] = "acquired"}
Begin(r) ==
    /\ db[r] = "open"
    /\ db' = [db EXCEPT ![r] = "closing"]
    /\ left' = [left EXCEPT ![r] = Out(r) \ {conn[m] : m \in {l \in Mutexes : Holds(l)}}]

\* Mutant of CloseReleasesLocks: the locks are forgotten, not released.
CloseForgetsLocks(r) ==
    /\ Begin(r)
    /\ registry' = [registry EXCEPT ![r] = Nil]
    /\ UNCHANGED <<dbOf, connVars, lockVars, mutexVars, faults>>

CloseReleasesLocks(r) ==
    /\ Begin(r)
    /\ LET c == registry[r] IN
       IF c = Nil THEN UNCHANGED <<connVars, lockVars, conn, registry>> ELSE Release(c)
    /\ UNCHANGED <<dbOf, pc, result, doubt, faults>>

\* The pool ends its idle connections at once and waits for the others.
ClosePool(r) ==
    /\ db[r] = "closing"
    /\ LET idle == {c \in Conns : RuntimeOf[c] = r /\ place[c] = "idle"} IN
       /\ idle # {}
       /\ place' = [c \in Conns |-> IF c \in idle THEN "none" ELSE place[c]]
       /\ session' = [c \in Conns |-> IF c \in idle THEN "closed" ELSE session[c]]
       /\ FreedBy(idle)
    /\ UNCHANGED <<dbOf, mutexVars, registry, db, left, faults>>

CloseReturn(r) ==
    /\ db[r] = "closing"
    /\ \A c \in Conns : RuntimeOf[c] = r => place[c] = "none"
    /\ db' = [db EXCEPT ![r] = "closed"]
    /\ UNCHANGED <<dbOf, connVars, lockVars, mutexVars, registry, left, faults>>

(***************************************************************************)
(* The server and the pool's upkeep.                                       *)
(***************************************************************************)
SessionEnds(c) ==
    /\ session[c] = "alive" /\ faults < MaxFaults
    /\ faults' = faults + 1
    /\ session' = [session EXCEPT ![c] = "lost"]
    /\ FreedBy({c})
    /\ UNCHANGED <<dbOf, place, mutexVars, registry, db, left>>

\* MaxConnIdleTime, MaxConnLifetime, or the health check of a lost connection.
IdleEnds(c) ==
    /\ place[c] = "idle"
    /\ place' = [place EXCEPT ![c] = "none"]
    /\ session' = [session EXCEPT ![c] = "closed"]
    /\ FreedBy({c})
    /\ UNCHANGED <<dbOf, mutexVars, registry, db, left, faults>>

Call(m) ==
    \/ Acquire(m) \/ AcquireFails(m) \/ Locked(m) \/ Refused(m) \/ LockFails(m)
    \/ Unlock(m) \/ UnlockReturn(m)
    \/ Check(m) \/ PingOk(m) \/ PingFails(m) \/ PingCancelled(m) \/ UseStale(m)

Next ==
    \/ \E m \in Mutexes : CallLock(m) \/ CallUnlock(m) \/ CallEnsureLocked(m) \/ Call(m)
    \/ \E r \in Runtimes : CloseReleasesLocks(r) \/ ClosePool(r) \/ CloseReturn(r)
    \/ \E c \in Conns : SessionEnds(c) \/ IdleEnds(c)

Spec == Init /\ [][Next]_vars

\* DB.Close goes on while it can. What waits for others it does not call fair.
FairSpec == Spec /\ \A r \in Runtimes : WF_vars(ClosePool(r) \/ CloseReturn(r))
-----------------------------------------------------------------------------
TypeOK ==
    /\ dbOf \in [Mutexes -> Runtimes]
    /\ place \in [Conns -> {"none", "idle", "acquired"}]
    /\ session \in [Conns -> {"alive", "lost", "closed"}]
    /\ holder \in Conns \cup {Nil} /\ depth \in Nat
    /\ conn \in [Mutexes -> Conns \cup {Nil, Stale}]
    /\ pc \in [Mutexes -> {"idle", "acquire", "tryLock", "unlock", "release", "check", "ping",
                            "panicked"}]
    /\ result \in [Mutexes -> {"none", "ok", "unlocked", "notLocked", "error", "aborted"}]
    /\ doubt \in [Mutexes -> BOOLEAN]
    /\ registry \in [Runtimes -> Conns \cup {Nil}]
    /\ db \in [Runtimes -> {"open", "closing", "closed"}]
    /\ left \in [Runtimes -> SUBSET Conns]
    /\ faults \in 0 .. MaxFaults

\* Whoever was last told that the lock is his has it, as long as the session he got
\* it with lasts; but for a mutex object whose Lock was not answered: EnsureLocked
\* then finds a good connection in l.conn and says yes without asking (lock.go:26-33,
\* 66-74).
ToldSoHasIt ==
    \A m \in Mutexes : Holds(m) => holder = conn[m]

\* No call on a mutex object whose last call said that the lock is his uses a
\* connection that is nil or was released, unless the DB is being closed: the
\* pointers that lock.go:45, 69 leave behind belong to calls that say otherwise.
HeldIsUsable ==
    [][\A m \in Mutexes :
          pc[m] # "panicked" /\ pc'[m] = "panicked" /\ result[m] = "ok"
          => db[dbOf[m]] # "open"]_vars

\* DB.Close gives back the connections of all locks that are held, also when several
\* objects of its runtime have the same ID, and so one entry in the registry; then it
\* waits for no others than those that were out for another reason (storage.go:184-212):
\* a call was under way, or its query had failed; its session was lost, and perhaps
\* another object had got the lock since; or a refused Lock had dropped it, or a second
\* one replaced it, and nobody will ever give it back (lock.go:25, 30).
CloseReturns ==
    \A r \in Runtimes : db[r] = "closing" /\ Out(r) \cap left[r] = {} ~> db[r] = "closed"
=============================================================================
