----------------------------- MODULE RiverMaster ----------------------------
(***************************************************************************)
(* riverqueue: the job queue client and its failover between database      *)
(* masters. Push inserts a job through the river client; when the insert   *)
(* fails with a connection error it waits, checks the health of the        *)
(* active pool and otherwise switches the master: it replaces the pool,    *)
(* migrates it, replaces the river client by one on the new pool, and      *)
(* starts that one. Any number of Push calls and a Close run concurrently. *)
(***************************************************************************)
EXTENDS Integers, Sequences, ConnectOrder

CONSTANTS
    Pushers,    \* goroutines that call Push, once each
    Deadlined,  \* the ones whose context may end
    Nobody,     \* the value of switchMu when it is free
    NumMasters, \* number of PrimaryURLs
    MaxFlaps,   \* bound: how often a master goes down or comes back
    MaxPools    \* bound: how many pools are ever opened

Masters == 0 .. NumMasters - 1

ASSUME RiverAssumption ==
    /\ Deadlined \subseteq Pushers
    /\ Nobody \notin Pushers
    /\ NumMasters \in Nat \ {0}
    /\ MaxFlaps \in Nat
    /\ MaxPools \in Nat \ {0}

VARIABLES
    up,        \* masters that can be reached
    flaps,     \* how many changes of `up` there have been
    pools,     \* every pool opened so far: its master, and whether it is open
    active,    \* databaseClient.Active: an index into pools, 0 when nil
    index,     \* databaseClient.CurrentIndex
    river,     \* riverq.River: its pool and whether it runs
    switchMu,  \* holder of riverq.SwitchMu
    client,    \* the program's own use of the client: Start, then Close
    pc,        \* where each Push is
    loaded,    \* pool of the river client that a Push inserts through
    snapshot,  \* currentMaster in switchMaster
    trying,    \* how far the holder of switchMu is in the connect order, or 0
    seen,      \* history: the active pool when the insert of a Push failed
    ctxDone    \* the context of a Push is done

vars == <<up, flaps, pools, active, index, river, switchMu, client, pc, loaded,
          snapshot, trying, seen, ctxDone>>

envVars  == <<up, flaps, ctxDone>>
dbVars   == <<pools, active, index>>
pushVars == <<loaded, snapshot, seen>>

Results == {"ok", "error", "ctx"}

Places == Results \cup
    {"idle", "loop", "inserting", "waiting", "checking", "locking", "switching",
     "connecting", "migrating", "reinit", "starting"}

\* A query on pool k succeeds.
Works(k) == k > 0 /\ pools[k].open /\ pools[k].master \in up

\* A query of p succeeds: p's context is passed along.
WorksFor(p, k) == Works(k) /\ ~ctxDone[p]

\* newClient connects to the first master and builds a river client on its pool.
Init ==
    /\ up = Masters
    /\ flaps = 0
    /\ pools = <<[master |-> 0, open |-> TRUE]>>
    /\ active = 1
    /\ index = 0
    /\ river = [pool |-> 1, run |-> "created"]
    /\ switchMu = Nobody
    /\ client = "new"
    /\ pc = [p \in Pushers |-> "idle"]
    /\ loaded = [p \in Pushers |-> 0]
    /\ snapshot = [p \in Pushers |-> 0]
    /\ trying = 0
    /\ seen = [p \in Pushers |-> 0]
    /\ ctxDone = [p \in Pushers |-> FALSE]

Go(p, next) == pc' = [pc EXCEPT ![p] = next]

(***************************************************************************)
(* Push: the loop around the insert.                                       *)
(***************************************************************************)
Call(p) ==
    /\ pc[p] = "idle"
    /\ Go(p, "loop")
    /\ UNCHANGED <<trying, envVars, dbVars, river, switchMu, client, pushVars>>

LoopIgnoresContext(p) ==
    /\ pc[p] = "loop"
    /\ Go(p, "inserting")
    /\ loaded' = [loaded EXCEPT ![p] = river.pool]
    /\ seen' = [seen EXCEPT ![p] = 0]
    /\ UNCHANGED <<trying, envVars, dbVars, river, switchMu, client, snapshot>>

Loop(p) ==
    /\ pc[p] = "loop"
    /\ IF ctxDone[p]
       THEN Go(p, "ctx") /\ UNCHANGED loaded
       ELSE Go(p, "inserting") /\ loaded' = [loaded EXCEPT ![p] = river.pool]
    /\ seen' = [seen EXCEPT ![p] = 0]
    /\ UNCHANGED <<trying, envVars, dbVars, river, switchMu, client, snapshot>>

\* The insert works, or fails with an error that is no reason to switch (it
\* violates a constraint, or the context was cancelled), or with one that is.
Insert(p) ==
    /\ pc[p] = "inserting"
    /\ \/ WorksFor(p, loaded[p]) /\ Go(p, "ok") /\ UNCHANGED seen
       \/ (Works(loaded[p]) \/ ctxDone[p]) /\ Go(p, "error") /\ UNCHANGED seen
       \/ /\ ~WorksFor(p, loaded[p])
          /\ Go(p, "waiting")
          /\ seen' = [seen EXCEPT ![p] = active]
    /\ loaded' = [loaded EXCEPT ![p] = 0]
    /\ UNCHANGED <<trying, envVars, dbVars, river, switchMu, client, snapshot>>

\* 500 ms pass, or the context is done first.
Wait(p) ==
    /\ pc[p] = "waiting"
    /\ Go(p, "checking") \/ (ctxDone[p] /\ Go(p, "ctx"))
    /\ UNCHANGED <<trying, envVars, dbVars, river, switchMu, client, pushVars>>

CheckInverted(p) ==
    /\ pc[p] = "checking"
    /\ IF WorksFor(p, active) THEN Go(p, "locking") ELSE Go(p, "loop")
    /\ UNCHANGED <<trying, envVars, dbVars, river, switchMu, client, pushVars>>

\* HealthCheck pings the active pool, whichever pool the river client uses.
Check(p) ==
    /\ pc[p] = "checking"
    /\ IF WorksFor(p, active) THEN Go(p, "loop") ELSE Go(p, "locking")
    /\ UNCHANGED <<trying, envVars, dbVars, river, switchMu, client, pushVars>>

(***************************************************************************)
(* trySwitchMaster, under SwitchMu.                                        *)
(***************************************************************************)

\* Takes the lock; switchMaster then reads the active pool, before a lock of its
\* own that is always free here.
Lock(p) ==
    /\ pc[p] = "locking" /\ switchMu = Nobody
    /\ switchMu' = p
    /\ snapshot' = [snapshot EXCEPT ![p] = active]
    /\ Go(p, "switching")
    /\ UNCHANGED <<trying, envVars, dbVars, river, client, loaded, seen>>

\* The switch ends, with or without an error, and Push goes round its loop.
Unlock(p) == switchMu' = Nobody /\ Go(p, "loop")

\* switchMaster returns, and its local variable is gone.
Forget(p) == snapshot' = [snapshot EXCEPT ![p] = 0]

AlreadySwitched(p) ==
    /\ pc[p] = "switching"
    /\ snapshot[p] # 0 /\ snapshot[p] # active
    /\ Go(p, "migrating") /\ Forget(p)
    /\ UNCHANGED <<trying, envVars, dbVars, river, switchMu, client, loaded, seen>>

MustSwitch(p) ==
    /\ pc[p] = "switching"
    /\ snapshot[p] = 0 \/ snapshot[p] = active
    /\ Go(p, "connecting") /\ Forget(p)
    /\ trying' = 1
    /\ UNCHANGED <<envVars, dbVars, river, switchMu, client, loaded, seen>>

\* The master whose turn it is, and whether p connects to it and it answers a ping.
Candidate == ConnectOrder(NumMasters, index)[trying]

Answers(p) == trying <= NumMasters /\ Candidate \in up /\ ~ctxDone[p]

TryNext(p) ==
    /\ pc[p] = "connecting" /\ trying <= NumMasters /\ ~Answers(p)
    /\ trying' = trying + 1
    /\ UNCHANGED <<envVars, dbVars, river, switchMu, client, pc, pushVars>>

SwitchFails(p) ==
    /\ pc[p] = "connecting" /\ trying > NumMasters
    /\ Unlock(p)
    /\ trying' = 0
    /\ UNCHANGED <<envVars, dbVars, river, client, pushVars>>

CloseNone == pools
CloseActive == IF active = 0 THEN pools ELSE [pools EXCEPT ![active].open = FALSE]

\* The first master that answers becomes the active one and the old pool is
\* closed; with no old pool the switch reports an error all the same.
SwitchTo(p, newIndex) ==
    /\ pc[p] = "connecting" /\ Answers(p) /\ Len(pools) < MaxPools
    /\ pools' = Append(CloseActive, [master |-> Candidate, open |-> TRUE])
    /\ index' = newIndex
    /\ active' = Len(pools) + 1
    /\ IF active = 0 THEN Unlock(p) ELSE Go(p, "migrating") /\ UNCHANGED switchMu
    /\ trying' = 0
    /\ UNCHANGED <<envVars, river, client, pushVars>>

SwitchKeepsPosition(p) == SwitchTo(p, trying % NumMasters)
Switch(p) == SwitchTo(p, Candidate)

\* initDatabaseClient runs the migrations on the active pool.
Migrate(p) ==
    /\ pc[p] = "migrating"
    /\ IF WorksFor(p, active) THEN Go(p, "reinit") /\ UNCHANGED switchMu
                              ELSE Unlock(p)
    /\ UNCHANGED <<trying, envVars, dbVars, river, client, pushVars>>

\* initRiverClient: a new client on the active pool; the old one is stopped.
Reinit(p) ==
    /\ pc[p] = "reinit"
    /\ IF active = 0
       THEN Unlock(p) /\ UNCHANGED river
       ELSE /\ river' = [pool |-> active, run |-> "created"]
            /\ Go(p, "starting") /\ UNCHANGED switchMu
    /\ UNCHANGED <<trying, envVars, dbVars, client, pushVars>>

\* The new client is started, with p's context.
Restart(p) ==
    /\ pc[p] = "starting"
    /\ river' = IF WorksFor(p, river.pool) THEN [river EXCEPT !.run = "running"]
                                           ELSE river
    /\ Unlock(p)
    /\ UNCHANGED <<trying, envVars, dbVars, client, pushVars>>

(***************************************************************************)
(* The program: Start once, then Close (Stop, then the pool).              *)
(***************************************************************************)
StartClient ==
    /\ client = "new"
    /\ client' = "started"
    /\ river' = IF Works(river.pool) THEN [river EXCEPT !.run = "running"] ELSE river
    /\ UNCHANGED <<trying, envVars, dbVars, switchMu, pc, pushVars>>

CloseStop ==
    /\ client \in {"new", "started"}
    /\ client' = "closing"
    /\ river' = [river EXCEPT !.run = "stopped"]
    /\ UNCHANGED <<trying, envVars, dbVars, switchMu, pc, pushVars>>

CloseDB ==
    /\ client = "closing"
    /\ client' = "closed"
    /\ active' = 0
    /\ pools' = CloseActive
    /\ UNCHANGED <<trying, envVars, index, river, switchMu, pc, pushVars>>

(***************************************************************************)
(* The environment: masters go down and come back, contexts end.           *)
(***************************************************************************)
Flap(m) ==
    /\ flaps < MaxFlaps
    /\ flaps' = flaps + 1
    /\ up' = IF m \in up THEN up \ {m} ELSE up \cup {m}
    /\ UNCHANGED <<trying, dbVars, river, switchMu, client, pc, pushVars, ctxDone>>

ContextDone(p) ==
    /\ p \in Deadlined /\ ~ctxDone[p] /\ pc[p] \notin Results \cup {"idle"}
    /\ ctxDone' = [ctxDone EXCEPT ![p] = TRUE]
    /\ UNCHANGED <<trying, up, flaps, dbVars, river, switchMu, client, pc, pushVars>>

-----------------------------------------------------------------------------
Step(p) == Loop(p) \/ Insert(p) \/ Wait(p) \/ Check(p)

Switching(p) ==
    \/ AlreadySwitched(p) \/ MustSwitch(p) \/ TryNext(p) \/ SwitchFails(p) \/ Switch(p)
    \/ Migrate(p) \/ Reinit(p) \/ Restart(p)

Next ==
    \/ \E p \in Pushers :
         Call(p) \/ Step(p) \/ Lock(p) \/ Switching(p) \/ ContextDone(p)
    \/ StartClient \/ CloseStop \/ CloseDB
    \/ \E m \in Masters : Flap(m)

Spec == Init /\ [][Next]_vars

\* A Push that was called runs; sync.Mutex starves nobody. The program need not
\* call Push, Start or Close, and no context need end.
Fairness ==
    \A p \in Pushers : /\ WF_vars(Step(p) \/ Switching(p))
                       /\ SF_vars(Lock(p))

FairSpec == Spec /\ Fairness

-----------------------------------------------------------------------------
TypeOK ==
    /\ up \subseteq Masters
    /\ flaps \in 0 .. MaxFlaps
    /\ pools \in Seq([master : Masters, open : BOOLEAN]) /\ Len(pools) <= MaxPools
    /\ active \in 0 .. Len(pools)
    /\ index \in Masters
    /\ river \in [pool : 1 .. Len(pools), run : {"created", "running", "stopped"}]
    /\ switchMu \in Pushers \cup {Nobody}
    /\ client \in {"new", "started", "closing", "closed"}
    /\ pc \in [Pushers -> Places]
    /\ loaded \in [Pushers -> 0 .. Len(pools)]
    /\ snapshot \in [Pushers -> 0 .. Len(pools)]
    /\ trying \in 0 .. NumMasters + 1
    /\ seen \in [Pushers -> 0 .. Len(pools)]
    /\ ctxDone \in [Pushers -> BOOLEAN]

\* No pool leaks: through any interleaving of switches and Close, the only pool
\* that is open is the active one, which Close and the next switch will close.
OnlyActiveOpen == \A k \in 1 .. Len(pools) : pools[k].open => k = active

\* CurrentIndex, which is not atomic, names the master of the active pool, so the
\* next switch tries that one last (database.go:226-227).
IndexOfActive == active # 0 => pools[active].master = index

\* The next switch tries all masters, and the one that the active pool is connected
\* to, which is the one that failed, last: the index it computes the order from is a
\* plain field beside the pointer to the pool (database.go:226-227, 239-257).
TriesCurrentLast ==
    IsFailoverOrder(ConnectOrder(NumMasters, index), NumMasters,
                    IF active = 0 THEN index ELSE pools[active].master)

\* A switch replaced the pool and then failed: the river client still uses the
\* old one, which is closed.
Torn == switchMu = Nobody /\ active # 0 /\ river.pool # active

Settled(p) == pc[p] \in Results \cup {"idle"}

\* A Push returns once its context is done, in whatever step that finds it.
EndsWithContext ==
    []<>(\A p \in Pushers : ctxDone[p] => Settled(p))

\* While some master can be reached, no switch has failed half-way and the client
\* is not closed, every Push returns: it finds the way to that master.
PushFindsMaster ==
    <>[](up # {} /\ ~Torn /\ client \in {"new", "started"})
        => []<>(\A p \in Pushers : Settled(p))

\* "Already switched to a new master, no need to switch again" (database.go:209):
\* a Push replaces no pool but the one that was active when its insert failed.
SwitchesOnce ==
    [][\A p \in Pushers : Switch(p) /\ client # "closed" => active = seen[p]]_vars

\* "second push should succeed after master switch" (client_master_switch_test.go:438):
\* with a master in reach and the client open, a Push does not try forever.
PushSucceeds ==
    <>[](up # {} /\ client \in {"new", "started"}) => []<>(\A p \in Pushers : Settled(p))
=============================================================================
