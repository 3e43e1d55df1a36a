------------------------------- MODULE Health -------------------------------
(***************************************************************************)
(* The health checks of connectors/storage: Ping and IsRW of v3, DB.Ping   *)
(* of v2. Each asks all servers at the same time, waits for all answers    *)
(* and joins the errors. Here the first server is the master of v2.        *)
(*                                                                         *)
(* A probe that is not served is retried or not, and gives up in the end:  *)
(* how often is left open. Servers change while a check runs, and clients  *)
(* are closed: a closed one fails at once, whatever its server does.       *)
(***************************************************************************)
EXTENDS Integers, FiniteSets

CONSTANTS
    Callers,       \* goroutines, each making one call at a time
    NumInstances,  \* the servers: len(l.instances), or the master and the replicas
    MaxFaults      \* bound: changes of servers, ends of contexts, lost answers

ASSUME HealthAssumption == NumInstances \in Nat \ {0} /\ MaxFaults \in Nat

Instances == 0 .. NumInstances - 1
Checks == {"ping", "isRW", "dbPing", "dbPingNoWrite"}

VARIABLES
    mode,      \* each server: rw, ro (a replica, or one in protected state) or down
    closed,    \* the servers whose client, or pool, Close has closed
    faults,    \* what has gone wrong so far
    ctxDone,   \* the contexts of the calls
    check,     \* the check that a caller makes, or "none"
    trying,    \* its probes that have no answer yet
    failed,    \* those that failed
    sick,      \* those that were not served at any time of the check
    well,      \* those that would have been served at any time of it
    verdict    \* what the last check said

checkVars == <<check, trying, failed, sick, well, verdict>>
healthVars == <<mode, closed, faults, ctxDone, checkVars>>

\* What a check asks, and of whom: DB.Ping looks whether the master can be written to.
AllProbes == Instances \X {"ping", "write"}

Probes(k) ==
    {p \in AllProbes :
        \/ p[2] = "ping" /\ k \in {"ping", "dbPing", "dbPingNoWrite"}
        \/ p[2] = "write" /\ (k = "isRW" \/ (k = "dbPing" /\ p[1] = 0))}

\* The probes that are served now: by their server, through a client that is open.
Served ==
    {i \in Instances \ closed : mode[i] # "down"} \X {"ping"}
    \cup {i \in Instances \ closed : mode[i] = "rw"} \X {"write"}

HealthInit ==
    /\ mode = [i \in Instances |-> "rw"] /\ closed = {} /\ faults = 0
    /\ ctxDone = [c \in Callers |-> FALSE]
    /\ check = [c \in Callers |-> "none"]
    /\ trying = [c \in Callers |-> {}] /\ failed = [c \in Callers |-> {}]
    /\ sick = [c \in Callers |-> {}] /\ well = [c \in Callers |-> {}]
    /\ verdict = [c \in Callers |-> "none"]

\* The goroutines of a check are started.
StartCheck(c, k) ==
    /\ check' = [check EXCEPT ![c] = k]
    /\ trying' = [trying EXCEPT ![c] = Probes(k)]
    /\ failed' = [failed EXCEPT ![c] = {}]
    /\ sick' = [sick EXCEPT ![c] = Probes(k) \ Served]
    /\ well' = [well EXCEPT ![c] = Probes(k) \cap Served]
    /\ verdict' = [verdict EXCEPT ![c] = "none"]

\* One of them has its answer, or has given up.
ProbeEnds(c) ==
    /\ \E p \in trying[c] :
          /\ trying' = [trying EXCEPT ![c] = @ \ {p}]
          /\ \/ p \in Served /\ ~ctxDone[c] /\ UNCHANGED failed
             \/ /\ p \notin Served \/ ctxDone[c]
                /\ failed' = [failed EXCEPT ![c] = @ \cup {p}]
    /\ UNCHANGED <<mode, closed, faults, ctxDone, check, sick, well, verdict>>

\* Mutant of Verdict: one server that is well is enough.
VerdictOfAny(c) == IF failed[c] = Probes(check[c]) THEN "error" ELSE "ok"

Verdict(c) == IF failed[c] = {} THEN "ok" ELSE "error"

\* wg.Wait, and the errors joined.
CheckReturns(c) ==
    /\ check[c] # "none" /\ trying[c] = {}
    /\ verdict' = [verdict EXCEPT ![c] = Verdict(c)]
    /\ check' = [check EXCEPT ![c] = "none"]
    /\ failed' = [failed EXCEPT ![c] = {}]
    /\ sick' = [sick EXCEPT ![c] = {}]
    /\ well' = [well EXCEPT ![c] = {}]
    /\ UNCHANGED <<mode, closed, faults, ctxDone, trying>>

\* A server goes down, comes back, becomes a replica or a master.
Change(i) ==
    /\ faults < MaxFaults /\ faults' = faults + 1
    /\ \E m \in {"rw", "ro", "down"} : m # mode[i] /\ mode' = [mode EXCEPT ![i] = m]
    /\ UNCHANGED <<closed, ctxDone, check, trying, failed, verdict>>
    /\ sick' = [c \in Callers |-> sick[c] \ Served']
    /\ well' = [c \in Callers |-> well[c] \cap Served']

\* client.Close: what its probes still wait for they do not get.
CloseClient(i) ==
    /\ closed' = closed \cup {i}
    /\ UNCHANGED <<mode, faults, ctxDone, check, trying, failed, sick, verdict>>
    /\ well' = [c \in Callers |-> well[c] \cap Served']

ContextEnds(c) ==
    /\ ~ctxDone[c] /\ ctxDone' = [ctxDone EXCEPT ![c] = TRUE]
    /\ faults < MaxFaults /\ faults' = faults + 1
    /\ UNCHANGED <<mode, closed, checkVars>>

\* While servers come and go and clients are closed between the probes of a check, it
\* still tells something: "ok" that each server was reached, through an open client, at
\* some time of the check, so none was sick all the time; an error that not all were
\* reachable all the time, as none is after Close, or the context ended
\* (v3/proxy.go:2287-2382, v2/storage.go:219-281).
TellsHealth ==
    [][\A c \in Callers : check[c] # "none" /\ check'[c] = "none" =>
          /\ verdict'[c] = "ok" => sick[c] = {}
          /\ verdict'[c] = "error" => well[c] # Probes(check[c]) \/ ctxDone[c]]_healthVars
=============================================================================
