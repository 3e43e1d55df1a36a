----------------------------- MODULE RedisStore -----------------------------
(***************************************************************************)
(* connectors/storage/v3: a load balancer over several clients of go-redis *)
(* that reach the same data, and Set, Get and Bind, which turn structs to  *)
(* hashes and back; with the health checks of Health.                      *)
(*                                                                         *)
(* A server may execute commands whose answer its client never gets, and,  *)
(* for a connection given up, even after the call has returned.            *)
(***************************************************************************)
EXTENDS Health

CONSTANTS
    Inputs,     \* what each caller may call: [op, args], with a sequence of arguments
    Keys,
    Fields,     \* the fields of the struct
    Tagged,     \* those with a redis tag
    OmitEmpty,  \* those with the option omitempty
    Embedded,   \* those of an embedded struct, which the value has a pointer to
    Empty,      \* a field's empty value
    Nil,        \* a nil value among the arguments
    MaxTries,   \* MaxRetries: attempts after the first
    MaxCalls    \* bound: calls, with health checks and Close

ASSUME RedisAssumption ==
    /\ Tagged \subseteq Fields /\ OmitEmpty \subseteq Tagged /\ Embedded \subseteq Fields
    /\ MaxTries \in Nat /\ MaxCalls \in Nat
    /\ Fields # {}

\* The commands: Del stands for those that lb only hands on.
Ops == {"set", "get", "bind", "del"}

ASSUME InputsAssumption ==
    \A c \in Callers : \A j \in Inputs[c] :
        /\ j.op \in Checks \cup Ops
        /\ j.op = "set" =>
              \A n \in DOMAIN j.args : j.args[n] = Nil \/ j.args[n].key \in Keys
        /\ j.op \in {"get", "bind", "del"} => \A n \in DOMAIN j.args : j.args[n] \in Keys

VARIABLES
    store,    \* the hashes: key -> field -> value, without fields that were not written
    index,    \* currentIndex, modulo the number of instances
    closing,  \* Close: open, waiting for its goroutines, or closed
    job,      \* what each caller is calling
    pc,       \* idle, ready (for an attempt), sent (the attempt's commands), returned
    inst,     \* the instance that serves the call
    tries,    \* attempts that failed
    replies,  \* of the server to the commands of this attempt, by their positions
    result,   \* what the call returned: an error, or the records found
    late,     \* commands of abandoned connections: [at, cmd]
    calls     \* made so far

callVars == <<job, pc, inst, tries, replies, result>>
lbVars   == <<index, closing>>
vars     == <<store, lbVars, callVars, late, calls, healthVars>>

Nothing == [n \in {} |-> Nil]
NoJob   == [op |-> "none", args |-> Nothing]
Failed  == [error |-> TRUE, found |-> Nothing]
OK(found) == [error |-> FALSE, found |-> found]

Init ==
    /\ HealthInit
    /\ store = [k \in Keys |-> Nothing]
    /\ index = 0 /\ closing = "open"
    /\ job = [c \in Callers |-> NoJob]
    /\ pc = [c \in Callers |-> "idle"]
    /\ inst = [c \in Callers |-> 0]
    /\ tries = [c \in Callers |-> 0]
    /\ replies = [c \in Callers |-> Nothing]
    /\ result = [c \in Callers |-> OK(Nothing)]
    /\ late = {} /\ calls = 0

(***************************************************************************)
(* Structs and hashes. A struct is [key, fields, embedded]: embedded is    *)
(* FALSE when its pointer is nil.                                          *)
(***************************************************************************)
IsEmptyValue(x) == x = Empty

SerializeValue(v) ==
    [f \in {g \in Tagged : /\ g \in Embedded => v.embedded
                           /\ ~(g \in OmitEmpty /\ IsEmptyValue(v.fields[g]))}
        |-> v.fields[f]]

\* Fields that are not in the hash stay empty; nil pointers are filled in.
DeserializeValue(hash) == [f \in Fields |-> IF f \in DOMAIN hash THEN hash[f] ELSE Empty]

(***************************************************************************)
(* The commands of a call, by the positions of the arguments they stem     *)
(* from, and what the server does with them.                               *)
(***************************************************************************)
Set(values) ==
    [n \in {m \in DOMAIN values : values[m] # Nil} |-> [op |-> "set", item |-> values[n]]]

\* HMGET with all tagged fields: Get's, and Bind's.
Get(keys) == [n \in DOMAIN keys |-> [op |-> "get", item |-> [key |-> keys[n]]]]

\* Any other command is handed to the next instance as it is.
Forward(keys) == [n \in DOMAIN keys |-> [op |-> "del", item |-> [key |-> keys[n]]]]

Commands(j) ==
    CASE j.op = "set" -> Set(j.args)
      [] j.op \in {"get", "bind"} -> Get(j.args)
      [] j.op = "del" -> Forward(j.args)
      [] OTHER -> Nothing

\* HSET without any field is an error everywhere, and any other write is one on a replica.
Refusal(cmd, m) ==
    CASE cmd.op = "set" /\ DOMAIN SerializeValue(cmd.item) = {} -> "arguments"
      [] cmd.op = "set" /\ DOMAIN SerializeValue(cmd.item) # {} /\ m = "ro" -> "readonly"
      [] cmd.op = "del" /\ m = "ro" -> "readonly"
      [] OTHER -> "none"

Reply(cmd, m) ==
    [error |-> Refusal(cmd, m), key |-> cmd.item.key,
     hash |-> IF cmd.op = "get" THEN store[cmd.item.key] ELSE Nothing]

Written(v, hash) ==
    LET new == SerializeValue(v)
    IN  [f \in DOMAIN new \cup DOMAIN hash |-> IF f \in DOMAIN new THEN new[f] ELSE hash[f]]

Applied(cmd, m) ==
    CASE cmd.op = "set" /\ Refusal(cmd, m) = "none" ->
            [store EXCEPT ![cmd.item.key] = Written(cmd.item, @)]
      [] cmd.op = "del" /\ Refusal(cmd, m) = "none" -> [store EXCEPT ![cmd.item.key] = Nothing]
      [] OTHER -> store

(***************************************************************************)
(* A call.                                                                 *)
(***************************************************************************)
Idle(c) == pc[c] = "idle" /\ check[c] = "none"

\* lb.instance, unless Set has but one value, and that nil.
Call(c) ==
    /\ Idle(c) /\ calls < MaxCalls
    /\ calls' = calls + 1
    /\ \E j \in {i \in Inputs[c] : i.op \notin Checks} :
          /\ job' = [job EXCEPT ![c] = j]
          /\ pc' = [pc EXCEPT ![c] = IF DOMAIN Commands(j) = {} THEN "sent" ELSE "ready"]
          /\ IF j.args = <<Nil>> THEN UNCHANGED <<index, inst>>
             ELSE /\ index' = (index + 1) % NumInstances
                  /\ inst' = [inst EXCEPT ![c] = index']
    /\ result' = [result EXCEPT ![c] = OK(Nothing)]
    /\ UNCHANGED <<store, closing, tries, replies, late, healthVars>>

Return(c, r) ==
    /\ pc' = [pc EXCEPT ![c] = "idle"]
    /\ job' = [job EXCEPT ![c] = NoJob]
    /\ inst' = [inst EXCEPT ![c] = 0]
    /\ tries' = [tries EXCEPT ![c] = 0]
    /\ replies' = [replies EXCEPT ![c] = Nothing]
    /\ result' = [result EXCEPT ![c] = r]

\* Mutant of Retry: attempts are not counted.
RetryForever(c) ==
    /\ ~ctxDone[c]
    /\ pc' = [pc EXCEPT ![c] = "ready"]
    /\ replies' = [replies EXCEPT ![c] = Nothing]
    /\ UNCHANGED <<job, inst, result, tries>>

\* go-redis tries again, on the same instance, after a pause.
Retry(c) ==
    /\ ~ctxDone[c] /\ tries[c] < MaxTries
    /\ tries' = [tries EXCEPT ![c] = @ + 1]
    /\ pc' = [pc EXCEPT ![c] = "ready"]
    /\ replies' = [replies EXCEPT ![c] = Nothing]
    /\ UNCHANGED <<job, inst, result>>

RetryOrFail(c) == Retry(c) \/ ((ctxDone[c] \/ tries[c] = MaxTries) /\ Return(c, Failed))

Attempt(c) ==
    /\ pc[c] = "ready"
    /\ \/ /\ mode[inst[c]] # "down" /\ inst[c] \notin closed /\ ~ctxDone[c]
          /\ pc' = [pc EXCEPT ![c] = "sent"]
          /\ UNCHANGED <<job, inst, tries, replies, result>>
       \/ inst[c] \in closed /\ Return(c, Failed)
       \/ (mode[inst[c]] = "down" \/ ctxDone[c]) /\ inst[c] \notin closed /\ RetryOrFail(c)
    /\ UNCHANGED <<store, lbVars, late, calls, healthVars>>

Positions(c) == DOMAIN Commands(job[c])
Rest(c) == Positions(c) \ DOMAIN replies[c]
First(S, n) == n \in S /\ \A m \in S : n <= m

Execute(c) ==
    /\ pc[c] = "sent"
    /\ \E n \in Rest(c) :
          LET m == mode[inst[c]]
              cmd == Commands(job[c])[n]
          IN /\ First(Rest(c), n)
             /\ m # "down"
             /\ store' = Applied(cmd, m)
             /\ replies' = [replies EXCEPT ![c] =
                               [k \in DOMAIN @ \cup {n} |-> IF k = n THEN Reply(cmd, m) ELSE @[k]]]
    /\ UNCHANGED <<lbVars, job, pc, inst, tries, result, late, calls, healthVars>>

\* The connection is given up: it broke, the answer took too long, the context ended, or
\* the client was closed. What it still has to say the server may read later.
Break(c) ==
    /\ pc[c] = "sent" /\ Positions(c) # {}
    /\ IF mode[inst[c]] = "down" \/ ctxDone[c] \/ inst[c] \in closed THEN UNCHANGED faults
       ELSE faults < MaxFaults /\ faults' = faults + 1
    /\ RetryOrFail(c)
    /\ late' \in {late, late \cup {[at |-> inst[c], cmd |-> Commands(job[c])[n]] : n \in Rest(c)}}
    /\ UNCHANGED <<store, lbVars, calls, mode, closed, ctxDone, checkVars>>

\* Mutant of Errors: only the first command's result is looked at.
ErrorsOfFirst(c) ==
    {n \in DOMAIN replies[c] : First(Positions(c), n) /\ replies[c][n].error # "none"}

Errors(c) == {n \in DOMAIN replies[c] : replies[c][n].error # "none"}

\* What Get and Bind make of the replies: keys without any of the fields are left out.
Found(c) ==
    [n \in {m \in DOMAIN replies[c] : DOMAIN replies[c][m].hash # {}} |->
        [key |-> replies[c][n].key, record |-> DeserializeValue(replies[c][n].hash)]]

FirstRefused(c) == \E n \in Errors(c) : First(Positions(c), n) /\ replies[c][n].error = "readonly"

\* All replies are there. A replica's refusal of the first command is tried again.
Finish(c) ==
    /\ pc[c] = "sent" /\ Rest(c) = {}
    /\ \/ FirstRefused(c) /\ RetryOrFail(c)
       \/ Errors(c) # {} /\ ~FirstRefused(c) /\ Return(c, Failed)
       \/ Errors(c) = {} /\ Return(c, OK(Found(c)))
    /\ UNCHANGED <<store, lbVars, late, calls, healthVars>>

\* The server executes what a connection that was given up has left, or never gets it.
Late(w) ==
    /\ late' = late \ {w}
    /\ store' = IF mode[w.at] = "down" THEN store ELSE Applied(w.cmd, mode[w.at])
    /\ UNCHANGED <<lbVars, callVars, calls, healthVars>>

(***************************************************************************)
(* Health checks, and Close.                                               *)
(***************************************************************************)
CallCheck(c) ==
    /\ Idle(c) /\ calls < MaxCalls
    /\ calls' = calls + 1
    /\ \E j \in {i \in Inputs[c] : i.op \in Checks} : StartCheck(c, j.op)
    /\ UNCHANGED <<store, lbVars, callVars, late, mode, closed, faults, ctxDone>>

Checking(c) ==
    /\ ProbeEnds(c) \/ CheckReturns(c)
    /\ UNCHANGED <<store, lbVars, callVars, late, calls>>

Close ==
    /\ closing = "open" /\ closing' = "waiting"
    /\ calls < MaxCalls /\ calls' = calls + 1
    /\ UNCHANGED <<store, index, callVars, late, healthVars>>

CloseInstance(i) ==
    /\ closing = "waiting" /\ i \notin closed
    /\ CloseClient(i)
    /\ closing' = IF closed' = Instances THEN "closed" ELSE closing
    /\ UNCHANGED <<store, index, callVars, late, calls>>

Environment ==
    /\ (\E i \in Instances : Change(i)) \/ (\E c \in Callers : ContextEnds(c))
    /\ UNCHANGED <<store, lbVars, callVars, late, calls>>

Step(c) == Attempt(c) \/ Execute(c) \/ Break(c) \/ Finish(c) \/ Checking(c)

Next ==
    \/ \E c \in Callers : Call(c) \/ CallCheck(c) \/ Step(c)
    \/ \E w \in late : Late(w)
    \/ Close \/ (\E i \in Instances : CloseInstance(i))
    \/ Environment

Spec == Init /\ [][Next]_vars

\* A server answers or the connection times out; goroutines run. A server may be late for ever.
FairSpec ==
    /\ Spec
    /\ \A c \in Callers : WF_vars(Step(c))
-----------------------------------------------------------------------------
(***************************************************************************)
(* RedisStore implements Records.                                          *)
(***************************************************************************)
Zero == [f \in Fields |-> Empty]

\* The record of a hash, whatever struct it was written from; or none.
RecordOf(hash) == IF DOMAIN hash = {} THEN Nothing ELSE DeserializeValue(hash)

\* What a written struct does not say: the fields without a tag, those of an embedded
\* struct that is not there, and empty ones with omitempty (storage_test.go:82-85).
Omits(v) ==
    (Fields \ Tagged) \cup (IF v.embedded THEN {} ELSE Embedded)
    \cup {f \in OmitEmpty : v.fields[f] = Empty}

ItemOf(op, item) ==
    IF op = "set" THEN [key |-> item.key, fields |-> item.fields, omits |-> Omits(item)]
                  ELSE [key |-> item.key]

Asked(j) ==
    CASE j.op = "set" -> [op |-> "set", items |->
               [n \in {m \in DOMAIN j.args : j.args[m] # Nil} |-> ItemOf("set", j.args[n])]]
      [] j.op \in {"get", "bind"} ->
            [op |-> "get", items |-> [n \in DOMAIN j.args |-> [key |-> j.args[n]]]]
      [] j.op = "del" -> [op |-> "del", items |-> [n \in DOMAIN j.args |-> [key |-> j.args[n]]]]
      [] OTHER -> [op |-> "none", items |-> Nothing]

DoneBy(c) == {n \in DOMAIN replies[c] : replies[c][n].error = "none"}

SeenBy(c) ==
    [n \in IF job[c].op \in {"get", "bind"} THEN DOMAIN replies[c] ELSE {} |->
        [key |-> replies[c][n].key, record |-> RecordOf(replies[c][n].hash)]]

AllAsked    == {Asked(j) : j \in UNION {Inputs[c] : c \in Callers}}
RecordsHeld == [k \in Keys |-> RecordOf(store[k])]
JobsAsked   == [c \in Callers |-> Asked(job[c])]
AllDone     == [c \in Callers |-> DoneBy(c)]
AllSeen     == [c \in Callers |-> SeenBy(c)]
LateItem(w) == [op |-> w.cmd.op, item |-> ItemOf(w.cmd.op, w.cmd.item)]
LateItems   == {LateItem(w) : w \in late}

R == INSTANCE Records WITH
        Absent <- Nothing, Jobs <- AllAsked, records <- RecordsHeld, job <- JobsAsked,
        done <- AllDone, seen <- AllSeen, answer <- result, late <- LateItems

\* Set, Get, Bind and Del do what Records promises, whatever servers, connections and
\* other callers do: a call that returns without an error did all it was asked, since its
\* last attempt began, and a read returns records that were there while it ran
\* (storage.go:100-236).
KeepsPromise == R!Spec

\* Every call returns: it is not retried for ever.
CallsReturn == \A c \in Callers : pc[c] \in {"ready", "sent"} \/ check[c] # "none" ~> Idle(c)
=============================================================================
