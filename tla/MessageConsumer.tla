-------------------------- MODULE MessageConsumer ---------------------------
(***************************************************************************)
(* connectors/message_broker: the consuming side of one member of a Kafka  *)
(* consumer group. A loop polls records and hands those of each partition  *)
(* to the goroutine of that partition, which processes them key by key;    *)
(* the Kafka client (kgo) calls back when partitions are assigned to this  *)
(* member, revoked or lost, and commits offsets; Close ends all of it.     *)
(*                                                                         *)
(* kgo is outside the repository. It is modelled as consumerOpts sets it   *)
(* up: with BlockRebalanceOnPoll no callback runs between a poll that      *)
(* returned records and AllowRebalance; fetching starts once               *)
(* OnPartitionsAssigned has returned and stops before a revocation is      *)
(* announced; auto-commit covers the records of earlier polls only.        *)
(***************************************************************************)
EXTENDS Integers, Sequences, FiniteSets

CONSTANTS
    Partitions,
    LogLen,          \* records in each partition, offsets 1 .. LogLen
    Key(_, _),       \* key of the record of a partition at an offset
    OnePerPartition, \* partitions of topics with OneGoroutinePerPartition
    MaxPoll,         \* most records of a partition that one poll returns
    MaxRevocations   \* bound: how often partitions are taken away, before Close

ASSUME ConsumerAssumption ==
    /\ LogLen \in Nat \ {0}
    /\ MaxPoll \in Nat \ {0}
    /\ MaxRevocations \in Nat
    /\ OnePerPartition \subseteq Partitions

Offsets == 1 .. LogLen

VARIABLES
    \* kgo
    assigned,    \* partitions this member fetches
    position,    \* last offset of each partition that a poll returned
    head,        \* last offset that auto-commit may commit
    committed,   \* last offset committed
    blocked,     \* rebalances wait for AllowRebalance
    callback,    \* the callback in progress: its kind, partitions and phase
    revocations, \* how often partitions were taken away
    \* messageBroker and concurrentConsumer
    loop,        \* where the goroutine of startConsuming is
    fetched,     \* partitions of the last poll still to be handed over
    wg,          \* the counter of consumingWg
    mx,          \* who holds mx: "callback", "loop" or "free"
    cancelled,   \* Close was called
    \* partitionConsumers, in the order they were created
    consumers,   \* each one's partition, flags, channel and the records at hand
    current,     \* the one in the map for each partition, or 0
    processed    \* history: offsets of each partition that were processed

vars == <<assigned, position, head, committed, blocked, callback, revocations, loop,
          fetched, wg, mx, cancelled, consumers, current, processed>>

kgoVars  == <<assigned, position, head, committed, blocked, callback, revocations>>
loopVars == <<loop, fetched, wg, cancelled>>
pcVars   == <<consumers, current, processed>>

NoCallback == [kind |-> "none", parts |-> {}, phase |-> "none"]

Init ==
    /\ assigned = {}
    /\ position = [p \in Partitions |-> 0]
    /\ head = [p \in Partitions |-> 0]
    /\ committed = [p \in Partitions |-> 0]
    /\ blocked = FALSE
    /\ callback = NoCallback
    /\ revocations = 0
    /\ loop = "idle"
    /\ fetched = {}
    /\ wg = 0
    /\ mx = "free"
    /\ cancelled = FALSE
    /\ consumers = <<>>
    /\ current = [p \in Partitions |-> 0]
    /\ processed = [p \in Partitions |-> {}]

(***************************************************************************)
(* The poll loop.                                                          *)
(***************************************************************************)

\* The loop condition, then PollRecords: what the poll before returned counts as
\* processed from here on.
PollCall ==
    /\ loop = "idle" /\ ~cancelled
    /\ loop' = "polling"
    /\ head' = [p \in Partitions |-> IF p \in assigned THEN position[p] ELSE head[p]]
    /\ UNCHANGED <<assigned, position, committed, blocked, callback, revocations,
                   fetched, wg, mx, cancelled, pcVars>>

\* PollRecords returns some of what there is, and blocks rebalances.
PollReturn ==
    /\ loop = "polling" /\ callback.kind = "none"
    /\ \E ps \in SUBSET {p \in assigned : position[p] < LogLen} \ {{}}, n \in 1 .. MaxPoll :
         LET end(p) == IF position[p] + n < LogLen THEN position[p] + n ELSE LogLen
         IN /\ fetched' = {[part |-> p, batch |-> position[p] + 1 .. end(p)] : p \in ps}
            /\ position' = [p \in Partitions |-> IF p \in ps THEN end(p) ELSE position[p]]
    /\ blocked' = TRUE
    /\ loop' = "dispatching"
    /\ UNCHANGED <<assigned, head, committed, callback, revocations, wg, mx, cancelled,
                   pcVars>>

\* The context is done, seen by the loop condition or by PollRecords.
PollStop ==
    /\ loop \in {"idle", "polling"} /\ cancelled
    /\ loop' = "stopping"
    /\ UNCHANGED <<kgoVars, fetched, wg, mx, cancelled, pcVars>>

Live(p) == current[p] # 0 /\ ~consumers[current[p]].closing

\* One partition of the poll goes to its consumer, and its records are counted.
\* The code has another way for a partition without a live consumer; see
\* ConsumerReady.
DispatchCounting(Count(_)) ==
    /\ loop = "dispatching"
    /\ \E f \in fetched :
         /\ Live(f.part)
         /\ consumers' = [consumers EXCEPT ![current[f.part]].queue = Append(@, f.batch)]
         /\ wg' = wg + Count(f.batch)
         /\ fetched' = fetched \ {f}
    /\ UNCHANGED <<kgoVars, loop, mx, cancelled, current, processed>>

DispatchAddsTwice == DispatchCounting(LAMBDA b : 2 * Cardinality(b))
Dispatch == DispatchCounting(Cardinality)

\* consumingWg.Wait, then AllowRebalance.
AllowRebalanceAtOnce ==
    /\ loop = "dispatching" /\ fetched = {}
    /\ blocked' = FALSE
    /\ loop' = "idle"
    /\ UNCHANGED <<assigned, position, head, committed, callback, revocations,
                   fetched, wg, mx, cancelled, pcVars>>

AllowRebalance ==
    /\ loop = "dispatching" /\ fetched = {} /\ wg = 0
    /\ blocked' = FALSE
    /\ loop' = "idle"
    /\ UNCHANGED <<assigned, position, head, committed, callback, revocations,
                   fetched, wg, mx, cancelled, pcVars>>

(***************************************************************************)
(* A partition consumer: consume().                                        *)
(***************************************************************************)

\* Records of one batch that are processed one after the other, by their offsets: all of
\* them, or those of each key.
Unordered(p, batch) == {{o} : o \in batch}
Groups(p, batch) ==
    IF p \in OnePerPartition THEN {batch}
    ELSE {{x \in batch : Key(p, x) = Key(p, o)} : o \in batch}

TakeBatch(c) ==
    /\ consumers[c].groups = {} /\ consumers[c].queue # <<>>
    /\ consumers' = [consumers EXCEPT
                       ![c].groups = Groups(consumers[c].part, Head(consumers[c].queue)),
                       ![c].queue = Tail(@)]
    /\ UNCHANGED <<kgoVars, loopVars, mx, current, processed>>

First(g, o) == o \in g /\ \A x \in g : o <= x

\* processRecord, for the record a group is at: an error is only logged.
ProcessRecord(c) ==
    \E g \in consumers[c].groups : \E o \in g :
        /\ First(g, o)
        /\ consumers' = [consumers EXCEPT
                           ![c].groups = (@ \ {g}) \cup ({g \ {o}} \ {{}})]
        /\ processed' = [processed EXCEPT ![consumers[c].part] = @ \cup {o}]
        /\ wg' = wg - 1
        /\ UNCHANGED <<kgoVars, loop, fetched, cancelled, mx, current>>

\* The range over the closed channel ends.
ConsumerDone(c) ==
    /\ consumers[c].closing /\ ~consumers[c].done
    /\ consumers[c].groups = {} /\ consumers[c].queue = <<>>
    /\ consumers' = [consumers EXCEPT ![c].done = TRUE]
    /\ UNCHANGED <<kgoVars, loopVars, mx, current, processed>>

(***************************************************************************)
(* Callbacks of kgo.                                                       *)
(***************************************************************************)
Announce(kind, parts) ==
    /\ callback.kind = "none" /\ ~blocked
    /\ callback' = [kind |-> kind, parts |-> parts, phase |-> "locking"]
    /\ assigned' = IF kind = "assign" THEN assigned ELSE assigned \ parts

\* The group coordinator moves partitions. A lost partition can no longer be
\* committed.
Rebalance ==
    /\ loop \notin {"closing", "exited"}
    /\ \/ /\ \E ps \in SUBSET (Partitions \ assigned) \ {{}} : Announce("assign", ps)
          /\ UNCHANGED revocations
       \/ /\ revocations < MaxRevocations /\ revocations' = revocations + 1
          /\ \E ps \in SUBSET assigned \ {{}}, kind \in {"revoke", "lose"} : Announce(kind, ps)
    /\ UNCHANGED <<position, head, committed, blocked, loopVars, mx, pcVars>>

CallbackLock ==
    /\ callback.phase = "locking" /\ mx = "free"
    /\ mx' = "callback"
    /\ callback' = [callback EXCEPT !.phase = "running"]
    /\ UNCHANGED <<assigned, position, head, committed, blocked, revocations,
                   loopVars, pcVars>>

\* stop: closes the channels of the consumers of ps that are not closing yet.
StopAll(ps) ==
    consumers' = [c \in DOMAIN consumers |->
                    IF \E p \in ps : current[p] = c
                    THEN [consumers[c] EXCEPT !.closing = TRUE]
                    ELSE consumers[c]]

Finished(ps) == \A p \in ps : current[p] # 0 => consumers[current[p]].done

\* assignPartitions: a consumer that is closing is replaced once it is done.
NeedsFirstConsumer == {p \in callback.parts : current[p] = 0}
NeedsConsumer == {p \in callback.parts : ~Live(p)}

Replace(p) ==
    /\ callback.kind = "assign" /\ callback.phase = "running"
    /\ p \in NeedsConsumer /\ Finished({p})
    /\ consumers' = Append(consumers, [part |-> p, closing |-> FALSE, done |-> FALSE,
                                       queue |-> <<>>, groups |-> {}])
    /\ current' = [current EXCEPT ![p] = Len(consumers) + 1]
    /\ UNCHANGED <<kgoVars, loopVars, mx, processed>>

\* OnPartitionsAssigned returns: kgo fetches from the committed offsets.
AssignReturn ==
    /\ callback.kind = "assign" /\ callback.phase = "running"
    /\ NeedsConsumer = {}
    /\ mx' = "free"
    /\ assigned' = assigned \cup callback.parts
    /\ position' = [p \in Partitions |-> IF p \in callback.parts THEN committed[p]
                                                               ELSE position[p]]
    /\ head' = [p \in Partitions |-> IF p \in callback.parts THEN committed[p] ELSE head[p]]
    /\ callback' = NoCallback
    /\ UNCHANGED <<committed, blocked, revocations, loopVars, pcVars>>

\* OnPartitionsLost, for revoked partitions too: stops their consumers...
RevokeStop ==
    /\ callback.kind \in {"revoke", "lose"} /\ callback.phase = "running"
    /\ callback' = [callback EXCEPT !.phase = "stopping"]
    /\ StopAll(callback.parts)
    /\ UNCHANGED <<assigned, position, head, committed, blocked, revocations, loopVars,
                   mx, current, processed>>

\* ...waits until they are done or 25 s have passed, and commits everything that
\* was polled.
CommitPolled(ps) ==
    committed' = [p \in Partitions |-> IF p \in ps THEN position[p] ELSE committed[p]]

RevokeReturn ==
    /\ callback.phase = "stopping"
    /\ IF callback.kind = "revoke" THEN CommitPolled(assigned \cup callback.parts)
                                   ELSE CommitPolled(assigned)
    /\ mx' = "free"
    /\ callback' = NoCallback
    /\ UNCHANGED <<assigned, position, head, blocked, revocations, loopVars, pcVars>>

AutoCommit ==
    /\ committed' = [p \in Partitions |-> IF p \in assigned THEN head[p] ELSE committed[p]]
    /\ committed' # committed
    /\ UNCHANGED <<assigned, position, head, blocked, callback, revocations, loopVars,
                   mx, pcVars>>

(***************************************************************************)
(* Close and shutdownConsumerGracefully.                                   *)
(***************************************************************************)
Close ==
    /\ ~cancelled
    /\ cancelled' = TRUE
    /\ UNCHANGED <<kgoVars, loop, fetched, wg, mx, pcVars>>

ShutdownStop ==
    /\ loop = "stopping" /\ mx = "free"
    /\ mx' = "loop"
    /\ loop' = "draining"
    /\ StopAll(Partitions)
    /\ UNCHANGED <<kgoVars, fetched, wg, cancelled, current, processed>>

\* All consumers are done, or the deadline has passed: commits what was polled and
\* frees mx, and only then closes the client.
ShutdownKeepsLock ==
    /\ loop = "draining"
    /\ CommitPolled(assigned)
    /\ loop' = "closing"
    /\ UNCHANGED <<assigned, position, head, blocked, callback, revocations, fetched, wg,
                   mx, cancelled, pcVars>>

ShutdownCommit ==
    /\ loop = "draining"
    /\ CommitPolled(assigned)
    /\ mx' = "free"
    /\ loop' = "closing"
    /\ UNCHANGED <<assigned, position, head, blocked, callback, revocations, fetched, wg,
                   cancelled, pcVars>>

\* CloseAllowingRebalance leaves the group: everything still assigned is revoked.
LeaveGroup ==
    /\ loop = "closing" /\ assigned # {}
    /\ Announce("revoke", assigned)
    /\ UNCHANGED <<position, head, committed, blocked, revocations, loopVars, mx, pcVars>>

Exit ==
    /\ loop = "closing" /\ assigned = {} /\ callback.kind = "none"
    /\ loop' = "exited"
    /\ UNCHANGED <<kgoVars, fetched, wg, cancelled, mx, pcVars>>

-----------------------------------------------------------------------------
LoopNext ==
    PollCall \/ PollReturn \/ PollStop \/ Dispatch \/ AllowRebalance
        \/ ShutdownStop \/ ShutdownCommit \/ LeaveGroup \/ Exit

ConsumerNext(c) == TakeBatch(c) \/ ProcessRecord(c) \/ ConsumerDone(c)

CallbackNext ==
    \/ CallbackLock \/ AssignReturn \/ RevokeStop \/ RevokeReturn
    \/ \E p \in Partitions : Replace(p)

Next ==
    \/ LoopNext
    \/ \E c \in DOMAIN consumers : ConsumerNext(c)
    \/ CallbackNext
    \/ Rebalance \/ AutoCommit \/ Close

Spec == Init /\ [][Next]_vars

\* Goroutines run, polls return when there are records, and callbacks get mx;
\* nothing forces a rebalance, an auto-commit or Close.
MaxConsumers == (MaxRevocations + 1) * Cardinality(Partitions)

Fairness ==
    /\ WF_vars(LoopNext)
    /\ \A c \in 1 .. MaxConsumers : WF_vars(c \in DOMAIN consumers /\ ConsumerNext(c))
    /\ WF_vars(CallbackNext)

FairSpec == Spec /\ Fairness

-----------------------------------------------------------------------------
ConsumerRecord ==
    [part : Partitions, closing : BOOLEAN, done : BOOLEAN,
     queue : Seq(SUBSET Offsets), groups : SUBSET SUBSET Offsets]

\* Types; the wait group, whose counter panics below zero, is among them.
TypeOK ==
    /\ assigned \subseteq Partitions
    /\ position \in [Partitions -> 0 .. LogLen]
    /\ head \in [Partitions -> 0 .. LogLen]
    /\ committed \in [Partitions -> 0 .. LogLen]
    /\ blocked \in BOOLEAN
    /\ callback \in [kind : {"none", "assign", "revoke", "lose"}, parts : SUBSET Partitions,
                     phase : {"none", "locking", "running", "stopping"}]
    /\ revocations \in 0 .. MaxRevocations
    /\ loop \in {"idle", "polling", "dispatching", "stopping", "draining", "closing",
                 "exited"}
    /\ fetched \subseteq [part : Partitions, batch : SUBSET Offsets]
    /\ wg \in Nat
    /\ mx \in {"free", "callback", "loop"}
    /\ cancelled \in BOOLEAN
    /\ consumers \in Seq(ConsumerRecord)
    /\ current \in [Partitions -> 0 .. Len(consumers)]
    /\ processed \in [Partitions -> SUBSET Offsets]

\* No record is lost: an offset is committed, by auto-commit, by a revocation or
\* by the shutdown, only when every record up to it was processed, although all
\* of these commit what was polled (consumer.go:194, 259).
CommittedProcessed ==
    \A p \in Partitions : 1 .. committed[p] \subseteq processed[p]

\* A polled partition always has a live consumer: the path for one that has none
\* (consumer.go:70, 94, 104) counts its records twice in consumingWg
\* (consumer.go:123, 136), and the poll loop would wait for ever.
ConsumerReady == \A f \in fetched : Live(f.part)

\* The records of a key, or of the partition, are processed in order, one at a
\* time, also across a loss and a new assignment of the partition.
SameOrder(p, o1, o2) == p \in OnePerPartition \/ Key(p, o1) = Key(p, o2)

InOrder ==
    \A c \in DOMAIN consumers : \A g \in consumers[c].groups :
        LET p == consumers[c].part IN
        \A x \in g : First(g, x) =>
            \A o \in 1 .. (x - 1) : SameOrder(p, o, x) => o \in processed[p]

\* Once Close was called the loop ends and the client is closed: the shutdown and
\* the callback that leaving the group provokes both need mx.
ShutdownEnds == cancelled ~> loop = "exited"

\* What is assigned for good is processed, unless Close was called.
AllProcessed ==
    \A p \in Partitions :
        <>[](p \in assigned /\ ~cancelled) => <>(processed[p] = Offsets)
=============================================================================
