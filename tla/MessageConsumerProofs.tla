------------------------ MODULE MessageConsumerProofs ------------------------
(***************************************************************************)
(* Proofs about MessageConsumer, for any partitions, keys, lengths of the  *)
(* log and numbers of revocations: nothing is committed that was not       *)
(* processed, a polled partition has a live consumer, and the records of a *)
(* key are processed in order.                                             *)
(***************************************************************************)
EXTENDS MessageConsumer, FiniteSetTheorems, SequenceTheorems, TLAPS

-----------------------------------------------------------------------------
(***************************************************************************)
(* The consumers. The one in the map for a partition is of that partition; *)
(* all others are done, and whoever is done holds no records.              *)
(***************************************************************************)
Empty(c) == consumers[c].queue = <<>> /\ consumers[c].groups = {}

OneConsumer ==
    /\ \A p \in Partitions : current[p] # 0 =>
          current[p] \in DOMAIN consumers /\ consumers[current[p]].part = p
    /\ \A c \in DOMAIN consumers :
          /\ c # current[consumers[c].part] => consumers[c].done
          /\ consumers[c].done => consumers[c].closing /\ Empty(c)

\* A consumer holds one batch at a time, in its channel or in groups.
OneBatch ==
    \A c \in DOMAIN consumers :
        /\ consumers[c].queue # <<>> =>
              /\ consumers[c].groups = {} /\ Head(consumers[c].queue) # {}
              /\ consumers[c].queue = <<Head(consumers[c].queue)>>
        /\ \A g, h \in consumers[c].groups : g # {} /\ (g # h => g \cap h = {})

Held(c) ==
    (UNION consumers[c].groups)
    \cup (IF consumers[c].queue = <<>> THEN {} ELSE Head(consumers[c].queue))

(***************************************************************************)
(* The wait group counts the records in flight.                            *)
(***************************************************************************)
InFlight == {r \in (DOMAIN consumers) \X Offsets : r[2] \in Held(r[1])}

Counted == IsFiniteSet(InFlight) /\ wg = Cardinality(InFlight)

\* Between polls nothing is in flight; between a poll and AllowRebalance there are no
\* callbacks.
Phases ==
    /\ loop # "dispatching" => fetched = {} /\ wg = 0
    /\ loop = "dispatching" => callback.kind = "none" /\ blocked
    /\ callback.kind = "none" <=> callback.phase = "none"

\* What was polled of assigned partitions, one batch of each, goes to consumers that have
\* nothing else to do.
Polled ==
    /\ \A f, g \in fetched : f.part = g.part => f = g
    /\ \A f \in fetched : /\ f.part \in assigned /\ f.batch # {}
                          /\ current[f.part] # 0 => Empty(current[f.part])

\* Until the shutdown every assigned partition has a live consumer.
AssignedLive ==
    /\ loop \in {"idle", "polling", "dispatching", "stopping"} => \A p \in assigned : Live(p)
    /\ callback.kind \in {"revoke", "lose"} => callback.parts \cap assigned = {}

(***************************************************************************)
(* What becomes of the records.                                            *)
(***************************************************************************)
Waiting(p) == {o \in Offsets : \E f \in fetched : f.part = p /\ o \in f.batch}
AtWork(p)  == IF current[p] = 0 THEN {} ELSE Held(current[p])

\* A record that was polled waits, is in flight, or was processed; those that may be
\* committed were processed.
NoneLost ==
    \A p \in Partitions :
        /\ 1 .. position[p] \subseteq processed[p] \cup AtWork(p) \cup Waiting(p)
        /\ 1 .. head[p] \subseteq processed[p]
        /\ 1 .. committed[p] \subseteq processed[p]

\* What precedes a record of a batch was processed or is in the batch; what precedes one
\* of a group, and has to, was processed or is in the group.
InTurn ==
    /\ \A f \in fetched : \A x \in f.batch : 1 .. x - 1 \subseteq processed[f.part] \cup f.batch
    /\ \A c \in DOMAIN consumers :
          LET p == consumers[c].part IN
          /\ consumers[c].queue # <<>> =>
                LET b == Head(consumers[c].queue) IN
                \A x \in b : 1 .. x - 1 \subseteq processed[p] \cup b
          /\ \A g \in consumers[c].groups : \A x \in g : \A o \in 1 .. x - 1 :
                SameOrder(p, o, x) => o \in processed[p] \cup g

IInv ==
    /\ TypeOK /\ OneConsumer /\ OneBatch /\ Counted /\ Phases /\ Polled /\ AssignedLive
    /\ NoneLost /\ InTurn

USE ConsumerAssumption

\* What runs are goroutines of partitions, with their flags and batches.
LEMMA ConsumersAreRecords ==
  ASSUME consumers \in Seq(ConsumerRecord), NEW c \in DOMAIN consumers
  PROVE  /\ consumers[c] \in ConsumerRecord
         /\ consumers[c].queue # <<>> => Head(consumers[c].queue) \in SUBSET Offsets
         /\ Held(c) \subseteq Offsets
<1>1. consumers[c] \in ConsumerRecord OBVIOUS
<1>2. consumers[c].queue # <<>> => Head(consumers[c].queue) \in SUBSET Offsets
  BY <1>1, HeadTailProperties DEF ConsumerRecord
<1>3. Held(c) \subseteq Offsets BY <1>1, <1>2 DEF ConsumerRecord, Held
<1>4. QED BY <1>1, <1>2, <1>3

\* A sequence without elements has no positions.
LEMMA EmptyDomain == ASSUME NEW S, NEW s \in Seq(S), Len(s) = 0 PROVE DOMAIN s = {}
<1>1. DOMAIN s = 1 .. 0 OBVIOUS
<1>2. QED BY <1>1

\* Nothing is polled, committed or processed at first.
LEMMA IInit == Init => IInv
<1> SUFFICES ASSUME Init PROVE IInv OBVIOUS
<1> USE DEF Init, NoCallback
<1>1. TypeOK
  <2>1. consumers \in Seq(ConsumerRecord) /\ Len(consumers) = 0 OBVIOUS
  <2>2. /\ position \in [Partitions -> 0 .. LogLen] /\ head \in [Partitions -> 0 .. LogLen]
        /\ committed \in [Partitions -> 0 .. LogLen] /\ revocations \in 0 .. MaxRevocations
    OBVIOUS
  <2>3. current \in [Partitions -> 0 .. Len(consumers)] BY <2>1
  <2>4. callback.kind = "none" /\ callback.parts = {} /\ callback.phase = "none" OBVIOUS
  <2>5. processed \in [Partitions -> SUBSET Offsets] OBVIOUS
  <2>6. QED BY <2>1, <2>2, <2>3, <2>4, <2>5 DEF TypeOK
<1>2. InFlight = {}
  <2>1. DOMAIN consumers = {}
    <3>1. consumers \in Seq(ConsumerRecord) /\ Len(consumers) = 0 OBVIOUS
    <3>2. QED BY <3>1, EmptyDomain
  <2>2. InFlight \subseteq (DOMAIN consumers) \X Offsets BY DEF InFlight
  <2>3. QED BY <2>1, <2>2
<1>3. Counted BY <1>2, FS_EmptySet DEF Counted
<1>4. NoneLost BY DEF NoneLost
<1>5. QED BY <1>1, <1>3, <1>4 DEF IInv, OneConsumer, OneBatch, Phases, Polled, AssignedLive, InTurn

(***************************************************************************)
(* Steps that leave the consumers alone.                                   *)
(***************************************************************************)

\* They leave what the consumers hold.
LEMMA SameFlight ==
  ASSUME DOMAIN consumers' = DOMAIN consumers,
         \A c \in DOMAIN consumers : /\ consumers'[c].queue = consumers[c].queue
                                     /\ consumers'[c].groups = consumers[c].groups
  PROVE  /\ InFlight' = InFlight
         /\ \A c \in DOMAIN consumers : Held(c)' = Held(c)
BY DEF InFlight, Held

\* When nothing is in flight, what was polled was processed.
LEMMA NothingInFlight ==
  ASSUME IInv, wg = 0
  PROVE  /\ InFlight = {}
         /\ \A c \in DOMAIN consumers : Empty(c)
         /\ fetched = {} => \A p \in Partitions : 1 .. position[p] \subseteq processed[p]
<1>1. InFlight = {} BY FS_EmptySet DEF IInv, Counted
<1>2. ASSUME NEW c \in DOMAIN consumers PROVE Held(c) = {}
  <2>1. Held(c) \subseteq Offsets BY ConsumersAreRecords DEF IInv, TypeOK
  <2>2. ASSUME NEW o \in Held(c) PROVE FALSE
    <3>1. <<c, o>> \in InFlight BY <2>1 DEF InFlight
    <3>2. QED BY <1>1, <3>1
  <2>3. QED BY <2>2
<1>3. ASSUME NEW c \in DOMAIN consumers PROVE Empty(c)
  <2>1. Held(c) = {} BY <1>2
  <2>2. consumers[c].groups = {} BY <2>1 DEF IInv, OneBatch, Held
  <2>3. consumers[c].queue = <<>> BY <2>1 DEF IInv, OneBatch, Held
  <2>4. QED BY <2>2, <2>3 DEF Empty
<1>4. ASSUME fetched = {}, NEW p \in Partitions PROVE 1 .. position[p] \subseteq processed[p]
  <2>1. Waiting(p) = {} BY <1>4 DEF Waiting
  <2>2. AtWork(p) = {} BY <1>2 DEF IInv, OneConsumer, AtWork
  <2>3. QED BY <2>1, <2>2 DEF IInv, NoneLost
<1>5. QED BY <1>1, <1>3, <1>4

\* They keep what the invariant says of the consumers and their records.
LEMMA ConsumersRest ==
  ASSUME IInv, UNCHANGED <<pcVars, fetched, wg>>
  PROVE  /\ OneConsumer' /\ OneBatch' /\ Counted' /\ InTurn'
         /\ \A p \in Partitions : /\ Live(p)' = Live(p) /\ AtWork(p)' = AtWork(p)
                                  /\ Waiting(p)' = Waiting(p)
         /\ \A c \in DOMAIN consumers : Empty(c)' = Empty(c)
<1> USE DEF pcVars
<1>1. OneConsumer' BY DEF IInv, OneConsumer, Empty
<1>2. OneBatch' BY DEF IInv, OneBatch
<1>3. Counted' BY DEF IInv, Counted, InFlight, Held
<1>4. InTurn' BY DEF IInv, InTurn
<1>5. ASSUME NEW p \in Partitions
      PROVE  Live(p)' = Live(p) /\ AtWork(p)' = AtWork(p) /\ Waiting(p)' = Waiting(p)
  BY DEF Live, AtWork, Waiting, Held
<1>6. QED BY <1>1, <1>2, <1>3, <1>4, <1>5 DEF Empty

\* The poll loop, between dispatches, and Close.
LEMMA LoopKeeps ==
  ASSUME IInv, PollCall \/ PollStop \/ AllowRebalance \/ ShutdownCommit \/ Exit \/ Close
  PROVE  IInv'
<1>1. UNCHANGED <<pcVars, fetched, wg>>
  BY DEF PollCall, PollStop, AllowRebalance, ShutdownCommit, Exit, Close
<1>2. UNCHANGED <<assigned, position, callback>>
  BY DEF PollCall, PollStop, AllowRebalance, ShutdownCommit, Exit, Close, kgoVars
<1> USE ConsumersRest
<1>3. TypeOK'
  BY <1>1, <1>2 DEF IInv, TypeOK, pcVars, kgoVars, PollCall, PollStop, AllowRebalance,
                    ShutdownCommit, Exit, Close, CommitPolled
<1>4. Phases'
  BY <1>1, <1>2 DEF IInv, Phases, kgoVars, PollCall, PollStop, AllowRebalance,
                    ShutdownCommit, Exit, Close
<1>5. Polled' BY <1>1, <1>2 DEF IInv, Polled, Empty, pcVars
<1>6. AssignedLive'
  <2>1. \A p \in assigned : Live(p)' = Live(p) BY <1>1 DEF IInv, TypeOK
  <2>2. loop' \in {"idle", "polling", "dispatching", "stopping"} =>
          loop \in {"idle", "polling", "dispatching", "stopping"}
    BY DEF PollCall, PollStop, AllowRebalance, ShutdownCommit, Exit, Close
  <2>3. QED BY <1>2, <2>1, <2>2 DEF IInv, AssignedLive
<1>7. NoneLost'
  <2>1. CASE PollCall
    <3>1. wg = 0 /\ fetched = {} BY <2>1 DEF PollCall, IInv, Phases
    <3>2. \A p \in Partitions : 1 .. position[p] \subseteq processed[p]
      BY <3>1, NothingInFlight
    <3>3. QED BY <1>1, <1>2, <2>1, <3>2 DEF PollCall, IInv, NoneLost, pcVars
  <2>2. CASE ShutdownCommit
    <3>1. wg = 0 /\ fetched = {} BY <2>2 DEF ShutdownCommit, IInv, Phases
    <3>2. \A p \in Partitions : 1 .. position[p] \subseteq processed[p]
      BY <3>1, NothingInFlight
    <3>3. QED BY <1>1, <1>2, <2>2, <3>2 DEF ShutdownCommit, CommitPolled, IInv, NoneLost, pcVars
  <2>3. CASE UNCHANGED <<head, committed>>
    BY <1>1, <1>2, <2>3 DEF IInv, NoneLost, pcVars
  <2>4. QED BY <2>1, <2>2, <2>3 DEF PollStop, AllowRebalance, Exit, Close, kgoVars
<1>8. QED BY <1>1, <1>3, <1>4, <1>5, <1>6, <1>7 DEF IInv

\* Rebalances: what is announced, and callbacks that do not touch consumers.
LEMMA CallbackKeeps ==
  ASSUME IInv, Rebalance \/ LeaveGroup \/ CallbackLock \/ AssignReturn \/ RevokeReturn \/ AutoCommit
  PROVE  IInv'
<1>1. UNCHANGED <<pcVars, fetched, wg, loop>>
  BY DEF Rebalance, LeaveGroup, CallbackLock, AssignReturn, RevokeReturn, AutoCommit, loopVars
<1> USE ConsumersRest
<1>2. TypeOK'
  <2>1. CASE Rebalance \/ LeaveGroup
    BY <1>1, <2>1 DEF IInv, TypeOK, pcVars, loopVars, Rebalance, LeaveGroup, Announce
  <2>2. CASE CallbackLock
    BY <1>1, <2>2 DEF IInv, TypeOK, pcVars, loopVars, CallbackLock
  <2>3. CASE AssignReturn
    <3>1. NoCallback \in [kind : {"none", "assign", "revoke", "lose"}, parts : SUBSET Partitions,
                          phase : {"none", "locking", "running", "stopping"}]
      BY DEF NoCallback
    <3>2. position' \in [Partitions -> 0 .. LogLen] /\ head' \in [Partitions -> 0 .. LogLen]
      BY <2>3 DEF AssignReturn, IInv, TypeOK
    <3>3. assigned' \subseteq Partitions BY <2>3 DEF AssignReturn, IInv, TypeOK
    <3>4. QED
      BY <1>1, <2>3, <3>1, <3>2, <3>3 DEF AssignReturn, IInv, TypeOK, pcVars, loopVars
  <2>4. CASE RevokeReturn
    <3>1. NoCallback \in [kind : {"none", "assign", "revoke", "lose"}, parts : SUBSET Partitions,
                          phase : {"none", "locking", "running", "stopping"}]
      BY DEF NoCallback
    <3>2. committed' \in [Partitions -> 0 .. LogLen]
      BY <2>4 DEF RevokeReturn, CommitPolled, IInv, TypeOK
    <3>3. QED BY <1>1, <2>4, <3>1, <3>2 DEF RevokeReturn, IInv, TypeOK, pcVars, loopVars
  <2>5. CASE AutoCommit
    BY <1>1, <2>5 DEF IInv, TypeOK, pcVars, loopVars, AutoCommit
  <2>6. QED BY <2>1, <2>2, <2>3, <2>4, <2>5
<1>3. Phases'
  <2>1. CASE Rebalance \/ LeaveGroup
    BY <1>1, <2>1 DEF IInv, Phases, Rebalance, LeaveGroup, Announce
  <2>2. CASE CallbackLock
    BY <1>1, <2>2 DEF IInv, TypeOK, Phases, CallbackLock
  <2>3. CASE AssignReturn \/ RevokeReturn
    BY <1>1, <2>3 DEF IInv, Phases, AssignReturn, RevokeReturn, NoCallback
  <2>4. CASE AutoCommit BY <1>1, <2>4 DEF IInv, Phases, AutoCommit
  <2>5. QED BY <2>1, <2>2, <2>3, <2>4
<1>4. Polled'
  <2>1. fetched = {} \/ assigned' = assigned
    BY DEF IInv, Phases, Rebalance, LeaveGroup, Announce, CallbackLock, AssignReturn,
           RevokeReturn, AutoCommit
  <2>2. QED BY <1>1, <2>1 DEF IInv, Polled, Empty, pcVars
<1>5. AssignedLive'
  <2>1. \A p \in Partitions : Live(p)' = Live(p) BY <1>1
  <2>2. CASE AssignReturn
    <3>1. \A p \in callback.parts : Live(p) BY <2>2 DEF AssignReturn, NeedsConsumer
    <3>2. QED
      BY <1>1, <2>1, <2>2, <3>1 DEF AssignReturn, IInv, TypeOK, AssignedLive, NoCallback
  <2>3. CASE ~AssignReturn
    BY <1>1, <2>1, <2>3 DEF IInv, TypeOK, AssignedLive, Rebalance, LeaveGroup, Announce,
                            CallbackLock, RevokeReturn, AutoCommit, NoCallback
  <2>4. QED BY <2>2, <2>3
<1>6. NoneLost'
  <2>1. CASE AssignReturn
    BY <1>1, <2>1 DEF AssignReturn, IInv, TypeOK, NoneLost, pcVars
  <2>2. CASE RevokeReturn
    <3>1. wg = 0 /\ fetched = {} BY <2>2 DEF RevokeReturn, IInv, Phases
    <3>2. \A p \in Partitions : 1 .. position[p] \subseteq processed[p]
      BY <3>1, NothingInFlight
    <3>3. QED BY <1>1, <2>2, <3>2 DEF RevokeReturn, CommitPolled, IInv, NoneLost, pcVars
  <2>3. CASE AutoCommit
    BY <1>1, <2>3 DEF AutoCommit, IInv, NoneLost, pcVars
  <2>4. CASE UNCHANGED <<position, head, committed>>
    BY <1>1, <2>4 DEF IInv, NoneLost, pcVars
  <2>5. QED BY <2>1, <2>2, <2>3, <2>4 DEF Rebalance, LeaveGroup, CallbackLock
<1>7. QED BY <1>1, <1>2, <1>3, <1>4, <1>5, <1>6 DEF IInv

\* A poll returns records that follow those that were polled before, all of which are
\* processed.
LEMMA PollKeeps == ASSUME IInv, PollReturn PROVE IInv'
<1> DEFINE end(p, n) == IF position[p] + n < LogLen THEN position[p] + n ELSE LogLen
<1>1. PICK ps \in SUBSET {p \in assigned : position[p] < LogLen}, n \in 1 .. MaxPoll :
        /\ fetched' = {[part |-> p, batch |-> position[p] + 1 .. end(p, n)] : p \in ps}
        /\ position' = [p \in Partitions |-> IF p \in ps THEN end(p, n) ELSE position[p]]
  BY DEF PollReturn
<1>2. /\ loop = "polling" /\ loop' = "dispatching" /\ callback.kind = "none" /\ blocked' = TRUE
      /\ UNCHANGED <<assigned, head, committed, callback, revocations, wg, mx, cancelled, pcVars>>
  BY DEF PollReturn
<1>3. wg = 0 /\ fetched = {} BY <1>2 DEF IInv, Phases
<1>4. /\ \A c \in DOMAIN consumers : Empty(c)
      /\ \A p \in Partitions : 1 .. position[p] \subseteq processed[p]
  BY <1>3, NothingInFlight
<1>5. \A p \in ps : /\ p \in assigned /\ p \in Partitions /\ position[p] \in 0 .. LogLen - 1
                    /\ end(p, n) \in position[p] + 1 .. LogLen
  BY <1>1 DEF IInv, TypeOK
<1> HIDE DEF end
<1>6. TypeOK'
  <2>1. fetched' \subseteq [part : Partitions, batch : SUBSET Offsets]
    BY <1>1, <1>5 DEF Offsets
  <2>2. position' \in [Partitions -> 0 .. LogLen] BY <1>1, <1>5 DEF IInv, TypeOK
  <2>3. QED BY <1>2, <2>1, <2>2 DEF IInv, TypeOK, pcVars
<1>7. OneConsumer' /\ OneBatch' BY <1>2 DEF IInv, OneConsumer, OneBatch, Empty, pcVars
<1>8. Counted' BY <1>2 DEF IInv, Counted, InFlight, Held, pcVars
<1>9. Phases' BY <1>2 DEF IInv, Phases
<1>10. Polled'
  <2>1. \A f, g \in fetched' : f.part = g.part => f = g BY <1>1
  <2>2. ASSUME NEW f \in fetched' PROVE f.part \in assigned' /\ f.batch # {}
    <3>1. PICK p \in ps : f = [part |-> p, batch |-> position[p] + 1 .. end(p, n)] BY <1>1
    <3>2. end(p, n) \in f.batch BY <1>5, <3>1
    <3>3. QED BY <1>2, <1>5, <3>1, <3>2
  <2>3. \A f \in fetched' : current'[f.part] # 0 => Empty(current[f.part])'
    BY <1>1, <1>2, <1>4, <1>5 DEF IInv, OneConsumer, Empty, pcVars
  <2>4. QED BY <2>1, <2>2, <2>3 DEF Polled
<1>11. AssignedLive' BY <1>2 DEF IInv, AssignedLive, Live, pcVars
<1>12. NoneLost'
  <2>1. ASSUME NEW p \in Partitions
        PROVE  1 .. position'[p] \subseteq processed'[p] \cup AtWork(p)' \cup Waiting(p)'
    <3>1. CASE p \notin ps BY <1>1, <1>2, <1>4, <3>1 DEF pcVars
    <3>2. CASE p \in ps
      <4>1. [part |-> p, batch |-> position[p] + 1 .. end(p, n)] \in fetched' BY <1>1, <3>2
      <4>2. position[p] + 1 .. end(p, n) \subseteq Waiting(p)'
        BY <1>5, <3>2, <4>1 DEF Waiting, Offsets
      <4>3. position'[p] = end(p, n) BY <1>1, <3>2
      <4>4. 1 .. position[p] \subseteq processed'[p] BY <1>2, <1>4 DEF pcVars
      <4>5. QED BY <1>5, <3>2, <4>2, <4>3, <4>4
    <3>3. QED BY <3>1, <3>2
  <2>2. QED BY <1>2, <2>1 DEF IInv, NoneLost, pcVars
<1>13. InTurn'
  <2>1. ASSUME NEW f \in fetched', NEW x \in f.batch
        PROVE  1 .. x - 1 \subseteq processed'[f.part] \cup f.batch
    <3>1. PICK p \in ps : f = [part |-> p, batch |-> position[p] + 1 .. end(p, n)]
      BY <1>1
    <3>2. 1 .. position[p] \subseteq processed'[p] BY <1>2, <1>4, <1>5 DEF pcVars
    <3>3. QED BY <1>5, <3>1, <3>2
  <2>2. QED BY <1>2, <2>1 DEF IInv, InTurn, pcVars
<1>14. QED BY <1>6, <1>7, <1>8, <1>9, <1>10, <1>11, <1>12, <1>13 DEF IInv

-----------------------------------------------------------------------------
(***************************************************************************)
(* Steps of consumers, and those that stop or replace them.                *)
(***************************************************************************)

\* Flags say nothing of records.
LEMMA FlagsOnly ==
  ASSUME IInv, DOMAIN consumers' = DOMAIN consumers,
         \A c \in DOMAIN consumers : /\ consumers'[c].part = consumers[c].part
                                     /\ consumers'[c].queue = consumers[c].queue
                                     /\ consumers'[c].groups = consumers[c].groups,
         UNCHANGED <<current, processed, fetched, wg, assigned, position, head, committed>>
  PROVE  OneBatch' /\ Counted' /\ Polled' /\ NoneLost' /\ InTurn'
<1>1. InFlight' = InFlight BY SameFlight
<1>2. OneBatch' BY DEF IInv, OneBatch
<1>3. Counted' BY <1>1 DEF IInv, Counted
<1>4. \A p \in Partitions : current[p] # 0 => current[p] \in DOMAIN consumers
  BY DEF IInv, OneConsumer
<1>5. Polled' BY <1>4 DEF IInv, TypeOK, Polled, Empty
<1>6. \A p \in Partitions : AtWork(p)' = AtWork(p) /\ Waiting(p)' = Waiting(p)
  BY <1>4, SameFlight DEF AtWork, Waiting
<1>7. NoneLost' BY <1>6 DEF IInv, NoneLost
<1>8. InTurn' BY DEF IInv, InTurn
<1>9. QED BY <1>2, <1>3, <1>5, <1>7, <1>8

\* A consumer that ends has nothing left to do.
LEMMA DoneKeeps == ASSUME IInv, NEW c \in DOMAIN consumers, ConsumerDone(c) PROVE IInv'
<1> USE DEF ConsumerDone
<1>1. UNCHANGED <<kgoVars, loopVars, mx, current, processed>> OBVIOUS
<1>2. consumers[c] \in ConsumerRecord /\ consumers \in Seq(ConsumerRecord)
  BY ConsumersAreRecords DEF IInv, TypeOK
<1>3. [consumers[c] EXCEPT !.done = TRUE] \in ConsumerRecord BY <1>2 DEF ConsumerRecord
<1>4. /\ consumers' \in Seq(ConsumerRecord) /\ Len(consumers') = Len(consumers)
      /\ \A d \in DOMAIN consumers :
            consumers'[d] = IF d = c THEN [consumers[c] EXCEPT !.done = TRUE] ELSE consumers[d]
  BY <1>2, <1>3, ExceptSeq
<1>5. DOMAIN consumers' = DOMAIN consumers BY <1>2, <1>4
<1>6. \A d \in DOMAIN consumers :
        /\ consumers'[d].part = consumers[d].part /\ consumers'[d].queue = consumers[d].queue
        /\ consumers'[d].groups = consumers[d].groups
        /\ consumers'[d].closing = consumers[d].closing
  BY <1>2, <1>4 DEF ConsumerRecord
<1>7. TypeOK' BY <1>1, <1>4 DEF IInv, TypeOK, kgoVars, loopVars
<1>8. OneConsumer'
  <2>1. \A d \in DOMAIN consumers : d # c => consumers'[d] = consumers[d] BY <1>4
  <2>2. consumers'[c].done BY <1>2, <1>4 DEF ConsumerRecord
  <2>3. consumers[c].closing /\ Empty(c) BY DEF Empty
  <2>4. QED BY <1>1, <1>5, <1>6, <2>1, <2>2, <2>3 DEF IInv, OneConsumer, Empty
<1>9. Phases' BY <1>1 DEF IInv, Phases, kgoVars, loopVars
<1>10. AssignedLive'
  BY <1>1, <1>6 DEF IInv, TypeOK, OneConsumer, AssignedLive, Live, kgoVars, loopVars
<1>11. QED BY <1>1, <1>5, <1>6, <1>7, <1>8, <1>9, <1>10, FlagsOnly DEF IInv, kgoVars, loopVars

\* Consumers that are stopped are closing, and otherwise as they were.
LEMMA StopKeeps ==
  ASSUME IInv, RevokeStop \/ ShutdownStop
  PROVE  IInv'
<1>1. PICK ps \in SUBSET Partitions :
        /\ StopAll(ps)
        /\ RevokeStop => ps = callback.parts
  BY DEF RevokeStop, ShutdownStop, IInv, TypeOK
<1>2. UNCHANGED <<current, processed, fetched, wg, assigned, position, head, committed>>
  BY DEF RevokeStop, ShutdownStop, kgoVars, loopVars
<1>3. consumers \in Seq(ConsumerRecord) BY DEF IInv, TypeOK
<1>4. \A c \in DOMAIN consumers :
        /\ consumers'[c] \in ConsumerRecord
        /\ consumers'[c].part = consumers[c].part /\ consumers'[c].queue = consumers[c].queue
        /\ consumers'[c].groups = consumers[c].groups
        /\ consumers'[c].done = consumers[c].done
        /\ consumers[c].closing => consumers'[c].closing
        /\ (\A q \in ps : current[q] # c) => consumers'[c].closing = consumers[c].closing
  BY <1>1, <1>3, ConsumersAreRecords DEF StopAll, ConsumerRecord
<1>5. DOMAIN consumers' = DOMAIN consumers /\ consumers' \in Seq(ConsumerRecord)
      /\ Len(consumers') = Len(consumers)
  <2>1. DOMAIN consumers' = 1 .. Len(consumers) /\ DOMAIN consumers = 1 .. Len(consumers)
    BY <1>1, <1>3 DEF StopAll
  <2>2. consumers' = [c \in 1 .. Len(consumers) |-> consumers'[c]] BY <1>1, <2>1 DEF StopAll
  <2>3. consumers' \in [1 .. Len(consumers) -> ConsumerRecord] BY <1>4, <2>1, <2>2
  <2>4. Len(consumers) \in Nat BY <1>3
  <2>5. QED BY <2>1, <2>3, <2>4
<1>6. TypeOK'
  <2>1. CASE RevokeStop BY <1>2, <1>5, <2>1 DEF RevokeStop, IInv, TypeOK, loopVars
  <2>2. CASE ShutdownStop BY <1>2, <1>5, <2>2 DEF ShutdownStop, IInv, TypeOK, kgoVars
  <2>3. QED BY <2>1, <2>2
<1>7. OneConsumer' BY <1>2, <1>4, <1>5 DEF IInv, OneConsumer, Empty
<1>8. Phases'
  <2>1. CASE RevokeStop BY <1>2, <2>1 DEF RevokeStop, IInv, TypeOK, Phases, loopVars
  <2>2. CASE ShutdownStop BY <1>2, <2>2 DEF ShutdownStop, IInv, Phases, kgoVars
  <2>3. QED BY <2>1, <2>2
<1>9. AssignedLive'
  <2>1. CASE RevokeStop
    <3>1. callback'.kind = callback.kind /\ callback'.parts = callback.parts /\ loop' = loop
          /\ callback.kind \in {"revoke", "lose"}
      BY <2>1 DEF RevokeStop, IInv, TypeOK, loopVars
    <3>2. ASSUME NEW p \in assigned, Live(p) PROVE Live(p)'
      <4>1. p \in Partitions /\ p \notin ps
        BY <1>1, <2>1, <3>1 DEF IInv, TypeOK, AssignedLive
      <4>2. current[p] # 0 /\ ~consumers[current[p]].closing BY <3>2 DEF Live
      <4>3. current[p] \in DOMAIN consumers /\ \A q \in ps : current[q] # current[p]
        BY <4>1, <4>2 DEF IInv, OneConsumer
      <4>4. QED BY <1>2, <1>4, <4>2, <4>3 DEF Live
    <3>3. QED BY <1>2, <3>1, <3>2 DEF IInv, AssignedLive
  <2>2. CASE ShutdownStop BY <1>2, <2>2 DEF ShutdownStop, IInv, AssignedLive, kgoVars
  <2>3. QED BY <2>1, <2>2
<1>10. QED BY <1>2, <1>4, <1>5, <1>6, <1>7, <1>8, <1>9, FlagsOnly DEF IInv

\* A new consumer has nothing to do, and when there is one nobody else has.
LEMMA ReplaceKeeps == ASSUME IInv, NEW p \in Partitions, Replace(p) PROVE IInv'
<1> DEFINE new == [part |-> p, closing |-> FALSE, done |-> FALSE, queue |-> <<>>, groups |-> {}]
           n == Len(consumers) + 1
<1>1. /\ consumers' = Append(consumers, new) /\ current' = [current EXCEPT ![p] = n]
      /\ UNCHANGED <<kgoVars, loopVars, mx, processed>>
      /\ callback.kind = "assign" /\ Finished({p})
  BY DEF Replace
<1>2. consumers \in Seq(ConsumerRecord) /\ current \in [Partitions -> 0 .. Len(consumers)]
  BY DEF IInv, TypeOK
<1>3. new \in ConsumerRecord BY DEF ConsumerRecord
<1>4. /\ consumers' \in Seq(ConsumerRecord) /\ Len(consumers') = n /\ consumers'[n] = new
      /\ \A c \in 1 .. Len(consumers) : consumers'[c] = consumers[c]
  BY <1>1, <1>2, <1>3, AppendProperties
<1>5. /\ DOMAIN consumers = 1 .. Len(consumers) /\ Len(consumers) \in Nat
      /\ DOMAIN consumers' = DOMAIN consumers \cup {n} /\ n \notin DOMAIN consumers
  BY <1>2, <1>4
<1> HIDE DEF n
<1>6. wg = 0 /\ fetched = {} BY <1>1 DEF IInv, Phases
<1>7. \A c \in DOMAIN consumers' : Empty(c)'
  <2>1. \A c \in DOMAIN consumers : Empty(c) BY <1>6, NothingInFlight
  <2>2. QED BY <1>4, <1>5, <2>1 DEF Empty
<1>8. TypeOK'
  <2>1. current' \in [Partitions -> 0 .. Len(consumers')] BY <1>1, <1>2, <1>4, <1>5 DEF n
  <2>2. QED BY <1>1, <1>4, <2>1 DEF IInv, TypeOK, kgoVars, loopVars
<1>9. OneConsumer'
  <2>1. ASSUME NEW q \in Partitions, current'[q] # 0
        PROVE  current'[q] \in DOMAIN consumers' /\ consumers'[current'[q]].part = q
    <3>1. CASE q = p BY <1>1, <1>2, <1>4, <1>5, <3>1
    <3>2. CASE q # p
      <4>1. current'[q] = current[q] BY <1>1, <1>2, <3>2
      <4>2. current[q] \in DOMAIN consumers /\ consumers[current[q]].part = q
        BY <2>1, <4>1 DEF IInv, OneConsumer
      <4>3. QED BY <1>4, <1>5, <4>1, <4>2
    <3>3. QED BY <3>1, <3>2
  <2>2. ASSUME NEW c \in DOMAIN consumers', c # current'[consumers'[c].part]
        PROVE  consumers'[c].done
    <3>1. c # n BY <1>1, <1>2, <1>4, <2>2
    <3>2. c \in DOMAIN consumers /\ consumers'[c] = consumers[c] BY <1>4, <1>5, <3>1
    <3>3. CASE c = current[p] BY <1>1, <1>5, <3>2, <3>3 DEF Finished
    <3>4. CASE c # current[p]
      <4>1. consumers[c].part \in Partitions
        BY <1>2, <3>2, ConsumersAreRecords DEF ConsumerRecord
      <4>2. c # current[consumers[c].part] BY <1>1, <1>2, <2>2, <3>2, <3>4, <4>1
      <4>3. QED BY <3>2, <4>2 DEF IInv, OneConsumer
    <3>5. QED BY <3>3, <3>4
  <2>3. ASSUME NEW c \in DOMAIN consumers', consumers'[c].done PROVE consumers'[c].closing
    <3>1. c # n BY <1>4, <2>3
    <3>2. QED BY <1>4, <1>5, <2>3, <3>1 DEF IInv, OneConsumer
  <2>4. QED BY <1>7, <2>1, <2>2, <2>3 DEF OneConsumer
<1>10. OneBatch' BY <1>7 DEF OneBatch, Empty
<1>11. \A c \in DOMAIN consumers' : Held(c)' = {} BY <1>7 DEF Held, Empty
<1>12. Counted'
  <2>1. InFlight' = {} BY <1>11 DEF InFlight
  <2>2. QED BY <1>1, <1>6, <2>1, FS_EmptySet DEF Counted, loopVars
<1>13. Phases' BY <1>1 DEF IInv, Phases, kgoVars, loopVars
<1>14. Polled' BY <1>1, <1>6 DEF Polled, loopVars
<1>15. AssignedLive'
  <2>1. ASSUME NEW q \in Partitions, Live(q) PROVE Live(q)'
    <3>1. CASE q = p BY <1>1, <1>2, <1>4, <1>5, <3>1 DEF Live
    <3>2. CASE q # p
      <4>1. current[q] \in DOMAIN consumers BY <2>1 DEF IInv, OneConsumer, Live
      <4>2. QED BY <1>1, <1>2, <1>4, <1>5, <2>1, <3>2, <4>1 DEF Live
    <3>3. QED BY <3>1, <3>2
  <2>2. QED BY <1>1, <2>1 DEF IInv, TypeOK, AssignedLive, kgoVars, loopVars
<1>16. NoneLost'
  <2>1. \A q \in Partitions : 1 .. position[q] \subseteq processed[q]
    BY <1>6, NothingInFlight
  <2>2. QED BY <1>1, <2>1 DEF IInv, NoneLost, kgoVars
<1>17. InTurn' BY <1>1, <1>6, <1>7 DEF InTurn, Empty, loopVars
<1>18. QED BY <1>8, <1>9, <1>10, <1>12, <1>13, <1>14, <1>15, <1>16, <1>17 DEF IInv

\* Another consumer at work.
LEMMA SetConsumer ==
  ASSUME IInv, NEW c \in DOMAIN consumers, NEW e \in ConsumerRecord,
         consumers' = [consumers EXCEPT ![c] = e]
  PROVE  /\ consumers' \in Seq(ConsumerRecord) /\ Len(consumers') = Len(consumers)
         /\ DOMAIN consumers' = DOMAIN consumers
         /\ consumers'[c] = e
         /\ \A d \in DOMAIN consumers : d # c => consumers'[d] = consumers[d]
<1>1. consumers \in Seq(ConsumerRecord) BY DEF IInv, TypeOK
<1>2. c \in 1 .. Len(consumers) BY <1>1
<1>3. QED BY <1>1, <1>2, ExceptSeq

\* A batch goes to a consumer that has nothing else to do.
LEMMA DispatchKeeps == ASSUME IInv, Dispatch PROVE IInv'
<1>1. PICK f \in fetched :
        /\ loop = "dispatching" /\ Live(f.part)
        /\ consumers' = [consumers EXCEPT ![current[f.part]].queue = Append(@, f.batch)]
        /\ wg' = wg + Cardinality(f.batch)
        /\ fetched' = fetched \ {f}
        /\ UNCHANGED <<kgoVars, loop, mx, cancelled, current, processed>>
  BY DEF Dispatch, DispatchCounting
<1>2. f \in [part : Partitions, batch : SUBSET Offsets] BY DEF IInv, TypeOK
<1>3. PICK c \in DOMAIN consumers :
        c = current[f.part] /\ c # 0 /\ ~consumers[c].closing /\ consumers[c].part = f.part
  BY <1>1, <1>2 DEF Live, IInv, OneConsumer
<1> DEFINE e == [consumers[c] EXCEPT !.queue = <<f.batch>>]
<1>4. f.batch # {} /\ Empty(c) /\ f.part \in assigned BY <1>3 DEF IInv, Polled
<1>5. consumers[c] \in ConsumerRecord BY <1>3, ConsumersAreRecords DEF IInv, TypeOK
<1>6. Append(consumers[c].queue, f.batch) = <<f.batch>>
  BY <1>4, <1>5 DEF Empty, ConsumerRecord
<1>7. consumers' = [consumers EXCEPT ![c] = e] BY <1>1, <1>3, <1>6
<1>8. e \in ConsumerRecord
  <2>1. <<f.batch>> \in Seq(SUBSET Offsets) BY <1>2
  <2>2. QED BY <1>5, <2>1 DEF ConsumerRecord
<1>9. /\ consumers' \in Seq(ConsumerRecord) /\ Len(consumers') = Len(consumers)
      /\ DOMAIN consumers' = DOMAIN consumers /\ consumers'[c] = e
      /\ \A d \in DOMAIN consumers : d # c => consumers'[d] = consumers[d]
  BY <1>3, <1>7, <1>8, SetConsumer
<1>10. /\ e.part = f.part /\ e.closing = consumers[c].closing /\ e.done = consumers[c].done
       /\ e.queue = <<f.batch>> /\ e.queue # <<>> /\ Head(e.queue) = f.batch /\ e.groups = {}
  BY <1>3, <1>4, <1>5 DEF ConsumerRecord, Empty
<1> HIDE DEF e
<1>11. Held(c) = {} /\ Held(c)' = f.batch /\ \A d \in DOMAIN consumers : d # c => Held(d)' = Held(d)
  <2>1. Held(c) = {} BY <1>4 DEF Held, Empty
  <2>2. Held(c)' = f.batch
    <3>1. Held(c)' = (UNION e.groups) \cup (IF e.queue = <<>> THEN {} ELSE Head(e.queue))
      BY <1>9 DEF Held
    <3>2. QED BY <1>10, <3>1
  <2>3. \A d \in DOMAIN consumers : d # c => Held(d)' = Held(d) BY <1>9 DEF Held
  <2>4. QED BY <2>1, <2>2, <2>3
<1>12. Counted'
  <2> DEFINE more == {c} \X f.batch
  <2>1. IsFiniteSet(f.batch)
    <3>1. IsFiniteSet(Offsets) BY FS_Interval DEF Offsets
    <3>2. QED BY <1>2, <3>1, FS_Subset
  <2>2. IsFiniteSet(more) /\ Cardinality(more) = Cardinality(f.batch)
    <3>1. IsFiniteSet({c}) /\ Cardinality({c}) = 1 BY FS_Singleton
    <3>2. Cardinality(f.batch) \in Nat BY <2>1, FS_CardinalityType
    <3>3. QED BY <2>1, <3>1, <3>2, FS_Product
  <2>3. InFlight' = InFlight \cup more
    <3>1. \A d \in DOMAIN consumers, o \in Offsets :
            o \in Held(d)' <=> o \in Held(d) \/ (d = c /\ o \in f.batch)
      BY <1>11
    <3>2. InFlight' = {x \in (DOMAIN consumers) \X Offsets : x[2] \in Held(x[1])'}
      BY <1>9 DEF InFlight
    <3>3. more = {x \in (DOMAIN consumers) \X Offsets : x[1] = c /\ x[2] \in f.batch}
      BY <1>2, <1>3
    <3>4. QED BY <3>1, <3>2, <3>3 DEF InFlight
  <2>4. InFlight \cap more = {} BY <1>11 DEF InFlight
  <2>5. IsFiniteSet(InFlight') /\ Cardinality(InFlight')
        = Cardinality(InFlight) + Cardinality(more) - Cardinality(InFlight \cap more)
    BY <2>2, <2>3, FS_Union DEF IInv, Counted
  <2>6. Cardinality(InFlight \cap more) = 0 BY <2>4, FS_EmptySet
  <2>7. QED BY <1>1, <2>2, <2>5, <2>6, FS_CardinalityType DEF IInv, Counted
<1>13. TypeOK'
  <2>1. wg' \in Nat BY <1>12, FS_CardinalityType DEF Counted
  <2>2. QED BY <1>1, <1>9, <2>1 DEF IInv, TypeOK, kgoVars
<1>14. OneConsumer'
  <2>1. \A d \in DOMAIN consumers :
          consumers'[d].part = consumers[d].part /\ consumers'[d].done = consumers[d].done
          /\ consumers'[d].closing = consumers[d].closing
    BY <1>3, <1>9, <1>10
  <2>2. ~consumers[c].done BY <1>3 DEF IInv, OneConsumer
  <2>3. \A d \in DOMAIN consumers : consumers[d].done => Empty(d)'
    BY <1>9, <2>2 DEF IInv, OneConsumer, Empty
  <2>4. QED BY <1>1, <1>9, <2>1, <2>3 DEF IInv, OneConsumer
<1>15. OneBatch' BY <1>4, <1>9, <1>10 DEF IInv, OneBatch
<1>16. Phases' BY <1>1 DEF IInv, Phases, kgoVars
<1>17. Polled'
  <2>1. ASSUME NEW g \in fetched', current[g.part] # 0 PROVE Empty(current[g.part])'
    <3>1. g \in fetched /\ g.part # f.part /\ g.part \in Partitions
      BY <1>1, <1>2 DEF IInv, Polled, TypeOK
    <3>2. current[g.part] \in DOMAIN consumers /\ consumers[current[g.part]].part = g.part
      BY <2>1, <3>1 DEF IInv, OneConsumer
    <3>3. current[g.part] # c BY <1>3, <3>1, <3>2
    <3>4. Empty(current[g.part]) BY <2>1, <3>1 DEF IInv, Polled
    <3>5. QED BY <1>1, <1>9, <3>2, <3>3, <3>4 DEF Empty
  <2>2. QED BY <1>1, <2>1 DEF IInv, Polled, kgoVars
<1>18. AssignedLive'
  <2>1. \A p \in Partitions : Live(p) => Live(p)'
    BY <1>1, <1>3, <1>9, <1>10 DEF Live, IInv, OneConsumer
  <2>2. QED BY <1>1, <2>1 DEF IInv, TypeOK, AssignedLive, kgoVars
<1>19. NoneLost'
  <2>1. ASSUME NEW p \in Partitions
        PROVE  AtWork(p) \cup Waiting(p) \subseteq AtWork(p)' \cup Waiting(p)'
    <3>1. CASE p = f.part
      <4>1. AtWork(p) = {} /\ AtWork(p)' = f.batch
        BY <1>1, <1>3, <1>11, <3>1 DEF AtWork
      <4>2. Waiting(p) \subseteq f.batch \cup Waiting(p)' BY <1>1, <3>1 DEF Waiting
      <4>3. QED BY <4>1, <4>2
    <3>2. CASE p # f.part
      <4>1. current[p] # 0 => current[p] \in DOMAIN consumers /\ current[p] # c
        BY <1>3, <3>2 DEF IInv, OneConsumer
      <4>2. AtWork(p)' = AtWork(p) BY <1>1, <1>11, <4>1 DEF AtWork
      <4>3. Waiting(p)' = Waiting(p) BY <1>1, <3>2 DEF Waiting
      <4>4. QED BY <4>2, <4>3
    <3>3. QED BY <3>1, <3>2
  <2>2. QED BY <1>1, <2>1 DEF IInv, NoneLost, kgoVars
<1>20. InTurn'
  <2>1. \A x \in f.batch : 1 .. x - 1 \subseteq processed[f.part] \cup f.batch
    BY DEF IInv, InTurn
  <2>2. \A g \in fetched' : g \in fetched BY <1>1
  <2>3. \A g \in fetched' : \A x \in g.batch :
           1 .. x - 1 \subseteq processed'[g.part] \cup g.batch
    BY <1>1, <2>2 DEF IInv, InTurn
  <2>4. ASSUME NEW d \in DOMAIN consumers'
        PROVE  LET p == consumers'[d].part IN
               /\ consumers'[d].queue # <<>> =>
                     LET b == Head(consumers'[d].queue) IN
                     \A x \in b : 1 .. x - 1 \subseteq processed'[p] \cup b
               /\ \A g \in consumers'[d].groups : \A x \in g : \A o \in 1 .. x - 1 :
                     SameOrder(p, o, x) => o \in processed'[p] \cup g
    <3>1. CASE d = c
      <4>1. consumers'[d] = e BY <1>9, <3>1
      <4>2. processed' = processed BY <1>1
      <4>3. QED BY <1>10, <2>1, <4>1, <4>2
    <3>2. CASE d # c BY <1>1, <1>9, <3>2 DEF IInv, InTurn
    <3>3. QED BY <3>1, <3>2
  <2>5. QED BY <2>3, <2>4 DEF InTurn
<1>21. QED
  BY <1>12, <1>13, <1>14, <1>15, <1>16, <1>17, <1>18, <1>19, <1>20 DEF IInv

\* The groups of a batch are its records, each in one of them; and a record is in the
\* group of those it has to wait for.
LEMMA GroupsOfBatch ==
  ASSUME NEW p, NEW b \in SUBSET Offsets, b # {}
  PROVE  /\ Groups(p, b) \in SUBSET SUBSET Offsets
         /\ UNION Groups(p, b) = b
         /\ \A g, h \in Groups(p, b) : g # {} /\ (g # h => g \cap h = {})
         /\ \A g \in Groups(p, b) : \A x \in g : \A o \in b : SameOrder(p, o, x) => o \in g
BY DEF Groups, SameOrder

\* A batch that is taken from the channel is at hand, in groups.
LEMMA TakeKeeps == ASSUME IInv, NEW c \in DOMAIN consumers, TakeBatch(c) PROVE IInv'
<1> DEFINE p == consumers[c].part
           b == Head(consumers[c].queue)
           e == [consumers[c] EXCEPT !.groups = Groups(p, b), !.queue = <<>>]
<1>1. consumers[c] \in ConsumerRecord /\ (consumers[c].queue # <<>> => b \in SUBSET Offsets)
  BY ConsumersAreRecords DEF IInv, TypeOK
<1>2. consumers[c].queue # <<>> /\ UNCHANGED <<kgoVars, loopVars, mx, current, processed>>
  BY DEF TakeBatch
<1>3. consumers[c].groups = {} /\ consumers[c].queue = <<b>> /\ b # {}
  BY <1>2 DEF IInv, OneBatch
<1>4. consumers' = [consumers EXCEPT ![c] = e]
  <2>1. \A x : Tail(<<x>>) = <<>> OBVIOUS
  <2>2. Tail(consumers[c].queue) = <<>> BY <1>3, <2>1
  <2>3. QED BY <2>2 DEF TakeBatch
<1>5. /\ Groups(p, b) \in SUBSET SUBSET Offsets /\ UNION Groups(p, b) = b
      /\ \A g, h \in Groups(p, b) : g # {} /\ (g # h => g \cap h = {})
      /\ \A g \in Groups(p, b) : \A x \in g : \A o \in b : SameOrder(p, o, x) => o \in g
  BY <1>1, <1>2, <1>3, GroupsOfBatch
<1>6. e \in ConsumerRecord
  <2>1. <<>> \in Seq(SUBSET Offsets) OBVIOUS
  <2>2. Groups(p, b) \in SUBSET SUBSET Offsets BY <1>5
  <2> HIDE DEF b, p
  <2>3. QED BY <1>1, <2>1, <2>2 DEF ConsumerRecord
<1>7. /\ consumers' \in Seq(ConsumerRecord) /\ Len(consumers') = Len(consumers)
      /\ DOMAIN consumers' = DOMAIN consumers /\ consumers'[c] = e
      /\ \A d \in DOMAIN consumers : d # c => consumers'[d] = consumers[d]
  BY <1>4, <1>6, SetConsumer
<1>8. /\ e.part = p /\ e.closing = consumers[c].closing /\ e.done = consumers[c].done
      /\ e.queue = <<>> /\ e.groups = Groups(p, b)
  BY <1>1 DEF ConsumerRecord
<1> HIDE DEF e
<1>9. \A d \in DOMAIN consumers : Held(d)' = Held(d)
  <2>1. Held(c) = b BY <1>3 DEF Held
  <2>2. Held(c)' = b BY <1>5, <1>7, <1>8 DEF Held
  <2>3. \A d \in DOMAIN consumers : d # c => Held(d)' = Held(d) BY <1>7 DEF Held
  <2>4. QED BY <2>1, <2>2, <2>3
<1>10. TypeOK' BY <1>2, <1>7 DEF IInv, TypeOK, kgoVars, loopVars
<1>11. OneConsumer'
  <2>1. \A d \in DOMAIN consumers :
          consumers'[d].part = consumers[d].part /\ consumers'[d].done = consumers[d].done
          /\ consumers'[d].closing = consumers[d].closing
    BY <1>7, <1>8
  <2>2. ~consumers[c].done BY <1>2 DEF IInv, OneConsumer, Empty
  <2>3. \A d \in DOMAIN consumers : consumers[d].done => Empty(d)'
    BY <1>7, <2>2 DEF IInv, OneConsumer, Empty
  <2>4. QED BY <1>2, <1>7, <2>1, <2>3 DEF IInv, OneConsumer
<1>12. OneBatch' BY <1>5, <1>7, <1>8 DEF IInv, OneBatch
<1>13. Counted' BY <1>2, <1>7, <1>9 DEF IInv, Counted, InFlight, loopVars
<1>14. Phases' BY <1>2 DEF IInv, Phases, kgoVars, loopVars
<1>15. Polled'
  <2>1. ASSUME NEW f \in fetched, current[f.part] # 0 PROVE Empty(current[f.part])'
    <3>1. f.part \in Partitions BY DEF IInv, TypeOK
    <3>2. Empty(current[f.part]) /\ current[f.part] \in DOMAIN consumers
      BY <2>1, <3>1 DEF IInv, Polled, OneConsumer
    <3>3. current[f.part] # c BY <1>2, <3>2 DEF Empty
    <3>4. QED BY <1>2, <1>7, <3>2, <3>3 DEF Empty
  <2>2. QED BY <1>2, <2>1 DEF IInv, Polled, kgoVars, loopVars
<1>16. AssignedLive'
  <2>1. \A q \in Partitions : Live(q) => Live(q)'
    BY <1>2, <1>7, <1>8 DEF Live, IInv, OneConsumer
  <2>2. QED BY <1>2, <2>1 DEF IInv, TypeOK, AssignedLive, kgoVars, loopVars
<1>17. NoneLost'
  <2>1. \A q \in Partitions : AtWork(q)' = AtWork(q) /\ Waiting(q)' = Waiting(q)
    BY <1>2, <1>9 DEF AtWork, Waiting, IInv, OneConsumer, loopVars
  <2>2. QED BY <1>2, <2>1 DEF IInv, NoneLost, kgoVars
<1>18. InTurn'
  <2>1. \A x \in b : 1 .. x - 1 \subseteq processed[p] \cup b BY <1>2 DEF IInv, InTurn
  <2>2. \A g \in Groups(p, b) : \A x \in g : \A o \in 1 .. x - 1 :
          SameOrder(p, o, x) => o \in processed[p] \cup g
    BY <1>5, <2>1
  <2>3. ASSUME NEW d \in DOMAIN consumers'
        PROVE  LET q == consumers'[d].part IN
               /\ consumers'[d].queue # <<>> =>
                     LET batch == Head(consumers'[d].queue) IN
                     \A x \in batch : 1 .. x - 1 \subseteq processed'[q] \cup batch
               /\ \A g \in consumers'[d].groups : \A x \in g : \A o \in 1 .. x - 1 :
                     SameOrder(q, o, x) => o \in processed'[q] \cup g
    <3>1. CASE d = c BY <1>2, <1>7, <1>8, <2>2, <3>1
    <3>2. CASE d # c BY <1>2, <1>7, <3>2 DEF IInv, InTurn
    <3>3. QED BY <3>1, <3>2
  <2>4. QED BY <1>2, <2>3 DEF IInv, InTurn, loopVars
<1>19. QED
  BY <1>10, <1>11, <1>12, <1>13, <1>14, <1>15, <1>16, <1>17, <1>18 DEF IInv

\* A record that is processed is no longer at hand.
LEMMA ProcessKeeps == ASSUME IInv, NEW c \in DOMAIN consumers, ProcessRecord(c) PROVE IInv'
<1>0. PICK g \in consumers[c].groups : \E o \in g :
        /\ First(g, o)
        /\ consumers' = [consumers EXCEPT ![c].groups = (@ \ {g}) \cup ({g \ {o}} \ {{}})]
        /\ processed' = [processed EXCEPT ![consumers[c].part] = @ \cup {o}]
        /\ wg' = wg - 1
        /\ UNCHANGED <<kgoVars, loop, fetched, cancelled, mx, current>>
  BY DEF ProcessRecord
<1>1. PICK o \in g :
        /\ consumers' = [consumers EXCEPT ![c].groups = (@ \ {g}) \cup ({g \ {o}} \ {{}})]
        /\ processed' = [processed EXCEPT ![consumers[c].part] = @ \cup {o}]
        /\ wg' = wg - 1
        /\ UNCHANGED <<kgoVars, loop, fetched, cancelled, mx, current>>
  BY <1>0
<1> DEFINE p == consumers[c].part
           rest == (consumers[c].groups \ {g}) \cup ({g \ {o}} \ {{}})
           e == [consumers[c] EXCEPT !.groups = rest]
<1>2. consumers[c] \in ConsumerRecord BY ConsumersAreRecords DEF IInv, TypeOK
<1>3. p \in Partitions /\ g \in SUBSET Offsets /\ o \in Offsets BY <1>2 DEF ConsumerRecord
<1>4. consumers[c].queue = <<>> BY DEF IInv, OneBatch
<1>5. ~consumers[c].done /\ c = current[p] BY <1>1 DEF IInv, OneConsumer, Empty
<1>6. e \in ConsumerRecord BY <1>2 DEF ConsumerRecord
<1>7. /\ consumers' \in Seq(ConsumerRecord) /\ Len(consumers') = Len(consumers)
      /\ DOMAIN consumers' = DOMAIN consumers /\ consumers'[c] = e
      /\ \A d \in DOMAIN consumers : d # c => consumers'[d] = consumers[d]
  <2>1. consumers' = [consumers EXCEPT ![c] = e] BY <1>1
  <2>2. QED BY <1>6, <2>1, SetConsumer
<1>8. /\ e.part = p /\ e.closing = consumers[c].closing /\ e.done = consumers[c].done
      /\ e.queue = <<>> /\ e.groups = rest
  BY <1>2, <1>4 DEF ConsumerRecord
<1>9. /\ processed'[p] = processed[p] \cup {o}
      /\ \A q \in Partitions : q # p => processed'[q] = processed[q]
  BY <1>1, <1>3 DEF IInv, TypeOK
<1>10. \A h, k \in consumers[c].groups : h # {} /\ (h # k => h \cap k = {})
  BY DEF IInv, OneBatch
<1> HIDE DEF e
<1>11. /\ o \in Held(c) /\ Held(c)' = Held(c) \ {o}
       /\ \A d \in DOMAIN consumers : d # c => Held(d)' = Held(d)
  <2>1. Held(c) = UNION consumers[c].groups BY <1>4 DEF Held
  <2>2. Held(c)' = UNION rest BY <1>7, <1>8 DEF Held
  <2>3. UNION rest = (UNION consumers[c].groups) \ {o}
    <3>1. ASSUME NEW h \in rest, NEW x \in h PROVE x \in UNION consumers[c].groups /\ x # o
      BY <1>10
    <3>2. ASSUME NEW h \in consumers[c].groups, NEW x \in h, x # o PROVE x \in UNION rest
      <4>1. CASE h = g BY <3>2, <4>1
      <4>2. CASE h # g BY <4>2
      <4>3. QED BY <4>1, <4>2
    <3>3. QED BY <3>1, <3>2
  <2>4. \A d \in DOMAIN consumers : d # c => Held(d)' = Held(d) BY <1>7 DEF Held
  <2>5. QED BY <2>1, <2>2, <2>3, <2>4
<1>12. Counted'
  <2>1. InFlight' = InFlight \ {<<c, o>>}
    <3>1. \A d \in DOMAIN consumers, x \in Offsets :
            x \in Held(d)' <=> x \in Held(d) /\ ~(d = c /\ x = o)
      BY <1>11
    <3>2. InFlight' = {x \in (DOMAIN consumers) \X Offsets : x[2] \in Held(x[1])'}
      BY <1>7 DEF InFlight
    <3>3. QED BY <3>1, <3>2 DEF InFlight
  <2>2. <<c, o>> \in InFlight BY <1>3, <1>11 DEF InFlight
  <2>3. QED BY <1>1, <2>1, <2>2, FS_RemoveElement DEF IInv, Counted
<1>13. TypeOK'
  <2>1. wg' \in Nat BY <1>12, FS_CardinalityType DEF Counted
  <2>2. processed' \in [Partitions -> SUBSET Offsets] BY <1>1, <1>3 DEF IInv, TypeOK
  <2>3. QED BY <1>1, <1>7, <2>1, <2>2 DEF IInv, TypeOK, kgoVars
<1>14. OneConsumer'
  <2>1. \A d \in DOMAIN consumers :
          consumers'[d].part = consumers[d].part /\ consumers'[d].done = consumers[d].done
          /\ consumers'[d].closing = consumers[d].closing
    BY <1>7, <1>8
  <2>2. \A d \in DOMAIN consumers : consumers[d].done => Empty(d)'
    BY <1>5, <1>7 DEF IInv, OneConsumer, Empty
  <2>3. QED BY <1>1, <1>7, <2>1, <2>2 DEF IInv, OneConsumer
<1>15. OneBatch'
  <2>1. \A h, k \in rest : h # {} /\ (h # k => h \cap k = {}) BY <1>10
  <2>2. QED BY <1>7, <1>8, <2>1 DEF IInv, OneBatch
<1>16. Phases'
  <2>1. <<c, o>> \in InFlight BY <1>3, <1>11 DEF InFlight
  <2>2. wg # 0 BY <2>1, NothingInFlight
  <2>3. QED BY <1>1, <2>2 DEF IInv, Phases, kgoVars
<1>17. Polled'
  <2>1. ASSUME NEW f \in fetched, current[f.part] # 0 PROVE Empty(current[f.part])'
    <3>1. f.part \in Partitions BY DEF IInv, TypeOK
    <3>2. Empty(current[f.part]) /\ current[f.part] \in DOMAIN consumers
      BY <2>1, <3>1 DEF IInv, Polled, OneConsumer
    <3>3. current[f.part] # c BY <3>2 DEF Empty
    <3>4. QED BY <1>1, <1>7, <3>2, <3>3 DEF Empty
  <2>2. QED BY <1>1, <2>1 DEF IInv, Polled, kgoVars
<1>18. AssignedLive'
  <2>1. \A q \in Partitions : Live(q) => Live(q)'
    BY <1>1, <1>7, <1>8 DEF Live, IInv, OneConsumer
  <2>2. QED BY <1>1, <2>1 DEF IInv, TypeOK, AssignedLive, kgoVars
<1>19. NoneLost'
  <2>1. ASSUME NEW q \in Partitions
        PROVE  /\ processed[q] \cup AtWork(q) \subseteq processed'[q] \cup AtWork(q)'
               /\ Waiting(q)' = Waiting(q)
               /\ processed[q] \subseteq processed'[q]
    <3>1. CASE q = p BY <1>1, <1>5, <1>9, <1>11, <3>1 DEF AtWork, Waiting
    <3>2. CASE q # p
      <4>1. current[q] # 0 => current[q] \in DOMAIN consumers /\ current[q] # c
        BY <3>2 DEF IInv, OneConsumer
      <4>2. QED BY <1>1, <1>9, <1>11, <3>2, <4>1 DEF AtWork, Waiting
    <3>3. QED BY <3>1, <3>2
  <2>2. QED BY <1>1, <2>1 DEF IInv, NoneLost, kgoVars
<1>20. InTurn'
  <2>1. \A q \in Partitions : processed[q] \subseteq processed'[q] BY <1>9
  <2>2. \A f \in fetched : f.part \in Partitions BY DEF IInv, TypeOK
  <2>3. \A f \in fetched : \A x \in f.batch : 1 .. x - 1 \subseteq processed'[f.part] \cup f.batch
    BY <2>1, <2>2 DEF IInv, InTurn
  <2>4. ASSUME NEW h \in rest, NEW x \in h, NEW y \in 1 .. x - 1, SameOrder(p, y, x)
        PROVE  y \in processed'[p] \cup h
    <3>1. PICK k \in consumers[c].groups : x \in k /\ h \in {k, k \ {o}} OBVIOUS
    <3>2. y \in processed[p] \cup k BY <2>4, <3>1 DEF IInv, InTurn
    <3>3. QED BY <1>9, <3>1, <3>2
  <2>5. ASSUME NEW d \in DOMAIN consumers'
        PROVE  LET q == consumers'[d].part IN
               /\ consumers'[d].queue # <<>> =>
                     LET batch == Head(consumers'[d].queue) IN
                     \A x \in batch : 1 .. x - 1 \subseteq processed'[q] \cup batch
               /\ \A h \in consumers'[d].groups : \A x \in h : \A y \in 1 .. x - 1 :
                     SameOrder(q, y, x) => y \in processed'[q] \cup h
    <3>1. CASE d = c BY <1>7, <1>8, <2>4, <3>1
    <3>2. CASE d # c
      <4>1. consumers'[d] = consumers[d] /\ d \in DOMAIN consumers BY <1>7, <3>2
      <4>2. consumers[d].part \in Partitions
        BY <4>1, ConsumersAreRecords DEF IInv, TypeOK, ConsumerRecord
      <4>3. QED BY <2>1, <4>1, <4>2 DEF IInv, InTurn
    <3>3. QED BY <3>1, <3>2
  <2>6. QED BY <1>1, <2>3, <2>5 DEF InTurn
<1>21. QED
  BY <1>12, <1>13, <1>14, <1>15, <1>16, <1>17, <1>18, <1>19, <1>20 DEF IInv

-----------------------------------------------------------------------------
\* Every step keeps the invariant.
LEMMA INext == IInv /\ [Next]_vars => IInv'
<1> SUFFICES ASSUME IInv, [Next]_vars PROVE IInv' OBVIOUS
<1>1. CASE UNCHANGED vars
  <2>1. TypeOK' BY <1>1 DEF vars, IInv, TypeOK
  <2>2. UNCHANGED <<pcVars, fetched, wg>> BY <1>1 DEF vars, pcVars
  <2>3. OneConsumer' /\ OneBatch' /\ Counted' /\ InTurn' BY <2>2, ConsumersRest
  <2>4. Phases' /\ Polled' /\ AssignedLive' /\ NoneLost'
    BY <1>1 DEF vars, IInv, Phases, Polled, AssignedLive, NoneLost, Empty, Live, AtWork,
                Waiting, Held
  <2>5. QED BY <2>1, <2>3, <2>4 DEF IInv
<1>2. CASE LoopNext
  BY <1>2, LoopKeeps, PollKeeps, DispatchKeeps, StopKeeps, CallbackKeeps DEF LoopNext
<1>3. ASSUME NEW c \in DOMAIN consumers, ConsumerNext(c) PROVE IInv'
  BY <1>3, TakeKeeps, ProcessKeeps, DoneKeeps DEF ConsumerNext
<1>4. CASE CallbackNext
  BY <1>4, CallbackKeeps, StopKeeps, ReplaceKeeps DEF CallbackNext
<1>5. CASE Rebalance \/ AutoCommit \/ Close BY <1>5, CallbackKeeps, LoopKeeps
<1>6. QED BY <1>1, <1>2, <1>3, <1>4, <1>5 DEF Next

\* It always holds.
LEMMA IAlways == Spec => []IInv
BY IInit, INext, PTL DEF Spec

\* Every variable keeps its type; the wait group never goes below zero, which would be
\* a panic (consumer.go:326).
THEOREM TypeCorrect == Spec => []TypeOK
<1>1. IInv => TypeOK BY DEF IInv
<1>2. QED BY <1>1, IAlways, PTL

\* An offset is committed only when every record up to it was processed
\* (consumer.go:194, 259).
THEOREM NothingLost == Spec => []CommittedProcessed
<1>1. IInv => CommittedProcessed BY DEF IInv, NoneLost, CommittedProcessed
<1>2. QED BY <1>1, IAlways, PTL

\* A polled partition has a live consumer: the path that counts its records twice is
\* never taken (consumer.go:70, 94, 104, 123, 136).
THEOREM NeverWithoutConsumer == Spec => []ConsumerReady
<1>1. IInv => ConsumerReady
  <2> SUFFICES ASSUME IInv, NEW f \in fetched PROVE Live(f.part) BY DEF ConsumerReady
  <2>1. loop = "dispatching" BY DEF IInv, Phases
  <2>2. QED BY <2>1 DEF IInv, Polled, AssignedLive
<1>2. QED BY <1>1, IAlways, PTL

\* The records of a key, or of the partition, are processed in order (consumer.go:299-320).
THEOREM ProcessedInOrder == Spec => []InOrder
<1>1. IInv => InOrder
  <2> SUFFICES ASSUME IInv, NEW c \in DOMAIN consumers, NEW g \in consumers[c].groups,
                      NEW x \in g, First(g, x), NEW o \in 1 .. x - 1,
                      SameOrder(consumers[c].part, o, x)
               PROVE  o \in processed[consumers[c].part]
    BY DEF InOrder
  <2>1. o \in processed[consumers[c].part] \cup g BY DEF IInv, InTurn
  <2>2. x \in Nat /\ o < x
    <3>1. g \in SUBSET Offsets
      BY ConsumersAreRecords DEF IInv, TypeOK, ConsumerRecord
    <3>2. QED BY <3>1 DEF Offsets
  <2>3. o \notin g BY <2>2 DEF First
  <2>4. QED BY <2>1, <2>3
<1>2. QED BY <1>1, IAlways, PTL
=============================================================================
