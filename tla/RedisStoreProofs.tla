-------------------------- MODULE RedisStoreProofs --------------------------
(***************************************************************************)
(* RedisStore implements Records, for any callers, inputs, servers, keys   *)
(* and fields. The refinement mapping is that of RedisStore; each of its   *)
(* steps is one of Records, or none. And its health checks (Health) say    *)
(* what is so.                                                             *)
(***************************************************************************)
EXTENDS RedisStore, TLAPS

WellFormed(cmd) == cmd.op \in {"set", "get", "del"} /\ cmd.item.key \in Keys

\* A caller that is idle has no job, one that is not has one; there are replies only to
\* commands of the attempt that runs, and with hashes only for reads.
CallInv(c) ==
    /\ pc[c] = "idle" => job[c] = NoJob
    /\ pc[c] # "idle" => job[c] \in Inputs[c] /\ job[c].op \in Ops
    /\ pc[c] # "sent" => replies[c] = Nothing
    /\ DOMAIN replies[c] \subseteq Positions(c)
    /\ job[c].op \notin {"get", "bind"} => \A n \in DOMAIN replies[c] : replies[c][n].hash = Nothing

Shapes ==
    /\ DOMAIN store = Keys /\ DOMAIN job = Callers /\ DOMAIN replies = Callers
    /\ pc \in [Callers -> {"idle", "ready", "sent"}]
    /\ \A w \in late : WellFormed(w.cmd)

RInv == Shapes /\ \A c \in Callers : CallInv(c)

(***************************************************************************)
(* Commands and hashes, and what they mean.                                *)
(***************************************************************************)

\* Commands stand for the items of what was asked, position by position.
LEMMA CommandsAreItems ==
  ASSUME NEW c \in Callers, NEW j \in Inputs[c], j.op \in Ops
  PROVE  /\ DOMAIN Commands(j) = DOMAIN Asked(j).items
         /\ Asked(j).op \in {"set", "get", "del"}
         /\ Asked(j).op = "get" <=> j.op \in {"get", "bind"}
         /\ \A n \in DOMAIN Commands(j) :
               /\ WellFormed(Commands(j)[n])
               /\ Commands(j)[n].op = Asked(j).op
               /\ ItemOf(Asked(j).op, Commands(j)[n].item) = Asked(j).items[n]
               /\ Asked(j).op = "get" => Asked(j).items[n].key = Commands(j)[n].item.key
<1> USE InputsAssumption
<1>1. CASE j.op = "set"
  BY <1>1 DEF Commands, Asked, Set, ItemOf, WellFormed, Ops
<1>2. CASE j.op \in {"get", "bind"}
  BY <1>2 DEF Commands, Asked, Get, ItemOf, WellFormed, Ops
<1>3. CASE j.op = "del"
  BY <1>3 DEF Commands, Asked, Forward, ItemOf, WellFormed, Ops
<1>4. QED BY <1>1, <1>2, <1>3 DEF Ops

\* A struct over a hash is the struct's record over the hash's, but for what it omits.
LEMMA WrittenIsMerged ==
  ASSUME NEW v, NEW hash, DOMAIN SerializeValue(v) # {}
  PROVE  RecordOf(Written(v, hash)) = R!Merge(RecordOf(hash), ItemOf("set", v))
<1> DEFINE new == SerializeValue(v)
           both == Written(v, hash)
<1>1. DOMAIN new \subseteq Fields BY RedisAssumption DEF SerializeValue
<1>2. \A f \in Fields : f \in DOMAIN new <=> f \notin Omits(v)
  BY RedisAssumption DEF SerializeValue, Omits, IsEmptyValue
<1>3. \A f \in DOMAIN new : new[f] = v.fields[f] BY DEF SerializeValue
<1>4. DOMAIN both = DOMAIN new \cup DOMAIN hash
      /\ \A f \in DOMAIN both : both[f] = IF f \in DOMAIN new THEN new[f] ELSE hash[f]
  BY DEF Written
<1>5. RecordOf(both) = DeserializeValue(both) BY <1>4 DEF RecordOf
<1> DEFINE base == IF RecordOf(hash) = Nothing THEN Zero ELSE RecordOf(hash)
<1>6. base = DeserializeValue(hash)
  <2>1. DOMAIN DeserializeValue(hash) = Fields BY DEF DeserializeValue
  <2>2. DOMAIN Nothing = {} BY DEF Nothing
  <2>3. CASE DOMAIN hash = {} BY <2>3 DEF RecordOf, DeserializeValue, Zero
  <2>4. CASE DOMAIN hash # {} BY <2>1, <2>2, <2>4, RedisAssumption DEF RecordOf
  <2>5. QED BY <2>3, <2>4
<1>7. R!Merge(RecordOf(hash), ItemOf("set", v))
      = [f \in Fields |-> IF f \in Omits(v) THEN base[f] ELSE v.fields[f]]
  BY DEF R!Merge, ItemOf, Zero
<1>8. \A f \in Fields : DeserializeValue(both)[f]
                        = IF f \in Omits(v) THEN base[f] ELSE v.fields[f]
  BY <1>1, <1>2, <1>3, <1>4, <1>6 DEF DeserializeValue
<1>9. QED BY <1>5, <1>7, <1>8 DEF DeserializeValue

\* A command that is not refused has the effect of its item.
LEMMA AppliedIsEffect ==
  ASSUME DOMAIN store = Keys, NEW cmd, NEW m, WellFormed(cmd), Refusal(cmd, m) = "none",
         store' = Applied(cmd, m)
  PROVE  DOMAIN store' = Keys /\ RecordsHeld' = R!Effect(cmd.op, ItemOf(cmd.op, cmd.item))
<1> DEFINE k == cmd.item.key
           item == ItemOf(cmd.op, cmd.item)
<1>1. k \in Keys /\ item.key = k BY DEF WellFormed, ItemOf
<1>2. CASE cmd.op = "set"
  <2>1. DOMAIN SerializeValue(cmd.item) # {} BY <1>2 DEF Refusal
  <2>2. store' = [store EXCEPT ![k] = Written(cmd.item, @)] BY <1>2 DEF Applied
  <2>3. RecordsHeld' = [RecordsHeld EXCEPT ![k] = RecordOf(Written(cmd.item, store[k]))]
    BY <1>1, <2>2 DEF RecordsHeld
  <2>4. RecordOf(Written(cmd.item, store[k])) = R!Merge(RecordsHeld[k], item)
    BY <1>1, <1>2, <2>1, WrittenIsMerged DEF RecordsHeld
  <2>5. R!Effect(cmd.op, item) = [RecordsHeld EXCEPT ![k] = R!Merge(@, item)]
    BY <1>1, <1>2 DEF R!Effect
  <2>6. QED BY <2>2, <2>3, <2>4, <2>5
<1>3. CASE cmd.op = "del"
  <2>1. store' = [store EXCEPT ![k] = Nothing] BY <1>3 DEF Applied
  <2>2. RecordOf(Nothing) = Nothing BY DEF RecordOf, Nothing
  <2>3. RecordsHeld' = [RecordsHeld EXCEPT ![k] = Nothing]
    BY <1>1, <2>1, <2>2 DEF RecordsHeld
  <2>4. QED BY <1>1, <1>3, <2>1, <2>3 DEF R!Effect
<1>4. CASE cmd.op = "get"
  <2>1. store' = store BY <1>4 DEF Applied
  <2>2. QED BY <1>4, <2>1 DEF R!Effect, RecordsHeld
<1>5. QED BY <1>2, <1>3, <1>4 DEF WellFormed

\* A command that is refused changes nothing.
LEMMA RefusedIsNothing ==
  ASSUME NEW cmd, NEW m, Refusal(cmd, m) # "none" PROVE Applied(cmd, m) = store
BY DEF Applied

(***************************************************************************)
(* The invariant.                                                          *)
(***************************************************************************)
\* The invariant holds at first.
LEMMA RInit == Init => RInv
BY DEF Init, RInv, Shapes, CallInv, NoJob, Nothing, Positions, Commands

\* A step that changes nothing of the calls keeps it, whatever it does to records.
LEMMA Untouched ==
  ASSUME RInv, UNCHANGED <<pc, job, replies>>, DOMAIN store' = Keys,
         \A w \in late' : WellFormed(w.cmd)
  PROVE  RInv'
BY DEF RInv, Shapes, CallInv, Positions

\* So does a step of one call, if it keeps that call's part.
LEMMA OneTouched ==
  ASSUME RInv, NEW c \in Callers,
         pc' \in [Callers -> {"idle", "ready", "sent"}],
         DOMAIN job' = Callers, DOMAIN replies' = Callers, DOMAIN store' = Keys,
         \A w \in late' : WellFormed(w.cmd),
         \A d \in Callers \ {c} :
            pc'[d] = pc[d] /\ job'[d] = job[d] /\ replies'[d] = replies[d],
         CallInv(c)'
  PROVE  RInv'
<1>1. Shapes' BY DEF Shapes
<1>2. ASSUME NEW d \in Callers \ {c} PROVE CallInv(d)'
  <2>1. CallInv(d) BY DEF RInv
  <2>2. QED BY <2>1 DEF CallInv, Positions
<1>3. QED BY <1>1, <1>2 DEF RInv

\* A call that returns keeps it,
LEMMA ReturnKeepsCall ==
  ASSUME RInv, NEW c \in Callers, NEW r, Return(c, r), store' = store,
         \A w \in late' : WellFormed(w.cmd)
  PROVE  RInv'
<1> USE DEF RInv, Shapes, Return
<1>1. CallInv(c)' BY DEF CallInv, Positions, Commands, NoJob, Nothing
<1>2. QED BY <1>1, OneTouched

\* one that tries again,
LEMMA RetryKeeps ==
  ASSUME RInv, NEW c \in Callers, Retry(c), pc[c] # "idle", store' = store,
         \A w \in late' : WellFormed(w.cmd)
  PROVE  RInv'
<1> USE DEF RInv, Shapes, Retry
<1>1. CallInv(c)' BY DEF CallInv, Positions, Nothing
<1>2. QED BY <1>1, OneTouched

\* and one that does either.
LEMMA RetryOrFailKeeps ==
  ASSUME RInv, NEW c \in Callers, RetryOrFail(c), pc[c] # "idle", store' = store,
         \A w \in late' : WellFormed(w.cmd)
  PROVE  RInv'
BY ReturnKeepsCall, RetryKeeps DEF RetryOrFail

\* What is late are commands that are well-formed.
LEMMA LateIsWellFormed == RInv => \A w \in late : WellFormed(w.cmd)
BY DEF RInv, Shapes

\* What an attempt has still to do are commands that are well-formed.
LEMMA RestIsWellFormed ==
  ASSUME RInv, NEW c \in Callers, pc[c] # "idle", NEW n \in Rest(c)
  PROVE  WellFormed(Commands(job[c])[n])
<1>1. job[c] \in Inputs[c] /\ job[c].op \in Ops BY DEF RInv, CallInv
<1>2. n \in DOMAIN Commands(job[c]) BY DEF Rest, Positions
<1>3. QED BY <1>1, <1>2, CommandsAreItems

\* Commands write to the keys there are.
LEMMA AppliedKeepsKeys ==
  ASSUME DOMAIN store = Keys, NEW cmd, NEW m, store' = Applied(cmd, m)
  PROVE  DOMAIN store' = Keys
BY DEF Applied

\* Every step keeps the invariant.
LEMMA RStep == RInv /\ [Next]_vars => RInv'
<1> SUFFICES ASSUME RInv, [Next]_vars PROVE RInv' OBVIOUS
<1> USE LateIsWellFormed
<1>1. CASE UNCHANGED vars
  BY <1>1, Untouched DEF vars, callVars, RInv, Shapes
<1>2. ASSUME NEW c \in Callers, Call(c) PROVE RInv'
  <2>1. PICK j \in Inputs[c] :
          /\ j.op \notin Checks
          /\ job' = [job EXCEPT ![c] = j]
          /\ pc' = [pc EXCEPT ![c] = IF DOMAIN Commands(j) = {} THEN "sent" ELSE "ready"]
    BY <1>2 DEF Call
  <2>2. j.op \in Ops BY <2>1, InputsAssumption
  <2>3. replies[c] = Nothing BY <1>2 DEF Call, Idle, RInv, CallInv
  <2>4. UNCHANGED <<store, replies, late>> BY <1>2 DEF Call
  <2>5. CallInv(c)'
    BY <2>1, <2>2, <2>3, <2>4 DEF CallInv, RInv, Shapes, Nothing
  <2>6. QED BY <2>1, <2>4, <2>5, OneTouched DEF RInv, Shapes
<1>3. ASSUME NEW c \in Callers, Attempt(c) PROVE RInv'
  <2>1. UNCHANGED <<store, late>> /\ pc[c] = "ready" BY <1>3 DEF Attempt
  <2>2. CASE pc' = [pc EXCEPT ![c] = "sent"] /\ UNCHANGED <<job, replies>>
    <3>1. CallInv(c)' BY <2>1, <2>2 DEF RInv, Shapes, CallInv, Positions, Nothing
    <3>2. QED BY <2>1, <2>2, <3>1, OneTouched DEF RInv, Shapes
  <2>3. CASE Return(c, Failed) BY <2>1, <2>3, ReturnKeepsCall
  <2>4. CASE RetryOrFail(c) BY <2>1, <2>4, RetryOrFailKeeps
  <2>5. QED BY <1>3, <2>2, <2>3, <2>4 DEF Attempt
<1>4. ASSUME NEW c \in Callers, Execute(c) PROVE RInv'
  <2>1. PICK n \in Rest(c) :
          LET m == mode[inst[c]]
              cmd == Commands(job[c])[n]
          IN /\ store' = Applied(cmd, m)
             /\ replies' = [replies EXCEPT ![c] =
                               [k \in DOMAIN @ \cup {n} |-> IF k = n THEN Reply(cmd, m) ELSE @[k]]]
    BY <1>4 DEF Execute
  <2>2. pc[c] = "sent" /\ UNCHANGED <<pc, job, late>> BY <1>4 DEF Execute
  <2>3. DOMAIN store' = Keys BY <2>1, AppliedKeepsKeys DEF RInv, Shapes
  <2>4. DOMAIN replies'[c] \subseteq Positions(c)
    BY <2>1 DEF Rest, RInv, Shapes, CallInv
  <2>5. ASSUME job[c].op \notin {"get", "bind"}, NEW k \in DOMAIN replies'[c]
        PROVE  replies'[c][k].hash = Nothing
    <3>1. job[c] \in Inputs[c] /\ job[c].op \in Ops BY <2>2 DEF RInv, CallInv
    <3>2. Commands(job[c])[n].op # "get"
      BY <2>5, <3>1, CommandsAreItems DEF Rest, Positions
    <3>3. QED BY <2>1, <2>5, <3>2 DEF RInv, Shapes, CallInv, Reply
  <2>6. CallInv(c)' BY <2>2, <2>4, <2>5 DEF RInv, CallInv, Positions
  <2>7. QED BY <2>1, <2>2, <2>3, <2>6, OneTouched DEF RInv, Shapes
<1>5. ASSUME NEW c \in Callers, Break(c) PROVE RInv'
  <2>1. pc[c] = "sent" /\ RetryOrFail(c) /\ store' = store BY <1>5 DEF Break
  <2>2. late' \subseteq late \cup {[at |-> inst[c], cmd |-> Commands(job[c])[n]] : n \in Rest(c)}
    BY <1>5 DEF Break
  <2>3. \A w \in late' : WellFormed(w.cmd) BY <2>1, <2>2, RestIsWellFormed
  <2>4. QED BY <2>1, <2>3, RetryOrFailKeeps
<1>6. ASSUME NEW c \in Callers, Finish(c) PROVE RInv'
  <2>1. UNCHANGED <<store, late>> /\ pc[c] = "sent" BY <1>6 DEF Finish
  <2>2. RetryOrFail(c) \/ \E r : Return(c, r) BY <1>6 DEF Finish
  <2>3. QED BY <2>1, <2>2, RetryOrFailKeeps, ReturnKeepsCall
<1>7. ASSUME NEW w \in late, Late(w) PROVE RInv'
  <2>1. UNCHANGED <<pc, job, replies>> /\ late' \subseteq late BY <1>7 DEF Late, callVars
  <2>2. DOMAIN store' = Keys BY <1>7, AppliedKeepsKeys DEF Late, RInv, Shapes
  <2>3. QED BY <2>1, <2>2, Untouched
<1>8. ASSUME UNCHANGED <<store, callVars, late>> PROVE RInv'
  BY <1>8, Untouched DEF callVars, RInv, Shapes
<1>9. CASE Next
  BY <1>2, <1>3, <1>4, <1>5, <1>6, <1>7, <1>8, <1>9
     DEF Next, Step, CallCheck, Checking, Close, CloseInstance, Environment
<1>10. QED BY <1>1, <1>9

(***************************************************************************)
(* What a step is in terms of Records.                                     *)
(***************************************************************************)
\* What is nothing here is nothing in Records.
LEMMA SameNothing ==
  /\ R!Nothing = Nothing /\ R!NoJob = Asked(NoJob) /\ R!Failed = Failed
  /\ \A found : R!OK(found) = OK(found)
<1>1. R!Nothing = Nothing BY DEF R!Nothing, Nothing
<1>2. QED BY <1>1 DEF R!NoJob, R!Failed, R!OK, Asked, NoJob, Failed, OK

\* What the mapping says of one caller.
LEMMA Mapped ==
  ASSUME NEW c \in Callers
  PROVE  /\ JobsAsked[c] = Asked(job[c]) /\ AllDone[c] = DoneBy(c) /\ AllSeen[c] = SeenBy(c)
         /\ JobsAsked'[c] = Asked(job[c])' /\ AllDone'[c] = DoneBy(c)' /\ AllSeen'[c] = SeenBy(c)'
BY DEF JobsAsked, AllDone, AllSeen

\* A step that touches neither hashes nor calls is none of Records.
LEMMA Stutters ==
  ASSUME UNCHANGED <<store, job, replies, result, late>>
  PROVE  UNCHANGED R!recordVars
BY DEF R!recordVars, RecordsHeld, JobsAsked, AllDone, AllSeen, LateItems, RecordOf,
       DoneBy, SeenBy, Asked

\* The initial states are initial states of Records.
LEMMA RefinedInit == Init => R!Init
<1> SUFFICES ASSUME Init PROVE R!Init OBVIOUS
<1>1. RecordsHeld = [k \in Keys |-> Nothing] BY DEF Init, RecordsHeld, RecordOf, Nothing
<1>2. JobsAsked = [c \in Callers |-> R!NoJob] BY SameNothing DEF Init, JobsAsked
<1>3. AllDone = [c \in Callers |-> {}] BY DEF Init, AllDone, DoneBy, Nothing
<1>4. AllSeen = [c \in Callers |-> R!Nothing]
  <2>1. \A c \in Callers : SeenBy(c) = Nothing
    BY DEF Init, SeenBy, Nothing, NoJob
  <2>2. QED BY <2>1, SameNothing DEF AllSeen
<1>5. LateItems = {} BY DEF Init, LateItems
<1>6. QED BY <1>1, <1>2, <1>3, <1>4, <1>5, SameNothing DEF Init, R!Init

\* An attempt whose replies are dropped is forgotten.
LEMMA Forgets ==
  ASSUME NEW c \in Callers, RInv, replies' = [replies EXCEPT ![c] = Nothing],
         \A d \in Callers \ {c} : job'[d] = job[d]
  PROVE  R!Forget(c)
<1>1. DoneBy(c)' = {} BY DEF RInv, Shapes, DoneBy, Nothing
<1>2. SeenBy(c)' = Nothing BY DEF RInv, Shapes, SeenBy, Nothing
<1>3. \A d \in Callers \ {c} : DoneBy(d)' = DoneBy(d) /\ SeenBy(d)' = SeenBy(d)
  BY DEF RInv, Shapes, DoneBy, SeenBy, RecordOf
<1>4. AllDone' = [AllDone EXCEPT ![c] = {}] BY <1>1, <1>3 DEF AllDone
<1>5. AllSeen' = [AllSeen EXCEPT ![c] = R!Nothing] BY <1>2, <1>3, SameNothing DEF AllSeen
<1>6. QED BY <1>4, <1>5 DEF R!Forget

\* What is left of an attempt is wanted.
LEMMA LeftIsWanted ==
  ASSUME RInv, NEW c \in Callers, pc[c] # "idle",
         \/ late' = late
         \/ late' = late \cup {[at |-> inst[c], cmd |-> Commands(job[c])[n]] : n \in Rest(c)}
  PROVE  R!MoreLate(c)
<1>1. job[c] \in Inputs[c] /\ job[c].op \in Ops BY DEF RInv, CallInv
<1>2. ASSUME NEW n \in Rest(c)
      PROVE  LateItem([at |-> inst[c], cmd |-> Commands(job[c])[n]]) \in R!Wanted(c)
  <2>1. n \in DOMAIN Commands(job[c]) BY DEF Rest, Positions
  <2>2. LateItem([at |-> inst[c], cmd |-> Commands(job[c])[n]])
        = [op |-> Asked(job[c]).op, item |-> Asked(job[c]).items[n]]
    BY <1>1, <2>1, CommandsAreItems DEF LateItem
  <2>3. n \in DOMAIN Asked(job[c]).items BY <1>1, <2>1, CommandsAreItems
  <2>4. QED BY <2>2, <2>3, Mapped DEF R!Wanted, R!Items
<1>3. LateItems' = {LateItem(w) : w \in late'} BY DEF LateItems, LateItem, ItemOf, Omits
<1>4. LateItems \subseteq LateItems' BY <1>3 DEF LateItems
<1>5. LateItems' \subseteq LateItems \cup R!Wanted(c) BY <1>2, <1>3 DEF LateItems
<1>6. QED BY <1>4, <1>5 DEF R!MoreLate

\* The same hashes are the same records,
LEMMA SameRecords == store' = store => RecordsHeld' = RecordsHeld
BY DEF RecordsHeld, RecordOf

\* and the same jobs ask for the same.
LEMMA SameJobs == job' = job => JobsAsked' = JobsAsked
BY DEF JobsAsked, Asked

\* A call that runs has something to do, whatever there is to do for it.
LEMMA Running ==
  ASSUME RInv, NEW c \in Callers, pc[c] # "idle"
  PROVE  JobsAsked[c] # R!NoJob
<1>1. job[c] \in Inputs[c] /\ job[c].op \in Ops BY DEF RInv, CallInv
<1>2. Asked(job[c]).op \in {"set", "get", "del"} BY <1>1, CommandsAreItems
<1>3. QED BY <1>2, Mapped DEF R!NoJob

\* A call that returns is over, and forgotten.
LEMMA Returns ==
  ASSUME RInv, NEW c \in Callers, NEW r, Return(c, r)
  PROVE  /\ JobsAsked' = [JobsAsked EXCEPT ![c] = R!NoJob]
         /\ R!Forget(c)
         /\ result' = [result EXCEPT ![c] = r]
<1> USE DEF RInv, Shapes, Return
<1>1. \A d \in Callers : Asked(job[d])' = IF d = c THEN R!NoJob ELSE Asked(job[d])
  BY SameNothing DEF Asked
<1>2. QED BY <1>1, Forgets DEF JobsAsked

\* A call that is tried again starts over, unless it fails.
LEMMA TriesAgain ==
  ASSUME RInv, NEW c \in Callers, pc[c] # "idle", RetryOrFail(c), store' = store,
         R!MoreLate(c)
  PROVE  R!StartOver(c) \/ R!Fail(c)
<1>1. CASE Retry(c)
  <2>1. job' = job /\ result' = result /\ replies' = [replies EXCEPT ![c] = Nothing]
    BY <1>1 DEF Retry
  <2>2. R!Forget(c) BY <2>1, Forgets
  <2>3. QED BY <2>1, <2>2, SameJobs, SameRecords DEF R!StartOver
<1>2. CASE Return(c, Failed)
  BY <1>2, Returns, Running, SameRecords, SameNothing DEF R!Fail
<1>3. QED BY <1>1, <1>2 DEF RetryOrFail

\* A call that is made begins what it asks for.
LEMMA BeginsJob == RInv => \A c \in Callers : Call(c) => R!Begin(c)
<1> SUFFICES ASSUME RInv, NEW c \in Callers, Call(c) PROVE R!Begin(c) OBVIOUS
<1>1. PICK j \in Inputs[c] : job' = [job EXCEPT ![c] = j] BY DEF Call
<1>2. pc[c] = "idle" /\ result' = [result EXCEPT ![c] = OK(Nothing)]
      /\ UNCHANGED <<store, replies, late>>
  BY DEF Call, Idle
<1>3. job[c] = NoJob /\ replies[c] = Nothing BY <1>2 DEF RInv, CallInv
<1>4. JobsAsked[c] = R!NoJob BY <1>3, Mapped, SameNothing
<1>5. JobsAsked' = [JobsAsked EXCEPT ![c] = Asked(j)]
  <2>1. \A d \in Callers : Asked(job[d])' = IF d = c THEN Asked(j) ELSE Asked(job[d])
    BY <1>1 DEF RInv, Shapes, Asked
  <2>2. QED BY <2>1 DEF JobsAsked
<1>6. Asked(j) \in AllAsked BY DEF AllAsked
<1>7. AllDone' = AllDone BY <1>2 DEF AllDone, DoneBy
<1>8. AllSeen' = AllSeen
  <2>1. SeenBy(c)' = SeenBy(c) BY <1>2, <1>3 DEF SeenBy, Nothing
  <2>2. \A d \in Callers \ {c} : SeenBy(d)' = SeenBy(d)
    BY <1>1, <1>2 DEF SeenBy, RecordOf, RInv, Shapes
  <2>3. QED BY <2>1, <2>2 DEF AllSeen
<1>9. LateItems' = LateItems BY <1>2 DEF LateItems
<1>10. QED BY <1>2, <1>4, <1>5, <1>6, <1>7, <1>8, <1>9, SameRecords, SameNothing DEF R!Begin

\* A command that the server executes does its item; one that it refuses does nothing.
LEMMA ExecuteDoes ==
  ASSUME RInv, NEW c \in Callers, Execute(c)
  PROVE  R!Do(c) \/ UNCHANGED R!recordVars
<1>1. PICK n \in Rest(c) :
        LET m == mode[inst[c]]
            cmd == Commands(job[c])[n]
        IN /\ store' = Applied(cmd, m)
           /\ replies' = [replies EXCEPT ![c] =
                             [k \in DOMAIN @ \cup {n} |-> IF k = n THEN Reply(cmd, m) ELSE @[k]]]
  BY DEF Execute
<1> DEFINE m == mode[inst[c]]
           cmd == Commands(job[c])[n]
           reply == Reply(cmd, m)
           item == Asked(job[c]).items[n]
           op == Asked(job[c]).op
<1>2. pc[c] = "sent" /\ UNCHANGED <<job, result, late>> BY DEF Execute
<1>3. job[c] \in Inputs[c] /\ job[c].op \in Ops BY <1>2 DEF RInv, CallInv
<1>4. n \in DOMAIN Commands(job[c]) /\ n \notin DOMAIN replies[c] BY DEF Rest, Positions
<1>5. /\ DOMAIN Commands(job[c]) = DOMAIN Asked(job[c]).items
      /\ op = "get" <=> job[c].op \in {"get", "bind"}
      /\ WellFormed(cmd) /\ cmd.op = op /\ ItemOf(op, cmd.item) = item
      /\ op = "get" => item.key = cmd.item.key
  BY <1>3, <1>4, CommandsAreItems
<1>6. DOMAIN replies'[c] = DOMAIN replies[c] \cup {n}
      /\ \A k \in DOMAIN replies'[c] : replies'[c][k] = IF k = n THEN reply ELSE replies[c][k]
  BY <1>1 DEF RInv, Shapes
<1>7. \A d \in Callers \ {c} : replies'[d] = replies[d] BY <1>1 DEF RInv, Shapes
<1>8. \A d \in Callers \ {c} : DoneBy(d)' = DoneBy(d) /\ SeenBy(d)' = SeenBy(d)
  BY <1>2, <1>7 DEF DoneBy, SeenBy, RecordOf
<1>9. reply.error = Refusal(cmd, m) /\ reply.key = cmd.item.key
      /\ (cmd.op = "get" => reply.hash = store[cmd.item.key])
  BY DEF Reply
<1>10. job[c].op \notin {"get", "bind"} => SeenBy(c)' = SeenBy(c)
  BY <1>2 DEF SeenBy
<1>11. CASE Refusal(cmd, m) # "none"
  <2>1. store' = store BY <1>1, <1>11, RefusedIsNothing
  <2>2. DoneBy(c)' = DoneBy(c) BY <1>4, <1>6, <1>9, <1>11 DEF DoneBy
  <2>3. cmd.op # "get" BY <1>11 DEF Refusal
  <2>4. SeenBy(c)' = SeenBy(c) BY <1>5, <1>10, <2>3
  <2>5. AllDone' = AllDone /\ AllSeen' = AllSeen
    BY <1>8, <2>2, <2>4 DEF AllDone, AllSeen
  <2>6. LateItems' = LateItems BY <1>2 DEF LateItems
  <2>7. QED BY <1>2, <2>1, <2>5, <2>6, SameRecords, SameJobs DEF R!recordVars
<1>12. CASE Refusal(cmd, m) = "none"
  <2>1. RecordsHeld' = R!Effect(op, item)
    BY <1>1, <1>5, <1>12, AppliedIsEffect DEF RInv, Shapes
  <2>2. DoneBy(c)' = DoneBy(c) \cup {n} BY <1>4, <1>6, <1>9, <1>12 DEF DoneBy
  <2>3. AllDone' = [AllDone EXCEPT ![c] = @ \cup {n}] BY <1>8, <2>2 DEF AllDone
  <2>4. n \in R!Items(c) \ AllDone[c]
    BY <1>4, <1>5, Mapped DEF R!Items, DoneBy
  <2>5. JobsAsked[c].op = op /\ JobsAsked[c].items[n] = item BY Mapped
  <2>6. CASE op # "get"
    <3>1. AllSeen' = AllSeen BY <1>5, <1>8, <1>10, <2>6 DEF AllSeen
    <3>2. LateItems' = LateItems BY <1>2 DEF LateItems
    <3>3. QED BY <1>2, <2>1, <2>3, <2>4, <2>5, <2>6, <3>1, <3>2, SameJobs DEF R!Do
  <2>7. CASE op = "get"
    <3>1. DOMAIN SeenBy(c) = DOMAIN replies[c]
          /\ SeenBy(c)' = [k \in DOMAIN replies'[c] |->
                [key |-> replies'[c][k].key, record |-> RecordOf(replies'[c][k].hash)]]
      BY <1>2, <1>5, <2>7 DEF SeenBy, RecordOf
    <3>2. RecordOf(reply.hash) = RecordsHeld[item.key]
      BY <1>5, <1>9, <2>7 DEF RecordsHeld, WellFormed
    <3>3. \A k \in DOMAIN replies[c] :
            SeenBy(c)[k] = [key |-> replies[c][k].key, record |-> RecordOf(replies[c][k].hash)]
      BY <1>5, <2>7 DEF SeenBy
    <3>4. SeenBy(c)' = [k \in DOMAIN SeenBy(c) \cup {n} |->
             IF k = n THEN [key |-> item.key, record |-> RecordsHeld[item.key]]
             ELSE SeenBy(c)[k]]
      BY <1>5, <1>6, <1>9, <2>7, <3>1, <3>2, <3>3
    <3>5. AllSeen' = [AllSeen EXCEPT ![c] = [k \in DOMAIN @ \cup {n} |->
             IF k = n THEN [key |-> item.key, record |-> RecordsHeld[item.key]] ELSE @[k]]]
      BY <1>8, <3>4 DEF AllSeen
    <3>6. LateItems' = LateItems BY <1>2 DEF LateItems
    <3>7. QED BY <1>2, <2>1, <2>3, <2>4, <2>5, <2>7, <3>5, <3>6, SameJobs DEF R!Do
  <2>8. QED BY <2>6, <2>7
<1>13. QED BY <1>11, <1>12

\* There is no record exactly where there is no hash.
LEMMA EmptyRecord == \A hash : RecordOf(hash) = Nothing <=> DOMAIN hash = {}
<1>1. DOMAIN Nothing = {} BY DEF Nothing
<1>2. \A hash : DOMAIN DeserializeValue(hash) = Fields BY DEF DeserializeValue
<1>3. QED BY <1>1, <1>2, RedisAssumption DEF RecordOf

\* What a call that succeeds returns is what it has seen, all of it done.
LEMMA ReturnsAll ==
  ASSUME RInv, NEW c \in Callers, pc[c] = "sent", Rest(c) = {}, Errors(c) = {},
         Return(c, OK(Found(c))), UNCHANGED <<store, late>>
  PROVE  R!Succeed(c)
<1>1. job[c] \in Inputs[c] /\ job[c].op \in Ops /\ DOMAIN replies[c] \subseteq Positions(c)
  BY DEF RInv, CallInv
<1>2. DOMAIN replies[c] = Positions(c) BY <1>1 DEF Rest
<1>3. DoneBy(c) = DOMAIN replies[c] BY DEF DoneBy, Errors
<1>4. AllDone[c] = R!Items(c)
  BY <1>1, <1>2, <1>3, CommandsAreItems, Mapped DEF R!Items, Positions
<1>5. Found(c) = [n \in R!Read(c) |-> AllSeen[c][n]]
  <2>1. CASE job[c].op \in {"get", "bind"}
    <3>1. SeenBy(c) = [n \in DOMAIN replies[c] |->
              [key |-> replies[c][n].key, record |-> RecordOf(replies[c][n].hash)]]
      BY <2>1 DEF SeenBy
    <3>2. R!Read(c) = {n \in DOMAIN replies[c] : DOMAIN replies[c][n].hash # {}}
      <4>1. AllSeen[c] = SeenBy(c) BY Mapped
      <4>2. R!Read(c) = {n \in DOMAIN SeenBy(c) : SeenBy(c)[n].record # Nothing}
        BY <4>1 DEF R!Read
      <4>3. \A n \in DOMAIN replies[c] : SeenBy(c)[n].record = RecordOf(replies[c][n].hash)
        BY <3>1
      <4>4. DOMAIN SeenBy(c) = DOMAIN replies[c] BY <3>1
      <4>5. \A n \in DOMAIN SeenBy(c) : SeenBy(c)[n].record # Nothing
                                      <=> DOMAIN replies[c][n].hash # {}
        BY <4>3, <4>4, EmptyRecord
      <4>6. QED BY <4>2, <4>4, <4>5
    <3>3. \A n \in R!Read(c) : SeenBy(c)[n] =
             [key |-> replies[c][n].key, record |-> DeserializeValue(replies[c][n].hash)]
      BY <3>1, <3>2 DEF RecordOf
    <3>4. QED BY <3>2, <3>3, Mapped DEF Found
  <2>2. CASE job[c].op \notin {"get", "bind"}
    <3>1. \A n \in DOMAIN replies[c] : DOMAIN replies[c][n].hash = {}
      BY <2>2 DEF RInv, CallInv, Nothing
    <3>2. DOMAIN SeenBy(c) = {} BY <2>2 DEF SeenBy
    <3>3. R!Read(c) = {} BY <3>2, Mapped DEF R!Read
    <3>4. QED BY <3>1, <3>3 DEF Found
  <2>3. QED BY <2>1, <2>2
<1>6. LateItems' = LateItems BY DEF LateItems
<1>7. QED BY <1>4, <1>5, <1>6, Returns, Running, SameRecords, SameNothing DEF R!Succeed

\* A command that comes late does its item, if anything.
LEMMA LateDoes ==
  ASSUME RInv, NEW w \in late, Late(w)
  PROVE  R!DoLate \/ R!NeverDo
<1>1. late' \subseteq late /\ UNCHANGED <<job, replies, result>> BY DEF Late, callVars
<1>2. LateItems' \subseteq LateItems BY <1>1 DEF LateItems, LateItem, ItemOf, Omits
<1>3. JobsAsked' = JobsAsked /\ AllDone' = AllDone /\ AllSeen' = AllSeen
  BY <1>1, SameJobs DEF AllDone, DoneBy, AllSeen, SeenBy, RecordOf
<1>4. CASE store' = store BY <1>1, <1>2, <1>3, <1>4, SameRecords DEF R!NeverDo
<1>5. CASE store' # store
  <2>1. store' = Applied(w.cmd, mode[w.at]) BY <1>5 DEF Late
  <2>2. Refusal(w.cmd, mode[w.at]) = "none" BY <1>5, <2>1, RefusedIsNothing
  <2>3. WellFormed(w.cmd) /\ DOMAIN store = Keys BY DEF RInv, Shapes
  <2>4. RecordsHeld' = R!Effect(w.cmd.op, ItemOf(w.cmd.op, w.cmd.item))
    BY <2>1, <2>2, <2>3, AppliedIsEffect
  <2>5. LateItem(w) \in LateItems BY DEF LateItems
  <2>6. QED BY <1>1, <1>2, <1>3, <2>4, <2>5 DEF R!DoLate, LateItem
<1>6. QED BY <1>4, <1>5

\* Every step is a step of Records, or none.
LEMMA RefinedStep == RInv /\ [Next]_vars => [R!Next]_(R!recordVars)
<1> SUFFICES ASSUME RInv, [Next]_vars PROVE [R!Next]_(R!recordVars) OBVIOUS
<1>1. CASE UNCHANGED vars BY <1>1, Stutters DEF vars, callVars
<1>2. ASSUME NEW c \in Callers, Call(c) PROVE R!Next BY <1>2, BeginsJob DEF R!Next
<1>3. ASSUME NEW c \in Callers, Attempt(c) PROVE [R!Next]_(R!recordVars)
  <2>1. UNCHANGED <<store, late>> /\ pc[c] = "ready" BY <1>3 DEF Attempt
  <2>2. R!MoreLate(c) BY <2>1, LeftIsWanted
  <2>3. CASE UNCHANGED <<job, replies, result>> BY <2>1, <2>3, Stutters
  <2>4. CASE Return(c, Failed)
    BY <2>1, <2>2, <2>4, Returns, Running, SameRecords, SameNothing DEF R!Fail, R!Next
  <2>5. CASE RetryOrFail(c) BY <2>1, <2>2, <2>5, TriesAgain DEF R!Next
  <2>6. QED BY <1>3, <2>3, <2>4, <2>5 DEF Attempt
<1>4. ASSUME NEW c \in Callers, Execute(c) PROVE [R!Next]_(R!recordVars)
  BY <1>4, ExecuteDoes DEF R!Next
<1>5. ASSUME NEW c \in Callers, Break(c) PROVE R!Next
  <2>1. pc[c] = "sent" /\ RetryOrFail(c) /\ store' = store BY <1>5 DEF Break
  <2>2. R!MoreLate(c) BY <1>5, <2>1, LeftIsWanted DEF Break
  <2>3. QED BY <2>1, <2>2, TriesAgain DEF R!Next
<1>6. ASSUME NEW c \in Callers, Finish(c) PROVE R!Next
  <2>1. UNCHANGED <<store, late>> /\ pc[c] = "sent" /\ Rest(c) = {} BY <1>6 DEF Finish
  <2>2. R!MoreLate(c) BY <2>1, LeftIsWanted
  <2>3. CASE RetryOrFail(c) BY <2>1, <2>2, <2>3, TriesAgain DEF R!Next
  <2>4. CASE Return(c, Failed)
    BY <2>1, <2>2, <2>4, Returns, Running, SameRecords, SameNothing DEF R!Fail, R!Next
  <2>5. CASE Errors(c) = {} /\ Return(c, OK(Found(c)))
    BY <2>1, <2>5, ReturnsAll DEF R!Next
  <2>6. QED BY <1>6, <2>3, <2>4, <2>5 DEF Finish
<1>7. ASSUME NEW w \in late, Late(w) PROVE R!Next BY <1>7, LateDoes DEF R!Next
<1>8. ASSUME UNCHANGED <<store, callVars, late>> PROVE UNCHANGED R!recordVars
  BY <1>8, Stutters DEF callVars
<1>9. CASE Next
  BY <1>2, <1>3, <1>4, <1>5, <1>6, <1>7, <1>8, <1>9
     DEF Next, Step, CallCheck, Checking, Close, CloseInstance, Environment
<1>10. QED BY <1>1, <1>9

\* RedisStore implements Records: Set, Get, Bind and Del do what they promise, whatever
\* servers, connections, other callers and Close do (storage.go:100-236).
THEOREM ImplementsRecords == Spec => KeepsPromise
<1>1. RInv /\ [Next]_vars => RInv' BY RStep
<1>2. Spec => []RInv BY RInit, <1>1, PTL DEF Spec
<1>3. QED BY <1>2, RefinedInit, RefinedStep, PTL DEF Spec, KeepsPromise, R!Spec

(***************************************************************************)
(* What a health check says is true of some time of the check, for any     *)
(* number of servers and callers, and among the calls of the store.        *)
(***************************************************************************)

HealthTypes ==
    /\ ctxDone \in [Callers -> BOOLEAN]
    /\ check \in [Callers -> Checks \cup {"none"}]
    /\ trying \in [Callers -> SUBSET AllProbes]
    /\ failed \in [Callers -> SUBSET AllProbes]
    /\ sick \in [Callers -> SUBSET AllProbes]
    /\ well \in [Callers -> SUBSET AllProbes]
    /\ verdict \in [Callers -> {"none", "ok", "error"}]

\* A probe is asked, then it may have failed; all belong to the check.
OfTheCheck(c) == trying[c] \cup failed[c] \subseteq Probes(check[c])

\* The history is about servers as they are, too.
NowOrEver(c) == sick[c] \cap Served = {} /\ well[c] \subseteq Served

\* Who was never served has no good answer, and who always was has no bad one.
AnswersFit(c) == sick[c] \subseteq trying[c] \cup failed[c]
                 /\ (ctxDone[c] \/ failed[c] \cap well[c] = {})

HInv == HealthTypes /\ \A c \in Callers : OfTheCheck(c) /\ NowOrEver(c) /\ AnswersFit(c)

\* The servers a check probes are among those that exist.
LEMMA ProbesAreProbes == \A k : Probes(k) \subseteq AllProbes
BY DEF Probes

\* No check runs at first.
LEMMA HInit == Init => HInv
<1> SUFFICES ASSUME Init PROVE HInv OBVIOUS
<1> USE DEF Init, HealthInit
<1>1. HealthTypes BY DEF HealthTypes
<1>2. ASSUME NEW c \in Callers PROVE OfTheCheck(c) /\ NowOrEver(c) /\ AnswersFit(c)
  BY <1>2 DEF OfTheCheck, NowOrEver, AnswersFit, Probes
<1>3. QED BY <1>1, <1>2 DEF HInv

\* A check begins.
LEMMA StartKeeps ==
  ASSUME HInv, NEW c \in Callers, NEW k \in Checks, StartCheck(c, k),
         UNCHANGED <<mode, closed, ctxDone>>
  PROVE  HInv'
<1> USE DEF HInv, StartCheck
<1>1. Probes(k) \subseteq AllProbes BY ProbesAreProbes
<1>2. HealthTypes' BY <1>1 DEF HealthTypes
<1>3. ASSUME NEW d \in Callers PROVE OfTheCheck(d)' /\ NowOrEver(d)' /\ AnswersFit(d)'
  <2>1. CASE d = c BY <2>1 DEF HealthTypes, OfTheCheck, NowOrEver, AnswersFit, Served, Probes
  <2>2. CASE d # c BY <2>2 DEF HealthTypes, OfTheCheck, NowOrEver, AnswersFit, Served, Probes
  <2>3. QED BY <2>1, <2>2
<1>4. QED BY <1>2, <1>3

\* A probe has its answer: from a server that is not sick, or it fails, on one that is
\* not well or because the context is done.
LEMMA ProbeKeeps ==
  ASSUME HInv, NEW c \in Callers, ProbeEnds(c) PROVE HInv'
<1> USE DEF HInv
<1>1. PICK p \in trying[c] :
        /\ trying' = [trying EXCEPT ![c] = @ \ {p}]
        /\ \/ p \in Served /\ ~ctxDone[c] /\ UNCHANGED failed
           \/ /\ p \notin Served \/ ctxDone[c]
              /\ failed' = [failed EXCEPT ![c] = @ \cup {p}]
  BY DEF ProbeEnds
<1>2. UNCHANGED <<mode, closed, ctxDone, check, sick, well, verdict>> BY DEF ProbeEnds
<1>3. HealthTypes' BY <1>1, <1>2 DEF HealthTypes
<1>4. ASSUME NEW d \in Callers PROVE OfTheCheck(d)' /\ NowOrEver(d)' /\ AnswersFit(d)'
  <2>1. Served' = Served /\ Probes(check[d])' = Probes(check[d])
    BY <1>2 DEF Served, Probes
  <2>2. NowOrEver(d)' BY <1>2, <2>1 DEF NowOrEver
  <2>3. CASE d # c
    <3>1. trying'[d] = trying[d] /\ failed'[d] = failed[d] BY <1>1, <2>3 DEF HealthTypes
    <3>2. QED BY <1>2, <2>1, <2>2, <3>1 DEF OfTheCheck, AnswersFit
  <2>4. CASE d = c
    <3>1. trying'[c] = trying[c] \ {p} BY <1>1 DEF HealthTypes
    <3>2. CASE p \in Served /\ UNCHANGED failed
      BY <1>2, <2>1, <2>2, <2>4, <3>1, <3>2 DEF OfTheCheck, NowOrEver, AnswersFit
    <3>3. CASE /\ p \notin Served \/ ctxDone[c]
               /\ failed' = [failed EXCEPT ![c] = @ \cup {p}]
      <4>1. failed'[c] = failed[c] \cup {p} BY <3>3 DEF HealthTypes
      <4>2. QED
        BY <1>2, <2>1, <2>2, <2>4, <3>1, <3>3, <4>1 DEF OfTheCheck, NowOrEver, AnswersFit
    <3>4. QED BY <1>1, <3>2, <3>3
  <2>5. QED BY <2>3, <2>4
<1>5. QED BY <1>3, <1>4

\* All answers are there.
LEMMA ReturnKeeps ==
  ASSUME HInv, NEW c \in Callers, CheckReturns(c) PROVE HInv'
<1> USE DEF HInv, CheckReturns
<1>1. HealthTypes' BY DEF HealthTypes, Verdict
<1>2. ASSUME NEW d \in Callers PROVE OfTheCheck(d)' /\ NowOrEver(d)' /\ AnswersFit(d)'
  <2>1. CASE d = c BY <2>1 DEF HealthTypes, OfTheCheck, NowOrEver, AnswersFit, Served, Probes
  <2>2. CASE d # c BY <2>2 DEF HealthTypes, OfTheCheck, NowOrEver, AnswersFit, Served, Probes
  <2>3. QED BY <2>1, <2>2
<1>3. QED BY <1>1, <1>2

\* A client is closed.
LEMMA CloseKeeps == ASSUME HInv, NEW i \in Instances, CloseClient(i) PROVE HInv'
<1> USE DEF HInv
<1>1. UNCHANGED <<ctxDone, check, trying, failed, sick, verdict>>
      /\ well' = [c \in Callers |-> well[c] \cap Served']
  BY DEF CloseClient
<1>2. Served' \subseteq Served BY DEF CloseClient, Served
<1>3. HealthTypes' BY <1>1 DEF HealthTypes
<1>4. ASSUME NEW d \in Callers PROVE OfTheCheck(d)' /\ NowOrEver(d)' /\ AnswersFit(d)'
  <2>1. Probes(check[d])' = Probes(check[d]) BY <1>1 DEF Probes
  <2>2. QED BY <1>1, <1>2, <2>1 DEF OfTheCheck, NowOrEver, AnswersFit
<1>5. QED BY <1>3, <1>4

\* Servers change, or a context ends.
LEMMA EnvironmentKeeps == ASSUME HInv, Environment PROVE HInv'
<1> USE DEF HInv
<1>1. ASSUME NEW i \in Instances, Change(i) PROVE HInv'
  <2>1. UNCHANGED <<ctxDone, check, trying, failed, verdict>>
        /\ sick' = [c \in Callers |-> sick[c] \ Served']
        /\ well' = [c \in Callers |-> well[c] \cap Served']
    BY <1>1 DEF Change
  <2>2. HealthTypes' BY <2>1 DEF HealthTypes
  <2>3. ASSUME NEW d \in Callers PROVE OfTheCheck(d)' /\ NowOrEver(d)' /\ AnswersFit(d)'
    <3>1. Probes(check[d])' = Probes(check[d]) BY <2>1 DEF Probes
    <3>2. QED BY <2>1, <3>1 DEF OfTheCheck, NowOrEver, AnswersFit
  <2>4. QED BY <2>2, <2>3
<1>2. ASSUME NEW c \in Callers, ContextEnds(c) PROVE HInv'
  <2>1. UNCHANGED <<mode, closed, check, trying, failed, sick, well, verdict>>
        /\ ctxDone' = [ctxDone EXCEPT ![c] = TRUE]
    BY <1>2 DEF ContextEnds, checkVars
  <2>2. HealthTypes' BY <2>1 DEF HealthTypes
  <2>3. ASSUME NEW d \in Callers PROVE OfTheCheck(d)' /\ NowOrEver(d)' /\ AnswersFit(d)'
    <3>1. Served' = Served /\ Probes(check[d])' = Probes(check[d])
      BY <2>1 DEF Served, Probes
    <3>2. ctxDone[d] => ctxDone'[d] BY <2>1 DEF HealthTypes
    <3>3. QED BY <2>1, <3>1, <3>2 DEF OfTheCheck, NowOrEver, AnswersFit
  <2>4. QED BY <2>2, <2>3
<1>3. QED BY <1>1, <1>2 DEF Environment

\* Everything else leaves the checks alone.
LEMMA OthersLeaveChecks ==
  ASSUME Next
  PROVE  \/ \E c \in Callers : CallCheck(c) \/ Checking(c)
         \/ Environment
         \/ \E i \in Instances : CloseClient(i)
         \/ UNCHANGED <<mode, closed, ctxDone, checkVars>>
<1>1. ASSUME NEW c \in Callers, Call(c) \/ Attempt(c) \/ Execute(c) \/ Break(c) \/ Finish(c)
      PROVE  UNCHANGED <<mode, closed, ctxDone, checkVars>>
  BY <1>1 DEF Call, Attempt, Execute, Break, Finish, healthVars
<1>2. ASSUME NEW w \in late, Late(w) PROVE UNCHANGED <<mode, closed, ctxDone, checkVars>>
  BY <1>2 DEF Late, healthVars
<1>3. Close => UNCHANGED <<mode, closed, ctxDone, checkVars>> BY DEF Close, healthVars
<1>4. ASSUME NEW i \in Instances, CloseInstance(i) PROVE CloseClient(i)
  BY <1>4 DEF CloseInstance
<1>5. QED BY <1>4, <1>1, <1>2, <1>3 DEF Next, Step

\* The invariant of the checks is kept by every step of the store.
LEMMA HStep == HInv /\ [Next]_vars => HInv'
<1> SUFFICES ASSUME HInv, [Next]_vars PROVE HInv' OBVIOUS
<1>1. ASSUME UNCHANGED <<mode, closed, ctxDone, checkVars>> PROVE HInv'
  BY <1>1 DEF HInv, HealthTypes, OfTheCheck, NowOrEver, AnswersFit, checkVars, Served, Probes
<1>2. CASE UNCHANGED vars BY <1>1, <1>2 DEF vars, healthVars
<1>3. ASSUME NEW c \in Callers, CallCheck(c) PROVE HInv'
  <2>1. PICK j \in Inputs[c] : j.op \in Checks /\ StartCheck(c, j.op) BY <1>3 DEF CallCheck
  <2>2. UNCHANGED <<mode, closed, ctxDone>> BY <1>3 DEF CallCheck
  <2>3. QED BY <2>1, <2>2, StartKeeps
<1>4. ASSUME NEW c \in Callers, Checking(c) PROVE HInv'
  BY <1>4, ProbeKeeps, ReturnKeeps DEF Checking
<1>5. CASE Next BY <1>1, <1>3, <1>4, <1>5, CloseKeeps, EnvironmentKeeps, OthersLeaveChecks
<1>6. QED BY <1>2, <1>5

\* A step that ends a check gives a verdict that fits what its servers were like.
LEMMA VerdictFits ==
  ASSUME HInv, Next, NEW c \in Callers, check[c] # "none", check'[c] = "none"
  PROVE  /\ verdict'[c] = "ok" => sick[c] = {}
         /\ verdict'[c] = "error" => well[c] # Probes(check[c]) \/ ctxDone[c]
<1> USE DEF HInv
<1>1. check # check' OBVIOUS
<1>2. ASSUME NEW d \in Callers, CallCheck(d) PROVE FALSE
  <2>1. PICK j \in Inputs[d] : j.op \in Checks /\ StartCheck(d, j.op) BY <1>2 DEF CallCheck
  <2>2. check[d] = "none" BY <1>2 DEF CallCheck, Idle
  <2>3. check' = [check EXCEPT ![d] = j.op] BY <2>1 DEF StartCheck
  <2>4. c # d BY <2>2
  <2>5. QED BY <2>3, <2>4 DEF HealthTypes
<1>3. ~Environment /\ \A i \in Instances : ~CloseClient(i)
  BY <1>1 DEF Environment, Change, ContextEnds, CloseClient, checkVars
<1>4. PICK d \in Callers : CheckReturns(d)
  <2>1. PICK d \in Callers : Checking(d)
    BY <1>1, <1>2, <1>3, OthersLeaveChecks DEF checkVars
  <2>2. ~ProbeEnds(d) BY <1>1 DEF ProbeEnds
  <2>3. QED BY <2>1, <2>2 DEF Checking
<1>5. d = c BY <1>4 DEF CheckReturns, HealthTypes
<1>6. trying[c] = {} /\ verdict'[c] = Verdict(c) BY <1>4, <1>5 DEF CheckReturns, HealthTypes
<1>7. CASE failed[c] = {} BY <1>6, <1>7 DEF Verdict, AnswersFit
<1>8. CASE failed[c] # {}
  <2>1. PICK p \in failed[c] : TRUE BY <1>8
  <2>2. p \in Probes(check[c]) BY <2>1 DEF OfTheCheck
  <2>3. p \notin well[c] \/ ctxDone[c] BY <2>1 DEF AnswersFit
  <2>4. QED BY <1>6, <1>8, <2>2, <2>3 DEF Verdict
<1>9. QED BY <1>7, <1>8

\* The verdict of a check is true of some time of it (v3/proxy.go:2307-2382,
\* v2/storage.go:219-281), whatever the servers and the other calls do; a check during
\* or after Close counts the clients that are closed among those that are not well.
THEOREM HealthIsTold == Spec => TellsHealth
<1> DEFINE Told == \A c \in Callers : check[c] # "none" /\ check'[c] = "none" =>
          /\ verdict'[c] = "ok" => sick[c] = {}
          /\ verdict'[c] = "error" => well[c] # Probes(check[c]) \/ ctxDone[c]
<1>1. HInv /\ [Next]_vars => [Told]_healthVars
  <2> SUFFICES ASSUME HInv, [Next]_vars PROVE [Told]_healthVars OBVIOUS
  <2>1. CASE Next BY <2>1, VerdictFits
  <2>2. CASE UNCHANGED vars BY <2>2 DEF vars
  <2>3. QED BY <2>1, <2>2
<1>2. Spec => []HInv BY HInit, HStep, PTL DEF Spec
<1>3. QED BY <1>1, <1>2, PTL DEF Spec, TellsHealth
=============================================================================
