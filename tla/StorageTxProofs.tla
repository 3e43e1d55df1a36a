-------------------------- MODULE StorageTxProofs --------------------------
(***************************************************************************)
(* Proofs about StorageTx, for any number of operations, fallback masters, *)
(* replicas, attempts and lost answers.                                    *)
(***************************************************************************)
EXTENDS StorageTx, TLAPS

\* What is known of a call that has not returned: nothing it did was answered.
Running(c) ==
    at[c] # "done" =>
        /\ answer[c] = "none"
        /\ applied[c] = lost[c]
        /\ at[c] # "fallback" => idx[c] = 0 /\ txErr[c] = {}
        /\ at[c] = "fallback" => idx[c] < NumFallbacks
        /\ at[c] = "fallback" => (txErr[c] = {} <=> idx[c] = 0)
        /\ at[c] \in {"asleep", "fallback"} => kind[c] = "tx"

\* What is known of one that has.
Returned(c) ==
    at[c] = "done" /\ kind[c] # "read" =>
        /\ answer[c] = "ok" => applied[c] = lost[c] + 1
        /\ answer[c] \in Errors => applied[c] = lost[c]
        /\ answer[c] = "fallbacksFailed" =>
              applied[c] = lost[c] \/ (applied[c] = lost[c] + 1 /\ idx[c] > 1)
        /\ answer[c] # "none"

\* A read changes nothing.
Reading(c) == kind[c] = "read" => applied[c] = 0 /\ lost[c] = 0

IInv == TypeOK /\ \A c \in Calls : Running(c) /\ Returned(c) /\ Reading(c)

-----------------------------------------------------------------------------
LEMMA InitInv == Init => IInv
  <1> SUFFICES ASSUME Init PROVE IInv
    OBVIOUS
  <1>1. TypeOK
    BY StorageAssumption DEF Init, TypeOK, Kinds, Replicas, Fallbacks, Errors
  <1>2. \A c \in Calls : Running(c) /\ Returned(c) /\ Reading(c)
    BY DEF Init, Running, Returned, Reading
  <1> QED
    BY <1>1, <1>2 DEF IInv

\* The effect of one attempt on the database, on whatever pool.
LEMMA PerformEffect ==
    ASSUME TypeOK, NEW c \in Calls, NEW o \in Outcomes(c), Perform(c, o)
    PROVE  /\ applied' \in [Calls -> Nat]
           /\ lost' \in [Calls -> Nat]
           /\ ctxDone' \in [Calls -> BOOLEAN]
           /\ ErrorOf(o) \in {"ok"} \cup Errors
           /\ \A d \in Calls \ {c} : applied'[d] = applied[d] /\ lost'[d] = lost[d]
           /\ kind[c] = "read" => applied'[c] = applied[c] /\ lost'[c] = lost[c]
           /\ kind[c] # "read" =>
                 applied'[c] - lost'[c] =
                     applied[c] - lost[c] + (IF ErrorOf(o) = "ok" THEN 1 ELSE 0)
  <1>1. o \in {"ok", "unexpected", "readonly", "again", "other", "lost", "cut"}
    BY DEF Outcomes
  <1>2. ErrorOf(o) \in {"ok"} \cup Errors
    BY <1>1 DEF ErrorOf, Errors
  <1>3. ASSUME o \in {"lost", "cut"}
        PROVE  kind[c] # "read" /\ ErrorOf(o) # "ok"
    <2>1. kind[c] # "read"
      BY <1>3 DEF Outcomes
    <2>2. ErrorOf(o) \in {"unexpected", "other"}
      BY <1>3 DEF ErrorOf
    <2> QED BY <2>1, <2>2
  <1>4. ErrorOf(o) = "ok" <=> o = "ok"
    BY <1>1 DEF ErrorOf
  <1>5. /\ applied' \in [Calls -> Nat]
        /\ lost' \in [Calls -> Nat]
        /\ ctxDone' \in [Calls -> BOOLEAN]
    BY <1>1, <1>3 DEF Perform, TypeOK
  <1>6. \A d \in Calls \ {c} : applied'[d] = applied[d] /\ lost'[d] = lost[d]
    BY DEF Perform, TypeOK
  <1>7. kind[c] = "read" => applied'[c] = applied[c] /\ lost'[c] = lost[c]
    BY <1>1, <1>3 DEF Perform, TypeOK
  <1>8. ASSUME kind[c] # "read"
        PROVE applied'[c] - lost'[c] =
                  applied[c] - lost[c] + (IF ErrorOf(o) = "ok" THEN 1 ELSE 0)
    <2>1. CASE o \in {"lost", "cut"}
      BY <2>1, <1>4, <1>8 DEF Perform, TypeOK
    <2>2. CASE o = "ok"
      BY <2>2, <1>4, <1>8 DEF Perform, TypeOK
    <2>3. CASE o \notin {"lost", "cut", "ok"}
      BY <2>3, <1>4, <1>8 DEF Perform, TypeOK
    <2> QED BY <2>1, <2>2, <2>3
  <1> QED
    BY <1>2, <1>5, <1>6, <1>7, <1>8

LEMMA AttemptInv ==
    ASSUME IInv, NEW c \in Calls, Attempt(c)
    PROVE  IInv'
  <1>1. PICK o \in Outcomes(c) :
           /\ Perform(c, o)
           /\ \/ /\ Retries(c, ErrorOf(o))
                 /\ tries' = [tries EXCEPT ![c] = @ + 1]
                 /\ prevErr' = [prevErr EXCEPT ![c] = ErrorOf(o)]
                 /\ UNCHANGED <<at, answer>>
              \/ Finish(c, ErrorOf(o)) /\ UNCHANGED <<tries, prevErr>>
    BY DEF Attempt
  <1> DEFINE e == ErrorOf(o)
  <1>2. TypeOK /\ at[c] = "retry" /\ Running(c) /\ Reading(c)
    BY DEF IInv, Attempt
  <1>3. /\ applied' \in [Calls -> Nat]
        /\ lost' \in [Calls -> Nat]
        /\ ctxDone' \in [Calls -> BOOLEAN]
        /\ e \in {"ok"} \cup Errors
        /\ \A d \in Calls \ {c} : applied'[d] = applied[d] /\ lost'[d] = lost[d]
        /\ kind[c] = "read" => applied'[c] = applied[c] /\ lost'[c] = lost[c]
        /\ kind[c] # "read" =>
              applied'[c] - lost'[c] = applied[c] - lost[c] + (IF e = "ok" THEN 1 ELSE 0)
    BY <1>1, <1>2, PerformEffect
  <1> HIDE DEF e
  <1>4. nextReplica' \in Replicas /\ nextFallback' \in Fallbacks \cup {0}
    BY <1>2, StorageAssumption DEF Attempt, ChoosePool, UsesFallback, TypeOK, Replicas, Fallbacks
  <1>5. UNCHANGED <<kind, idx, txErr, attempts>>
    BY DEF Attempt
  <1>6. CASE Retries(c, e) /\ tries' = [tries EXCEPT ![c] = @ + 1]
             /\ prevErr' = [prevErr EXCEPT ![c] = e] /\ UNCHANGED <<at, answer>>
    <2>1. TypeOK'
      BY <1>2, <1>3, <1>4, <1>5, <1>6 DEF TypeOK, Retries
    <2>2. \A d \in Calls \ {c} : Running(d)' /\ Returned(d)' /\ Reading(d)'
      BY <1>2, <1>3, <1>5, <1>6 DEF IInv, TypeOK, Running, Returned, Reading
    <2>3. applied'[c] = lost'[c]
      <3>1. applied[c] \in Nat /\ lost[c] \in Nat /\ applied'[c] \in Nat /\ lost'[c] \in Nat
        BY <1>2, <1>3 DEF TypeOK
      <3>2. applied[c] = lost[c] /\ e # "ok"
        BY <1>2, <1>6 DEF Running, Retries
      <3>3. kind[c] # "read" => applied'[c] - lost'[c] = applied[c] - lost[c]
        BY <1>3, <3>1, <3>2
      <3>4. kind[c] = "read" => applied'[c] = applied[c] /\ lost'[c] = lost[c]
        BY <1>3
      <3> QED BY <3>1, <3>2, <3>3, <3>4
    <2>4. Running(c)' /\ Returned(c)' /\ Reading(c)'
      BY <1>2, <1>3, <1>5, <1>6, <2>3 DEF Running, Returned, Reading
    <2> QED BY <2>1, <2>2, <2>4 DEF IInv
  <1>7. CASE Finish(c, e) /\ UNCHANGED <<tries, prevErr>>
    <2>1. \/ at' = [at EXCEPT ![c] = "asleep"] /\ UNCHANGED answer /\ kind[c] = "tx" /\ e # "ok"
          \/ /\ at' = [at EXCEPT ![c] = "fallback"] /\ UNCHANGED answer
             /\ kind[c] = "tx" /\ e # "ok" /\ NumFallbacks > 0
          \/ at' = [at EXCEPT ![c] = "done"] /\ answer' = [answer EXCEPT ![c] = e]
      BY <1>7 DEF Finish, Return
    <2>2. TypeOK'
      BY <1>2, <1>3, <1>4, <1>5, <1>7, <2>1 DEF TypeOK
    <2>3. \A d \in Calls \ {c} : Running(d)' /\ Returned(d)' /\ Reading(d)'
      BY <1>2, <1>3, <1>5, <2>1 DEF IInv, TypeOK, Running, Returned, Reading
    <2>4. Reading(c)'
      BY <1>2, <1>3, <1>5 DEF Reading
    <2>5. /\ answer[c] = "none" /\ applied[c] = lost[c] /\ idx[c] = 0 /\ txErr[c] = {}
          /\ at'[c] # "done" => answer'[c] = "none" /\ kind[c] = "tx" /\ e # "ok"
          /\ at'[c] = "done" => answer'[c] = e
          /\ at'[c] = "fallback" => NumFallbacks > 0
          /\ at'[c] # "retry"
      BY <1>2, <2>1 DEF TypeOK, Running
    <2>6. applied[c] \in Nat /\ lost[c] \in Nat /\ applied'[c] \in Nat /\ lost'[c] \in Nat
      BY <1>2, <1>3 DEF TypeOK
    <2>7. Running(c)' /\ Returned(c)'
      <3>1. kind[c] = "read" => applied'[c] = lost'[c]
        BY <1>2, <1>3, <2>6 DEF Reading
      <3>2. e # "ok" => applied'[c] = lost'[c]
        BY <1>3, <2>5, <2>6, <3>1
      <3>3. kind[c] # "read" /\ e = "ok" => applied'[c] = lost'[c] + 1
        BY <1>3, <2>5, <2>6
      <3>4. at'[c] \in {"asleep", "fallback", "done"}
        BY <1>2, <2>1 DEF TypeOK
      <3>5. Running(c)'
        BY <1>5, <2>5, <3>2, <3>4 DEF Running
      <3>6. Returned(c)'
        BY <1>3, <1>5, <2>5, <3>2, <3>3 DEF Returned, Errors
      <3> QED BY <3>5, <3>6
    <2> QED BY <2>2, <2>3, <2>4, <2>7 DEF IInv
  <1> QED
    BY <1>1, <1>6, <1>7 DEF e

LEMMA RestartInv ==
    ASSUME IInv, NEW c \in Calls, Restart(c)
    PROVE  IInv'
  <1>1. TypeOK'
    BY DEF IInv, TypeOK, Restart, dbVars
  <1>2. \A d \in Calls : Running(d)' /\ Returned(d)' /\ Reading(d)'
    BY DEF IInv, TypeOK, Restart, Running, Returned, Reading, dbVars
  <1> QED
    BY <1>1, <1>2 DEF IInv

LEMMA TryFallbackInv ==
    ASSUME IInv, NEW c \in Calls, TryFallback(c)
    PROVE  IInv'
  <1>1. PICK o \in Outcomes(c) :
           /\ Perform(c, o)
           /\ txErr' = [txErr EXCEPT ![c] = @ \cup ({ErrorOf(o)} \ {"ok"})]
           /\ IF GoesOn(c, ErrorOf(o)) THEN UNCHANGED <<at, answer>>
              ELSE Return(c, IF txErr'[c] = {} THEN "ok" ELSE "fallbacksFailed")
    BY DEF TryFallback
  <1> DEFINE e == ErrorOf(o)
  <1>2. TypeOK /\ at[c] = "fallback" /\ Running(c) /\ kind[c] = "tx" /\ idx[c] < NumFallbacks
    BY DEF IInv, TryFallback, Running
  <1>3. /\ applied' \in [Calls -> Nat]
        /\ lost' \in [Calls -> Nat]
        /\ ctxDone' \in [Calls -> BOOLEAN]
        /\ e \in {"ok"} \cup Errors
        /\ \A d \in Calls \ {c} : applied'[d] = applied[d] /\ lost'[d] = lost[d]
        /\ kind[c] # "read" =>
              applied'[c] - lost'[c] = applied[c] - lost[c] + (IF e = "ok" THEN 1 ELSE 0)
    BY <1>1, <1>2, PerformEffect
  <1>4. /\ IF GoesOn(c, e) THEN UNCHANGED <<at, answer>>
           ELSE Return(c, IF txErr'[c] = {} THEN "ok" ELSE "fallbacksFailed")
        /\ txErr' = [txErr EXCEPT ![c] = @ \cup ({e} \ {"ok"})]
    BY <1>1
  <1> HIDE DEF e
  <1>5. nextFallback' \in Fallbacks /\ attempts' \in [Fallbacks -> Nat]
    <2>1. nextFallback \in Nat /\ attempts \in [Fallbacks -> Nat] /\ idx[c] \in Nat
      BY <1>2 DEF TypeOK, Fallbacks
    <2>2. NumFallbacks > 0
      BY <1>2, <2>1, StorageAssumption
    <2>3. Ticket(c) \in Fallbacks
      BY <2>1, <2>2, StorageAssumption DEF Ticket, Fallbacks
    <2>4. nextFallback' = Ticket(c) /\ attempts' = [attempts EXCEPT ![Ticket(c)] = @ + 1]
      BY DEF TryFallback
    <2> QED BY <2>1, <2>3, <2>4
  <1>6. /\ UNCHANGED <<kind, nextReplica, tries, prevErr>>
        /\ idx' = [idx EXCEPT ![c] = @ + 1]
    BY DEF TryFallback
  <1>7. txErr' \in [Calls -> SUBSET Errors] /\ (txErr'[c] = {} <=> txErr[c] = {} /\ e = "ok")
    BY <1>2, <1>3, <1>4 DEF TypeOK
  <1>8. idx' \in [Calls -> Nat] /\ idx'[c] = idx[c] + 1
    <2>1. idx \in [Calls -> Nat]
      BY <1>2 DEF TypeOK
    <2> QED BY <1>6, <2>1
  <1>9. CASE GoesOn(c, e)
    <2>1. e # "ok" /\ idx'[c] < NumFallbacks
      BY <1>8, <1>9 DEF GoesOn
    <2>2. UNCHANGED <<at, answer>>
      BY <1>4, <1>9
    <2>3. TypeOK'
      BY <1>2, <1>3, <1>5, <1>6, <1>7, <1>8, <2>2 DEF TypeOK
    <2>4. \A d \in Calls \ {c} : Running(d)' /\ Returned(d)' /\ Reading(d)'
      BY <1>2, <1>3, <1>4, <1>6, <2>2 DEF IInv, TypeOK, Running, Returned, Reading
    <2>5. /\ at'[c] = "fallback" /\ kind'[c] = "tx" /\ answer'[c] = "none"
          /\ txErr'[c] # {} /\ idx'[c] # 0 /\ idx'[c] < NumFallbacks
      BY <1>2, <1>6, <1>7, <1>8, <2>1, <2>2 DEF TypeOK, Running
    <2>6. applied'[c] = lost'[c]
      <3>1. applied[c] \in Nat /\ lost[c] \in Nat /\ applied'[c] \in Nat /\ lost'[c] \in Nat
        BY <1>2, <1>3 DEF TypeOK
      <3>2. applied'[c] - lost'[c] = applied[c] - lost[c]
        BY <1>2, <1>3, <2>1, <3>1
      <3>3. applied[c] = lost[c]
        BY <1>2 DEF Running
      <3> QED BY <3>1, <3>2, <3>3
    <2>7. Running(c)' /\ Returned(c)' /\ Reading(c)'
      BY <2>5, <2>6 DEF Running, Returned, Reading
    <2> QED BY <2>3, <2>4, <2>7 DEF IInv
  <1>10. CASE ~GoesOn(c, e)
    <2>1. /\ at' = [at EXCEPT ![c] = "done"]
          /\ answer' = [answer EXCEPT ![c] = IF txErr'[c] = {} THEN "ok" ELSE "fallbacksFailed"]
      BY <1>4, <1>10 DEF Return
    <2>2. TypeOK'
      BY <1>2, <1>3, <1>5, <1>6, <1>7, <1>8, <2>1 DEF TypeOK
    <2>3. \A d \in Calls \ {c} : Running(d)' /\ Returned(d)' /\ Reading(d)'
      BY <1>2, <1>3, <1>4, <1>6, <2>1 DEF IInv, TypeOK, Running, Returned, Reading
    <2>4. at'[c] = "done" /\ kind'[c] = "tx"
      BY <1>2, <1>6, <2>1 DEF TypeOK
    <2>5. applied[c] = lost[c] /\ (txErr[c] # {} => idx[c] # 0)
      BY <1>2 DEF Running
    <2>6. /\ applied[c] \in Nat /\ lost[c] \in Nat /\ applied'[c] \in Nat /\ lost'[c] \in Nat
          /\ idx[c] \in Nat
      BY <1>2, <1>3 DEF TypeOK
    <2>7. applied'[c] - lost'[c] = IF e = "ok" THEN 1 ELSE 0
      BY <1>2, <1>3, <2>5, <2>6
    <2>8. answer'[c] = IF txErr'[c] = {} THEN "ok" ELSE "fallbacksFailed"
      BY <1>2, <2>1 DEF TypeOK
    <2>9. ASSUME txErr'[c] = {} PROVE answer'[c] = "ok" /\ applied'[c] = lost'[c] + 1
      <3>1. e = "ok"
        BY <1>7, <2>9
      <3> QED BY <2>6, <2>7, <2>8, <2>9, <3>1
    <2>10. ASSUME txErr'[c] # {}
           PROVE  /\ answer'[c] = "fallbacksFailed"
                  /\ applied'[c] = lost'[c] \/ (applied'[c] = lost'[c] + 1 /\ idx'[c] > 1)
      <3>1. CASE e = "ok"
        <4>1. idx[c] # 0
          BY <1>7, <2>5, <2>10, <3>1
        <4> QED BY <1>8, <2>6, <2>7, <2>8, <2>10, <3>1, <4>1
      <3>2. CASE e # "ok"
        BY <2>6, <2>7, <2>8, <2>10, <3>2
      <3> QED BY <3>1, <3>2
    <2>11. Running(c)' /\ Returned(c)' /\ Reading(c)'
      BY <2>4, <2>9, <2>10 DEF Running, Returned, Reading, Errors
    <2> QED BY <2>2, <2>3, <2>11 DEF IInv
  <1> QED
    BY <1>9, <1>10

LEMMA StepInv == IInv /\ [Next]_vars => IInv'
  <1> SUFFICES ASSUME IInv, [Next]_vars PROVE IInv'
    OBVIOUS
  <1>1. ASSUME NEW c \in Calls, Cancel(c) PROVE IInv'
    BY <1>1 DEF IInv, TypeOK, Cancel, Running, Returned, Reading, callVars, dbVars
  <1>2. CASE UNCHANGED vars
    BY <1>2 DEF IInv, TypeOK, Running, Returned, Reading, vars, callVars, dbVars
  <1> QED
    BY <1>1, <1>2, AttemptInv, RestartInv, TryFallbackInv DEF Next

\* Every variable of the storage model keeps its type.
THEOREM TypeCorrect == Spec => []TypeOK
  <1>1. IInv => TypeOK
    BY DEF IInv
  <1> QED
    BY <1>1, InitInv, StepInv, PTL DEF Spec

\* However many masters, retries and restarts: what was done and answered is not
\* done again.
THEOREM NothingRepeatedNeedlessly == Spec => []RepeatedOnlyIfLost
  <1>1. IInv => RepeatedOnlyIfLost
    <2> SUFFICES ASSUME IInv, NEW c \in Calls PROVE applied[c] <= lost[c] + 1
      BY DEF RepeatedOnlyIfLost
    <2>1. Running(c) /\ Returned(c) /\ Reading(c)
      BY DEF IInv
    <2>2. /\ applied[c] \in Nat /\ lost[c] \in Nat
          /\ answer[c] \in {"none", "ok", "fallbacksFailed"} \cup Errors
      BY DEF IInv, TypeOK
    <2>3. CASE kind[c] = "read"
      BY <2>1, <2>2, <2>3 DEF Reading
    <2>4. CASE at[c] # "done"
      BY <2>1, <2>2, <2>4 DEF Running
    <2>5. CASE at[c] = "done" /\ kind[c] # "read"
      BY <2>1, <2>2, <2>5 DEF Returned
    <2> QED
      BY <2>3, <2>4, <2>5
  <1> QED
    BY <1>1, InitInv, StepInv, PTL DEF Spec

\* What an operation reports is what was done, but for a transaction that a later
\* fallback master committed.
THEOREM ReportsAreTruthful == Spec => []Truthful
  <1>1. IInv => Truthful
    <2> SUFFICES ASSUME IInv, NEW c \in Calls, at[c] = "done", kind[c] # "read"
                 PROVE  /\ answer[c] = "ok" => applied[c] > 0
                        /\ answer[c] # "ok" /\ lost[c] = 0 /\ applied[c] > 0 =>
                              /\ answer[c] = "fallbacksFailed"
                              /\ idx[c] > 1 /\ applied[c] = 1
      BY DEF Truthful
    <2>1. Returned(c)
      BY DEF IInv
    <2>2. /\ applied[c] \in Nat /\ lost[c] \in Nat
          /\ answer[c] \in {"none", "ok", "fallbacksFailed"} \cup Errors
      BY DEF IInv, TypeOK
    <2> QED
      BY <2>1, <2>2 DEF Returned
  <1> QED
    BY <1>1, InitInv, StepInv, PTL DEF Spec

-----------------------------------------------------------------------------
\* The counter has not gone round yet: all below it were asked; or it has.
AllAsked == \A f \in Fallbacks : attempts[f] > 0

FirstRound ==
    /\ \A f \in 1 .. nextFallback : attempts[f] > 0
    /\ \A c \in Calls : idx[c] <= nextFallback

Cycle == TypeOK /\ (AllAsked \/ FirstRound)

LEMMA CycleStep == Cycle /\ IInv /\ [Next]_vars => Cycle'
  <1> SUFFICES ASSUME Cycle, IInv, [Next]_vars PROVE Cycle'
    OBVIOUS
  <1>1. TypeOK /\ TypeOK'
    BY StepInv DEF IInv
  <1>2. ASSUME UNCHANGED <<nextFallback, attempts, idx>> PROVE Cycle'
    BY <1>1, <1>2 DEF Cycle, AllAsked, FirstRound
  <1>3. ASSUME NEW c \in Calls, TryFallback(c) PROVE Cycle'
    <2>1. /\ nextFallback \in Nat /\ attempts \in [Fallbacks -> Nat]
          /\ idx \in [Calls -> Nat] /\ NumFallbacks \in Nat
      BY <1>1, StorageAssumption DEF TypeOK, Fallbacks
    <2>2. NumFallbacks > 0 /\ nextFallback \in 0 .. NumFallbacks - 1
      <3>1. idx[c] < NumFallbacks
        BY <1>3 DEF IInv, TryFallback, Running
      <3> QED BY <1>1, <2>1, <3>1 DEF TypeOK, Fallbacks
    <2>3. /\ nextFallback' = Ticket(c)
          /\ attempts' = [attempts EXCEPT ![Ticket(c)] = @ + 1]
          /\ idx' = [idx EXCEPT ![c] = @ + 1]
      BY <1>3 DEF TryFallback
    <2>4. CASE nextFallback + 1 < NumFallbacks
      <3>1. Ticket(c) = nextFallback + 1
        BY <2>1, <2>2, <2>4 DEF Ticket
      <3>2. Ticket(c) \in Fallbacks
        BY <2>1, <2>4, <3>1 DEF Fallbacks
      <3>3. AllAsked => AllAsked'
        BY <2>1, <2>3, <3>2 DEF AllAsked
      <3>4. FirstRound => FirstRound'
        <4> SUFFICES ASSUME FirstRound PROVE FirstRound'
          OBVIOUS
        <4>1. \A f \in 1 .. nextFallback' : attempts'[f] > 0
          BY <2>1, <2>3, <2>4, <3>1, <3>2 DEF FirstRound, Fallbacks
        <4>2. \A d \in Calls : idx'[d] <= nextFallback'
          BY <2>1, <2>3, <3>1 DEF FirstRound
        <4> QED BY <4>1, <4>2 DEF FirstRound
      <3> QED BY <1>1, <3>3, <3>4 DEF Cycle
    <2>5. CASE nextFallback + 1 = NumFallbacks
      <3>1. Ticket(c) = 0
        BY <2>1, <2>2, <2>5 DEF Ticket
      <3>2. 0 \in Fallbacks
        BY <2>1, <2>2 DEF Fallbacks
      <3>3. \A f \in Fallbacks \ {0} : attempts[f] > 0
        BY <2>1, <2>5 DEF Cycle, AllAsked, FirstRound, Fallbacks
      <3>4. AllAsked'
        BY <2>1, <2>3, <3>1, <3>2, <3>3 DEF AllAsked
      <3> QED BY <1>1, <3>4 DEF Cycle
    <2> QED BY <2>1, <2>2, <2>4, <2>5
  <1>4. ASSUME NEW c \in Calls, Attempt(c) PROVE Cycle'
    <2>1. ~UsesFallback(c)
      BY <1>1 DEF TypeOK, UsesFallback
    <2>2. UNCHANGED <<nextFallback, attempts, idx>>
      BY <1>4, <2>1 DEF Attempt, ChoosePool
    <2> QED BY <1>2, <2>2
  <1>5. ASSUME NEW c \in Calls, Restart(c) \/ Cancel(c) PROVE Cycle'
    BY <1>2, <1>5 DEF Restart, Cancel, callVars
  <1>6. CASE UNCHANGED vars
    BY <1>2, <1>6 DEF vars, callVars
  <1> QED
    BY <1>3, <1>4, <1>5, <1>6 DEF Next

\* The round robin over fallback masters, drawn by any number of transactions at
\* once, leaves none out. Exec never draws from it: retry hands it no error but an
\* unexpected one.
THEOREM NoFallbackIsSpared == Spec => []NoFallbackSpared
  <1>1. Init => Cycle
    BY InitInv DEF Init, IInv, Cycle, FirstRound
  <1>2. Cycle => NoFallbackSpared
    <2> SUFFICES ASSUME Cycle, NEW c \in Calls, idx[c] = NumFallbacks
                 PROVE  AllAsked
      BY DEF NoFallbackSpared, AllAsked
    <2>1. nextFallback \in Fallbacks \cup {0}
      BY DEF Cycle, TypeOK
    <2>2. CASE NumFallbacks = 0
      BY <2>2 DEF AllAsked, Fallbacks
    <2>3. CASE NumFallbacks # 0
      <3>1. ~FirstRound
        BY <2>1, <2>3, StorageAssumption DEF FirstRound, Fallbacks
      <3> QED BY <3>1 DEF Cycle
    <2> QED BY <2>2, <2>3
  <1> QED
    BY <1>1, <1>2, InitInv, StepInv, CycleStep, PTL DEF Spec
=============================================================================
