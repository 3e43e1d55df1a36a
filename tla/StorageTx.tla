----------------------------- MODULE StorageTx -----------------------------
(***************************************************************************)
(* connectors/storage/v2: the operations of a *DB: DoInTransaction, Exec,  *)
(* ExecOne and ExecMany, Get and Select, with their retries, the fallback  *)
(* masters and the round robin over pools.                                 *)
(*                                                                         *)
(* PostgreSQL may answer any attempt in any way it can; it may also do     *)
(* what it was asked and lose the answer.                                  *)
(***************************************************************************)
EXTENDS Integers, FiniteSets

CONSTANTS
    Calls,         \* operations running concurrently on one *DB
    NumFallbacks,  \* fallback masters, the length of fallbackMasters.replicas
    NumReplicas,   \* the length of lb.replicas
    MaxTries,      \* bound: attempts that fit in the 25 s of a retry
    MaxLost        \* bound: answers a call may lose

ASSUME StorageAssumption ==
    /\ NumFallbacks \in Nat
    /\ NumReplicas \in Nat \ {0}
    /\ MaxTries \in Nat \ {0}
    /\ MaxLost \in Nat

Fallbacks == 0 .. NumFallbacks - 1
Replicas  == 0 .. NumReplicas - 1
Kinds     == {"tx", "exec", "read"}

\* What IsUnexpected and parseDBError tell apart: an error worth another attempt,
\* ErrReadOnly, ErrSerializationFailure or ErrTxAborted, and everything else (the
\* other errors of parseDBError, an error of the caller's own fn, a context that
\* is done).
Errors == {"unexpected", "readonly", "again", "other"}

VARIABLES
    kind,       \* which operation each call is
    nextReplica,   \* lb.currentIndex, modulo the number of replicas
    nextFallback,  \* fallbackMasters.currentIndex, modulo their number
    at,         \* where a call is: in retry, asleep before it starts again, in
                \* the loop over the fallback masters, or done
    tries,      \* attempts of the running retry that failed
    prevErr,    \* the error that retry hands to the next attempt
    idx,        \* fallback masters tried
    txErr,      \* errors collected from them
    answer,     \* what the call returned
    ctxDone,    \* its context is done
    applied,    \* how many times the database has done what it asks for
    lost,       \* how many of these times the answer was lost
    attempts    \* transactions begun on each fallback master

callVars == <<at, tries, prevErr, idx, txErr, answer>>
dbVars   == <<applied, lost>>
vars == <<kind, nextReplica, nextFallback, callVars, ctxDone, dbVars, attempts>>

Init ==
    /\ kind \in [Calls -> Kinds]
    /\ nextReplica = 0
    /\ nextFallback = 0
    /\ at = [c \in Calls |-> "retry"]
    /\ tries = [c \in Calls |-> 0]
    /\ prevErr = [c \in Calls |-> "none"]
    /\ idx = [c \in Calls |-> 0]
    /\ txErr = [c \in Calls |-> {}]
    /\ answer = [c \in Calls |-> "none"]
    /\ ctxDone = [c \in Calls |-> FALSE]
    /\ applied = [c \in Calls |-> 0]
    /\ lost = [c \in Calls |-> 0]
    /\ attempts = [f \in Fallbacks |-> 0]

(***************************************************************************)
(* One attempt, on whatever pool.                                          *)
(***************************************************************************)

\* "lost": done, but the connection broke before the answer; "cut": done, but the
\* context ended before the answer. Reads change nothing and are not refused.
Outcomes(c) ==
    IF ctxDone[c] THEN {"other"}
    ELSE {"ok"} \cup {"unexpected", "other"}
         \cup (IF kind[c] = "read" THEN {} ELSE {"readonly", "again"})
         \cup (IF kind[c] = "read" \/ lost[c] = MaxLost THEN {} ELSE {"lost", "cut"})

Perform(c, o) ==
    /\ applied' = IF o \in {"ok", "lost", "cut"} /\ kind[c] # "read"
                  THEN [applied EXCEPT ![c] = @ + 1] ELSE applied
    /\ lost' = IF o \in {"lost", "cut"} THEN [lost EXCEPT ![c] = @ + 1] ELSE lost
    /\ ctxDone' = IF o = "cut" THEN [ctxDone EXCEPT ![c] = TRUE] ELSE ctxDone

\* What the attempt returns, after parseDBError.
ErrorOf(o) == CASE o = "lost" -> "unexpected" [] o = "cut" -> "other" [] OTHER -> o

(***************************************************************************)
(* retry, the choice of the pool and what the operations do with the       *)
(* error that retry ends with.                                             *)
(***************************************************************************)
UsesFallback(c) == kind[c] = "exec" /\ NumFallbacks > 0 /\ prevErr[c] = "readonly"

ChoosePool(c) ==
    /\ nextReplica' = IF kind[c] = "read" THEN (nextReplica + 1) % NumReplicas ELSE nextReplica
    /\ nextFallback' = IF UsesFallback(c) THEN (nextFallback + 1) % NumFallbacks ELSE nextFallback

Retries(c, e) == e = "unexpected" /\ tries[c] < MaxTries

Return(c, e) ==
    /\ at' = [at EXCEPT ![c] = "done"]
    /\ answer' = [answer EXCEPT ![c] = e]

\* The end of retry: DoInTransaction looks at the error, the others return it.
FinishForgetsError(c, e) ==
    \/ /\ kind[c] = "tx" /\ e = "again"
       /\ at' = [at EXCEPT ![c] = "asleep"]
       /\ UNCHANGED answer
    \/ /\ kind[c] = "tx" /\ e = "readonly" /\ NumFallbacks > 0
       /\ at' = [at EXCEPT ![c] = "fallback"]
       /\ UNCHANGED answer
    \/ /\ kind[c] # "tx" \/ (e # "again" /\ ~(e = "readonly" /\ NumFallbacks > 0))
       /\ Return(c, IF e = "unexpected" THEN "ok" ELSE e)

FinishRestartsAlways(c, e) ==
    \/ /\ kind[c] = "tx" /\ e \in {"again", "other"}
       /\ at' = [at EXCEPT ![c] = "asleep"]
       /\ UNCHANGED answer
    \/ /\ kind[c] = "tx" /\ e = "readonly" /\ NumFallbacks > 0
       /\ at' = [at EXCEPT ![c] = "fallback"]
       /\ UNCHANGED answer
    \/ /\ kind[c] # "tx" \/ e \in {"ok", "unexpected"} \/ (e = "readonly" /\ NumFallbacks = 0)
       /\ Return(c, e)

Finish(c, e) ==
    \/ /\ kind[c] = "tx" /\ e = "again"
       /\ at' = [at EXCEPT ![c] = "asleep"]
       /\ UNCHANGED answer
    \/ /\ kind[c] = "tx" /\ e = "readonly" /\ NumFallbacks > 0
       /\ at' = [at EXCEPT ![c] = "fallback"]
       /\ UNCHANGED answer
    \/ /\ kind[c] # "tx" \/ (e # "again" /\ ~(e = "readonly" /\ NumFallbacks > 0))
       /\ Return(c, e)

\* Another attempt after a pause, or the end of retry: because the error is
\* permanent or there is none, the time is up, or the context is done meanwhile.
Attempt(c) ==
    /\ at[c] = "retry"
    /\ ChoosePool(c)
    /\ \E o \in Outcomes(c) :
          LET e == ErrorOf(o) IN
          /\ Perform(c, o)
          /\ \/ /\ Retries(c, e)
                /\ tries' = [tries EXCEPT ![c] = @ + 1]
                /\ prevErr' = [prevErr EXCEPT ![c] = e]
                /\ UNCHANGED <<at, answer>>
             \/ Finish(c, e) /\ UNCHANGED <<tries, prevErr>>
    /\ UNCHANGED <<kind, idx, txErr, attempts>>

\* DoInTransaction calls itself after 10 ms, whatever the context says.
Restart(c) ==
    /\ at[c] = "asleep"
    /\ at' = [at EXCEPT ![c] = "retry"]
    /\ tries' = [tries EXCEPT ![c] = 0]
    /\ prevErr' = [prevErr EXCEPT ![c] = "none"]
    /\ UNCHANGED <<kind, nextReplica, nextFallback, idx, txErr, answer, ctxDone, dbVars,
                   attempts>>

(***************************************************************************)
(* The loop over the fallback masters.                                     *)
(***************************************************************************)
TicketNotDrawn(c) == nextFallback
Ticket(c) == (nextFallback + 1) % NumFallbacks

GoesOnAfterOk(c, e) == idx[c] + 1 < NumFallbacks /\ e # "other"
GoesOn(c, e) == idx[c] + 1 < NumFallbacks /\ e \in {"readonly", "unexpected"}

TryFallback(c) ==
    /\ at[c] = "fallback"
    /\ nextFallback' = Ticket(c)
    /\ attempts' = [attempts EXCEPT ![Ticket(c)] = @ + 1]
    /\ idx' = [idx EXCEPT ![c] = @ + 1]
    /\ \E o \in Outcomes(c) :
          LET e == ErrorOf(o) IN
          /\ Perform(c, o)
          /\ txErr' = [txErr EXCEPT ![c] = @ \cup ({e} \ {"ok"})]
          /\ IF GoesOn(c, e) THEN UNCHANGED <<at, answer>>
             ELSE Return(c, IF txErr'[c] = {} THEN "ok" ELSE "fallbacksFailed")
    /\ UNCHANGED <<kind, nextReplica, tries, prevErr>>

\* The caller's context ends.
Cancel(c) ==
    /\ at[c] # "done" /\ ~ctxDone[c]
    /\ ctxDone' = [ctxDone EXCEPT ![c] = TRUE]
    /\ UNCHANGED <<kind, nextReplica, nextFallback, callVars, dbVars, attempts>>

Next ==
    \E c \in Calls : Attempt(c) \/ Restart(c) \/ TryFallback(c) \/ Cancel(c)

Spec == Init /\ [][Next]_vars

\* An attempt ends: every statement has a timeout, a server that is away an error.
FairSpec ==
    /\ Spec
    /\ \A c \in Calls : WF_vars(Attempt(c)) /\ WF_vars(Restart(c)) /\ WF_vars(TryFallback(c))

-----------------------------------------------------------------------------
TypeOK ==
    /\ kind \in [Calls -> Kinds]
    /\ nextReplica \in Replicas
    /\ nextFallback \in Fallbacks \cup {0}
    /\ at \in [Calls -> {"retry", "asleep", "fallback", "done"}]
    /\ tries \in [Calls -> Nat]
    /\ prevErr \in [Calls -> {"none", "unexpected"}]
    /\ idx \in [Calls -> Nat]
    /\ txErr \in [Calls -> SUBSET Errors]
    /\ answer \in [Calls -> {"none", "ok", "fallbacksFailed"} \cup Errors]
    /\ ctxDone \in [Calls -> BOOLEAN]
    /\ applied \in [Calls -> Nat]
    /\ lost \in [Calls -> Nat]
    /\ attempts \in [Fallbacks -> Nat]

\* Retries and fallback masters (api.go:42-80) repeat an operation that was already
\* done only when its answer was lost.
RepeatedOnlyIfLost == \A c \in Calls : applied[c] <= lost[c] + 1

\* An operation that reports success was done. One that reports a failure, without
\* any answer lost, was not done; with the one exception of a transaction that a
\* fallback master committed after another one had failed: its caller gets the
\* first error with the result of the second lost in it (api.go:64-74).
Truthful ==
    \A c \in Calls : at[c] = "done" /\ kind[c] # "read" =>
        /\ answer[c] = "ok" => applied[c] > 0
        /\ answer[c] # "ok" /\ lost[c] = 0 /\ applied[c] > 0 =>
              answer[c] = "fallbacksFailed" /\ idx[c] > 1 /\ applied[c] = 1

\* Transactions that run at the same time draw the fallback masters from one
\* counter: one of them may ask the same fallback master twice and another never.
\* Still, when a transaction gives up after as many as there are, each of them has
\* been asked, by it or by another.
NoFallbackSpared ==
    \A c \in Calls : idx[c] = NumFallbacks => \A f \in Fallbacks : attempts[f] > 0

\* A statement that always fails makes its transaction fail with ErrTxAborted when
\* it is retried in it, and DoInTransaction starts again for ever; but whatever
\* the database answers, an operation whose context is done returns.
EndsWithContext == \A c \in Calls : ctxDone[c] ~> at[c] = "done"
=============================================================================
