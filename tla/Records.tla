------------------------------ MODULE Records ------------------------------
(***************************************************************************)
(* What connectors/storage/v3 promises to those who call Set, Get and Bind *)
(* on structs, and Del, in terms of whole records: an abstract             *)
(* specification, with no servers, commands or retries.                    *)
(*                                                                         *)
(* A call consists of items, done one by one, in no particular order and,  *)
(* when the call starts over, more than once. It succeeds only when all of *)
(* them have been done since; when it fails, any of them may have been     *)
(* done, or may be later.                                                  *)
(***************************************************************************)
EXTENDS Integers, FiniteSets

CONSTANTS
    Callers,
    Jobs,     \* what callers may ask: [op, items], with the items by their positions
    Keys,
    Absent,   \* no record
    Zero      \* the record with all its fields empty

VARIABLES
    records,  \* key -> record, or Absent
    job,      \* what each caller is doing, or NoJob
    done,     \* the positions of the items that are done
    seen,     \* what the caller has read, by position
    answer,   \* what the last call returned: Failed, or the records found, by position
    late      \* items of abandoned tries, that may be done any time

recordVars == <<records, job, done, seen, answer, late>>

Nothing == [n \in {} |-> Absent]
NoJob   == [op |-> "none", items |-> Nothing]
Failed  == [error |-> TRUE, found |-> Nothing]
OK(found) == [error |-> FALSE, found |-> found]

Items(c) == DOMAIN job[c].items
Read(c) == {n \in DOMAIN seen[c] : seen[c][n].record # Absent}

Init ==
    /\ records = [k \in Keys |-> Absent]
    /\ job = [c \in Callers |-> NoJob]
    /\ done = [c \in Callers |-> {}]
    /\ seen = [c \in Callers |-> Nothing]
    /\ answer = [c \in Callers |-> OK(Nothing)]
    /\ late = {}

\* A record is written over another one, or over none: some of its fields may be
\* left as they were.
Merge(old, new) ==
    LET base == IF old = Absent THEN Zero ELSE old
    IN  [f \in DOMAIN Zero |-> IF f \in new.omits THEN base[f] ELSE new.fields[f]]

Effect(op, item) ==
    CASE op = "set" -> [records EXCEPT ![item.key] = Merge(@, item)]
      [] op = "del" -> [records EXCEPT ![item.key] = Absent]
      [] OTHER      -> records

Wanted(c) == {[op |-> job[c].op, item |-> job[c].items[n]] : n \in Items(c)}

Begin(c) ==
    /\ job[c] = NoJob
    /\ \E j \in Jobs : job' = [job EXCEPT ![c] = j]
    /\ answer' = [answer EXCEPT ![c] = OK(Nothing)]
    /\ UNCHANGED <<records, done, seen, late>>

Do(c) ==
    /\ \E n \in Items(c) \ done[c] :
          LET item == job[c].items[n] IN
          /\ records' = Effect(job[c].op, item)
          /\ done' = [done EXCEPT ![c] = @ \cup {n}]
          /\ seen' = IF job[c].op # "get" THEN seen
                     ELSE [seen EXCEPT ![c] = [m \in DOMAIN @ \cup {n} |->
                             IF m = n THEN [key |-> item.key, record |-> records[item.key]]
                             ELSE @[m]]]
    /\ UNCHANGED <<job, answer, late>>

Forget(c) ==
    /\ done' = [done EXCEPT ![c] = {}]
    /\ seen' = [seen EXCEPT ![c] = Nothing]

MoreLate(c) == late \subseteq late' /\ late' \subseteq late \cup Wanted(c)

\* Everything is to be done again, and what was asked for may still be done as well.
StartOver(c) ==
    /\ Forget(c) /\ MoreLate(c)
    /\ UNCHANGED <<records, job, answer>>

DoLate ==
    /\ \E w \in late : records' = Effect(w.op, w.item)
    /\ late' \subseteq late
    /\ UNCHANGED <<job, done, seen, answer>>

NeverDo ==
    /\ late' \subseteq late
    /\ UNCHANGED <<records, job, done, seen, answer>>

\* A call succeeds when all is done; a read returns what it found.
Succeed(c) ==
    /\ job[c] # NoJob /\ done[c] = Items(c)
    /\ answer' = [answer EXCEPT ![c] = OK([n \in Read(c) |-> seen[c][n]])]
    /\ job' = [job EXCEPT ![c] = NoJob]
    /\ Forget(c)
    /\ UNCHANGED <<records, late>>

Fail(c) ==
    /\ job[c] # NoJob
    /\ answer' = [answer EXCEPT ![c] = Failed]
    /\ job' = [job EXCEPT ![c] = NoJob]
    /\ Forget(c) /\ MoreLate(c)
    /\ UNCHANGED records

Next ==
    \/ \E c \in Callers : Begin(c) \/ Do(c) \/ StartOver(c) \/ Succeed(c) \/ Fail(c)
    \/ DoLate \/ NeverDo

Spec == Init /\ [][Next]_recordVars
=============================================================================
