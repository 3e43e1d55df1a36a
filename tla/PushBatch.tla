----------------------------- MODULE PushBatch ------------------------------
(***************************************************************************)
(* notifications/push: what process() does with one batch. It sends to FCM *)
(* the notifications that still need it, sorts the answers into three      *)
(* maps, retries until all are settled or time is up, and then responds to *)
(* every notification.                                                     *)
(*                                                                         *)
(* FCM is outside the repository: it may answer each message with success, *)
(* an invalid token or another error, and the call as a whole may fail     *)
(* before or after FCM has acted on its messages.                          *)
(***************************************************************************)
EXTENDS Integers, FiniteSets

CONSTANT Devices  \* the notifications of the batch, by their index

ASSUME BatchAssumption == IsFiniteSet(Devices) /\ Devices # {}

VARIABLES
    phase,     \* "ready" to send, "calling" FCM, "waiting" to retry, "settling", "done"
    time,      \* "early"; "late": less than one retry interval is left before
               \* the deadline; "expired": the context of the batch is done
    messages,  \* the devices of the call in flight
    invalid,   \* devicesWithInvalidTokens
    notified,  \* devicesNotified
    failed,    \* devicesFailed: the error kept for each device, or "none"
    report,    \* what each responder got: "nil", an error, or "none" so far
    reached,   \* history: how often (at most twice) FCM delivered to a device
    lost       \* history: devices FCM delivered to in a call that then failed

batchVars == <<phase, time, messages, invalid, notified, failed, report, reached, lost>>

Outcomes == {"ok", "invalid", "transient"}
Errors   == {"invalid", "transient", "notAttempted"}

FailedDevices == {d \in Devices : failed[d] # "none"}

BatchInit ==
    /\ phase = "ready"
    /\ time = "early"
    /\ messages = {}
    /\ invalid = {}
    /\ notified = {}
    /\ failed = [d \in Devices |-> "none"]
    /\ report = [d \in Devices |-> "none"]
    /\ reached = [d \in Devices |-> 0]
    /\ lost = {}

TimePasses ==
    /\ \/ time = "early" /\ time' = "late"
       \/ time = "late" /\ time' = "expired"
    /\ phase # "done"
    /\ UNCHANGED <<phase, messages, invalid, notified, failed, report, reached, lost>>

\* One attempt builds the messages for everything not settled yet.
UnsettledOrNotified == Devices \ invalid
Unsettled == Devices \ (invalid \cup notified)

Attempt ==
    /\ phase = "ready"
    /\ messages' = Unsettled
    /\ phase' = "calling"
    /\ UNCHANGED <<time, invalid, notified, failed, report, reached, lost>>

\* The batch is settled, or the counts say so.
AllSettled(inv, ok) == Cardinality(inv) + Cardinality(ok) = Cardinality(Devices)

\* After a failed attempt there is a retry while an interval fits before the deadline.
NeverGiveUp == "waiting"
AfterFailure == IF time = "early" THEN "waiting" ELSE "settling"

Deliver(ds) == [d \in Devices |-> IF d \in ds /\ reached[d] < 2
                                  THEN reached[d] + 1 ELSE reached[d]]

\* What an answer leaves in devicesFailed for the devices of the call.
ForgetsSuccess(outcome) ==
    [d \in Devices |-> IF d \notin messages \/ outcome[d] = "ok" THEN failed[d]
                       ELSE outcome[d]]
Failures(outcome) ==
    [d \in Devices |-> IF d \notin messages THEN failed[d]
                       ELSE IF outcome[d] = "ok" THEN "none" ELSE outcome[d]]

\* FCM answers message by message.
Answer ==
    /\ phase = "calling"
    /\ \E outcome \in [messages -> Outcomes] :
         LET of(o) == {d \in messages : outcome[d] = o} IN
         /\ invalid' = invalid \cup of("invalid")
         /\ notified' = notified \cup of("ok")
         /\ failed' = Failures(outcome)
         /\ reached' = Deliver(of("ok"))
    /\ messages' = {}
    /\ phase' = IF AllSettled(invalid', notified') THEN "settling" ELSE AfterFailure
    /\ UNCHANGED <<time, report, lost>>

\* The call fails as a whole, whatever FCM did with part of the messages. An
\* error that is the context's own ends the retries.
CallFails ==
    /\ phase = "calling"
    /\ \E ds \in SUBSET messages :
         reached' = Deliver(ds) /\ lost' = lost \cup ds
    /\ messages' = {}
    /\ phase' = AfterFailure
    /\ UNCHANGED <<time, invalid, notified, failed, report>>

\* The backoff timer fires, possibly together with the deadline.
Retry ==
    /\ phase = "waiting"
    /\ phase' = "ready"
    /\ UNCHANGED <<time, messages, invalid, notified, failed, report, reached, lost>>

GiveUp ==
    /\ phase = "waiting" /\ time = "expired"
    /\ phase' = "settling"
    /\ UNCHANGED <<time, messages, invalid, notified, failed, report, reached, lost>>

\* What process() reports: its fallback is for every device that was not notified.
FallbackAlways ==
    [d \in Devices |-> IF d \in notified THEN failed[d] ELSE "notAttempted"]
Fallback ==
    IF Cardinality(Devices) = Cardinality(notified) + Cardinality(FailedDevices)
    THEN failed
    ELSE [d \in Devices |-> IF d \in notified THEN failed[d] ELSE "notAttempted"]

Settle ==
    /\ phase = "settling"
    /\ failed' = Fallback
    /\ report' = [d \in Devices |-> IF failed'[d] = "none" THEN "nil" ELSE failed'[d]]
    /\ phase' = "done"
    /\ UNCHANGED <<time, messages, invalid, notified, reached, lost>>

BatchNext == TimePasses \/ Attempt \/ Answer \/ CallFails \/ Retry \/ GiveUp \/ Settle

BatchSpec == BatchInit /\ [][BatchNext]_batchVars

\* Time passes, the call to FCM ends (its context has the deadline), and the
\* goroutine runs.
BatchFairness == /\ WF_batchVars(TimePasses)
                 /\ WF_batchVars(Attempt \/ Answer \/ CallFails \/ Settle)
                 /\ WF_batchVars(Retry \/ GiveUp)

FairBatch == BatchSpec /\ BatchFairness

-----------------------------------------------------------------------------
BatchTypeOK ==
    /\ phase \in {"ready", "calling", "waiting", "settling", "done"}
    /\ time \in {"early", "late", "expired"}
    /\ messages \subseteq Devices
    /\ invalid \subseteq Devices
    /\ notified \subseteq Devices
    /\ failed \in [Devices -> Errors \cup {"none"}]
    /\ report \in [Devices -> Errors \cup {"nil", "none"}]
    /\ reached \in [Devices -> 0 .. 2]
    /\ lost \subseteq Devices

\* A responder gets nil exactly when FCM confirmed its notification: an error
\* kept from an earlier attempt is gone (batch.go:92), and none is left out
\* of the maps.
ReportTruthful ==
    phase = "done" =>
        \A d \in Devices : /\ report[d] = "nil" <=> d \in notified
                           /\ report[d] = "nil" => reached[d] > 0

\* The fallback for an exhausted deadline (batch.go:34-40) overwrites every
\* device not notified; it never turns a verdict of FCM into "not attempted",
\* so a caller learns that its token is invalid.
VerdictKept ==
    phase = "done" =>
        \A d \in Devices :
            /\ d \in invalid <=> report[d] = "invalid"
            /\ report[d] = "notAttempted" => invalid \cup notified = {}

\* Every attempt has something to send: FCM rejects an empty list (batch.go:71).
NothingSentInVain == phase = "calling" => messages # {}

\* A device is notified twice only after a call that failed on the way back.
DuplicateOnlyIfLost == \A d \in Devices : reached[d] > 1 => d \in lost

\* The batch responds, whatever FCM does (requestDeadline).
BatchEnds == <>(phase = "done")
=============================================================================
