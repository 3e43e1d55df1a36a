------------------------------ MODULE Outbound ------------------------------
(***************************************************************************)
(* The clients that make one request for one call, and retry it: email,    *)
(* sms, notifications/inapp, notifications/telegram, analytics/tracking,   *)
(* multimedia/picture and auth's operations on Firebase accounts. Each     *)
(* slot makes one call at a time, with a context of its own.               *)
(*                                                                         *)
(* A provider may do what it is asked and its answer still be lost.        *)
(***************************************************************************)
EXTENDS Auth, Integers, FiniteSets

CONSTANTS
    Slots,      \* the goroutines that make calls
    MaxTries,   \* bound: attempts in the 25 s, or 25 retries, of a call
    MaxLost     \* bound: answers lost in a call

ASSUME OutboundAssumption == MaxTries \in Nat \ {0} /\ MaxLost \in Nat

\* "phone" is VerifyPhoneNumber; "upload" the first half of UploadPicture and "replace"
\* the second; "remove" is UploadPicture without a new picture. "claims" and "setClaims"
\* are the halves of UpdateCustomClaims, "userByEmail" is GetUserUIDByEmail.
Accounts == {"claims", "setClaims", "setEmail", "deleteUser", "userByEmail"}
Kinds == {"email", "sms", "phone", "inapp", "telegram", "tracking", "upload", "replace",
          "remove"} \cup Accounts
Deletions == {"replace", "remove"}

VARIABLES
    kind,      \* what each slot calls, or "none"
    phase,     \* idle, trying, hung (an attempt waits for an answer), put (the upload
               \* of a picture has ended), merging (claims), or returned
    tries,     \* attempts that failed
    sent,      \* times the provider has done it
    lost,      \* times the answer to that was lost
    result,    \* what the call returned
    last,      \* what the last attempt of the call came back with, or "none"
    ctxErr     \* Err() of the slot's context

callVars == <<kind, phase, tries, sent, lost, result, last>>

OutboundInit ==
    /\ kind = [s \in Slots |-> "none"]
    /\ phase = [s \in Slots |-> "idle"]
    /\ tries = [s \in Slots |-> 0]
    /\ sent = [s \in Slots |-> 0]
    /\ lost = [s \in Slots |-> 0]
    /\ result = [s \in Slots |-> "none"]
    /\ last = [s \in Slots |-> "none"]

(***************************************************************************)
(* What an attempt may come back with: an answer of the provider, by its   *)
(* status, or no answer. "limit" is a refusal because of a limit (a 403 of *)
(* sendgrid, a used up rate of getstream), "country" twilio's 21612,       *)
(* "unsuccessful" a 2xx whose body says otherwise (only tracking looks).   *)
(* "serverLost" and "netLost" come after it was done, all other failures   *)
(* before; a request that hangs waits for an answer until its context      *)
(* ends. Twilio's client is given no context, but has a timeout of its own.*)
(***************************************************************************)
Hanging == {"hang", "hangLost"}
Everywhere == {"ok", "badRequest", "otherStatus", "tooMany", "server", "serverLost", "net",
               "netLost"} \cup Hanging
Done == {"ok", "serverLost", "netLost", "hangLost"}

Replies(k) ==
    CASE k = "sms"      -> (Everywhere \ Hanging) \cup {"country"}
      [] k = "phone"    -> (Everywhere \ Hanging) \cup {"notFound", "reformatted"}
      [] k \in {"email", "inapp"} -> Everywhere \cup {"limit"}
      [] k = "telegram" -> Everywhere \cup {"forbidden", "notFound", "conflict"}
      [] k = "tracking" -> Everywhere \cup {"unsuccessful"}
      [] k = "setEmail" -> Everywhere \cup {"notFound", "conflict"}
      [] OTHER          -> Everywhere \cup {"notFound"}

Answers == UNION {Replies(k) : k \in Kinds}

Overloaded == {"tooMany", "server", "serverLost"}

\* Mutant of EmailRetries: a connection that broke is no permanent error.
EmailRetriesBroken == Overloaded \cup {"limit", "net", "netLost"}

\* The replies worth another attempt, by client. The rest is permanent.
EmailRetries == Overloaded \cup {"limit"}
InAppRetries    == Overloaded \cup {"limit"}
SmsRetries      == Everywhere \ {"ok"}
PhoneRetries    == Everywhere \ {"ok"}
TelegramRetries == (Everywhere \cup {"conflict"}) \ {"ok", "badRequest"}
TrackingRetries == Overloaded \cup {"net", "netLost"}
PictureRetries  == Overloaded \cup {"net", "netLost"}
AccountRetries  == {"server", "serverLost", "net", "netLost"}

RetriedAfter(k) ==
    CASE k = "email"    -> EmailRetries
      [] k = "inapp"    -> InAppRetries
      [] k = "sms"      -> SmsRetries
      [] k = "phone"    -> PhoneRetries
      [] k = "telegram" -> TelegramRetries
      [] k = "tracking" -> TrackingRetries
      [] k \in Accounts -> AccountRetries
      [] OTHER          -> PictureRetries

\* post of telegram wraps an error that is nil for any status it does not know.
TelegramSuccess == {"ok", "otherStatus"} \cup Overloaded

\* Nobody is left to delete, or has the email: that is no error. Any other account that
\* is not there, and an email that is taken, is one.
AccountSuccess(k) == {"ok"} \cup IF k \in {"deleteUser", "userByEmail"} THEN {"notFound"} ELSE {}

\* Mutant of Succeeds: the body of tracking's answer is not looked at.
SucceedsByStatus(k, reply) ==
    CASE k = "telegram" -> reply \in TelegramSuccess
      [] k \in Accounts -> reply \in AccountSuccess(k)
      [] k \in Deletions -> reply \in {"ok", "notFound"}
      [] OTHER          -> reply \in {"ok", "unsuccessful"}

Succeeds(k, reply) ==
    CASE k = "telegram" -> reply \in TelegramSuccess
      [] k \in Accounts -> reply \in AccountSuccess(k)
      [] k \in Deletions -> reply \in {"ok", "notFound"}
      [] OTHER          -> reply = "ok"

(***************************************************************************)
(* A call.                                                                 *)
(***************************************************************************)
Return(s, r) ==
    /\ phase' = [phase EXCEPT ![s] = "returned"]
    /\ result' = [result EXCEPT ![s] = r]

Try(s, k) ==
    /\ kind' = [kind EXCEPT ![s] = k]
    /\ phase' = [phase EXCEPT ![s] = "trying"]
    /\ UNCHANGED result

\* Where Firebase is not configured there are no accounts, and that is no error.
StartCall(s, k) ==
    /\ IF k \notin Accounts \/ firebase THEN Try(s, k)
       ELSE kind' = [kind EXCEPT ![s] = k] /\ Return(s, "ok")
    /\ UNCHANGED <<tries, sent, lost, last>>

EndCall(s) ==
    /\ kind' = [kind EXCEPT ![s] = "none"]
    /\ phase' = [phase EXCEPT ![s] = "idle"]
    /\ tries' = [tries EXCEPT ![s] = 0]
    /\ sent' = [sent EXCEPT ![s] = 0]
    /\ lost' = [lost EXCEPT ![s] = 0]
    /\ result' = [result EXCEPT ![s] = "none"]
    /\ last' = [last EXCEPT ![s] = "none"]

\* The upload's PUT ends in a deferred Close, whatever came of it; the claims that were
\* read are merged.
Conclude(s, r) ==
    CASE kind[s] = "upload" -> phase' = [phase EXCEPT ![s] = "put"] /\ UNCHANGED result
      [] kind[s] = "claims" /\ r = "ok" ->
            phase' = [phase EXCEPT ![s] = "merging"] /\ UNCHANGED result
      [] OTHER -> Return(s, r)

GoOn(s, k) ==
    /\ Try(s, k)
    /\ tries' = [tries EXCEPT ![s] = 0]
    /\ sent' = [sent EXCEPT ![s] = 0]
    /\ lost' = [lost EXCEPT ![s] = 0]
    /\ last' = [last EXCEPT ![s] = "none"]

Perform(s, reply) ==
    /\ sent' = IF reply \in Done THEN [sent EXCEPT ![s] = @ + 1] ELSE sent
    /\ lost' = IF reply \in Done \ {"ok"} THEN [lost EXCEPT ![s] = @ + 1] ELSE lost

Attempt(s) ==
    /\ phase[s] = "trying" /\ ctxErr[s] = "none"
    /\ \E reply \in Replies(kind[s]) :
          /\ reply \in Done \ {"ok"} => lost[s] < MaxLost
          /\ Perform(s, reply)
          /\ last' = [last EXCEPT ![s] = reply]
          /\ \/ /\ reply \in Hanging
                /\ phase' = [phase EXCEPT ![s] = "hung"]
                /\ UNCHANGED <<tries, result>>
             \/ /\ reply \in RetriedAfter(kind[s]) \ Hanging
                /\ tries[s] < MaxTries
                /\ tries' = [tries EXCEPT ![s] = @ + 1]
                /\ UNCHANGED <<phase, result>>
             \/ /\ reply \notin Hanging
                /\ reply \in RetriedAfter(kind[s]) => tries[s] = MaxTries
                /\ Conclude(s, IF Succeeds(kind[s], reply) THEN "ok" ELSE "error")
                /\ UNCHANGED tries
    /\ UNCHANGED <<kind, ctxErr>>

\* Mutant of Abandon: the request is made without the context.
AbandonBetweenAttempts(s) ==
    /\ phase[s] = "trying" /\ ctxErr[s] # "none"
    /\ Conclude(s, ctxErr[s])
    /\ UNCHANGED <<kind, tries, sent, lost, last, ctxErr>>

\* The context ends before an attempt, during one, or in the pause after one.
Abandon(s) ==
    /\ phase[s] \in {"trying", "hung"} /\ ctxErr[s] # "none"
    /\ Conclude(s, ctxErr[s])
    /\ UNCHANGED <<kind, tries, sent, lost, last, ctxErr>>

(***************************************************************************)
(* UploadPicture: the error of the deferred Close takes the place of the   *)
(* upload's, and the deferred deletion of the old picture looks at that.   *)
(***************************************************************************)
CloseFile(s) ==
    /\ phase[s] = "put"
    /\ GoOn(s, "replace") \/ (Return(s, "error") /\ UNCHANGED <<kind, tries, sent, lost, last>>)
    /\ UNCHANGED ctxErr

\* There is no old picture, or its name matches ignoreFilesRegex.
SkipDeletion(s) ==
    /\ phase[s] = "trying" /\ kind[s] \in Deletions
    /\ tries[s] = 0 /\ sent[s] = 0
    /\ Return(s, "ok")
    /\ UNCHANGED <<kind, tries, sent, lost, last, ctxErr>>

\* The claims of the account are merged with, and win against, those of the caller.
MergeClaims(s) ==
    /\ phase[s] = "merging"
    /\ GoOn(s, "setClaims")
       \/ (Return(s, "error") /\ UNCHANGED <<kind, tries, sent, lost, last>>)
    /\ UNCHANGED ctxErr

CallStep(s) == Attempt(s) \/ Abandon(s) \/ CloseFile(s) \/ SkipDeletion(s) \/ MergeClaims(s)
=============================================================================
