----------------------------- MODULE HttpServer -----------------------------
(***************************************************************************)
(* server: the life of the HTTP server, from ListenAndServe to the end of  *)
(* its shutdown, and the way of a request through RootHandler: binding,    *)
(* validation, authorization, the endpoint's handler, and the answer.      *)
(* Handlers are the application's; here one may make a call of Outbound    *)
(* with its context, or fail in any way.                                   *)
(*                                                                         *)
(* Time passes in ticks, Timeout of which are DefaultEndpointTimeout, the  *)
(* deadline of each request and of the shutdown.                           *)
(***************************************************************************)
EXTENDS Outbound

CONSTANTS
    Inputs(_, _), \* the requests each slot may be sent, with and without Firebase
    PersonOf(_),  \* whose a user ID is: a person may have one of each provider
    Timeout       \* bound: DefaultEndpointTimeout in ticks

ASSUME ServerAssumption == Timeout \in Nat \ {0}

\* What the program knows of a request: its tags, path and body, the call that its
\* handler makes, and whether the client has left.
Flags == {"endsWithUser", "allowUnauthorized", "allowForbiddenGet",
          "allowForbiddenWriteOperation", "wellFormed", "complete", "gone"}
IsRequest(in) ==
    /\ DOMAIN in = Flags \cup {"token", "metadata", "method", "pathUser", "calls"}
    /\ in.calls \in Kinds \cup {"none"}
    /\ \A f \in Flags : in[f] \in BOOLEAN

\* A signature proves who made a token: both providers make tokens for a user, and the
\* service gives metadata to one person, with the IDs of that person.
Signed(in) ==
    /\ in.token.valid \in BOOLEAN
    /\ in.token.valid =>
          in.token.user # NoUser /\ (in.token.alg = "RS256" => in.token.iss = "google")
    /\ LET m == in.metadata IN
       m.token.valid /\ m.token.iss = "metadata" =>
          \A u, v \in {m.token.user, m.iceId, m.firebaseId} \ {NoUser} : PersonOf(u) = PersonOf(v)

ASSUME InputsAssumption ==
    \A s \in Slots, f \in BOOLEAN : \A in \in Inputs(s, f) : IsRequest(in) /\ Signed(in)

NoInput == [method |-> "none"]

VARIABLES
    main,      \* ListenAndServe: starting (s.quit is not made), waiting, shutdown (its
               \* context is made), draining (no listener), closing (the State), done
    quit,      \* a signal is in the quit channel
    serving,   \* startServer: not yet, up, failed, blocked (on a quit that is nil), ended
    appCtx,    \* Err() of the base context, which the application may cancel
    grace,     \* ticks left to the context of shutDown
    at,        \* where a request is: idle, arrived, handling or answered
    input,     \* what it is
    user,      \* who it is from, for the handler
    code,      \* the status of its answer
    left,      \* ticks left to its context
    lateStart  \* it came after the shutdown had begun

serverVars  == <<firebase, main, quit, serving, appCtx, grace>>
requestVars == <<at, input, user, code, left, lateStart>>
vars == <<serverVars, requestVars, callVars, ctxErr>>

Init ==
    /\ OutboundInit
    /\ firebase \in BOOLEAN
    /\ main = "starting" /\ quit = FALSE /\ serving = "notYet" /\ appCtx = "none" /\ grace = 0
    /\ at = [s \in Slots |-> "idle"]
    /\ input = [s \in Slots |-> NoInput]
    /\ user = [s \in Slots |-> NoUser]
    /\ code = [s \in Slots |-> 0]
    /\ left = [s \in Slots |-> 0]
    /\ lateStart = [s \in Slots |-> FALSE]
    /\ ctxErr = [s \in Slots |-> "none"]

(***************************************************************************)
(* The server's goroutines.                                                *)
(***************************************************************************)

\* ListenAndServeTLS: on a server that is shut down already it returns at once.
StartServer ==
    /\ serving = "notYet"
    /\ serving' = IF main \in {"starting", "waiting", "shutdown"} THEN "up" ELSE "ended"
    /\ UNCHANGED <<firebase, main, quit, appCtx, grace, requestVars, callVars, ctxErr>>

\* It cannot listen, or no longer: a certificate or a port is missing, Accept fails.
ServingFails ==
    /\ serving \in {"notYet", "up"} /\ main \in {"starting", "waiting", "shutdown"}
    /\ serving' = "failed"
    /\ UNCHANGED <<firebase, main, quit, appCtx, grace, requestVars, callVars, ctxErr>>

\* Mutant of SendQuit: the failure is only logged.
SendQuitForgotten ==
    /\ serving = "failed" /\ serving' = "ended"
    /\ UNCHANGED <<firebase, main, quit, appCtx, grace, requestVars, callVars, ctxErr>>

\* s.quit <- SIGTERM: a channel of one, or nil before wait has made it.
SendQuit ==
    /\ serving = "failed"
    /\ \/ main = "starting" /\ serving' = "blocked" /\ UNCHANGED quit
       \/ main # "starting" /\ ~quit /\ quit' = TRUE /\ serving' = "ended"
    /\ UNCHANGED <<firebase, main, appCtx, grace, requestVars, callVars, ctxErr>>

Wait ==
    /\ main = "starting" /\ main' = "waiting"
    /\ UNCHANGED <<firebase, quit, serving, appCtx, grace, requestVars, callVars, ctxErr>>

Signal ==
    /\ main = "waiting" /\ ~quit
    /\ quit' = TRUE
    /\ UNCHANGED <<firebase, main, serving, appCtx, grace, requestVars, callVars, ctxErr>>

\* The application calls the cancel function it was given.
Cancel ==
    /\ appCtx = "none"
    /\ appCtx' = "canceled"
    /\ ctxErr' = [s \in Slots |-> IF at[s] \in {"arrived", "handling"} /\ ctxErr[s] = "none"
                                  THEN "canceled" ELSE ctxErr[s]]
    /\ UNCHANGED <<firebase, main, quit, serving, grace, requestVars, callVars>>

\* Mutant of ShutDown: with a shorter timeout than that of the endpoints.
ShutDownHastily ==
    /\ main = "waiting"
    /\ \/ quit /\ quit' = FALSE
       \/ appCtx # "none" /\ UNCHANGED quit
    /\ main' = "shutdown"
    /\ grace' = Timeout - 1
    /\ UNCHANGED <<firebase, serving, appCtx, requestVars, callVars, ctxErr>>

ShutDown ==
    /\ main = "waiting"
    /\ \/ quit /\ quit' = FALSE
       \/ appCtx # "none" /\ UNCHANGED quit
    /\ main' = "shutdown"
    /\ grace' = Timeout
    /\ UNCHANGED <<firebase, serving, appCtx, requestVars, callVars, ctxErr>>

\* server.Shutdown closes the listeners and waits for the requests, until its
\* context ends.
CloseListeners ==
    /\ main = "shutdown" /\ main' = "draining"
    /\ serving' = IF serving = "up" THEN "ended" ELSE serving
    /\ UNCHANGED <<firebase, quit, appCtx, grace, requestVars, callVars, ctxErr>>

Busy == {s \in Slots : at[s] \in {"arrived", "handling"}}

CloseState ==
    /\ main = "draining"
    /\ Busy = {} \/ grace = 0
    /\ main' = "closing"
    /\ UNCHANGED <<firebase, quit, serving, appCtx, grace, requestVars, callVars, ctxErr>>

Stop ==
    /\ main = "closing" /\ main' = "done"
    /\ UNCHANGED <<firebase, quit, serving, appCtx, grace, requestVars, callVars, ctxErr>>

Tick ==
    /\ grace > 0 \/ \E s \in Busy : left[s] > 0
    /\ grace' = IF grace > 0 THEN grace - 1 ELSE 0
    /\ left' = [s \in Slots |-> IF s \in Busy /\ left[s] > 0 THEN left[s] - 1 ELSE left[s]]
    /\ ctxErr' = [s \in Slots |-> IF s \in Busy /\ left'[s] = 0 /\ ctxErr[s] = "none"
                                  THEN "deadline" ELSE ctxErr[s]]
    /\ UNCHANGED <<firebase, main, quit, serving, appCtx>>
    /\ UNCHANGED <<at, input, user, code, lateStart, callVars>>

(***************************************************************************)
(* A request.                                                              *)
(***************************************************************************)
Arrive(s) ==
    /\ serving = "up" /\ at[s] \in {"idle", "answered"}
    /\ \E in \in Inputs(s, firebase) : input' = [input EXCEPT ![s] = in]
    /\ at' = [at EXCEPT ![s] = "arrived"]
    /\ left' = [left EXCEPT ![s] = Timeout]
    /\ lateStart' = [lateStart EXCEPT ![s] = main = "shutdown"]
    /\ ctxErr' = [ctxErr EXCEPT ![s] = appCtx]
    /\ code' = [code EXCEPT ![s] = 0]
    /\ UNCHANGED <<serverVars, user, callVars>>

\* The client goes away: the request's own context is canceled.
Leave(s) ==
    /\ at[s] \in {"arrived", "handling"} /\ ctxErr[s] = "none"
    /\ ctxErr' = [ctxErr EXCEPT ![s] = "canceled"]
    /\ input' = [input EXCEPT ![s] = [@ EXCEPT !.gone = TRUE]]
    /\ UNCHANGED <<serverVars, at, user, code, left, lateStart, callVars>>

\* The request is over, and so is its context.
Answer(s, c) ==
    /\ at' = [at EXCEPT ![s] = "answered"]
    /\ code' = [code EXCEPT ![s] = c]
    /\ input' = [input EXCEPT ![s] = NoInput]
    /\ user' = [user EXCEPT ![s] = NoUser]
    /\ left' = [left EXCEPT ![s] = 0]
    /\ lateStart' = [lateStart EXCEPT ![s] = FALSE]
    /\ ctxErr' = [ctxErr EXCEPT ![s] = "none"]

ProcessRequest(in) == IF ~in.wellFormed \/ ~in.complete THEN 422 ELSE 200

\* The owner's rule: an ID in the path is the user's own, or the endpoint says
\* otherwise, or it is that of a GET which ends with it.
MayAct(in, u) ==
    \/ in.pathUser \in {NoUser, "dash", u}
    \/ in.method = "GET" /\ (in.allowForbiddenGet \/ in.endsWithUser)
    \/ in.method # "GET" /\ in.allowForbiddenWriteOperation

\* The deferred function of authorize drops its error.
ErrorDropped(in) ==
    /\ in.allowUnauthorized
    /\ in.pathUser = "dash" \/ (in.method \in {"GET", "POST"} /\ in.pathUser = NoUser)

\* The user and the status of a request that passes (200) or fails.
Authorize(in, reached) ==
    LET token == VerifyToken(in.token, reached)
        changed == ModifyTokenWithMetadata(token.user, in.metadata)
        status == IF token.error # "none" THEN IF token.error = "forbidden" THEN 403 ELSE 401
                  ELSE IF changed.error # "none" THEN 401
                  ELSE IF MayAct(in, changed.user) THEN 200 ELSE 403
    IN [user |-> IF token.error = "none" THEN changed.user ELSE NoUser,
        status |-> IF ErrorDropped(in) THEN 200 ELSE status]

\* A Firebase token is not verified when its keys cannot be had in time.
Admit(s) ==
    /\ at[s] = "arrived"
    /\ \E reached \in IF ctxErr[s] = "none" THEN BOOLEAN ELSE {FALSE} :
          LET auth == Authorize(input[s], reached)
              status == IF ProcessRequest(input[s]) # 200 THEN ProcessRequest(input[s])
                        ELSE auth.status
          IN \/ status # 200 /\ Answer(s, status) /\ UNCHANGED callVars
             \/ /\ status = 200
                /\ at' = [at EXCEPT ![s] = "handling"]
                /\ user' = [user EXCEPT ![s] = auth.user]
                /\ IF input[s].calls = "none" THEN UNCHANGED callVars
                   ELSE StartCall(s, input[s].calls)
                /\ UNCHANGED <<code, input, left, lateStart, ctxErr>>
    /\ UNCHANGED serverVars

\* The request's own context has no deadline: it only can be canceled.
ParentErr(s) == IF input[s].gone THEN "canceled" ELSE appCtx

ProcessErrorResponse(s, err, status) ==
    IF err = ParentErr(s) THEN 503
    ELSE IF err = ctxErr[s] THEN 504
    ELSE IF status <= 0 THEN 500 ELSE status

\* A handler that makes no call: it succeeds, or fails with its context's error, one
\* of its own, an expired deadline of its own, or a response made without an error.
Handle(s) ==
    /\ at[s] = "handling" /\ kind[s] = "none"
    /\ \/ Answer(s, 200)
       \/ \E err \in {ctxErr[s], "own", "deadline"}, status \in {404, -1} :
             Answer(s, ProcessErrorResponse(s, err, status))
    /\ UNCHANGED <<serverVars, callVars>>

\* One that makes a call answers OK or Unexpected(err).
HandleCall(s) ==
    /\ at[s] = "handling" /\ phase[s] = "returned"
    /\ Answer(s, IF result[s] = "ok" THEN 200 ELSE ProcessErrorResponse(s, result[s], -1))
    /\ EndCall(s)
    /\ UNCHANGED serverVars

Call(s) == at[s] = "handling" /\ CallStep(s) /\ UNCHANGED <<serverVars, requestVars>>

Next ==
    \/ StartServer \/ ServingFails \/ SendQuit \/ Wait \/ Signal \/ Cancel \/ ShutDown
    \/ CloseListeners \/ CloseState \/ Stop \/ Tick
    \/ \E s \in Slots : \/ Arrive(s) \/ Leave(s) \/ Admit(s) \/ Handle(s) \/ HandleCall(s)
                        \/ Call(s)

Spec == Init /\ [][Next]_vars

\* Time passes, the server's goroutines run, and handlers end: they look at their
\* context, and so does everything they call.
FairSpec ==
    /\ Spec
    /\ WF_vars(Tick) /\ WF_vars(SendQuit)
    /\ WF_vars(Wait \/ ShutDown \/ CloseListeners \/ CloseState \/ Stop)
    /\ \A s \in Slots : WF_vars(Admit(s) \/ Handle(s) \/ HandleCall(s) \/ Call(s))
-----------------------------------------------------------------------------
TypeOK ==
    /\ main \in {"starting", "waiting", "shutdown", "draining", "closing", "done"}
    /\ quit \in BOOLEAN
    /\ serving \in {"notYet", "up", "failed", "blocked", "ended"}
    /\ appCtx \in {"none", "canceled"}
    /\ grace \in 0 .. Timeout
    /\ at \in [Slots -> {"idle", "arrived", "handling", "answered"}]
    /\ code \in [Slots -> {0, 200, 401, 403, 404, 422, 500, 503, 504}]
    /\ left \in [Slots -> 0 .. Timeout]
    /\ lateStart \in [Slots -> BOOLEAN]
    /\ ctxErr \in [Slots -> {"none", "canceled", "deadline"}]
    /\ kind \in [Slots -> Kinds \cup {"none"}]
    /\ phase \in [Slots -> {"idle", "trying", "hung", "put", "merging", "returned"}]
    /\ tries \in [Slots -> 0 .. MaxTries]
    /\ sent \in [Slots -> Nat] /\ lost \in [Slots -> 0 .. MaxLost]
    /\ result \in [Slots -> {"none", "ok", "error", "canceled", "deadline"}]
    /\ last \in [Slots -> Answers \cup {"none"}]
    /\ firebase \in BOOLEAN

\* A handler runs for the person whose token the request has, or for nobody; and for
\* another user's path only where its tags, or the end of the path, let anybody in
\* (router.go:166-197, auth.go:24-88).
RunsForTheRightPerson ==
    \A s \in Slots : at[s] = "handling" =>
        LET in == input[s] IN
        /\ user[s] # NoUser => in.token.valid /\ in.token.iss \in {"access", "google"}
                               /\ PersonOf(user[s]) = PersonOf(in.token.user)
        /\ in.pathUser \in {NoUser, "dash", user[s]}
           \/ (in.method = "GET" /\ (in.allowForbiddenGet \/ in.endsWithUser))
           \/ (in.method # "GET" /\ in.allowForbiddenWriteOperation)
        /\ user[s] = NoUser => in.allowUnauthorized /\ in.pathUser \in {NoUser, "dash"}

\* When the State is closed, a request that was there when the shutdown began has
\* been answered or has a context that is done: its deadline is not later than that
\* of the shutdown (server.go:131-147, router.go:33).
ClosesAfterDeadlines ==
    [][main = "draining" /\ main' = "closing" =>
          \A s \in Busy : lateStart[s] \/ ctxErr[s] # "none"]_vars

\* What is a success although nothing was done.
ExcusedSuccess(s) ==
    \/ kind[s] = "telegram" /\ last[s] \in {"otherStatus"} \cup Overloaded
    \/ kind[s] \in {"deleteUser"} \cup Deletions /\ last[s] = "notFound"
    \/ kind[s] \in Deletions /\ last[s] = "none"
    \/ kind[s] \in Accounts /\ ~firebase

\* An endpoint that has something done answers 200 only when it was done, but for a
\* message whose last attempt telegram answered with a status that post does not know
\* (telegram.go:182), a user or a picture that was not there to delete or needed no
\* deletion (firebase/auth.go:137, picture.go:134-144), an account where Firebase is
\* not configured (auth.go:91); and a failure, as long as no answer was lost, only when
\* it was not, but for a picture whose file cannot be closed and claims
\* that were read and cannot be merged. Of the upload of a new picture nothing is said:
\* its failure is overwritten by the closing of the file (picture.go:99).
AnswersTruthfully ==
    [][\A s \in Slots :
          /\ at[s] = "handling" /\ at'[s] = "answered"
          /\ kind[s] \notin {"none", "phone", "userByEmail"}
          => /\ code'[s] = 200 => sent[s] > 0 \/ ExcusedSuccess(s)
             /\ code'[s] # 200 => sent[s] = lost[s] \/ kind[s] \in {"upload", "claims"}]_vars

\* What a call retries was not done, or the answer to it was lost; and an email or an
\* in-app notification whose connection broke, so that it may have been sent, is not
\* tried again at all (email.go:61-114, inapp.go:92-203).
SentTwiceOnlyIfLost ==
    \A s \in Slots :
        /\ sent[s] <= lost[s] + 1
        /\ kind[s] \in {"email", "inapp"} /\ last[s] \in {"net", "netLost"} =>
              phase[s] = "returned"

\* A signal, the end of the application's context, and a server that can no longer
\* listen end the process; but not one that fails before wait has made the channel
\* it would tell so (server.go:115, 122).
Stops ==
    (quit \/ appCtx # "none" \/ (serving = "failed" /\ main # "starting")) ~> main = "done"

\* Every request is answered, whatever the provider that its handler calls does.
RequestsAnswered == \A s \in Slots : at[s] = "arrived" ~> at[s] = "answered"
=============================================================================
