-------------------------- MODULE HttpServerProofs --------------------------
(***************************************************************************)
(* Proofs about HttpServer and its parts, Auth and Outbound: for any       *)
(* requests at once, any people and tokens, any timeout and any number of  *)
(* attempts, a handler runs for the right person, an endpoint answers what *)
(* has happened, and the server closes only after its requests' deadlines. *)
(***************************************************************************)
EXTENDS HttpServer, TLAPS

USE ServerAssumption, OutboundAssumption

-----------------------------------------------------------------------------
(***************************************************************************)
(* The inductive invariant.                                                *)
(***************************************************************************)
Types == TypeOK /\ DOMAIN input = Slots /\ DOMAIN user = Slots

\* What is being served is one of the requests there are.
Genuine ==
    \A s \in Busy : IsRequest(input[s]) /\ Signed(input[s])

\* A call that is being tried has lost the answer to all that was done; a call that has
\* returned tells what was done. A picture that was put and claims that are to be merged
\* are in the middle of theirs.
CallInv(s) ==
    /\ at[s] # "handling" => kind[s] = "none"
    /\ kind[s] = "none" => /\ phase[s] = "idle" /\ result[s] = "none"
                           /\ tries[s] = 0 /\ sent[s] = 0 /\ lost[s] = 0 /\ last[s] = "none"
    /\ kind[s] # "none" => phase[s] # "idle"
    /\ phase[s] \in {"trying", "hung"} => sent[s] = lost[s]
    /\ phase[s] = "trying" /\ tries[s] = 0 => last[s] = "none"
    /\ phase[s] = "put" => kind[s] = "upload"
    /\ phase[s] = "merging" => kind[s] = "claims"
    /\ phase[s] = "returned" =>
          /\ result[s] # "none"
          /\ result[s] = "ok" => sent[s] > 0 \/ ExcusedSuccess(s) \/ kind[s] = "userByEmail"
          /\ result[s] # "ok" => sent[s] = lost[s] \/ kind[s] \in {"upload", "claims"}
    /\ sent[s] <= lost[s] + 1
    /\ kind[s] \in {"email", "inapp"} /\ last[s] \in {"net", "netLost"} => phase[s] = "returned"

Calls == \A s \in Slots : CallInv(s)

\* A request has time left until its context is done, and not more than the shutdown
\* if it was there before; nothing is accepted once the listeners are closed.
Deadlines ==
    /\ serving = "up" => main \in {"starting", "waiting", "shutdown"}
    /\ \A s \in Busy : ctxErr[s] = "none" =>
          /\ left[s] > 0
          /\ main \in {"shutdown", "draining"} /\ ~lateStart[s] => left[s] <= grace

HInv == Types /\ Genuine /\ RunsForTheRightPerson /\ Calls /\ Deadlines

-----------------------------------------------------------------------------
(***************************************************************************)
(* Auth: who a request is from.                                            *)
(***************************************************************************)

\* A token that is accepted is valid, of one of the two providers, and its user's.
LEMMA AcceptedIsValid ==
  ASSUME NEW in, Signed(in), NEW reached \in BOOLEAN
  PROVE  LET v == VerifyToken(in.token, reached) IN
         /\ v.error \in {"none", "invalid", "wrongType", "forbidden"}
         /\ v.error = "none" => /\ in.token.valid /\ in.token.iss \in {"access", "google"}
                                /\ v.user = in.token.user /\ v.user # NoUser
BY DEF VerifyToken, IceVerifyToken, FirebaseVerifyToken, VerifyTokenFields, DetectIceToken,
       Accepted, Refused, Signed

\* Metadata changes a user into the same person, or is refused.
LEMMA MetadataIsOwn ==
  ASSUME NEW in, Signed(in), NEW u, u # NoUser
  PROVE  LET c == ModifyTokenWithMetadata(u, in.metadata) IN
         /\ c.error \in {"none", "invalid", "wrongType"}
         /\ c.error = "none" => c.user # NoUser /\ PersonOf(c.user) = PersonOf(u)
         /\ c.error # "none" => c.user = NoUser
<1> DEFINE m == in.metadata
           f == FirstRegisteredUserID(m)
<1>1. CASE f = NoUser
  BY <1>1 DEF ModifyTokenWithMetadata, Accepted, Refused
<1>2. CASE f # NoUser
  <2>1. f \in {m.iceId, m.firebaseId} BY <1>2 DEF FirstRegisteredUserID
  <2>2. OwnsMetadata(u, m) => u \in {m.token.user, m.iceId, m.firebaseId} BY DEF OwnsMetadata
  <2>3. VerifyTokenFields(m.token) /\ m.token.iss = "metadata" /\ OwnsMetadata(u, m)
        => PersonOf(f) = PersonOf(u)
    BY <1>2, <2>1, <2>2 DEF Signed, VerifyTokenFields
  <2>4. QED BY <1>2, <2>3 DEF ModifyTokenWithMetadata, Accepted, Refused
<1>3. QED BY <1>1, <1>2

\* What authorize lets pass is allowed to the user that the handler is given.
LEMMA AuthorizedIsAllowed ==
  ASSUME NEW in, IsRequest(in), Signed(in), NEW reached \in BOOLEAN
  PROVE  LET a == Authorize(in, reached) IN
         /\ a.status \in {200, 401, 403}
         /\ a.user # NoUser => /\ in.token.valid /\ in.token.iss \in {"access", "google"}
                               /\ PersonOf(a.user) = PersonOf(in.token.user)
         /\ a.status = 200 =>
              /\ ErrorDropped(in) \/ MayAct(in, a.user)
              /\ a.user = NoUser => ErrorDropped(in)
<1> DEFINE v == VerifyToken(in.token, reached)
           c == ModifyTokenWithMetadata(v.user, in.metadata)
           a == Authorize(in, reached)
<1>1. /\ v.error \in {"none", "invalid", "wrongType", "forbidden"}
      /\ v.error = "none" => /\ in.token.valid /\ in.token.iss \in {"access", "google"}
                             /\ v.user = in.token.user /\ v.user # NoUser
  BY AcceptedIsValid
<1>2. v.error = "none" =>
         /\ c.error \in {"none", "invalid", "wrongType"}
         /\ c.error = "none" => c.user # NoUser /\ PersonOf(c.user) = PersonOf(v.user)
         /\ c.error # "none" => c.user = NoUser
  BY <1>1, MetadataIsOwn
<1>3. a.user = IF v.error = "none" THEN c.user ELSE NoUser
  BY DEF Authorize
<1>4. a.status = IF ErrorDropped(in) THEN 200
                 ELSE IF v.error # "none" THEN IF v.error = "forbidden" THEN 403 ELSE 401
                 ELSE IF c.error # "none" THEN 401
                 ELSE IF MayAct(in, c.user) THEN 200 ELSE 403
  BY DEF Authorize
<1> HIDE DEF v, c, a
<1>5. QED BY <1>1, <1>2, <1>3, <1>4 DEF a

\* Leaving changes nothing else about a request.
LEMMA GoneIsTheSame ==
  ASSUME NEW in, IsRequest(in), Signed(in)
  PROVE  LET g == [in EXCEPT !.gone = TRUE] IN
         /\ IsRequest(g) /\ Signed(g)
         /\ \A f \in DOMAIN in : f # "gone" => g[f] = in[f]
BY DEF IsRequest, Signed, Flags

-----------------------------------------------------------------------------
(***************************************************************************)
(* Outbound: what a call knows of what was done.                           *)
(***************************************************************************)

\* No client tries again after a success, nor takes one for a failure; each client takes
\* for a success what ExcusedSuccess says, and no more; and email and in-app do not try
\* again after a connection that broke.
LEMMA RepliesAreRead ==
  ASSUME NEW k \in Kinds
  PROVE  /\ "ok" \notin RetriedAfter(k)
         /\ Succeeds(k, "ok")
         /\ \A reply \in Replies(k) :
               Succeeds(k, reply) =>
                  \/ reply = "ok"
                  \/ k = "telegram" /\ reply \in {"otherStatus"} \cup Overloaded
                  \/ k \in {"deleteUser", "userByEmail"} \cup Deletions /\ reply = "notFound"
         /\ k \in {"email", "inapp"} =>
               {"net", "netLost"} \cap (RetriedAfter(k) \cup Hanging) = {}
BY DEF Kinds, Accounts, Deletions, RetriedAfter, Succeeds, Replies, EmailRetries, InAppRetries,
       SmsRetries, PhoneRetries, TelegramRetries, TrackingRetries, PictureRetries,
       AccountRetries, Overloaded, Everywhere, Hanging, TelegramSuccess, AccountSuccess

\* Slots have calls of their own.
LEMMA CallIsOwn ==
  ASSUME HInv, NEW s \in Slots, CallStep(s)
  PROVE  \A t \in Slots \ {s} :
            /\ kind'[t] = kind[t] /\ phase'[t] = phase[t] /\ tries'[t] = tries[t]
            /\ sent'[t] = sent[t] /\ lost'[t] = lost[t] /\ result'[t] = result[t]
            /\ last'[t] = last[t]
<1> USE DEF HInv, Types, TypeOK
<1>1. CASE Attempt(s) BY <1>1 DEF Attempt, Perform, Conclude, Return
<1>2. CASE Abandon(s) BY <1>2 DEF Abandon, Conclude, Return
<1>3. CASE CloseFile(s) BY <1>3 DEF CloseFile, GoOn, Try, Return
<1>4. CASE SkipDeletion(s) BY <1>4 DEF SkipDeletion, Return
<1>5. CASE MergeClaims(s) BY <1>5 DEF MergeClaims, GoOn, Try, Return
<1>6. QED BY <1>1, <1>2, <1>3, <1>4, <1>5 DEF CallStep

\* An attempt counts what was done and what of it was not answered.
LEMMA AttemptKeeps ==
  ASSUME HInv, NEW s \in Slots, at[s] = "handling", UNCHANGED <<firebase, at>>, Attempt(s)
  PROVE  CallInv(s)'
<1>1. kind[s] \in Kinds /\ phase[s] = "trying" /\ sent[s] = lost[s]
  BY DEF HInv, Types, TypeOK, Calls, CallInv, Attempt
<1>2. PICK reply \in Replies(kind[s]) :
          /\ Perform(s, reply)
          /\ last' = [last EXCEPT ![s] = reply]
          /\ \/ /\ reply \in Hanging
                /\ phase' = [phase EXCEPT ![s] = "hung"]
                /\ UNCHANGED <<tries, result>>
             \/ /\ reply \in RetriedAfter(kind[s]) \ Hanging
                /\ tries[s] < MaxTries
                /\ tries' = [tries EXCEPT ![s] = @ + 1]
                /\ UNCHANGED <<phase, result>>
             \/ /\ reply \notin Hanging
                /\ reply \in RetriedAfter(kind[s]) => tries[s] = MaxTries
                /\ Conclude(s, IF Succeeds(kind[s], reply) THEN "ok" ELSE "error")
                /\ UNCHANGED tries
  BY DEF Attempt
<1>3. UNCHANGED kind /\ last'[s] = reply
  BY <1>2 DEF Attempt, HInv, Types, TypeOK
<1>4. /\ sent'[s] = IF reply \in Done THEN sent[s] + 1 ELSE sent[s]
      /\ lost'[s] = IF reply \in Done \ {"ok"} THEN lost[s] + 1 ELSE lost[s]
      /\ sent[s] \in Nat /\ lost[s] \in Nat
  BY <1>2 DEF Perform, HInv, Types, TypeOK
<1>5. /\ reply # "ok" => sent'[s] = lost'[s]
      /\ reply = "ok" => sent'[s] > 0
      /\ sent'[s] <= lost'[s] + 1
  BY <1>1, <1>4 DEF Done
<1>6. /\ "ok" \notin RetriedAfter(kind[s]) /\ "ok" \notin Hanging
      /\ Succeeds(kind[s], "ok")
      /\ Succeeds(kind[s], reply) =>
             \/ reply = "ok"
             \/ kind[s] = "telegram" /\ reply \in {"otherStatus"} \cup Overloaded
             \/ kind[s] \in {"deleteUser", "userByEmail"} \cup Deletions /\ reply = "notFound"
      /\ kind[s] \in {"email", "inapp"} /\ reply \in RetriedAfter(kind[s]) \cup Hanging =>
             reply \notin {"net", "netLost"}
  BY <1>1, RepliesAreRead DEF Hanging
<1>7. CASE /\ UNCHANGED result /\ phase'[s] \in {"trying", "hung"} /\ reply # "ok"
           /\ phase'[s] = "trying" => tries'[s] # 0
           /\ reply \in RetriedAfter(kind[s]) \cup Hanging
  BY <1>1, <1>3, <1>5, <1>6, <1>7 DEF CallInv, HInv, Calls, Kinds, Accounts
<1>8. CASE Conclude(s, IF Succeeds(kind[s], reply) THEN "ok" ELSE "error")
  BY <1>1, <1>3, <1>5, <1>6, <1>8
     DEF Conclude, Return, CallInv, ExcusedSuccess, HInv, Types, TypeOK, Kinds, Accounts
<1>9. QED
  <2>1. CASE reply \in Hanging
    BY <1>2, <1>6, <1>7, <1>8, <2>1 DEF HInv, Types, TypeOK
  <2>2. CASE reply \notin Hanging
    BY <1>1, <1>2, <1>6, <1>7, <1>8, <2>2 DEF HInv, Types, TypeOK
  <2>3. QED BY <2>1, <2>2

\* So do the other steps of a call.
LEMMA CallKeeps ==
  ASSUME HInv, NEW s \in Slots, Call(s)
  PROVE  Calls'
<1>1. at[s] = "handling" /\ CallStep(s) /\ UNCHANGED <<firebase, at>>
  BY DEF Call, serverVars, requestVars
<1>2. ASSUME NEW t \in Slots, t # s PROVE CallInv(t)'
  BY <1>1, <1>2, CallIsOwn DEF HInv, Calls, CallInv, ExcusedSuccess
<1>3. CallInv(s)'
  <2> USE <1>1 DEF HInv, Types, TypeOK, Calls, CallInv, ExcusedSuccess, Kinds, Accounts
  <2>1. CASE Attempt(s) BY <2>1, AttemptKeeps
  <2>2. CASE Abandon(s) BY <2>2 DEF Abandon, Conclude, Return
  <2>3. CASE CloseFile(s) BY <2>3 DEF CloseFile, GoOn, Try, Return
  <2>4. CASE SkipDeletion(s) BY <2>4 DEF SkipDeletion, Return, Deletions
  <2>5. CASE MergeClaims(s) BY <2>5 DEF MergeClaims, GoOn, Try, Return
  <2>6. QED BY <2>1, <2>2, <2>3, <2>4, <2>5 DEF CallStep
<1>4. QED BY <1>2, <1>3 DEF Calls

\* A request starts with no call, or with one that has done nothing; when it ends so
\* does its call.
LEMMA RequestKeepsCalls ==
  ASSUME HInv, NEW s \in Slots, Arrive(s) \/ Leave(s) \/ Admit(s) \/ Handle(s) \/ HandleCall(s)
  PROVE  Calls'
<1> USE DEF HInv, Types, TypeOK, Calls, CallInv, ExcusedSuccess, Answer, serverVars, callVars
<1>1. CASE Arrive(s) BY <1>1 DEF Arrive
<1>2. CASE Leave(s) BY <1>2 DEF Leave
<1>3. CASE Admit(s)
  <2>1. input[s].calls \in Kinds \cup {"none"}
    BY <1>3 DEF Admit, Genuine, Busy, IsRequest
  <2>2. at[s] = "arrived" BY <1>3 DEF Admit
  <2>3. UNCHANGED firebase BY <1>3 DEF Admit
  <2>4. CASE at' = [at EXCEPT ![s] = "answered"] /\ UNCHANGED callVars BY <2>2, <2>3, <2>4
  <2>5. CASE at' = [at EXCEPT ![s] = "handling"] /\ UNCHANGED callVars BY <2>2, <2>3, <2>5
  <2>6. CASE at' = [at EXCEPT ![s] = "handling"] /\ input[s].calls # "none"
             /\ StartCall(s, input[s].calls)
    BY <2>1, <2>2, <2>3, <2>6 DEF StartCall, Try, Return
  <2>7. QED BY <1>3, <2>4, <2>5, <2>6 DEF Admit
<1>4. CASE Handle(s) BY <1>4 DEF Handle
<1>5. CASE HandleCall(s) BY <1>5 DEF HandleCall, EndCall
<1>6. QED BY <1>1, <1>2, <1>3, <1>4, <1>5

\* The server's goroutines leave requests alone, but for their contexts.
LEMMA ServerIsApart ==
  ASSUME    StartServer \/ ServingFails \/ SendQuit \/ Wait \/ Signal \/ Cancel \/ ShutDown
            \/ CloseListeners \/ CloseState \/ Stop \/ Tick
  PROVE  UNCHANGED <<firebase, at, input, user, code, lateStart, callVars>>
BY DEF StartServer, ServingFails, SendQuit, Wait, Signal, Cancel, ShutDown, CloseListeners,
       CloseState, Stop, Tick, requestVars

-----------------------------------------------------------------------------
(***************************************************************************)
(* The server: who it serves, and until when.                              *)
(***************************************************************************)

\* A request is answered at once, or its handler starts, with the user of its tokens.
LEMMA AdmittedOrAnswered ==
  ASSUME HInv, NEW s \in Slots, Admit(s)
  PROVE  \/ (\E c \in {401, 403, 422} : Answer(s, c)) /\ UNCHANGED callVars
         \/ \E reached \in BOOLEAN :
              LET auth == Authorize(input[s], reached) IN
              /\ auth.status = 200
              /\ at' = [at EXCEPT ![s] = "handling"]
              /\ user' = [user EXCEPT ![s] = auth.user]
              /\ IF input[s].calls = "none" THEN UNCHANGED callVars
                 ELSE StartCall(s, input[s].calls)
              /\ UNCHANGED <<code, input, left, lateStart, ctxErr>>
<1>1. PICK reached \in IF ctxErr[s] = "none" THEN BOOLEAN ELSE {FALSE} :
          LET auth == Authorize(input[s], reached)
              status == IF ProcessRequest(input[s]) # 200 THEN ProcessRequest(input[s])
                        ELSE auth.status
          IN \/ status # 200 /\ Answer(s, status) /\ UNCHANGED callVars
             \/ /\ status = 200
                /\ at' = [at EXCEPT ![s] = "handling"]
                /\ user' = [user EXCEPT ![s] = auth.user]
                /\ IF input[s].calls = "none" THEN UNCHANGED callVars
                   ELSE StartCall(s, input[s].calls)
                /\ UNCHANGED <<code, input, left, lateStart, ctxErr>>
  BY Zenon DEF Admit
<1>2. reached \in BOOLEAN OBVIOUS
<1> DEFINE a == Authorize(input[s], reached)
           p == ProcessRequest(input[s])
           status == IF p # 200 THEN p ELSE a.status
<1>3. IsRequest(input[s]) /\ Signed(input[s])
  BY DEF Admit, HInv, Genuine, Busy
<1>4. a.status \in {200, 401, 403} BY <1>2, <1>3, AuthorizedIsAllowed
<1>5. p \in {200, 422} BY DEF ProcessRequest
<1>6. status = 200 => a.status = 200 BY <1>5
<1>7. status # 200 => status \in {401, 403, 422} BY <1>4, <1>5
<1>8. CASE status # 200
  <2>1. Answer(s, status) /\ UNCHANGED callVars BY <1>1, <1>8, Zenon
  <2> HIDE DEF status
  <2>2. QED BY <1>7, <1>8, <2>1
<1>9. CASE status = 200
  <2>1. /\ at' = [at EXCEPT ![s] = "handling"]
        /\ user' = [user EXCEPT ![s] = a.user]
        /\ IF input[s].calls = "none" THEN UNCHANGED callVars
           ELSE StartCall(s, input[s].calls)
        /\ UNCHANGED <<code, input, left, lateStart, ctxErr>>
    BY <1>1, <1>9, Zenon
  <2>2. QED BY <1>2, <1>6, <1>9, <2>1, Zenon
<1>10. QED BY <1>8, <1>9

\* Only requests there are arrive, and a handler starts only for whom authorize says.
LEMMA GenuineKeeps ==
  ASSUME HInv, [Next]_vars
  PROVE  Genuine' /\ (DOMAIN input)' = Slots /\ (DOMAIN user)' = Slots
<1> USE InputsAssumption DEF HInv, Types, TypeOK, Genuine, Busy
<1>1. ASSUME NEW s \in Slots, Arrive(s)
      PROVE  Genuine' /\ (DOMAIN input)' = Slots /\ (DOMAIN user)' = Slots
  BY <1>1 DEF Arrive
<1>2. ASSUME NEW s \in Slots, Leave(s)
      PROVE  Genuine' /\ (DOMAIN input)' = Slots /\ (DOMAIN user)' = Slots
  <2>1. input' = [input EXCEPT ![s] = [input[s] EXCEPT !.gone = TRUE]] /\ UNCHANGED <<at, user>>
    BY <1>2 DEF Leave
  <2>2. s \in Busy BY <1>2 DEF Leave
  <2>3. IsRequest(input'[s]) /\ Signed(input'[s])
    BY <2>1, <2>2, GoneIsTheSame
  <2>4. QED BY <2>1, <2>3
<1>3. ASSUME NEW s \in Slots, Admit(s) \/ Handle(s) \/ HandleCall(s)
      PROVE  Genuine' /\ (DOMAIN input)' = Slots /\ (DOMAIN user)' = Slots
  <2>1. CASE at' = [at EXCEPT ![s] = "answered"] /\ input' = [input EXCEPT ![s] = NoInput]
             /\ user' = [user EXCEPT ![s] = NoUser]
    BY <2>1
  <2>2. CASE at' = [at EXCEPT ![s] = "handling"] /\ UNCHANGED input /\ at[s] = "arrived"
             /\ (DOMAIN user)' = Slots
    BY <2>2
  <2>3. QED BY <1>3, <2>1, <2>2 DEF Admit, Handle, HandleCall, Answer
<1>4. ASSUME UNCHANGED <<at, input, user>>
      PROVE  Genuine' /\ (DOMAIN input)' = Slots /\ (DOMAIN user)' = Slots
  BY <1>4
<1>5. ASSUME NEW s \in Slots, Call(s) PROVE UNCHANGED <<at, input, user>>
  BY <1>5 DEF Call, requestVars
<1>6. CASE UNCHANGED vars BY <1>4, <1>6 DEF vars, requestVars
<1>7. QED BY <1>1, <1>2, <1>3, <1>4, <1>5, <1>6, ServerIsApart DEF Next

\* A handler starts for whom authorize says, and goes on for the same.
LEMMA RightPersonKeeps ==
  ASSUME HInv, [Next]_vars
  PROVE  RunsForTheRightPerson'
<1> USE DEF HInv, Types, TypeOK
<1>1. ASSUME NEW s \in Slots, Admit(s) PROVE RunsForTheRightPerson'
  <2>1. at[s] = "arrived" /\ IsRequest(input[s]) /\ Signed(input[s])
    BY <1>1 DEF Admit, Genuine, Busy
  <2>2. CASE at' = [at EXCEPT ![s] = "answered"] /\ input' = [input EXCEPT ![s] = NoInput]
             /\ user' = [user EXCEPT ![s] = NoUser]
    BY <2>2 DEF RunsForTheRightPerson
  <2>3. ASSUME NEW reached \in BOOLEAN,
               Authorize(input[s], reached).status = 200,
               at' = [at EXCEPT ![s] = "handling"], UNCHANGED input,
               user' = [user EXCEPT ![s] = Authorize(input[s], reached).user]
        PROVE  RunsForTheRightPerson'
    <3> DEFINE u == Authorize(input[s], reached).user
    <3>1. /\ u # NoUser => /\ input[s].token.valid /\ input[s].token.iss \in {"access", "google"}
                           /\ PersonOf(u) = PersonOf(input[s].token.user)
          /\ ErrorDropped(input[s]) \/ MayAct(input[s], u)
          /\ u = NoUser => ErrorDropped(input[s])
      BY <2>1, <2>3, AuthorizedIsAllowed
    <3>2. ErrorDropped(input[s]) =>
            input[s].allowUnauthorized /\ input[s].pathUser \in {NoUser, "dash"}
      BY DEF ErrorDropped
    <3>3. user'[s] = u BY <2>3
    <3> HIDE DEF u
    <3>4. QED BY <2>3, <3>1, <3>2, <3>3 DEF RunsForTheRightPerson, MayAct
  <2>4. QED
    <3>1. CASE \E c \in {401, 403, 422} : Answer(s, c)
      BY <2>2, <3>1 DEF Answer
    <3>2. CASE \E reached \in BOOLEAN :
                  LET auth == Authorize(input[s], reached) IN
                  /\ auth.status = 200
                  /\ at' = [at EXCEPT ![s] = "handling"]
                  /\ user' = [user EXCEPT ![s] = auth.user]
                  /\ UNCHANGED input
      BY <2>3, <3>2
    <3>3. QED BY <1>1, <3>1, <3>2, AdmittedOrAnswered
<1>2. ASSUME NEW s \in Slots, Leave(s) PROVE RunsForTheRightPerson'
  <2>1. input' = [input EXCEPT ![s] = [input[s] EXCEPT !.gone = TRUE]] /\ UNCHANGED <<at, user>>
    BY <1>2 DEF Leave
  <2>2. IsRequest(input[s]) /\ Signed(input[s]) BY <1>2 DEF Leave, Genuine, Busy
  <2>3. \A f \in {"token", "metadata", "method", "pathUser", "endsWithUser", "allowUnauthorized",
                  "allowForbiddenGet", "allowForbiddenWriteOperation"} :
           input'[s][f] = input[s][f]
    <3>1. DOMAIN input[s] = Flags \cup {"token", "metadata", "method", "pathUser", "calls"}
      BY <2>2 DEF IsRequest
    <3>2. QED BY <2>1, <2>2, <3>1, GoneIsTheSame DEF Flags
  <2>4. QED BY <2>1, <2>3 DEF RunsForTheRightPerson
<1>3. ASSUME NEW s \in Slots, Arrive(s) \/ Handle(s) \/ HandleCall(s) PROVE RunsForTheRightPerson'
  BY <1>3 DEF Arrive, Handle, HandleCall, Answer, RunsForTheRightPerson
<1>4. ASSUME UNCHANGED <<at, input, user>> PROVE RunsForTheRightPerson'
  BY <1>4 DEF RunsForTheRightPerson
<1>5. ASSUME NEW s \in Slots, Call(s) PROVE UNCHANGED <<at, input, user>>
  BY <1>5 DEF Call, requestVars
<1>6. CASE UNCHANGED vars BY <1>4, <1>6 DEF vars, requestVars
<1>7. QED BY <1>1, <1>2, <1>3, <1>4, <1>5, <1>6, ServerIsApart DEF Next

\* Nothing disturbs what a call knows.
LEMMA CallsKeep == ASSUME HInv, [Next]_vars PROVE Calls'
<1>1. ASSUME UNCHANGED <<firebase, at, callVars>> PROVE Calls'
  BY <1>1 DEF HInv, Calls, CallInv, ExcusedSuccess, callVars
<1>2. CASE UNCHANGED vars BY <1>1, <1>2 DEF vars, serverVars, requestVars
<1>3. QED BY <1>1, <1>2, CallKeeps, RequestKeepsCalls, ServerIsApart DEF Next

\* Time passes for requests and for the shutdown alike, and ends contexts.
LEMMA DeadlinesKeep == ASSUME HInv, [Next]_vars PROVE Deadlines'
<1> USE DEF HInv, Types, TypeOK, Deadlines, Busy
<1>1. ASSUME NEW s \in Slots, Arrive(s) PROVE Deadlines'
  <2>1. UNCHANGED <<main, serving, grace>> /\ serving = "up" BY <1>1 DEF Arrive, serverVars
  <2>2. left'[s] = Timeout /\ (main = "shutdown" => lateStart'[s])
    BY <1>1 DEF Arrive
  <2>3. \A t \in Slots \ {s} : /\ at'[t] = at[t] /\ left'[t] = left[t]
                               /\ lateStart'[t] = lateStart[t] /\ ctxErr'[t] = ctxErr[t]
    BY <1>1 DEF Arrive
  <2>4. serving' = "up" => main' \in {"starting", "waiting", "shutdown"} BY <2>1
  <2>5. ASSUME NEW t \in Slots, at'[t] \in {"arrived", "handling"}, ctxErr'[t] = "none"
        PROVE  /\ left'[t] > 0
               /\ main' \in {"shutdown", "draining"} /\ ~lateStart'[t] => left'[t] <= grace'
    <3>1. CASE t = s BY <2>1, <2>2, <3>1
    <3>2. CASE t # s BY <2>1, <2>3, <2>5, <3>2
    <3>3. QED BY <3>1, <3>2
  <2>6. QED BY <2>4, <2>5
<1>2. ASSUME NEW s \in Slots, Leave(s) PROVE Deadlines'
  BY <1>2 DEF Leave, serverVars
<1>3. ASSUME NEW s \in Slots, Admit(s) \/ Handle(s) \/ HandleCall(s) PROVE Deadlines'
  <2>1. UNCHANGED serverVars BY <1>3 DEF Admit, Handle, HandleCall
  <2>2. CASE at' = [at EXCEPT ![s] = "answered"] /\ left' = [left EXCEPT ![s] = 0]
             /\ lateStart' = [lateStart EXCEPT ![s] = FALSE]
             /\ ctxErr' = [ctxErr EXCEPT ![s] = "none"]
    BY <2>1, <2>2 DEF serverVars
  <2>3. CASE at[s] = "arrived" /\ at' = [at EXCEPT ![s] = "handling"]
             /\ UNCHANGED <<left, lateStart, ctxErr>>
    BY <2>1, <2>3 DEF serverVars
  <2>4. QED BY <1>3, <2>2, <2>3 DEF Admit, Handle, HandleCall, Answer
<1>4. ASSUME NEW s \in Slots, Call(s) PROVE Deadlines'
  BY <1>4 DEF Call, requestVars, serverVars, CallStep, Attempt, Abandon, CloseFile,
              SkipDeletion, MergeClaims
<1>5. CASE StartServer BY <1>5 DEF StartServer, requestVars
<1>6. CASE ServingFails \/ SendQuit \/ Wait \/ Signal
  BY <1>6 DEF ServingFails, SendQuit, Wait, Signal, requestVars
<1>7. CASE Cancel BY <1>7 DEF Cancel, requestVars
<1>8. CASE ShutDown BY <1>8 DEF ShutDown, requestVars
<1>9. CASE CloseListeners \/ CloseState \/ Stop
  BY <1>9 DEF CloseListeners, CloseState, Stop, requestVars
<1>10. CASE Tick BY <1>10 DEF Tick
<1>11. CASE UNCHANGED vars BY <1>11 DEF vars, serverVars, requestVars
<1>12. QED BY <1>1, <1>2, <1>3, <1>4, <1>5, <1>6, <1>7, <1>8, <1>9, <1>10, <1>11 DEF Next

\* A call keeps its types.
LEMMA CallKeepsTypes ==
  ASSUME HInv, NEW s \in Slots, Call(s)
  PROVE  TypeOK'
<1>1. UNCHANGED <<serverVars, requestVars, ctxErr>>
  BY DEF Call, CallStep, Attempt, Abandon, CloseFile, SkipDeletion, MergeClaims
<1>2. CallStep(s) BY DEF Call
<1> USE DEF HInv, Types, TypeOK, serverVars, requestVars
<1>3. CASE Attempt(s)
  <2>1. kind[s] \in Kinds BY <1>3 DEF Attempt, Calls, CallInv
  <2>2. PICK reply \in Replies(kind[s]) :
          /\ reply \in Done \ {"ok"} => lost[s] < MaxLost
          /\ Perform(s, reply)
          /\ last' = [last EXCEPT ![s] = reply]
    BY <1>3 DEF Attempt
  <2>3. sent' \in [Slots -> Nat] /\ lost' \in [Slots -> 0 .. MaxLost]
    <3>1. /\ sent' = IF reply \in Done THEN [sent EXCEPT ![s] = @ + 1] ELSE sent
          /\ lost' = IF reply \in Done \ {"ok"} THEN [lost EXCEPT ![s] = @ + 1] ELSE lost
      BY <2>2, Zenon DEF Perform
    <3>2. QED BY <2>2, <3>1
  <2>4. /\ phase' \in [Slots -> {"idle", "trying", "hung", "put", "merging", "returned"}]
        /\ result' \in [Slots -> {"none", "ok", "error", "canceled", "deadline"}]
        /\ tries' \in [Slots -> 0 .. MaxTries]
        /\ UNCHANGED kind
    BY <1>3 DEF Attempt, Conclude, Return
  <2>5. last' \in [Slots -> Answers \cup {"none"}] BY <2>1, <2>2 DEF Answers
  <2>6. QED BY <1>1, <2>3, <2>4, <2>5
<1>4. CASE Abandon(s) BY <1>1, <1>4 DEF Abandon, Conclude, Return
<1>5. CASE CloseFile(s) BY <1>1, <1>5 DEF CloseFile, GoOn, Try, Return, Kinds
<1>6. CASE SkipDeletion(s) BY <1>1, <1>6 DEF SkipDeletion, Return
<1>7. CASE MergeClaims(s) BY <1>1, <1>7 DEF MergeClaims, GoOn, Try, Return, Kinds, Accounts
<1>8. QED BY <1>2, <1>3, <1>4, <1>5, <1>6, <1>7 DEF CallStep

\* So does every other step.
LEMMA TypesKeep == ASSUME HInv, [Next]_vars PROVE TypeOK'
<1> USE DEF HInv, Types, TypeOK
<1>1. ASSUME NEW s \in Slots, Arrive(s) \/ Leave(s) PROVE TypeOK'
  <2>1. CASE Arrive(s)
    <3>1. lateStart' \in [Slots -> BOOLEAN] BY <2>1 DEF Arrive
    <3>2. QED BY <2>1, <3>1 DEF Arrive, serverVars, callVars
  <2>2. CASE Leave(s) BY <2>2 DEF Leave, serverVars, callVars
  <2>3. QED BY <1>1, <2>1, <2>2
<1>2. ASSUME NEW s \in Slots, NEW c \in {200, 401, 403, 404, 422, 500, 503, 504}, Answer(s, c),
             UNCHANGED serverVars, UNCHANGED callVars \/ EndCall(s)
      PROVE  TypeOK'
  BY <1>2 DEF Answer, serverVars, callVars, EndCall
<1>3. ASSUME NEW s \in Slots, Admit(s) PROVE TypeOK'
  <2>1. UNCHANGED serverVars BY <1>3 DEF Admit
  <2>2. input[s].calls \in Kinds \cup {"none"} BY <1>3 DEF Admit, Genuine, Busy, IsRequest
  <2>3. CASE (\E c \in {401, 403, 422} : Answer(s, c)) /\ UNCHANGED callVars
    BY <1>2, <2>1, <2>3
  <2>4. CASE at' = [at EXCEPT ![s] = "handling"] /\ UNCHANGED <<code, left, lateStart, ctxErr>>
             /\ UNCHANGED callVars
    BY <2>1, <2>4 DEF serverVars, callVars
  <2>5. CASE at' = [at EXCEPT ![s] = "handling"] /\ UNCHANGED <<code, left, lateStart, ctxErr>>
             /\ input[s].calls # "none" /\ StartCall(s, input[s].calls)
    BY <2>1, <2>2, <2>5 DEF serverVars, StartCall, Try, Return
  <2>6. QED BY <1>3, <2>3, <2>4, <2>5, AdmittedOrAnswered
<1>4. ASSUME NEW s \in Slots, Handle(s) PROVE TypeOK'
  <2>1. UNCHANGED serverVars /\ UNCHANGED callVars BY <1>4 DEF Handle
  <2>2. PICK c \in {200, 503, 504, 500, 404} : Answer(s, c)
    BY <1>4 DEF Handle, ProcessErrorResponse
  <2>3. QED BY <1>2, <2>1, <2>2
<1>5. ASSUME NEW s \in Slots, HandleCall(s) PROVE TypeOK'
  <2>1. UNCHANGED serverVars /\ EndCall(s) BY <1>5 DEF HandleCall
  <2>2. PICK c \in {200, 503, 504, 500} : Answer(s, c)
    BY <1>5 DEF HandleCall, ProcessErrorResponse
  <2>3. QED BY <1>2, <2>1, <2>2
<1>6. CASE StartServer \/ ServingFails \/ SendQuit \/ Wait \/ Signal \/ ShutDown
           \/ CloseListeners \/ CloseState \/ Stop
  <2>1. UNCHANGED <<firebase, appCtx, requestVars, callVars, ctxErr>>
    BY <1>6 DEF StartServer, ServingFails, SendQuit, Wait, Signal, ShutDown, CloseListeners,
                CloseState, Stop
  <2>2. /\ main' \in {"starting", "waiting", "shutdown", "draining", "closing", "done"}
        /\ quit' \in BOOLEAN
        /\ serving' \in {"notYet", "up", "failed", "blocked", "ended"}
        /\ grace' \in 0 .. Timeout
    <3>1. CASE StartServer \/ ServingFails BY <3>1 DEF StartServer, ServingFails
    <3>2. CASE SendQuit BY <3>2 DEF SendQuit
    <3>3. CASE Wait \/ Signal BY <3>3 DEF Wait, Signal
    <3>4. CASE ShutDown
      <4>1. quit' \in BOOLEAN BY <3>4 DEF ShutDown
      <4>2. grace' = Timeout /\ main' = "shutdown" /\ UNCHANGED serving BY <3>4 DEF ShutDown
      <4>3. QED BY <4>1, <4>2
    <3>5. CASE CloseListeners \/ CloseState \/ Stop
      BY <3>5 DEF CloseListeners, CloseState, Stop
    <3>6. QED BY <1>6, <3>1, <3>2, <3>3, <3>4, <3>5
  <2>3. QED BY <2>1, <2>2 DEF requestVars, callVars
<1>7. CASE Cancel BY <1>7 DEF Cancel, requestVars, callVars
<1>8. CASE Tick BY <1>8 DEF Tick, callVars
<1>9. CASE UNCHANGED vars BY <1>9 DEF vars, serverVars, requestVars, callVars
<1>10. QED BY <1>1, <1>3, <1>4, <1>5, <1>6, <1>7, <1>8, <1>9, CallKeepsTypes DEF Next

\* Nobody is served at first.
LEMMA HInit == Init => HInv
<1> SUFFICES ASSUME Init PROVE HInv OBVIOUS
<1> USE DEF Init, OutboundInit
<1>1. TypeOK
  <2>1. /\ grace \in 0 .. Timeout /\ left \in [Slots -> 0 .. Timeout]
        /\ tries \in [Slots -> 0 .. MaxTries] /\ lost \in [Slots -> 0 .. MaxLost]
    OBVIOUS
  <2>2. /\ kind \in [Slots -> Kinds \cup {"none"}]
        /\ phase \in [Slots -> {"idle", "trying", "hung", "put", "merging", "returned"}]
        /\ result \in [Slots -> {"none", "ok", "error", "canceled", "deadline"}]
        /\ sent \in [Slots -> Nat]
        /\ last \in [Slots -> Answers \cup {"none"}]
    OBVIOUS
  <2>3. /\ at \in [Slots -> {"idle", "arrived", "handling", "answered"}]
        /\ code \in [Slots -> {0, 200, 401, 403, 404, 422, 500, 503, 504}]
        /\ lateStart \in [Slots -> BOOLEAN]
        /\ ctxErr \in [Slots -> {"none", "canceled", "deadline"}]
    OBVIOUS
  <2>4. /\ firebase \in BOOLEAN
        /\ main \in {"starting", "waiting", "shutdown", "draining", "closing", "done"}
        /\ quit \in BOOLEAN
        /\ serving \in {"notYet", "up", "failed", "blocked", "ended"}
        /\ appCtx \in {"none", "canceled"}
    OBVIOUS
  <2>5. QED BY <2>1, <2>2, <2>3, <2>4, Zenon DEF TypeOK
<1>2. DOMAIN input = Slots /\ DOMAIN user = Slots OBVIOUS
<1>3. Busy = {} BY DEF Busy
<1>4. RunsForTheRightPerson BY DEF RunsForTheRightPerson
<1>5. Calls BY DEF Calls, CallInv
<1>6. QED BY <1>1, <1>2, <1>3, <1>4, <1>5 DEF HInv, Types, Genuine, Deadlines

\* Every step keeps the invariant.
LEMMA HStep == HInv /\ [Next]_vars => HInv'
BY GenuineKeeps, RightPersonKeeps, CallsKeep, DeadlinesKeep, TypesKeep DEF HInv, Types

\* It always holds.
LEMMA HAlways == Spec => []HInv
BY HInit, HStep, PTL DEF Spec

-----------------------------------------------------------------------------
\* Every variable keeps its type; a request is answered with one of the codes there are.
THEOREM TypeCorrect == Spec => []TypeOK
<1>1. HInv => TypeOK BY DEF HInv, Types
<1>2. QED BY <1>1, HAlways, PTL

\* A handler runs for the person whose token the request has, whatever metadata it has
\* too, or for nobody where that is allowed (router.go:166-197, auth.go:24-88).
THEOREM HandlersRunForTheRightPerson == Spec => []RunsForTheRightPerson
<1>1. HInv => RunsForTheRightPerson BY DEF HInv
<1>2. QED BY <1>1, HAlways, PTL

\* What is retried was not done, or its answer was lost (email.go:61-114,
\* inapp.go:92-203, sms.go:41-94, telegram.go:161-220, tracking.go:95-154).
THEOREM NothingSentTwiceNeedlessly == Spec => []SentTwiceOnlyIfLost
<1>1. HInv => SentTwiceOnlyIfLost BY DEF HInv, Calls, CallInv, SentTwiceOnlyIfLost
<1>2. QED BY <1>1, HAlways, PTL

\* The State is closed only when the requests that were there have ended, or their
\* contexts have (server.go:131-147, router.go:33).
THEOREM StateOutlivesRequests == Spec => ClosesAfterDeadlines
<1> DEFINE Outlives == main = "draining" /\ main' = "closing" =>
              \A s \in Busy : lateStart[s] \/ ctxErr[s] # "none"
<1>1. HInv /\ [Next]_vars => [Outlives]_vars
  <2> SUFFICES ASSUME HInv, Next, main = "draining", main' = "closing",
                      NEW s \in Busy, ctxErr[s] = "none"
               PROVE  lateStart[s]
    BY DEF vars
  <2>1. grace = 0
    <3>1. CloseState
      BY DEF Next, StartServer, ServingFails, SendQuit, Wait, Signal, Cancel, ShutDown,
             CloseListeners, Stop, Tick, Arrive, Leave, Admit, Handle, HandleCall, Call, serverVars
    <3>2. QED BY <3>1 DEF CloseState
  <2>2. left[s] \in Nat /\ left[s] > 0 /\ lateStart[s] \in BOOLEAN
    BY DEF HInv, Types, TypeOK, Deadlines, Busy
  <2>3. ~lateStart[s] => left[s] <= grace BY DEF HInv, Deadlines
  <2>4. QED BY <2>1, <2>2, <2>3
<1>2. QED BY <1>1, HAlways, PTL DEF Spec, ClosesAfterDeadlines

\* An endpoint tells whether what it was to do was done (router.go:52-67, 199-212). A
\* success may mean that nothing was done where telegram's last answer is one that post
\* does not know, where nothing was left to delete, or Firebase is not configured; a
\* failure, that it was, where the answer was lost, the file of an uploaded picture
\* could not be closed, or claims were read but not merged. A new picture that was never
\* stored may be answered 200, since of its upload nothing is said (picture.go:99).
THEOREM EndpointsAnswerTruthfully == Spec => AnswersTruthfully
<1> DEFINE Truthful == \A s \in Slots :
          /\ at[s] = "handling" /\ at'[s] = "answered"
          /\ kind[s] \notin {"none", "phone", "userByEmail"}
          => /\ code'[s] = 200 =>
                   sent[s] > 0 \/ ExcusedSuccess(s)
             /\ code'[s] # 200 => sent[s] = lost[s] \/ kind[s] \in {"upload", "claims"}
<1>1. HInv /\ [Next]_vars => [Truthful]_vars
  <2> SUFFICES ASSUME HInv, Next, NEW s \in Slots, at[s] = "handling", at'[s] = "answered",
                      kind[s] \notin {"none", "phone", "userByEmail"}
               PROVE  /\ code'[s] = 200 =>
                            sent[s] > 0 \/ ExcusedSuccess(s)
                      /\ code'[s] # 200 => sent[s] = lost[s] \/ kind[s] \in {"upload", "claims"}
    BY DEF vars
  <2>1. HandleCall(s)
    <3>1. ASSUME NEW t \in Slots, t # s, Arrive(t) \/ Admit(t) \/ Handle(t) \/ HandleCall(t)
          PROVE  FALSE
      <4>1. \E x \in {"arrived", "handling", "answered"} : at' = [at EXCEPT ![t] = x]
        BY <3>1, AdmittedOrAnswered DEF Arrive, Handle, HandleCall, Answer
      <4>2. QED BY <3>1, <4>1
    <3>2. ~Arrive(s) /\ ~Admit(s) /\ ~Handle(s) BY DEF Arrive, Admit, Handle
    <3>3. ASSUME NEW t \in Slots, Leave(t) \/ Call(t) PROVE FALSE
      BY <3>3 DEF Leave, Call, requestVars
    <3>4. at # at' OBVIOUS
    <3>5. QED BY <3>1, <3>2, <3>3, <3>4, ServerIsApart DEF Next
  <2>2. code'[s] = IF result[s] = "ok" THEN 200 ELSE ProcessErrorResponse(s, result[s], -1)
    BY <2>1 DEF HandleCall, Answer, HInv, Types, TypeOK
  <2>3. ProcessErrorResponse(s, result[s], -1) # 200 BY DEF ProcessErrorResponse
  <2>4. CallInv(s) /\ phase[s] = "returned" BY <2>1 DEF HInv, Calls, HandleCall
  <2>5. QED BY <2>2, <2>3, <2>4 DEF CallInv
<1>2. QED BY <1>1, HAlways, PTL DEF Spec, AnswersTruthfully
=============================================================================
