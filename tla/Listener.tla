------------------------------ MODULE Listener ------------------------------
(***************************************************************************)
(* connectors/storage/v2: DB.Listen and the Listener it returns. One       *)
(* goroutine waits for the notifications that PostgreSQL sends to its      *)
(* session and passes them on through a bounded channel; it reconnects     *)
(* after errors, gives up after too many in a row, and ends with its       *)
(* context or Close. DB.Close closes the pool the connection came from.    *)
(*                                                                         *)
(* PostgreSQL and pgxpool are outside the repository: a session may be     *)
(* lost at any time, and the pool closes once all connections are back.    *)
(***************************************************************************)
EXTENDS Integers, Sequences

CONSTANTS
    Closers,    \* goroutines that call Listener.Close
    MaxErrors,  \* maxConsecutiveListenerErrors
    ChanSize,   \* notificationChannelBufferSize
    MaxSent,    \* bound: notifications sent to the channel
    MaxFaults   \* bound: outages, lost sessions and other errors

ASSUME ListenerAssumption ==
    /\ MaxErrors \in Nat \ {0}
    /\ ChanSize \in Nat \ {0}
    /\ MaxSent \in Nat
    /\ MaxFaults \in Nat

VARIABLES
    \* PostgreSQL and the pool
    up,        \* the server can be reached
    faults,    \* how many faults there were
    sent,      \* how many notifications were sent, numbered from 1
    wire,      \* those on the way to the listener's session
    pool,      \* "open"; "closing": DB.Close waits for connections; "closed"
    held,      \* connections acquired from the pool and not released
    \* Listener
    pc,        \* where the goroutine is (before that, the call of Listen)
    conn,      \* "none", a session that is "live" or "lost", or one the client
               \* found lost and "closed"
    counted,   \* a failed connect counts: ensureConnection called it
    errors,    \* consecutiveErrors
    lastErr,   \* lastErr is set
    hand,      \* the notification being sent to notifCh, or 0
    notifCh,
    ctxDone,   \* the context is done: cancelled by Close or by the caller
    closer,    \* where each call of Close is
    \* history
    since,     \* notifications sent before the first LISTEN
    received,  \* what the reader of the channel got
    full       \* notifCh was full when a notification came

vars == <<up, faults, sent, wire, pool, held, pc, conn, counted, errors, lastErr, hand,
          notifCh, ctxDone, closer, since, received, full>>

envVars  == <<up, faults, sent>>
errVars  == <<errors, lastErr>>
dataVars == <<hand, notifCh, received, full>>

Init ==
    /\ up = TRUE
    /\ faults = 0
    /\ sent = 0
    /\ wire = <<>>
    /\ pool = "open"
    /\ held = 0
    /\ pc = "start"
    /\ conn = "none"
    /\ counted = FALSE
    /\ errors = 0
    /\ lastErr = FALSE
    /\ hand = 0
    /\ notifCh = <<>>
    /\ ctxDone = FALSE
    /\ closer = [c \in Closers |-> "idle"]
    /\ since = 0
    /\ received = <<>>
    /\ full = FALSE

Returned == pc \notin {"start", "first", "failed"}

(***************************************************************************)
(* Listen: a connection, then LISTEN on it.                                *)
(***************************************************************************)
Acquirable == pool = "open" /\ ~ctxDone

Listen ==
    /\ pc = "start"
    /\ \/ Acquirable /\ pc' = "first" /\ held' = held + 1
       \/ (~up \/ ~Acquirable) /\ pc' = "failed" /\ UNCHANGED held
    /\ UNCHANGED <<envVars, wire, pool, conn, counted, errVars, dataVars, ctxDone,
                   closer, since>>

\* LISTEN, on a connection that may turn out to be stale.
FirstListen ==
    /\ pc = "first"
    /\ \/ /\ up /\ ~ctxDone
          /\ pc' = "loop" /\ conn' = "live" /\ since' = sent
          /\ UNCHANGED <<faults, held>>
       \/ /\ \/ (~up \/ ctxDone) /\ UNCHANGED faults
             \/ faults < MaxFaults /\ faults' = faults + 1
          /\ pc' = "failed" /\ held' = held - 1
          /\ UNCHANGED <<conn, since>>
    /\ UNCHANGED <<up, sent, wire, pool, counted, errVars, dataVars, ctxDone, closer>>

(***************************************************************************)
(* The goroutine. It ends by giving its connection back and closing        *)
(* notifCh.                                                                *)
(***************************************************************************)
EndKeepsConnection ==
    /\ pc' = "ended" /\ conn' = "none" /\ wire' = <<>> /\ hand' = 0
    /\ UNCHANGED <<held, notifCh, received, full, counted>>

End ==
    /\ pc' = "ended" /\ conn' = "none" /\ wire' = <<>> /\ hand' = 0
    /\ held' = IF conn = "none" THEN held ELSE held - 1
    /\ UNCHANGED <<notifCh, received, full, counted>>

Continue(next) ==
    pc' = next /\ UNCHANGED <<wire, held, conn, counted, dataVars>>

\* checkCancellation, and ensureConnection for a listener that has none.
Loop ==
    /\ pc = "loop"
    /\ IF ctxDone THEN End
       ELSE /\ pc' = IF conn = "none" THEN "connecting" ELSE "waiting"
            /\ counted' = TRUE
            /\ UNCHANGED <<wire, held, conn, dataVars>>
    /\ UNCHANGED <<envVars, pool, errVars, ctxDone, closer, since>>

\* WaitForNotification returns a notification.
Receive ==
    /\ pc = "waiting" /\ conn \in {"live", "lost"} /\ wire # <<>>
    /\ pc' = "sending"
    /\ hand' = Head(wire)
    /\ wire' = Tail(wire)
    /\ errors' = 0
    /\ UNCHANGED <<envVars, pool, held, conn, counted, lastErr, notifCh, ctxDone,
                   closer, since, received, full>>

\* It returns the context's error.
WaitIgnoresContext == FALSE /\ UNCHANGED vars
WaitCancelled ==
    /\ pc = "waiting" /\ ctxDone
    /\ End
    /\ UNCHANGED <<envVars, pool, errVars, ctxDone, closer, since>>

CountError == lastErr' = TRUE /\ errors' = errors + 1

\* It returns an error that isConnectionError knows: reconnect at once.
WaitDisconnected ==
    /\ pc = "waiting" /\ ~ctxDone
    /\ conn = "lost" /\ wire = <<>>
    /\ CountError
    /\ IF errors' >= MaxErrors THEN End
       ELSE /\ pc' = "connecting" /\ counted' = FALSE
            /\ conn' = "none" /\ held' = held - 1
            /\ UNCHANGED <<wire, dataVars>>
    /\ UNCHANGED <<envVars, pool, ctxDone, closer, since>>

\* Any other error, such as an end of file or the client's own that it has closed
\* the connection: pause, and wait on the same connection again.
WaitFails ==
    /\ pc = "waiting" /\ ~ctxDone
    /\ \/ conn = "lost" /\ wire = <<>> /\ UNCHANGED faults
       \/ conn = "closed" /\ UNCHANGED faults
       \/ conn = "live" /\ faults < MaxFaults /\ faults' = faults + 1
    /\ CountError
    /\ IF errors' >= MaxErrors THEN End
       ELSE /\ pc' = "pausing"
            /\ conn' = IF conn = "lost" THEN "closed" ELSE conn
            /\ UNCHANGED <<wire, held, counted, dataVars>>
    /\ UNCHANGED <<up, sent, pool, ctxDone, closer, since>>

Pause ==
    /\ pc = "pausing"
    /\ Continue("loop") \/ (ctxDone /\ End)
    /\ UNCHANGED <<envVars, pool, errVars, ctxDone, closer, since>>

\* sendNotification: into the channel, or dropped when that is full or the context
\* is done.
RoomButOne == Len(notifCh) + 1 < ChanSize
Room == Len(notifCh) < ChanSize

Send ==
    /\ pc = "sending"
    /\ \/ Room /\ notifCh' = Append(notifCh, hand)
       \/ (~Room \/ ctxDone) /\ UNCHANGED notifCh
    /\ full' = (full \/ Len(notifCh) = ChanSize)
    /\ hand' = 0 /\ pc' = "loop"
    /\ UNCHANGED <<envVars, wire, pool, held, conn, counted, errVars, ctxDone, closer,
                   since, received>>

(***************************************************************************)
(* connect: a pause, a connection, LISTEN. Called for a lost connection, or *)
(* by ensureConnection, where a failure counts.                            *)
(***************************************************************************)
ConnectStop ==
    /\ pc = "connecting" /\ ctxDone
    /\ End
    /\ UNCHANGED <<envVars, pool, errVars, ctxDone, closer, since>>

Acquire ==
    /\ pc = "connecting" /\ Acquirable
    /\ pc' = "listening" /\ held' = held + 1
    /\ UNCHANGED <<envVars, wire, pool, conn, counted, errVars, dataVars, ctxDone,
                   closer, since>>

NotConnectedUncounted ==
    pc' = "loop" /\ UNCHANGED errors
NotConnected ==
    IF counted
    THEN errors' = errors + 1 /\ pc' = IF errors' >= MaxErrors THEN "ended" ELSE "loop"
    ELSE pc' = "loop" /\ UNCHANGED errors

AcquireFails ==
    /\ pc = "connecting" /\ (~up \/ ~Acquirable)
    /\ lastErr' = TRUE
    /\ NotConnected
    /\ UNCHANGED <<envVars, wire, pool, held, conn, counted, dataVars, ctxDone, closer,
                   since>>

Reconnect ==
    /\ pc = "listening" /\ up /\ ~ctxDone
    /\ conn' = "live" /\ errors' = 0
    /\ pc' = IF counted THEN "waiting" ELSE "loop"
    /\ UNCHANGED <<envVars, wire, pool, held, counted, lastErr, dataVars, ctxDone,
                   closer, since>>

ReconnectLeaks ==
    /\ pc = "listening" /\ (~up \/ ctxDone)
    /\ lastErr' = TRUE
    /\ NotConnected
    /\ UNCHANGED <<envVars, wire, pool, held, conn, counted, dataVars, ctxDone, closer,
                   since>>

ReconnectFails ==
    /\ pc = "listening"
    /\ \/ (~up \/ ctxDone) /\ UNCHANGED faults
       \/ faults < MaxFaults /\ faults' = faults + 1
    /\ held' = held - 1
    /\ lastErr' = TRUE
    /\ NotConnected
    /\ UNCHANGED <<up, sent, wire, pool, conn, counted, dataVars, ctxDone, closer, since>>

(***************************************************************************)
(* The program: it reads the channel, and may end the context, close the   *)
(* listener, by any number of calls, and close the database.               *)
(***************************************************************************)
Read ==
    /\ Returned /\ notifCh # <<>>
    /\ received' = Append(received, Head(notifCh))
    /\ notifCh' = Tail(notifCh)
    /\ UNCHANGED <<envVars, wire, pool, held, pc, conn, counted, errVars, hand, ctxDone,
                   closer, since, full>>

Cancel ==
    /\ ~ctxDone /\ ctxDone' = TRUE
    /\ UNCHANGED <<envVars, wire, pool, held, pc, conn, counted, errVars, dataVars,
                   closer, since>>

\* The context is cancelled first, then the channel `done` is closed, so that the
\* goroutine sees the second only when it can see the first.
Close(c) ==
    /\ Returned /\ closer[c] = "idle"
    /\ ctxDone' = TRUE
    /\ closer' = [closer EXCEPT ![c] = "waiting"]
    /\ UNCHANGED <<envVars, wire, pool, held, pc, conn, counted, errVars, dataVars, since>>

CloseReturn(c) ==
    /\ closer[c] = "waiting" /\ pc = "ended"
    /\ closer' = [closer EXCEPT ![c] = "returned"]
    /\ UNCHANGED <<envVars, wire, pool, held, pc, conn, counted, errVars, dataVars,
                   ctxDone, since>>

DBClose ==
    /\ \/ pool = "open" /\ pool' = "closing"
       \/ pool = "closing" /\ held = 0 /\ pool' = "closed"
    /\ UNCHANGED <<envVars, wire, held, pc, conn, counted, errVars, dataVars, ctxDone,
                   closer, since>>

(***************************************************************************)
(* PostgreSQL.                                                             *)
(***************************************************************************)
Notify ==
    /\ up /\ sent < MaxSent
    /\ sent' = sent + 1
    /\ wire' = IF conn = "live" THEN Append(wire, sent') ELSE wire
    /\ UNCHANGED <<up, faults, pool, held, pc, conn, counted, errVars, dataVars, ctxDone,
                   closer, since>>

\* The listener's session ends, or the whole server is out of reach; some of what
\* was on the way still arrives.
Lose ==
    /\ faults < MaxFaults /\ faults' = faults + 1
    /\ up /\ (up' = FALSE \/ (conn = "live" /\ UNCHANGED up))
    /\ conn' = IF conn = "live" THEN "lost" ELSE conn
    /\ \E k \in 0 .. Len(wire) : wire' = SubSeq(wire, 1, k)
    /\ UNCHANGED <<sent, pool, held, pc, counted, errVars, dataVars, ctxDone, closer,
                   since>>

ComeBack ==
    /\ ~up /\ up' = TRUE
    /\ UNCHANGED <<faults, sent, wire, pool, held, pc, conn, counted, errVars, dataVars,
                   ctxDone, closer, since>>

-----------------------------------------------------------------------------
Goroutine ==
    \/ Loop \/ Receive \/ WaitCancelled \/ WaitDisconnected \/ WaitFails \/ Pause \/ Send
    \/ ConnectStop \/ Acquire \/ AcquireFails \/ Reconnect \/ ReconnectFails

Next ==
    \/ Listen \/ FirstListen
    \/ Goroutine
    \/ Read \/ Cancel \/ DBClose
    \/ \E c \in Closers : Close(c) \/ CloseReturn(c)
    \/ Notify \/ Lose \/ ComeBack

Spec == Init /\ [][Next]_vars

\* The goroutine runs, and calls that were made return when they can. Nothing
\* forces a notification, a reader, a cancellation or a server that comes back.
Fairness ==
    /\ WF_vars(FirstListen \/ Goroutine)
    /\ \A c \in Closers : WF_vars(CloseReturn(c))
    /\ WF_vars(pool = "closing" /\ DBClose)

FairSpec == Spec /\ Fairness

-----------------------------------------------------------------------------
\* Types; the capacity of notifCh and the limit of errors are among them.
TypeOK ==
    /\ up \in BOOLEAN /\ faults \in 0 .. MaxFaults
    /\ sent \in 0 .. MaxSent /\ since \in 0 .. MaxSent
    /\ wire \in Seq(1 .. MaxSent)
    /\ pool \in {"open", "closing", "closed"}
    /\ held \in Nat
    /\ pc \in {"start", "first", "failed", "loop", "waiting", "sending", "pausing",
               "connecting", "listening", "ended"}
    /\ conn \in {"none", "live", "lost", "closed"}
    /\ counted \in BOOLEAN
    /\ errors \in 0 .. MaxErrors
    /\ lastErr \in BOOLEAN
    /\ hand \in 0 .. MaxSent
    /\ notifCh \in Seq(1 .. MaxSent) /\ Len(notifCh) <= ChanSize
    /\ ctxDone \in BOOLEAN
    /\ closer \in [Closers -> {"idle", "waiting", "returned"}]
    /\ received \in Seq(1 .. MaxSent)
    /\ full \in BOOLEAN

\* No connection leaks: through failed attempts to listen, reconnections and every
\* way to end, the listener holds its connection and the one it is about to use.
NoConnLeak ==
    held = (IF conn = "none" THEN 0 ELSE 1) + (IF pc \in {"first", "listening"} THEN 1 ELSE 0)

\* A reader who sees no error in Err() and whose channel was never full has missed
\* nothing and sees the notifications in their order.
Pending == received \o notifCh \o (IF hand = 0 THEN <<>> ELSE <<hand>>) \o wire

NothingMissed ==
    conn = "live" /\ ~lastErr /\ ~full /\ ~ctxDone
        => Pending = [i \in 1 .. (sent - since) |-> since + i]

\* A listener that ended by itself had its fill of errors in a row, and tells one.
EndsForAReason == pc = "ended" /\ ~ctxDone => lastErr /\ errors = MaxErrors

\* Every call of Close returns, whatever the goroutine was doing.
CloseReturns == \A c \in Closers : closer[c] = "waiting" ~> closer[c] = "returned"

\* DB.Close returns, once the listener's context is done.
DBCloseReturns == pool = "closing" /\ ctxDone ~> pool = "closed"

\* A listener does not live on without a session: in the end it has one, or it has
\* given up and closed its channel.
Settles == <>[](pc \in {"start", "failed", "ended"} \/ conn = "live")
=============================================================================
