------------------------------ MODULE PushSink ------------------------------
(***************************************************************************)
(* notifications/push: the sink that collects the notifications passed to  *)
(* Client.Send into batches, the goroutines that process the batches, the  *)
(* monitor that flushes a buffer nobody fills up, and Client.Close.        *)
(*                                                                         *)
(* What a batch does with FCM is module PushBatch; here a batch that has   *)
(* been taken is only known to answer, in any order and at any time, every *)
(* notification it holds.                                                  *)
(***************************************************************************)
EXTENDS Integers, Sequences, FiniteSets

CONSTANTS
    Notifs,        \* what the program sends: one Send call, in a goroutine, each
    Probe,         \* the notification New sends to itself before it returns
    Expired,       \* notifications sent with a context that is already done
    SendThenRead,  \* their caller has an unbuffered response channel, which it
                   \* reads once Send has returned; the others never block a reply
    Workers,       \* goroutines running startProcessing (cfg Concurrency)
    Closers,       \* goroutines calling Close
    Monitor,       \* the goroutine running monitorSlowProcessing
    Free,          \* the value of mx when nobody holds the mutex
    BatchSize,     \* fcmSendAllBatchSize
    ChanCap        \* Concurrency * bufferSizeForEachProcessingGoroutine

All   == Notifs \cup {Probe}
Procs == All \cup Closers \cup {Monitor}

ASSUME SinkAssumption ==
    /\ Probe \notin Notifs
    /\ Expired \subseteq Notifs
    /\ SendThenRead \subseteq Notifs
    /\ All \cap Closers = {}
    /\ Monitor \notin All \cup Closers
    /\ Free \notin Procs
    /\ BatchSize \in Nat \ {0}
    /\ ChanCap \in Nat \ {0}

VARIABLES
    bufferingEnabled,  \* the configuration; never changes
    mx,                \* the holder of sink.mx, or Free
    closed,            \* sink.closed
    buffered,          \* sink.bufferedNotifications
    resetAt,           \* "nil", or whether the buffering deadline has passed since
    out,               \* the batches the holder of mx has still to send
    chan,              \* sink.bufferedNotificationsChan
    chanClosed,        \* close() was called on it
    worker,            \* state of each worker
    batch,             \* what each worker took from the channel
    responding,        \* notifications whose `responder <- err` is still to complete
    answers,           \* how many responses each notification has had
    caller,            \* where each call of Send is
    closer,            \* where each call of Close is
    monitor            \* where the monitor is

vars == <<bufferingEnabled, mx, closed, buffered, resetAt, out, chan, chanClosed,
          worker, batch, responding, answers, caller, closer, monitor>>

sinkVars    == <<closed, buffered, resetAt, out, chan, chanClosed>>
workerVars  == <<worker, batch>>
processVars == <<caller, closer, monitor>>

Elems(s) == {s[i] : i \in DOMAIN s}

\* New returns its client only after its probe was answered.
CalledTooEarly(n) == TRUE
MayCall(n) == n = Probe \/ answers[Probe] > 0

\* The goroutines counted by sink.wg: startProcessing adds itself when it runs,
\* not when it is spawned.
Counted == {w \in Workers : worker[w] \in {"idle", "busy"}}

\* Somebody is on the other side of n's response channel.
CanReceive(n) == n \in SendThenRead \cup {Probe} => caller[n] = "returned"

(***************************************************************************)
(* The initial state: newClient has spawned its goroutines.                *)
(***************************************************************************)
Init ==
    /\ bufferingEnabled \in BOOLEAN
    /\ mx = Free
    /\ closed = FALSE
    /\ buffered = <<>>
    /\ resetAt = "nil"
    /\ out = <<>>
    /\ chan = <<>>
    /\ chanClosed = FALSE
    /\ worker = [w \in Workers |-> IF bufferingEnabled THEN "new" ELSE "unused"]
    /\ batch = [w \in Workers |-> <<>>]
    /\ responding = {}
    /\ answers = [n \in All |-> 0]
    /\ caller = [n \in All |-> "idle"]
    /\ closer = [c \in Closers |-> "idle"]
    /\ monitor = IF bufferingEnabled THEN "waiting" ELSE "done"

(***************************************************************************)
(* Cutting the buffer.                                                     *)
(***************************************************************************)
FullBatches(b) ==
    [i \in 1 .. (Len(b) \div BatchSize) |->
        SubSeq(b, (i - 1) * BatchSize + 1, i * BatchSize)]

Remainder(b) == SubSeq(b, Len(b) - (Len(b) % BatchSize) + 1, Len(b))

FlushWhenOverfull(b) == Len(b) > BatchSize \/ resetAt = "due"
MustFlush(b) == Len(b) >= BatchSize \/ resetAt = "due"

\* accept, from the read of the clock to the last change of the buffer, for a
\* buffer that already holds the new notification. resetAt becomes the time read
\* here, so time that passes while the batches are sent counts for the next flush.
CollectKeepsFlushed(b) ==
    IF MustFlush(b)
    THEN /\ out' = IF Remainder(b) # <<>> /\ resetAt = "due"
                   THEN Append(FullBatches(b), Remainder(b)) ELSE FullBatches(b)
         /\ buffered' = Remainder(b)
         /\ resetAt' = "recent"
    ELSE /\ buffered' = b
         /\ resetAt' = IF resetAt = "nil" THEN "recent" ELSE resetAt
         /\ out' = <<>>

Collect(b) ==
    LET sendRest == Remainder(b) # <<>> /\ resetAt = "due" IN
    IF MustFlush(b)
    THEN /\ out' = IF sendRest THEN Append(FullBatches(b), Remainder(b))
                               ELSE FullBatches(b)
         /\ buffered' = IF sendRest THEN <<>> ELSE Remainder(b)
         /\ resetAt' = "recent"
    ELSE /\ buffered' = b
         /\ resetAt' = IF resetAt = "nil" THEN "recent" ELSE resetAt
         /\ out' = <<>>

(***************************************************************************)
(* Send.                                                                   *)
(***************************************************************************)

\* The context is done: Send itself writes the error to the response channel.
SendExpired(n) ==
    /\ caller[n] = "idle" /\ MayCall(n)
    /\ n \in Expired
    /\ caller' = [caller EXCEPT ![n] = "replying"]
    /\ responding' = responding \cup {n}
    /\ UNCHANGED <<bufferingEnabled, mx, sinkVars, workerVars, answers, closer, monitor>>

\* Without buffering a goroutine sends the notification and responds.
SendDirect(n) ==
    /\ caller[n] = "idle" /\ MayCall(n)
    /\ n \notin Expired /\ ~bufferingEnabled
    /\ caller' = [caller EXCEPT ![n] = "returned"]
    /\ responding' = responding \cup {n}
    /\ UNCHANGED <<bufferingEnabled, mx, sinkVars, workerVars, answers, closer, monitor>>

\* With buffering Send calls accept, which locks the mutex first.
SendBuffered(n) ==
    /\ caller[n] = "idle" /\ MayCall(n)
    /\ n \notin Expired /\ bufferingEnabled
    /\ caller' = [caller EXCEPT ![n] = "locking"]
    /\ UNCHANGED <<bufferingEnabled, mx, sinkVars, workerVars, responding, answers,
                   closer, monitor>>

Accept(n) ==
    /\ caller[n] = "locking" /\ mx = Free /\ ~closed
    /\ mx' = n
    /\ caller' = [caller EXCEPT ![n] = "flushing"]
    /\ Collect(Append(buffered, n))
    /\ UNCHANGED <<bufferingEnabled, closed, chan, chanClosed, workerVars, responding,
                   answers, closer, monitor>>

\* After Close the caller processes a batch of one, and responds to itself,
\* before accept gives the mutex back.
AcceptClosed(n) ==
    /\ caller[n] = "locking" /\ mx = Free /\ closed
    /\ mx' = n
    /\ caller' = [caller EXCEPT ![n] = "replying"]
    /\ responding' = responding \cup {n}
    /\ UNCHANGED <<bufferingEnabled, sinkVars, workerVars, answers, closer, monitor>>

\* Send returns: its batches are in the channel, or its own answer is delivered.
SendReturn(n) ==
    /\ \/ caller[n] = "flushing" /\ out = <<>>
       \/ caller[n] = "replying" /\ n \notin responding
    /\ caller' = [caller EXCEPT ![n] = "returned"]
    /\ mx' = IF mx = n THEN Free ELSE mx
    /\ UNCHANGED <<bufferingEnabled, sinkVars, workerVars, responding, answers,
                   closer, monitor>>

\* `bufferedNotificationsChan <- batch`, by whoever holds the mutex.
SendBatch ==
    /\ out # <<>> /\ Len(chan) < ChanCap
    /\ chan' = Append(chan, Head(out))
    /\ out' = Tail(out)
    /\ UNCHANGED <<bufferingEnabled, mx, closed, buffered, resetAt, chanClosed,
                   workerVars, responding, answers, processVars>>

(***************************************************************************)
(* Workers and responses.                                                  *)
(***************************************************************************)
WorkerStart(w) ==
    /\ worker[w] = "new"
    /\ worker' = [worker EXCEPT ![w] = "idle"]
    /\ UNCHANGED <<bufferingEnabled, mx, sinkVars, batch, responding, answers, processVars>>

\* Takes a batch; process() ends, at the latest at its deadline, with one
\* goroutine per notification writing to its response channel.
WorkerReceive(w) ==
    /\ worker[w] = "idle" /\ chan # <<>>
    /\ worker' = [worker EXCEPT ![w] = "busy"]
    /\ batch' = [batch EXCEPT ![w] = Head(chan)]
    /\ chan' = Tail(chan)
    /\ responding' = responding \cup Elems(Head(chan))
    /\ UNCHANGED <<bufferingEnabled, mx, closed, buffered, resetAt, out, chanClosed,
                   answers, processVars>>

\* A response is delivered.
Respond(n) ==
    /\ n \in responding /\ CanReceive(n)
    /\ responding' = responding \ {n}
    /\ answers' = [answers EXCEPT ![n] = @ + 1]
    /\ UNCHANGED <<bufferingEnabled, mx, sinkVars, workerVars, processVars>>

\* respond() waits for all of its goroutines.
WorkerFinish(w) ==
    /\ worker[w] = "busy" /\ Elems(batch[w]) \cap responding = {}
    /\ worker' = [worker EXCEPT ![w] = "idle"]
    /\ batch' = [batch EXCEPT ![w] = <<>>]
    /\ UNCHANGED <<bufferingEnabled, mx, sinkVars, responding, answers, processVars>>

\* The range over the channel ends once the channel is closed and empty.
WorkerExit(w) ==
    /\ worker[w] = "idle" /\ chan = <<>> /\ chanClosed
    /\ worker' = [worker EXCEPT ![w] = "done"]
    /\ UNCHANGED <<bufferingEnabled, mx, sinkVars, batch, responding, answers, processVars>>

(***************************************************************************)
(* The monitor: accept(nil, nil) at every tick.                            *)
(***************************************************************************)
MonitorTickOnlyLooks ==
    /\ monitor = "waiting" /\ mx = Free /\ ~closed
    /\ mx' = Monitor
    /\ monitor' = "flushing"
    /\ UNCHANGED <<bufferingEnabled, sinkVars, workerVars, responding, answers,
                   caller, closer>>

MonitorTick ==
    /\ monitor = "waiting" /\ mx = Free /\ ~closed
    /\ mx' = Monitor
    /\ monitor' = "flushing"
    /\ Collect(buffered)
    /\ UNCHANGED <<bufferingEnabled, closed, chan, chanClosed, workerVars, responding,
                   answers, caller, closer>>

MonitorReturn ==
    /\ monitor = "flushing" /\ out = <<>>
    /\ monitor' = "waiting"
    /\ mx' = Free
    /\ UNCHANGED <<bufferingEnabled, sinkVars, workerVars, responding, answers,
                   caller, closer>>

\* The loop condition reads closed without the mutex: it may see the new value
\* at once, or only after one more tick whose accept does nothing.
MonitorExit ==
    /\ monitor = "waiting" /\ closed
    /\ monitor' = "done"
    /\ UNCHANGED <<bufferingEnabled, mx, sinkVars, workerVars, responding, answers,
                   caller, closer>>

\* The buffering deadline passes.
Tick ==
    /\ resetAt = "recent"
    /\ resetAt' = "due"
    /\ UNCHANGED <<bufferingEnabled, mx, closed, buffered, out, chan, chanClosed,
                   workerVars, responding, answers, processVars>>

(***************************************************************************)
(* Close.                                                                  *)
(***************************************************************************)
Close(c) ==
    /\ closer[c] = "idle" /\ MayCall(c)
    /\ closer' = [closer EXCEPT ![c] = "locking"]
    /\ UNCHANGED <<bufferingEnabled, mx, sinkVars, workerVars, responding, answers,
                   caller, monitor>>

\* stop: every full batch, then what remains, with no test that something does.
StopAgain(c) ==
    /\ closer[c] = "locking" /\ mx = Free
    /\ mx' = c
    /\ closer' = [closer EXCEPT ![c] = "flushing"]
    /\ out' = IF buffered = <<>> THEN <<>>
              ELSE Append(FullBatches(buffered), Remainder(buffered))
    /\ buffered' = <<>>
    /\ resetAt' = IF buffered = <<>> THEN resetAt ELSE "recent"
    /\ UNCHANGED <<bufferingEnabled, closed, chan, chanClosed, workerVars, responding,
                   answers, caller, monitor>>

Stop(c) ==
    /\ closer[c] = "locking" /\ mx = Free /\ ~closed
    /\ mx' = c
    /\ closer' = [closer EXCEPT ![c] = "flushing"]
    /\ out' = IF buffered = <<>> THEN <<>>
              ELSE Append(FullBatches(buffered), Remainder(buffered))
    /\ buffered' = <<>>
    /\ resetAt' = IF buffered = <<>> THEN resetAt ELSE "recent"
    /\ UNCHANGED <<bufferingEnabled, closed, chan, chanClosed, workerVars, responding,
                   answers, caller, monitor>>

StopClosed(c) ==
    /\ closer[c] = "locking" /\ mx = Free /\ closed
    /\ closer' = [closer EXCEPT ![c] = "returned"]
    /\ UNCHANGED <<bufferingEnabled, mx, sinkVars, workerVars, responding, answers,
                   caller, monitor>>

NeverCloseChannel(c) ==
    /\ closer[c] = "flushing" /\ out = <<>>
    /\ closer' = [closer EXCEPT ![c] = "waiting"]
    /\ UNCHANGED <<bufferingEnabled, mx, sinkVars, workerVars, responding, answers,
                   caller, monitor>>

CloseChannel(c) ==
    /\ closer[c] = "flushing" /\ out = <<>>
    /\ chanClosed' = TRUE
    /\ closer' = [closer EXCEPT ![c] = "waiting"]
    /\ UNCHANGED <<bufferingEnabled, mx, closed, buffered, resetAt, out, chan,
                   workerVars, responding, answers, caller, monitor>>

\* wg.Wait returns, still under the mutex.
StopReturn(c) ==
    /\ closer[c] = "waiting" /\ Counted = {}
    /\ closed' = TRUE
    /\ mx' = Free
    /\ closer' = [closer EXCEPT ![c] = "returned"]
    /\ UNCHANGED <<bufferingEnabled, buffered, resetAt, out, chan, chanClosed,
                   workerVars, responding, answers, caller, monitor>>

-----------------------------------------------------------------------------
CallerNext(n) ==
    \/ SendExpired(n) \/ SendDirect(n) \/ SendBuffered(n)
    \/ Accept(n) \/ AcceptClosed(n) \/ SendReturn(n)

WorkerNext(w) ==
    WorkerStart(w) \/ WorkerReceive(w) \/ WorkerFinish(w) \/ WorkerExit(w)

MonitorNext == MonitorTick \/ MonitorReturn \/ MonitorExit

CloserNext(c) ==
    Close(c) \/ Stop(c) \/ StopClosed(c) \/ CloseChannel(c) \/ StopReturn(c)

Next ==
    \/ \E n \in All : CallerNext(n) \/ Respond(n)
    \/ \E w \in Workers : WorkerNext(w)
    \/ \E c \in Closers : CloserNext(c)
    \/ MonitorNext \/ SendBatch \/ Tick

Spec == Init /\ [][Next]_vars

\* Runnable goroutines run, time passes, and sync.Mutex starves nobody: a waiter
\* that was passed over is served first. New always sends its probe; the program
\* need not call Send or Close.
Fairness ==
    /\ WF_vars(SendBuffered(Probe) \/ SendDirect(Probe))
    /\ \A n \in All : /\ SF_vars(Accept(n) \/ AcceptClosed(n))
                      /\ WF_vars(SendReturn(n) \/ Respond(n))
    /\ \A w \in Workers : WF_vars(WorkerNext(w))
    /\ \A c \in Closers : /\ SF_vars(Stop(c) \/ StopClosed(c))
                          /\ WF_vars(CloseChannel(c) \/ StopReturn(c))
    /\ SF_vars(MonitorTick)
    /\ WF_vars(MonitorReturn \/ MonitorExit)
    /\ WF_vars(SendBatch) /\ WF_vars(Tick)

FairSpec == Spec /\ Fairness

-----------------------------------------------------------------------------
\* Types, and the capacity of the channel (push.go:81).
TypeOK ==
    /\ bufferingEnabled \in BOOLEAN
    /\ mx \in Procs \cup {Free}
    /\ closed \in BOOLEAN
    /\ buffered \in Seq(All)
    /\ resetAt \in {"nil", "recent", "due"}
    /\ out \in Seq(Seq(All))
    /\ chan \in Seq(Seq(All)) /\ Len(chan) <= ChanCap
    /\ chanClosed \in BOOLEAN
    /\ worker \in [Workers -> {"unused", "new", "idle", "busy", "done"}]
    /\ batch \in [Workers -> Seq(All)]
    /\ responding \subseteq All
    /\ answers \in [All -> Nat]
    /\ caller \in [All -> {"idle", "locking", "flushing", "replying", "returned"}]
    /\ closer \in [Closers -> {"idle", "locking", "flushing", "waiting", "returned"}]
    /\ monitor \in {"waiting", "flushing", "done"}

\* FCM refuses an empty list and one longer than its limit: no batch that leaves
\* the buffer is either, although stop sends its last batch without looking
\* (sink.go:33-34) and would send an empty one for a buffer of a whole batch.
Fits(b) == Len(b) \in 1 .. BatchSize

BatchesFit ==
    /\ \A i \in DOMAIN out : Fits(out[i])
    /\ \A i \in DOMAIN chan : Fits(chan[i])
    /\ \A w \in Workers : worker[w] = "busy" => Fits(batch[w])

\* How often n occurs in a sequence, and in a sequence of batches.
Count(n, s) == Cardinality({i \in DOMAIN s : s[i] = n})
CountIn(n, ss) ==
    Cardinality({p \in (DOMAIN ss) \X (1 .. BatchSize) :
                    p[2] \in DOMAIN ss[p[1]] /\ ss[p[1]][p[2]] = n})

\* A notification Send took is in exactly one place, the buffer, a batch on its
\* way, the response being written, or answered: no cut of the buffer and no
\* interleaving of Send, monitor and Close loses one or sends one twice.
Conserved ==
    \A n \in All :
        Count(n, buffered) + CountIn(n, out) + CountIn(n, chan)
          + (IF n \in responding THEN 1 ELSE 0) + answers[n]
        = IF caller[n] \in {"idle", "locking"} THEN 0 ELSE 1

\* When Close has returned, every buffered Send that returned has its answer,
\* although a worker that was spawned but has not run is not in the wait group
\* (sink.go:14, 39).
CloseDrains ==
    closed /\ bufferingEnabled =>
        \A n \in All : caller[n] = "returned" => answers[n] > 0

\* Nobody sends on the closed channel or closes it again, which would panic.
ChannelOpenInUse ==
    (out # <<>> \/ \E c \in Closers : closer[c] = "flushing") => ~chanClosed

\* Every Send is answered: by a full batch, by the monitor's flush (sink.go:81-91),
\* by Close, or after Close by the caller itself. A call waits until it is
\* answered and there are finitely many, so this is: none waits forever.
SendAnswered == []<>(\A n \in All : caller[n] # "idle" => answers[n] > 0)

\* Close returns, once called (sink.go:24-42).
CloseReturns == []<>(\A c \in Closers : closer[c] \in {"idle", "returned"})

\* The test of concurrent Send and Close expects an answer for each of its calls,
\* which read an unbuffered response channel after Send (push_test.go:171-173, 190).
EverySenderIsAnswered ==
    \A n \in SendThenRead : (caller[n] # "idle") ~> (answers[n] > 0)
=============================================================================
