---------------------------- MODULE PushProofs ------------------------------
(***************************************************************************)
(* Proofs about notifications/push: about PushSink, for every number of    *)
(* callers, workers and closers, every batch size and every capacity of    *)
(* the channel, and about PushBatch, for a batch of any size and however   *)
(* FCM answers and fails: all of their safety properties.                  *)
(***************************************************************************)
EXTENDS PushSink, PushBatch, FiniteSetTheorems, TLAPS

-----------------------------------------------------------------------------
(***************************************************************************)
(* The sink.                                                               *)
(*                                                                         *)
(* They follow from one inductive invariant. Its parts say: the buffer is  *)
(* shorter than a batch, so that a cut never yields more than one batch;   *)
(* whoever is flushing holds the mutex; once the channel is closed nothing *)
(* is left to be sent; a worker that ended found the channel closed and    *)
(* empty, and some worker has started before anybody can call Close; and a *)
(* notification whose Send returned is in the buffer, in a batch, with a   *)
(* busy worker, or answered.                                               *)
(*                                                                         *)
(* That nothing is lost or doubled is counted: how often a notification is *)
(* in the buffer, in the batches and among the responses. A step that      *)
(* moves it takes away from one of these counts what it adds to another.   *)
(***************************************************************************)

-----------------------------------------------------------------------------
(***************************************************************************)
(* Cutting a buffer that is no longer than a batch.                        *)
(***************************************************************************)

\* A buffer shorter than a batch has no full batch: all of it remains.
LEMMA CutShort ==
    ASSUME NEW b \in Seq(All), Len(b) < BatchSize
    PROVE  FullBatches(b) = <<>> /\ Remainder(b) = b
<1>1. Len(b) \in Nat /\ BatchSize \in Nat /\ BatchSize > 0
  BY SinkAssumption
<1>2. Len(b) \div BatchSize = 0 /\ Len(b) % BatchSize = Len(b)
  BY <1>1
<1>3. FullBatches(b) = <<>>
  BY <1>2 DEF FullBatches
<1>4. Remainder(b) = b
  BY <1>1, <1>2 DEF Remainder
<1>. QED  BY <1>3, <1>4

\* A buffer as long as a batch is one batch, and nothing remains.
LEMMA CutFull ==
    ASSUME NEW b \in Seq(All), Len(b) = BatchSize
    PROVE  FullBatches(b) = <<b>> /\ Remainder(b) = <<>>
<1>1. Len(b) \in Nat /\ BatchSize \in Nat /\ BatchSize > 0
  BY SinkAssumption
<1>2. Len(b) \div BatchSize = 1 /\ Len(b) % BatchSize = 0
  BY <1>1
<1>3. SubSeq(b, 1, BatchSize) = b
  BY <1>1
<1>4. FullBatches(b) = <<b>>
  BY <1>1, <1>2, <1>3 DEF FullBatches
<1>5. Remainder(b) = <<>>
  BY <1>1, <1>2 DEF Remainder
<1>. QED  BY <1>4, <1>5

\* accept either keeps the buffer or sends all of it as one batch.
LEMMA CollectOneBatch ==
    ASSUME NEW b \in Seq(All), Len(b) <= BatchSize,
           resetAt \in {"nil", "recent", "due"}, Collect(b)
    PROVE  /\ \/ out' = <<>> /\ buffered' = b /\ Len(b) < BatchSize
              \/ out' = <<b>> /\ buffered' = <<>> /\ b # <<>>
           /\ resetAt' \in {"nil", "recent", "due"}
<1>1. Len(b) \in Nat /\ BatchSize \in Nat /\ BatchSize > 0
  BY SinkAssumption
<1>2. CASE Len(b) = BatchSize
  <2>1. FullBatches(b) = <<b>> /\ Remainder(b) = <<>> /\ b # <<>>
    BY <1>1, <1>2, CutFull
  <2>. QED  BY <1>1, <1>2, <2>1 DEF Collect, MustFlush
<1>3. CASE Len(b) < BatchSize
  <2>1. FullBatches(b) = <<>> /\ Remainder(b) = b
    BY <1>3, CutShort
  <2>2. Append(<<>>, b) = <<b>>
    OBVIOUS
  <2>. QED  BY <1>1, <1>3, <2>1, <2>2 DEF Collect, MustFlush
<1>. QED  BY <1>1, <1>2, <1>3

\* stop sends the whole buffer as one batch, if there is anything in it.
LEMMA StopOneBatch ==
    ASSUME NEW c \in Closers, buffered \in Seq(All), Len(buffered) < BatchSize, Stop(c)
    PROVE  out' = IF buffered = <<>> THEN <<>> ELSE <<buffered>>
<1>1. FullBatches(buffered) = <<>> /\ Remainder(buffered) = buffered
  BY CutShort
<1>2. Append(<<>>, buffered) = <<buffered>>
  OBVIOUS
<1>. QED  BY <1>1, <1>2 DEF Stop

-----------------------------------------------------------------------------
(***************************************************************************)
(* The inductive invariant.                                                *)
(***************************************************************************)
Sizes == BatchesFit /\ Len(buffered) < BatchSize

\* Who holds the mutex, and what holding it means.
Locking ==
    /\ \A n \in All : caller[n] = "flushing" => mx = n
    /\ \A n \in All : mx = n => \/ caller[n] = "flushing"
                                \/ caller[n] = "replying" /\ closed
    /\ monitor = "flushing" => mx = Monitor
    /\ \A c \in Closers : closer[c] \in {"flushing", "waiting"} =>
                            mx = c /\ buffered = <<>>
    /\ mx = Free => out = <<>>

\* From the closing of the channel on.
Closing ==
    /\ \A c \in Closers : closer[c] = "waiting" => chanClosed
    /\ chanClosed => /\ out = <<>> /\ buffered = <<>>
                     /\ closed \/ \E c \in Closers : closer[c] = "waiting"
    /\ closed => /\ chanClosed
                 /\ monitor # "flushing"
                 /\ \A n \in All : caller[n] # "flushing"
                 /\ \A c \in Closers : closer[c] \notin {"flushing", "waiting"}

Started == \E w \in Workers : worker[w] \in {"idle", "busy", "done"}

\* Before Close can be called a worker has answered the probe, and it ends only
\* when everything has been taken from the channel.
Working ==
    /\ bufferingEnabled /\ (Probe \in responding \/ answers[Probe] > 0) => Started
    /\ chanClosed \/ closed => answers[Probe] > 0
    /\ \A c \in Closers : closer[c] # "idle" => answers[Probe] > 0
    /\ \A w \in Workers : worker[w] = "done" => chanClosed /\ chan = <<>>
    /\ closed /\ bufferingEnabled =>
         chan = <<>> /\ \A w \in Workers : worker[w] # "busy"

\* Where a notification can be.
Placed(n) ==
    \/ answers[n] > 0
    \/ n \in Elems(buffered)
    \/ \E i \in DOMAIN out : n \in Elems(out[i])
    \/ \E i \in DOMAIN chan : n \in Elems(chan[i])
    \/ \E w \in Workers : worker[w] = "busy" /\ n \in Elems(batch[w]) /\ n \in responding

Covered(n) ==
    /\ caller[n] \in {"flushing", "returned"} => Placed(n)
    /\ caller[n] = "replying" => n \in responding \/ answers[n] > 0

Coverage == bufferingEnabled => \A n \in All : Covered(n)

IInv == TypeOK /\ Sizes /\ Locking /\ Closing /\ Working /\ Coverage

\* What accept does to the buffer in a reachable state.
LEMMA AcceptCuts ==
    ASSUME IInv, NEW n \in All, Accept(n)
    PROVE  /\ \/ /\ out' = <<>> /\ buffered' = Append(buffered, n)
                 /\ Len(buffered) + 1 < BatchSize
              \/ out' = <<Append(buffered, n)>> /\ buffered' = <<>>
           /\ resetAt' \in {"nil", "recent", "due"}
           /\ Append(buffered, n) \in Seq(All) /\ Len(buffered) + 1 <= BatchSize
           /\ buffered' \in Seq(All) /\ out' \in Seq(Seq(All))
<1>1. /\ buffered \in Seq(All) /\ Len(buffered) < BatchSize
      /\ resetAt \in {"nil", "recent", "due"} /\ BatchSize \in Nat
  BY SinkAssumption DEF IInv, TypeOK, Sizes
<1>2. /\ Append(buffered, n) \in Seq(All)
      /\ Len(Append(buffered, n)) = Len(buffered) + 1
      /\ Len(Append(buffered, n)) <= BatchSize
  BY <1>1
<1>3. Collect(Append(buffered, n))
  BY DEF Accept
<1>4. <<Append(buffered, n)>> \in Seq(Seq(All)) /\ <<>> \in Seq(Seq(All)) /\ <<>> \in Seq(All)
  BY <1>2
<1>. QED  BY <1>1, <1>2, <1>3, <1>4, CollectOneBatch

\* What the monitor does: nothing, or it sends the whole buffer as one batch.
LEMMA MonitorCuts ==
    ASSUME IInv, MonitorTick
    PROVE  /\ \/ out' = <<>> /\ buffered' = buffered
              \/ out' = <<buffered>> /\ buffered' = <<>> /\ buffered # <<>>
           /\ resetAt' \in {"nil", "recent", "due"}
           /\ buffered' \in Seq(All) /\ out' \in Seq(Seq(All))
<1>1. /\ buffered \in Seq(All) /\ Len(buffered) <= BatchSize
      /\ resetAt \in {"nil", "recent", "due"}
  BY SinkAssumption DEF IInv, TypeOK, Sizes
<1>2. Collect(buffered)
  BY DEF MonitorTick
<1>3. <<buffered>> \in Seq(Seq(All)) /\ <<>> \in Seq(Seq(All)) /\ <<>> \in Seq(All)
  BY <1>1
<1>. QED  BY <1>1, <1>2, <1>3, CollectOneBatch

\* What stop does: it sends the whole buffer as one batch.
LEMMA StopCuts ==
    ASSUME IInv, NEW c \in Closers, Stop(c)
    PROVE  /\ out' = IF buffered = <<>> THEN <<>> ELSE <<buffered>>
           /\ buffered' = <<>>
           /\ buffered' \in Seq(All) /\ out' \in Seq(Seq(All))
<1>1. buffered \in Seq(All) /\ Len(buffered) < BatchSize
  BY DEF IInv, TypeOK, Sizes
<1>2. <<buffered>> \in Seq(Seq(All)) /\ <<>> \in Seq(Seq(All)) /\ <<>> \in Seq(All)
  BY <1>1
<1>. QED  BY <1>1, <1>2, StopOneBatch DEF Stop

-----------------------------------------------------------------------------
(***************************************************************************)
(* Every step preserves each part of the invariant.                        *)
(***************************************************************************)

\* A step keeps the types; a send waits while the channel is full.
LEMMA TypePreserved ==
    IInv /\ [Next]_vars => TypeOK'
<1>. SUFFICES ASSUME IInv, [Next]_vars
             PROVE  TypeOK'
  OBVIOUS
<1>. USE SinkAssumption DEF IInv, All, Procs, sinkVars, workerVars, processVars
<1>1. ASSUME NEW n \in All, SendExpired(n) PROVE TypeOK'
  BY <1>1 DEF SendExpired, TypeOK
<1>2. ASSUME NEW n \in All, SendDirect(n) PROVE TypeOK'
  BY <1>2 DEF SendDirect, TypeOK
<1>3. ASSUME NEW n \in All, SendBuffered(n) PROVE TypeOK'
  BY <1>3 DEF SendBuffered, TypeOK
<1>4. ASSUME NEW n \in All, Accept(n) PROVE TypeOK'
  <2>. HIDE DEF IInv
  <2>1. /\ buffered' \in Seq(All) /\ out' \in Seq(Seq(All)) /\ TypeOK
        /\ resetAt' \in {"nil", "recent", "due"}
    BY <1>4, AcceptCuts DEF IInv
  <2>. QED  BY <1>4, <2>1 DEF Accept, TypeOK
<1>5. ASSUME NEW n \in All, AcceptClosed(n) PROVE TypeOK'
  BY <1>5 DEF AcceptClosed, TypeOK
<1>6. ASSUME NEW n \in All, SendReturn(n) PROVE TypeOK'
  BY <1>6 DEF SendReturn, TypeOK
<1>7. ASSUME NEW n \in All, Respond(n) PROVE TypeOK'
  BY <1>7 DEF Respond, TypeOK
<1>8. ASSUME NEW w \in Workers, WorkerStart(w) PROVE TypeOK'
  BY <1>8 DEF WorkerStart, TypeOK
<1>9. ASSUME NEW w \in Workers, WorkerReceive(w) PROVE TypeOK'
  <2>1. /\ chan \in Seq(Seq(All)) /\ chan # <<>> /\ Len(chan) <= ChanCap
    BY <1>9 DEF WorkerReceive, TypeOK
  <2>2. Head(chan) \in Seq(All) /\ Tail(chan) \in Seq(Seq(All)) /\ Len(Tail(chan)) <= ChanCap
    BY <2>1
  <2>3. Elems(Head(chan)) \subseteq All
    BY <2>2 DEF Elems
  <2>. QED  BY <1>9, <2>2, <2>3 DEF WorkerReceive, TypeOK
<1>10. ASSUME NEW w \in Workers, WorkerFinish(w) PROVE TypeOK'
  BY <1>10 DEF WorkerFinish, TypeOK
<1>11. ASSUME NEW w \in Workers, WorkerExit(w) PROVE TypeOK'
  BY <1>11 DEF WorkerExit, TypeOK
<1>12. ASSUME NEW c \in Closers, Close(c) PROVE TypeOK'
  BY <1>12 DEF Close, TypeOK
<1>13. ASSUME NEW c \in Closers, Stop(c) PROVE TypeOK'
  <2>. HIDE DEF IInv
  <2>1. buffered' \in Seq(All) /\ out' \in Seq(Seq(All)) /\ TypeOK
    BY <1>13, StopCuts DEF IInv
  <2>2. resetAt' \in {"nil", "recent", "due"}
    BY <1>13, <2>1 DEF Stop, TypeOK
  <2>. QED  BY <1>13, <2>1, <2>2 DEF Stop, TypeOK
<1>14. ASSUME NEW c \in Closers, StopClosed(c) PROVE TypeOK'
  BY <1>14 DEF StopClosed, TypeOK
<1>15. ASSUME NEW c \in Closers, CloseChannel(c) PROVE TypeOK'
  BY <1>15 DEF CloseChannel, TypeOK
<1>16. ASSUME NEW c \in Closers, StopReturn(c) PROVE TypeOK'
  BY <1>16 DEF StopReturn, TypeOK
<1>17. ASSUME MonitorTick PROVE TypeOK'
  <2>. HIDE DEF IInv
  <2>1. /\ buffered' \in Seq(All) /\ out' \in Seq(Seq(All)) /\ TypeOK
        /\ resetAt' \in {"nil", "recent", "due"}
    BY <1>17, MonitorCuts DEF IInv
  <2>. QED  BY <1>17, <2>1 DEF MonitorTick, TypeOK
<1>18. ASSUME MonitorReturn PROVE TypeOK'
  BY <1>18 DEF MonitorReturn, TypeOK
<1>19. ASSUME MonitorExit PROVE TypeOK'
  BY <1>19 DEF MonitorExit, TypeOK
<1>20. ASSUME SendBatch PROVE TypeOK'
  BY <1>20 DEF SendBatch, TypeOK
<1>21. ASSUME Tick PROVE TypeOK'
  BY <1>21 DEF Tick, TypeOK
<1>22. CASE UNCHANGED vars
  BY <1>22 DEF vars, TypeOK
<1>. QED
  BY <1>1, <1>2, <1>3, <1>4, <1>5, <1>6, <1>7, <1>8, <1>9, <1>10, <1>11, <1>12,
     <1>13, <1>14, <1>15, <1>16, <1>17, <1>18, <1>19, <1>20, <1>21, <1>22
     DEF Next, CallerNext, WorkerNext, CloserNext, MonitorNext

\* A step leaves no batch empty or too long, and the buffer shorter than a batch.
LEMMA SizesPreserved ==
    IInv /\ [Next]_vars => Sizes'
<1>. SUFFICES ASSUME IInv, [Next]_vars
             PROVE  Sizes'
  OBVIOUS
<1>. USE SinkAssumption DEF IInv, All, Procs, sinkVars, workerVars, processVars
<1>1. ASSUME NEW n \in All, SendExpired(n) PROVE Sizes'
  BY <1>1 DEF SendExpired, Sizes, BatchesFit, Fits, TypeOK
<1>2. ASSUME NEW n \in All, SendDirect(n) PROVE Sizes'
  BY <1>2 DEF SendDirect, Sizes, BatchesFit, Fits, TypeOK
<1>3. ASSUME NEW n \in All, SendBuffered(n) PROVE Sizes'
  BY <1>3 DEF SendBuffered, Sizes, BatchesFit, Fits, TypeOK
<1>4. ASSUME NEW n \in All, Accept(n) PROVE Sizes'
  <2>. HIDE DEF IInv
  <2>1. \A i \in DOMAIN out' : Len(out'[i]) \in 1 .. BatchSize
    <3>1. buffered \in Seq(All) /\ BatchSize \in Nat
      BY DEF IInv, TypeOK
    <3>2. Len(Append(buffered, n)) = Len(buffered) + 1 /\ Len(buffered) \in Nat
      BY <3>1
    <3>. QED  BY <1>4, AcceptCuts, <3>1, <3>2
  <2>2. Len(buffered') < BatchSize
    BY <1>4, AcceptCuts DEF IInv, TypeOK
  <2>. QED  BY <1>4, <2>1, <2>2 DEF IInv, Accept, Sizes, BatchesFit, Fits
<1>5. ASSUME NEW n \in All, AcceptClosed(n) PROVE Sizes'
  BY <1>5 DEF AcceptClosed, Sizes, BatchesFit, Fits, TypeOK
<1>6. ASSUME NEW n \in All, SendReturn(n) PROVE Sizes'
  BY <1>6 DEF SendReturn, Sizes, BatchesFit, Fits, TypeOK
<1>7. ASSUME NEW n \in All, Respond(n) PROVE Sizes'
  BY <1>7 DEF Respond, Sizes, BatchesFit, Fits, TypeOK
<1>8. ASSUME NEW w \in Workers, WorkerStart(w) PROVE Sizes'
  BY <1>8 DEF WorkerStart, Sizes, BatchesFit, Fits, TypeOK
<1>9. ASSUME NEW w \in Workers, WorkerReceive(w) PROVE Sizes'
  BY <1>9 DEF WorkerReceive, Sizes, BatchesFit, Fits, TypeOK
<1>10. ASSUME NEW w \in Workers, WorkerFinish(w) PROVE Sizes'
  BY <1>10 DEF WorkerFinish, Sizes, BatchesFit, Fits, TypeOK
<1>11. ASSUME NEW w \in Workers, WorkerExit(w) PROVE Sizes'
  BY <1>11 DEF WorkerExit, Sizes, BatchesFit, Fits, TypeOK
<1>12. ASSUME NEW c \in Closers, Close(c) PROVE Sizes'
  BY <1>12 DEF Close, Sizes, BatchesFit, Fits, TypeOK
<1>13. ASSUME NEW c \in Closers, Stop(c) PROVE Sizes'
  <2>. HIDE DEF IInv
  <2>1. \A i \in DOMAIN out' : Len(out'[i]) \in 1 .. BatchSize
    <3>1. buffered \in Seq(All) /\ Len(buffered) < BatchSize /\ BatchSize \in Nat
      BY DEF IInv, TypeOK, Sizes
    <3>. QED  BY <1>13, StopCuts, <3>1
  <2>2. Len(buffered') < BatchSize
    BY <1>13, StopCuts
  <2>. QED  BY <1>13, <2>1, <2>2 DEF IInv, Stop, Sizes, BatchesFit, Fits
<1>14. ASSUME NEW c \in Closers, StopClosed(c) PROVE Sizes'
  BY <1>14 DEF StopClosed, Sizes, BatchesFit, Fits, TypeOK
<1>15. ASSUME NEW c \in Closers, CloseChannel(c) PROVE Sizes'
  BY <1>15 DEF CloseChannel, Sizes, BatchesFit, Fits, TypeOK
<1>16. ASSUME NEW c \in Closers, StopReturn(c) PROVE Sizes'
  BY <1>16 DEF StopReturn, Sizes, BatchesFit, Fits, TypeOK
<1>17. ASSUME MonitorTick PROVE Sizes'
  <2>. HIDE DEF IInv
  <2>1. \A i \in DOMAIN out' : Len(out'[i]) \in 1 .. BatchSize
    <3>1. buffered \in Seq(All) /\ Len(buffered) < BatchSize /\ BatchSize \in Nat
      BY DEF IInv, TypeOK, Sizes
    <3>. QED  BY <1>17, MonitorCuts, <3>1
  <2>2. Len(buffered') < BatchSize
    BY <1>17, MonitorCuts DEF IInv, Sizes
  <2>. QED  BY <1>17, <2>1, <2>2 DEF IInv, MonitorTick, Sizes, BatchesFit, Fits
<1>18. ASSUME MonitorReturn PROVE Sizes'
  BY <1>18 DEF MonitorReturn, Sizes, BatchesFit, Fits, TypeOK
<1>19. ASSUME MonitorExit PROVE Sizes'
  BY <1>19 DEF MonitorExit, Sizes, BatchesFit, Fits, TypeOK
<1>20. ASSUME SendBatch PROVE Sizes'
  <2>. HIDE DEF IInv
  <2>1. /\ out \in Seq(Seq(All)) /\ chan \in Seq(Seq(All)) /\ out # <<>>
        /\ \A i \in DOMAIN out : Fits(out[i])
        /\ \A i \in DOMAIN chan : Fits(chan[i])
    BY <1>20 DEF IInv, TypeOK, Sizes, BatchesFit, SendBatch
  <2>2. \A i \in DOMAIN Tail(out) : Fits(Tail(out)[i])
    BY <2>1
  <2>3. \A i \in DOMAIN Append(chan, Head(out)) : Fits(Append(chan, Head(out))[i])
    BY <2>1
  <2>. QED  BY <1>20, <2>2, <2>3 DEF IInv, SendBatch, Sizes, BatchesFit, Fits
<1>21. ASSUME Tick PROVE Sizes'
  BY <1>21 DEF Tick, Sizes, BatchesFit, Fits, TypeOK
<1>22. CASE UNCHANGED vars
  BY <1>22 DEF vars, Sizes, BatchesFit, Fits, TypeOK
<1>. QED
  BY <1>1, <1>2, <1>3, <1>4, <1>5, <1>6, <1>7, <1>8, <1>9, <1>10, <1>11, <1>12,
     <1>13, <1>14, <1>15, <1>16, <1>17, <1>18, <1>19, <1>20, <1>21, <1>22
     DEF Next, CallerNext, WorkerNext, CloserNext, MonitorNext

\* A step keeps the mutex with whoever flushes; what it guards is sent before it is free.
LEMMA LockingPreserved ==
    IInv /\ [Next]_vars => Locking'
<1>. SUFFICES ASSUME IInv, [Next]_vars
             PROVE  Locking'
  OBVIOUS
<1>. USE SinkAssumption DEF IInv, All, Procs, sinkVars, workerVars, processVars
<1>1. ASSUME NEW n \in All, SendExpired(n) PROVE Locking'
  BY <1>1 DEF SendExpired, Locking, Closing, TypeOK
<1>2. ASSUME NEW n \in All, SendDirect(n) PROVE Locking'
  BY <1>2 DEF SendDirect, Locking, Closing, TypeOK
<1>3. ASSUME NEW n \in All, SendBuffered(n) PROVE Locking'
  BY <1>3 DEF SendBuffered, Locking, Closing, TypeOK
<1>4. ASSUME NEW n \in All, Accept(n) PROVE Locking'
  BY <1>4, AcceptCuts DEF Accept, Locking, Closing, TypeOK
<1>5. ASSUME NEW n \in All, AcceptClosed(n) PROVE Locking'
  BY <1>5 DEF AcceptClosed, Locking, Closing, TypeOK
<1>6. ASSUME NEW n \in All, SendReturn(n) PROVE Locking'
  BY <1>6 DEF SendReturn, Locking, Closing, TypeOK
<1>7. ASSUME NEW n \in All, Respond(n) PROVE Locking'
  BY <1>7 DEF Respond, Locking, Closing, TypeOK
<1>8. ASSUME NEW w \in Workers, WorkerStart(w) PROVE Locking'
  BY <1>8 DEF WorkerStart, Locking, Closing, TypeOK
<1>9. ASSUME NEW w \in Workers, WorkerReceive(w) PROVE Locking'
  BY <1>9 DEF WorkerReceive, Locking, Closing, TypeOK
<1>10. ASSUME NEW w \in Workers, WorkerFinish(w) PROVE Locking'
  BY <1>10 DEF WorkerFinish, Locking, Closing, TypeOK
<1>11. ASSUME NEW w \in Workers, WorkerExit(w) PROVE Locking'
  BY <1>11 DEF WorkerExit, Locking, Closing, TypeOK
<1>12. ASSUME NEW c \in Closers, Close(c) PROVE Locking'
  BY <1>12 DEF Close, Locking, Closing, TypeOK
<1>13. ASSUME NEW c \in Closers, Stop(c) PROVE Locking'
  BY <1>13, StopCuts DEF Stop, Locking, Closing, TypeOK
<1>14. ASSUME NEW c \in Closers, StopClosed(c) PROVE Locking'
  BY <1>14 DEF StopClosed, Locking, Closing, TypeOK
<1>15. ASSUME NEW c \in Closers, CloseChannel(c) PROVE Locking'
  BY <1>15 DEF CloseChannel, Locking, Closing, TypeOK
<1>16. ASSUME NEW c \in Closers, StopReturn(c) PROVE Locking'
  BY <1>16 DEF StopReturn, Locking, Closing, TypeOK
<1>17. ASSUME MonitorTick PROVE Locking'
  BY <1>17, MonitorCuts DEF MonitorTick, Locking, Closing, TypeOK
<1>18. ASSUME MonitorReturn PROVE Locking'
  BY <1>18 DEF MonitorReturn, Locking, Closing, TypeOK
<1>19. ASSUME MonitorExit PROVE Locking'
  BY <1>19 DEF MonitorExit, Locking, Closing, TypeOK
<1>20. ASSUME SendBatch PROVE Locking'
  BY <1>20 DEF SendBatch, Locking, Closing, TypeOK
<1>21. ASSUME Tick PROVE Locking'
  BY <1>21 DEF Tick, Locking, Closing, TypeOK
<1>22. CASE UNCHANGED vars
  BY <1>22 DEF vars, Locking, Closing, TypeOK
<1>. QED
  BY <1>1, <1>2, <1>3, <1>4, <1>5, <1>6, <1>7, <1>8, <1>9, <1>10, <1>11, <1>12,
     <1>13, <1>14, <1>15, <1>16, <1>17, <1>18, <1>19, <1>20, <1>21, <1>22
     DEF Next, CallerNext, WorkerNext, CloserNext, MonitorNext

\* Once the channel is closed a step leaves nothing to be sent on it.
LEMMA ClosingPreserved ==
    IInv /\ [Next]_vars => Closing'
<1>. SUFFICES ASSUME IInv, [Next]_vars
             PROVE  Closing'
  OBVIOUS
<1>. USE SinkAssumption DEF IInv, All, Procs, sinkVars, workerVars, processVars
<1>1. ASSUME NEW n \in All, SendExpired(n) PROVE Closing'
  BY <1>1 DEF SendExpired, Closing, Locking, Working, TypeOK, MayCall
<1>2. ASSUME NEW n \in All, SendDirect(n) PROVE Closing'
  BY <1>2 DEF SendDirect, Closing, Locking, Working, TypeOK, MayCall
<1>3. ASSUME NEW n \in All, SendBuffered(n) PROVE Closing'
  BY <1>3 DEF SendBuffered, Closing, Locking, Working, TypeOK, MayCall
<1>4. ASSUME NEW n \in All, Accept(n) PROVE Closing'
  BY <1>4, AcceptCuts DEF Accept, Closing, Locking, Working, TypeOK, MayCall
<1>5. ASSUME NEW n \in All, AcceptClosed(n) PROVE Closing'
  BY <1>5 DEF AcceptClosed, Closing, Locking, Working, TypeOK, MayCall
<1>6. ASSUME NEW n \in All, SendReturn(n) PROVE Closing'
  BY <1>6 DEF SendReturn, Closing, Locking, Working, TypeOK, MayCall
<1>7. ASSUME NEW n \in All, Respond(n) PROVE Closing'
  BY <1>7 DEF Respond, Closing, Locking, Working, TypeOK, MayCall
<1>8. ASSUME NEW w \in Workers, WorkerStart(w) PROVE Closing'
  BY <1>8 DEF WorkerStart, Closing, Locking, Working, TypeOK, MayCall
<1>9. ASSUME NEW w \in Workers, WorkerReceive(w) PROVE Closing'
  BY <1>9 DEF WorkerReceive, Closing, Locking, Working, TypeOK, MayCall
<1>10. ASSUME NEW w \in Workers, WorkerFinish(w) PROVE Closing'
  BY <1>10 DEF WorkerFinish, Closing, Locking, Working, TypeOK, MayCall
<1>11. ASSUME NEW w \in Workers, WorkerExit(w) PROVE Closing'
  BY <1>11 DEF WorkerExit, Closing, Locking, Working, TypeOK, MayCall
<1>12. ASSUME NEW c \in Closers, Close(c) PROVE Closing'
  BY <1>12 DEF Close, Closing, Locking, Working, TypeOK, MayCall
<1>13. ASSUME NEW c \in Closers, Stop(c) PROVE Closing'
  BY <1>13, StopCuts DEF Stop, Closing, Locking, Working, TypeOK, MayCall
<1>14. ASSUME NEW c \in Closers, StopClosed(c) PROVE Closing'
  BY <1>14 DEF StopClosed, Closing, Locking, Working, TypeOK, MayCall
<1>15. ASSUME NEW c \in Closers, CloseChannel(c) PROVE Closing'
  BY <1>15 DEF CloseChannel, Closing, Locking, Working, TypeOK, MayCall
<1>16. ASSUME NEW c \in Closers, StopReturn(c) PROVE Closing'
  BY <1>16 DEF StopReturn, Closing, Locking, Working, TypeOK, MayCall
<1>17. ASSUME MonitorTick PROVE Closing'
  BY <1>17, MonitorCuts DEF MonitorTick, Closing, Locking, Working, TypeOK, MayCall
<1>18. ASSUME MonitorReturn PROVE Closing'
  BY <1>18 DEF MonitorReturn, Closing, Locking, Working, TypeOK, MayCall
<1>19. ASSUME MonitorExit PROVE Closing'
  BY <1>19 DEF MonitorExit, Closing, Locking, Working, TypeOK, MayCall
<1>20. ASSUME SendBatch PROVE Closing'
  BY <1>20 DEF SendBatch, Closing, Locking, Working, TypeOK, MayCall
<1>21. ASSUME Tick PROVE Closing'
  BY <1>21 DEF Tick, Closing, Locking, Working, TypeOK, MayCall
<1>22. CASE UNCHANGED vars
  BY <1>22 DEF vars, Closing, Locking, Working, TypeOK, MayCall
<1>. QED
  BY <1>1, <1>2, <1>3, <1>4, <1>5, <1>6, <1>7, <1>8, <1>9, <1>10, <1>11, <1>12,
     <1>13, <1>14, <1>15, <1>16, <1>17, <1>18, <1>19, <1>20, <1>21, <1>22
     DEF Next, CallerNext, WorkerNext, CloserNext, MonitorNext

\* A worker ends only on an empty closed channel, and one has started before Close.
LEMMA WorkingPreserved ==
    IInv /\ [Next]_vars => Working'
<1>. SUFFICES ASSUME IInv, [Next]_vars
             PROVE  Working'
  OBVIOUS
<1>. USE SinkAssumption DEF IInv, All, Procs, sinkVars, workerVars, processVars
<1>1. ASSUME NEW n \in All, SendExpired(n) PROVE Working'
  BY <1>1 DEF SendExpired, Working, Locking, Closing, Started, TypeOK, MayCall
<1>2. ASSUME NEW n \in All, SendDirect(n) PROVE Working'
  BY <1>2 DEF SendDirect, Working, Locking, Closing, Started, TypeOK, MayCall
<1>3. ASSUME NEW n \in All, SendBuffered(n) PROVE Working'
  BY <1>3 DEF SendBuffered, Working, Locking, Closing, Started, TypeOK, MayCall
<1>4. ASSUME NEW n \in All, Accept(n) PROVE Working'
  BY <1>4, AcceptCuts DEF Accept, Working, Locking, Closing, Started, TypeOK, MayCall
<1>5. ASSUME NEW n \in All, AcceptClosed(n) PROVE Working'
  BY <1>5 DEF AcceptClosed, Working, Locking, Closing, Started, TypeOK, MayCall
<1>6. ASSUME NEW n \in All, SendReturn(n) PROVE Working'
  BY <1>6 DEF SendReturn, Working, Locking, Closing, Started, TypeOK, MayCall
<1>7. ASSUME NEW n \in All, Respond(n) PROVE Working'
  BY <1>7 DEF Respond, Working, Locking, Closing, Started, TypeOK, MayCall
<1>8. ASSUME NEW w \in Workers, WorkerStart(w) PROVE Working'
  BY <1>8 DEF WorkerStart, Working, Locking, Closing, Started, TypeOK, MayCall
<1>9. ASSUME NEW w \in Workers, WorkerReceive(w) PROVE Working'
  BY <1>9 DEF WorkerReceive, Working, Locking, Closing, Started, TypeOK, MayCall
<1>10. ASSUME NEW w \in Workers, WorkerFinish(w) PROVE Working'
  BY <1>10 DEF WorkerFinish, Working, Locking, Closing, Started, TypeOK, MayCall
<1>11. ASSUME NEW w \in Workers, WorkerExit(w) PROVE Working'
  BY <1>11 DEF WorkerExit, Working, Locking, Closing, Started, TypeOK, MayCall
<1>12. ASSUME NEW c \in Closers, Close(c) PROVE Working'
  BY <1>12 DEF Close, Working, Locking, Closing, Started, TypeOK, MayCall
<1>13. ASSUME NEW c \in Closers, Stop(c) PROVE Working'
  BY <1>13, StopCuts DEF Stop, Working, Locking, Closing, Started, TypeOK, MayCall
<1>14. ASSUME NEW c \in Closers, StopClosed(c) PROVE Working'
  BY <1>14 DEF StopClosed, Working, Locking, Closing, Started, TypeOK, MayCall
<1>15. ASSUME NEW c \in Closers, CloseChannel(c) PROVE Working'
  BY <1>15 DEF CloseChannel, Working, Locking, Closing, Started, TypeOK, MayCall
<1>16. ASSUME NEW c \in Closers, StopReturn(c) PROVE Working'
  BY <1>16 DEF StopReturn, Counted, Working, Locking, Closing, Started, TypeOK
<1>17. ASSUME MonitorTick PROVE Working'
  BY <1>17, MonitorCuts DEF MonitorTick, Working, Locking, Closing, Started, TypeOK, MayCall
<1>18. ASSUME MonitorReturn PROVE Working'
  BY <1>18 DEF MonitorReturn, Working, Locking, Closing, Started, TypeOK, MayCall
<1>19. ASSUME MonitorExit PROVE Working'
  BY <1>19 DEF MonitorExit, Working, Locking, Closing, Started, TypeOK, MayCall
<1>20. ASSUME SendBatch PROVE Working'
  BY <1>20 DEF SendBatch, Working, Locking, Closing, Started, TypeOK, MayCall
<1>21. ASSUME Tick PROVE Working'
  BY <1>21 DEF Tick, Working, Locking, Closing, Started, TypeOK, MayCall
<1>22. CASE UNCHANGED vars
  BY <1>22 DEF vars, Working, Locking, Closing, Started, TypeOK, MayCall
<1>. QED
  BY <1>1, <1>2, <1>3, <1>4, <1>5, <1>6, <1>7, <1>8, <1>9, <1>10, <1>11, <1>12,
     <1>13, <1>14, <1>15, <1>16, <1>17, <1>18, <1>19, <1>20, <1>21, <1>22
     DEF Next, CallerNext, WorkerNext, CloserNext, MonitorNext

\* A notification stays where it is through a step that moves no batch.
LEMMA StaysPlaced ==
    ASSUME NEW n \in All, Placed(n),
           UNCHANGED <<buffered, out, chan, batch>>,
           \A w \in Workers : worker[w] = "busy" => worker'[w] = "busy",
           answers[n] > 0 => answers'[n] > 0,
           n \in responding => n \in responding' \/ answers'[n] > 0
    PROVE  Placed(n)'
  BY DEF Placed, Elems

\* A step loses sight of no notification.
LEMMA CoveragePreserved ==
    IInv /\ [Next]_vars => Coverage'
<1>. SUFFICES ASSUME IInv, [Next]_vars
             PROVE  Coverage'
  OBVIOUS
<1>. USE SinkAssumption DEF IInv, All, Procs, sinkVars, workerVars, processVars
<1>1. ASSUME NEW n \in All, SendExpired(n) PROVE Coverage'
  BY <1>1, StaysPlaced DEF SendExpired, Coverage, Covered, TypeOK
<1>2. ASSUME NEW n \in All, SendDirect(n) PROVE Coverage'
  BY <1>2, StaysPlaced DEF SendDirect, Coverage, Covered, TypeOK
<1>3. ASSUME NEW n \in All, SendBuffered(n) PROVE Coverage'
  BY <1>3, StaysPlaced DEF SendBuffered, Coverage, Covered, TypeOK
<1>4. ASSUME NEW n \in All, Accept(n) PROVE Coverage'
  <2>. HIDE DEF IInv
  <2>. SUFFICES ASSUME bufferingEnabled', NEW m \in All PROVE Covered(m)'
    BY DEF Coverage
  <2>1. Covered(m)
    BY <1>4 DEF IInv, Coverage, Accept
  <2>0. buffered' = Append(buffered, n) \/ out' = <<Append(buffered, n)>>
    BY <1>4, AcceptCuts
  <2>2. out = <<>> /\ buffered \in Seq(All)
    BY <1>4 DEF IInv, Locking, TypeOK, Accept
  <2>3. Elems(Append(buffered, n)) = Elems(buffered) \cup {n}
    BY <2>2 DEF Elems
  <2>4. Placed(m) \/ m = n => Placed(m)'
    <3>. SUFFICES ASSUME Placed(m) \/ m = n PROVE Placed(m)'
      OBVIOUS
    <3>1. CASE m \in Elems(Append(buffered, n))
      <4>1. CASE buffered' = Append(buffered, n)
        BY <3>1, <4>1 DEF Placed
      <4>2. CASE out' = <<Append(buffered, n)>>
        <5>1. 1 \in DOMAIN out' /\ out'[1] = Append(buffered, n)
          BY <4>2
        <5>. QED  BY <3>1, <5>1 DEF Placed
      <4>. QED  BY <2>0, <4>1, <4>2
    <3>2. CASE m \notin Elems(Append(buffered, n))
      BY <1>4, <2>2, <2>3, <3>2 DEF Placed, Accept
    <3>. QED  BY <3>1, <3>2
  <2>. QED  BY <1>4, <2>1, <2>4 DEF Accept, Covered, IInv, TypeOK
<1>5. ASSUME NEW n \in All, AcceptClosed(n) PROVE Coverage'
  BY <1>5, StaysPlaced DEF AcceptClosed, Coverage, Covered, TypeOK
<1>6. ASSUME NEW n \in All, SendReturn(n) PROVE Coverage'
  <2>. HIDE DEF IInv
  <2>. SUFFICES ASSUME bufferingEnabled', NEW m \in All PROVE Covered(m)'
    BY DEF Coverage
  <2>1. Covered(m)
    BY <1>6 DEF IInv, Coverage, SendReturn
  <2>2. Placed(m) => Placed(m)'
    BY <1>6, StaysPlaced DEF SendReturn
  <2>3. answers[m] > 0 => Placed(m)
    BY DEF Placed
  <2>. QED  BY <1>6, <2>1, <2>2, <2>3 DEF SendReturn, Covered, IInv, TypeOK
<1>7. ASSUME NEW n \in All, Respond(n) PROVE Coverage'
  BY <1>7, StaysPlaced DEF Respond, Coverage, Covered, TypeOK
<1>8. ASSUME NEW w \in Workers, WorkerStart(w) PROVE Coverage'
  BY <1>8, StaysPlaced DEF WorkerStart, Coverage, Covered, TypeOK
<1>9. ASSUME NEW w \in Workers, WorkerReceive(w) PROVE Coverage'
  <2>. HIDE DEF IInv
  <2>. SUFFICES ASSUME bufferingEnabled', NEW m \in All PROVE Covered(m)'
    BY DEF Coverage
  <2>1. Covered(m)
    BY <1>9 DEF IInv, Coverage, WorkerReceive
  <2>2. chan \in Seq(Seq(All)) /\ chan # <<>> /\ batch \in [Workers -> Seq(All)]
    BY <1>9 DEF IInv, TypeOK, WorkerReceive
  <2>3. \A i \in DOMAIN chan : i = 1 \/ (i - 1 \in DOMAIN Tail(chan) /\ Tail(chan)[i - 1] = chan[i])
    BY <2>2
  <2>4. Head(chan) = chan[1]
    BY <2>2
  <2>5. Placed(m) => Placed(m)'
    BY <1>9, <2>2, <2>3, <2>4 DEF Placed, WorkerReceive, IInv, TypeOK
  <2>. QED  BY <1>9, <2>1, <2>5 DEF WorkerReceive, Covered
<1>10. ASSUME NEW w \in Workers, WorkerFinish(w) PROVE Coverage'
  <2>. HIDE DEF IInv
  <2>. SUFFICES ASSUME bufferingEnabled', NEW m \in All PROVE Covered(m)'
    BY DEF Coverage
  <2>1. Covered(m)
    BY <1>10 DEF IInv, Coverage, WorkerFinish
  <2>2. Placed(m) => Placed(m)'
    BY <1>10 DEF Placed, WorkerFinish, IInv, TypeOK
  <2>. QED  BY <1>10, <2>1, <2>2 DEF WorkerFinish, Covered
<1>11. ASSUME NEW w \in Workers, WorkerExit(w) PROVE Coverage'
  BY <1>11, StaysPlaced DEF WorkerExit, Coverage, Covered, TypeOK
<1>12. ASSUME NEW c \in Closers, Close(c) PROVE Coverage'
  BY <1>12, StaysPlaced DEF Close, Coverage, Covered, TypeOK
<1>13. ASSUME NEW c \in Closers, Stop(c) PROVE Coverage'
  <2>. HIDE DEF IInv
  <2>. SUFFICES ASSUME bufferingEnabled', NEW m \in All PROVE Covered(m)'
    BY DEF Coverage
  <2>1. Covered(m)
    BY <1>13 DEF IInv, Coverage, Stop
  <2>2. out = <<>> /\ buffered \in Seq(All)
    BY <1>13 DEF IInv, Locking, TypeOK, Stop
  <2>3. Placed(m) => Placed(m)'
    <3>1. CASE m \in Elems(buffered)
      <4>1. out' = <<buffered>>
        BY <1>13, <2>2, <3>1, StopCuts DEF Elems
      <4>. QED  BY <3>1, <4>1 DEF Placed
    <3>2. CASE m \notin Elems(buffered)
      BY <1>13, <2>2, <3>2 DEF Placed, Stop
    <3>. QED  BY <3>1, <3>2
  <2>. QED  BY <1>13, <2>1, <2>3 DEF Stop, Covered
<1>14. ASSUME NEW c \in Closers, StopClosed(c) PROVE Coverage'
  BY <1>14, StaysPlaced DEF StopClosed, Coverage, Covered, TypeOK
<1>15. ASSUME NEW c \in Closers, CloseChannel(c) PROVE Coverage'
  BY <1>15, StaysPlaced DEF CloseChannel, Coverage, Covered, TypeOK
<1>16. ASSUME NEW c \in Closers, StopReturn(c) PROVE Coverage'
  BY <1>16, StaysPlaced DEF StopReturn, Coverage, Covered, TypeOK
<1>17. ASSUME MonitorTick PROVE Coverage'
  <2>. HIDE DEF IInv
  <2>. SUFFICES ASSUME bufferingEnabled', NEW m \in All PROVE Covered(m)'
    BY DEF Coverage
  <2>1. Covered(m)
    BY <1>17 DEF IInv, Coverage, MonitorTick
  <2>2. out = <<>>
    BY <1>17 DEF IInv, Locking, MonitorTick
  <2>3. Placed(m) => Placed(m)'
    <3>1. CASE m \in Elems(buffered)
      <4>1. buffered' = buffered \/ out' = <<buffered>>
        BY <1>17, MonitorCuts
      <4>. QED  BY <3>1, <4>1 DEF Placed
    <3>2. CASE m \notin Elems(buffered)
      BY <1>17, <2>2, <3>2 DEF Placed, MonitorTick
    <3>. QED  BY <3>1, <3>2
  <2>. QED  BY <1>17, <2>1, <2>3 DEF MonitorTick, Covered
<1>18. ASSUME MonitorReturn PROVE Coverage'
  BY <1>18, StaysPlaced DEF MonitorReturn, Coverage, Covered, TypeOK
<1>19. ASSUME MonitorExit PROVE Coverage'
  BY <1>19, StaysPlaced DEF MonitorExit, Coverage, Covered, TypeOK
<1>20. ASSUME SendBatch PROVE Coverage'
  <2>. HIDE DEF IInv
  <2>. SUFFICES ASSUME bufferingEnabled', NEW m \in All PROVE Covered(m)'
    BY DEF Coverage
  <2>1. Covered(m)
    BY <1>20 DEF IInv, Coverage, SendBatch
  <2>2. out \in Seq(Seq(All)) /\ out # <<>> /\ chan \in Seq(Seq(All))
    BY <1>20 DEF IInv, TypeOK, SendBatch
  <2>3. \A i \in DOMAIN out : i = 1 \/ (i - 1 \in DOMAIN Tail(out) /\ Tail(out)[i - 1] = out[i])
    BY <2>2
  <2>4. /\ Len(chan) + 1 \in DOMAIN Append(chan, Head(out))
        /\ Append(chan, Head(out))[Len(chan) + 1] = out[1]
        /\ \A i \in DOMAIN chan : /\ i \in DOMAIN Append(chan, Head(out))
                                  /\ Append(chan, Head(out))[i] = chan[i]
    BY <2>2
  <2>5. Placed(m) => Placed(m)'
    BY <1>20, <2>3, <2>4 DEF Placed, SendBatch
  <2>. QED  BY <1>20, <2>1, <2>5 DEF SendBatch, Covered
<1>21. ASSUME Tick PROVE Coverage'
  BY <1>21, StaysPlaced DEF Tick, Coverage, Covered, TypeOK
<1>22. CASE UNCHANGED vars
  BY <1>22, StaysPlaced DEF vars, Coverage, Covered
<1>. QED
  BY <1>1, <1>2, <1>3, <1>4, <1>5, <1>6, <1>7, <1>8, <1>9, <1>10, <1>11, <1>12,
     <1>13, <1>14, <1>15, <1>16, <1>17, <1>18, <1>19, <1>20, <1>21, <1>22
     DEF Next, CallerNext, WorkerNext, CloserNext, MonitorNext

-----------------------------------------------------------------------------
(***************************************************************************)
(* Counting a notification in the buffer and in batches.                   *)
(***************************************************************************)
\* The places of a notification in a sequence of batches.
Where(n, ss) ==
    {p \in (DOMAIN ss) \X (1 .. BatchSize) : p[2] \in DOMAIN ss[p[1]] /\ ss[p[1]][p[2]] = n}

\* Sets that a function maps one to one have as many elements.
LEMMA OneToOne ==
    ASSUME NEW S, IsFiniteSet(S), NEW T, NEW f \in [S -> T],
           \A x, y \in S : f[x] = f[y] => x = y,
           \A y \in T : \E x \in S : f[x] = y
    PROVE  IsFiniteSet(T) /\ Cardinality(T) = Cardinality(S)
<1>1. f \in Bijection(S, T)
  BY DEF Bijection, Injection, Surjection, IsInjective
<1>. QED  BY <1>1, FS_Bijection DEF ExistsBijection

\* A sequence holds a notification a number of times, and none if it is empty.
LEMMA CountType ==
    ASSUME NEW n \in All, NEW s \in Seq(All)
    PROVE  /\ IsFiniteSet({i \in DOMAIN s : s[i] = n})
           /\ Count(n, s) \in Nat
           /\ Count(n, s) = 0 <=> n \notin Elems(s)
           /\ Count(n, <<>>) = 0
<1>1. IsFiniteSet(DOMAIN s)
  <2>1. DOMAIN s = 1 .. Len(s) /\ Len(s) \in Nat OBVIOUS
  <2>. QED  BY <2>1, FS_Interval
<1>2. IsFiniteSet({i \in DOMAIN s : s[i] = n})
  BY <1>1, FS_Subset
<1>3. {i \in DOMAIN <<>> : <<>>[i] = n} = {}
  OBVIOUS
<1>. QED  BY <1>2, <1>3, FS_EmptySet, FS_CardinalityType DEF Count, Elems

\* One more at the end.
LEMMA CountAppend ==
    ASSUME NEW n \in All, NEW s \in Seq(All), NEW m \in All
    PROVE  Count(n, Append(s, m)) = Count(n, s) + IF m = n THEN 1 ELSE 0
<1>. DEFINE S == {i \in DOMAIN s : s[i] = n}
            T == {i \in DOMAIN Append(s, m) : Append(s, m)[i] = n}
<1>1. Len(s) \in Nat /\ DOMAIN s = 1 .. Len(s) /\ DOMAIN Append(s, m) = 1 .. (Len(s) + 1)
  OBVIOUS
<1>2. \A i \in 1 .. (Len(s) + 1) : Append(s, m)[i] = IF i = Len(s) + 1 THEN m ELSE s[i]
  OBVIOUS
<1>3. T = S \cup IF m = n THEN {Len(s) + 1} ELSE {}
  BY <1>1, <1>2
<1>4. Len(s) + 1 \notin S BY <1>1
<1>5. IsFiniteSet(S) BY CountType
<1>6. Count(n, s) = Cardinality(S) /\ Count(n, Append(s, m)) = Cardinality(T) BY DEF Count
<1>. HIDE DEF S, T
<1>7. Cardinality(S) \in Nat BY <1>5, FS_CardinalityType
<1>8. CASE m = n
  <2>1. T = S \cup {Len(s) + 1} BY <1>3, <1>8
  <2>2. Cardinality(T) = Cardinality(S) + 1
    BY <1>4, <1>5, <2>1, FS_AddElement
  <2>. QED  BY <1>6, <1>8, <2>2
<1>9. CASE m # n
  <2>1. T = S BY <1>3, <1>9
  <2>. QED  BY <1>6, <1>7, <1>9, <2>1
<1>. QED  BY <1>8, <1>9

\* They are finitely many.
LEMMA WhereType ==
    ASSUME NEW n \in All, NEW ss \in Seq(Seq(All))
    PROVE  IsFiniteSet(Where(n, ss)) /\ CountIn(n, ss) \in Nat /\ CountIn(n, <<>>) = 0
<1>1. IsFiniteSet(DOMAIN ss) /\ IsFiniteSet(1 .. BatchSize)
  <2>1. DOMAIN ss = 1 .. Len(ss) /\ Len(ss) \in Nat OBVIOUS
  <2>. QED  BY <2>1, FS_Interval, SinkAssumption
<1>2. IsFiniteSet((DOMAIN ss) \X (1 .. BatchSize))
  BY <1>1, FS_Product
<1>3. Where(n, ss) \subseteq (DOMAIN ss) \X (1 .. BatchSize)
  BY DEF Where
<1>4. Where(n, <<>>) = {}
  BY DEF Where
<1>5. CountIn(n, ss) = Cardinality(Where(n, ss)) /\ CountIn(n, <<>>) = Cardinality(Where(n, <<>>))
  BY DEF CountIn, Where
<1>. QED  BY <1>2, <1>3, <1>4, <1>5, FS_Subset, FS_EmptySet, FS_CardinalityType

\* A batch more at the end.
LEMMA CountInAppend ==
    ASSUME NEW n \in All, NEW ss \in Seq(Seq(All)), NEW b \in Seq(All), Len(b) <= BatchSize
    PROVE  CountIn(n, Append(ss, b)) = CountIn(n, ss) + Count(n, b)
<1>. DEFINE k == Len(ss) + 1
            tt == Append(ss, b)
            B == {i \in DOMAIN b : b[i] = n}
            L == {p \in {k} \X (1 .. BatchSize) : p[2] \in DOMAIN b /\ b[p[2]] = n}
            f == [i \in B |-> <<k, i>>]
<1>1. /\ Len(ss) \in Nat /\ DOMAIN ss = 1 .. Len(ss) /\ DOMAIN tt = 1 .. k
      /\ \A i \in 1 .. Len(ss) : tt[i] = ss[i]
      /\ tt[k] = b
  OBVIOUS
<1>2. Where(n, tt) = Where(n, ss) \cup L
  <2>. HIDE DEF tt
  <2>1. DOMAIN tt = DOMAIN ss \cup {k}
    BY <1>1
  <2>. QED  BY <1>1, <2>1 DEF Where
<1>3. Where(n, ss) \cap L = {}
  BY <1>1 DEF Where
<1>4. IsFiniteSet(B) /\ B \subseteq 1 .. BatchSize
  <2>1. DOMAIN b = 1 .. Len(b) /\ Len(b) \in Nat OBVIOUS
  <2>2. IsFiniteSet(B) BY CountType
  <2>3. B \subseteq 1 .. BatchSize BY <2>1, SinkAssumption
  <2>. QED  BY <2>2, <2>3
<1>5. IsFiniteSet(L) /\ Cardinality(L) = Cardinality(B)
  <2>1. f \in [B -> L]
    BY <1>4
  <2>2. \A x, y \in B : f[x] = f[y] => x = y
    OBVIOUS
  <2>3. \A y \in L : \E x \in B : f[x] = y
    OBVIOUS
  <2>. QED
    <3>. HIDE DEF f, L, B
    <3>. QED  BY <1>4, <2>1, <2>2, <2>3, OneToOne
<1>6. IsFiniteSet(Where(n, ss)) BY WhereType
<1>7. Cardinality(Where(n, tt)) = Cardinality(Where(n, ss)) + Cardinality(B)
  <2>. HIDE DEF L, B, tt
  <2>1. Cardinality(Where(n, ss) \cup L)
        = Cardinality(Where(n, ss)) + Cardinality(L) - Cardinality(Where(n, ss) \cap L)
    BY <1>5, <1>6, FS_Union
  <2>2. Cardinality(Where(n, ss)) \in Nat /\ Cardinality(L) \in Nat
    BY <1>5, <1>6, FS_CardinalityType
  <2>3. Cardinality(Where(n, ss) \cap L) = 0 BY <1>3, FS_EmptySet
  <2>. QED  BY <1>2, <1>5, <2>1, <2>2, <2>3
<1>. QED  BY <1>7 DEF CountIn, Count, Where

\* A batch alone.
LEMMA CountInOne ==
    ASSUME NEW n \in All, NEW b \in Seq(All), Len(b) <= BatchSize
    PROVE  CountIn(n, <<b>>) = Count(n, b)
<1>1. Append(<<>>, b) = <<b>> /\ <<>> \in Seq(Seq(All))
  OBVIOUS
<1>2. CountIn(n, <<b>>) = CountIn(n, <<>>) + Count(n, b) BY <1>1, CountInAppend
<1>3. CountIn(n, <<>>) = 0 BY <1>1, WhereType
<1>4. Count(n, b) \in Nat BY CountType
<1>. QED  BY <1>2, <1>3, <1>4

\* A batch less at the front.
LEMMA CountInTail ==
    ASSUME NEW n \in All, NEW ss \in Seq(Seq(All)), ss # <<>>, Len(Head(ss)) <= BatchSize
    PROVE  CountIn(n, ss) = Count(n, Head(ss)) + CountIn(n, Tail(ss))
<1>. DEFINE b == Head(ss)
            tt == Tail(ss)
            B == {i \in DOMAIN b : b[i] = n}
            W == {p \in Where(n, ss) : p[1] = 1}
            V == {p \in Where(n, ss) : p[1] # 1}
            f == [i \in B |-> <<1, i>>]
            g == [p \in V |-> <<p[1] - 1, p[2]>>]
<1>1. /\ Len(ss) \in Nat /\ Len(ss) > 0 /\ DOMAIN ss = 1 .. Len(ss)
      /\ DOMAIN tt = 1 .. (Len(ss) - 1)
      /\ \A i \in 1 .. (Len(ss) - 1) : tt[i] = ss[i + 1]
      /\ ss[1] = b /\ b \in Seq(All) /\ tt \in Seq(Seq(All))
  OBVIOUS
<1>2. IsFiniteSet(Where(n, ss)) /\ IsFiniteSet(W) /\ IsFiniteSet(V)
  BY WhereType, FS_Subset
<1>3. IsFiniteSet(B) /\ B \subseteq 1 .. BatchSize
  <2>1. DOMAIN b = 1 .. Len(b) /\ Len(b) \in Nat BY <1>1
  <2>2. IsFiniteSet(B)
    <3>. HIDE DEF b
    <3>. QED  BY <1>1, CountType
  <2>3. B \subseteq 1 .. BatchSize BY <2>1, SinkAssumption
  <2>. QED  BY <2>2, <2>3
<1>. HIDE DEF b, tt
<1>4. Cardinality(W) = Cardinality(B)
  <2>1. f \in [B -> W]
    BY <1>1, <1>3 DEF Where
  <2>2. \A x, y \in B : f[x] = f[y] => x = y
    OBVIOUS
  <2>3. \A y \in W : \E x \in B : f[x] = y
    BY <1>1 DEF Where
  <2>. QED
    <3>. HIDE DEF f, W, B
    <3>. QED  BY <1>3, <2>1, <2>2, <2>3, OneToOne
<1>5. Cardinality(Where(n, tt)) = Cardinality(V)
  <2>1. g \in [V -> Where(n, tt)]
    <3>1. \A p \in V : /\ p[1] - 1 \in DOMAIN tt /\ p[2] \in 1 .. BatchSize
                       /\ tt[p[1] - 1] = ss[p[1]]
                       /\ p[2] \in DOMAIN ss[p[1]] /\ ss[p[1]][p[2]] = n
      BY <1>1 DEF Where
    <3>. QED  BY <3>1 DEF Where
  <2>2. \A x, y \in V : g[x] = g[y] => x = y
    <3>1. \A x \in V : x[1] \in Nat /\ x = <<x[1], x[2]>>
      BY <1>1 DEF Where
    <3>2. SUFFICES ASSUME NEW x \in V, NEW y \in V, g[x] = g[y] PROVE x = y
      OBVIOUS
    <3>3. <<x[1] - 1, x[2]>> = <<y[1] - 1, y[2]>> BY <3>2
    <3>. QED  BY <3>1, <3>3
  <2>3. \A y \in Where(n, tt) : \E x \in V : g[x] = y
    <3>1. SUFFICES ASSUME NEW y \in Where(n, tt) PROVE \E x \in V : g[x] = y
      OBVIOUS
    <3>2. PICK i \in DOMAIN tt, k \in 1 .. BatchSize : y = <<i, k>>
      BY DEF Where
    <3>3. k \in DOMAIN tt[i] /\ tt[i][k] = n
      BY <3>2 DEF Where
    <3>4. i + 1 \in DOMAIN ss /\ tt[i] = ss[i + 1] /\ i + 1 # 1 /\ (i + 1) - 1 = i
      BY <1>1
    <3>5. <<i + 1, k>> \in V
      BY <3>3, <3>4 DEF Where
    <3>6. g[<<i + 1, k>>] = <<i, k>>
      BY <3>4, <3>5
    <3>. QED  BY <3>2, <3>5, <3>6
  <2>. QED
    <3>. HIDE DEF g, V
    <3>. QED  BY <1>2, <2>1, <2>2, <2>3, OneToOne
<1>6. Cardinality(Where(n, ss)) = Cardinality(W) + Cardinality(V)
  <2>1. Where(n, ss) = W \cup V /\ W \cap V = {} OBVIOUS
  <2>. HIDE DEF W, V
  <2>2. Cardinality(W \cup V) = Cardinality(W) + Cardinality(V) - Cardinality(W \cap V)
    BY <1>2, FS_Union
  <2>3. Cardinality(W) \in Nat /\ Cardinality(V) \in Nat
    BY <1>2, FS_CardinalityType
  <2>4. Cardinality(W \cap V) = 0 BY <2>1, FS_EmptySet
  <2>. QED  BY <2>1, <2>2, <2>3, <2>4
<1>. QED  BY <1>4, <1>5, <1>6 DEF CountIn, Count, Where, b, tt

\* How often a notification is in the sink's hands.
Held(n) ==
    Count(n, buffered) + CountIn(n, out) + CountIn(n, chan)
      + (IF n \in responding THEN 1 ELSE 0) + answers[n]

\* The counts are numbers.
LEMMA HeldType ==
    ASSUME TypeOK, NEW n \in All
    PROVE  /\ Count(n, buffered) \in Nat /\ CountIn(n, out) \in Nat /\ CountIn(n, chan) \in Nat
           /\ answers[n] \in Nat
  BY CountType, WhereType DEF TypeOK

\* Nothing is held by an empty buffer, or by no batches.
LEMMA NothingHeld ==
    ASSUME NEW n \in All
    PROVE  Count(n, <<>>) = 0 /\ CountIn(n, <<>>) = 0
<1>1. <<>> \in Seq(All) /\ <<>> \in Seq(Seq(All))
  OBVIOUS
<1>. QED  BY <1>1, CountType, WhereType

\* A step that neither takes nor moves a notification.
LEMMA StaysHeld ==
    ASSUME Conserved, UNCHANGED <<buffered, out, chan, responding, answers>>,
           \A n \in All : caller'[n] \in {"idle", "locking"} <=> caller[n] \in {"idle", "locking"}
    PROVE  Conserved'
  BY DEF Conserved

\* A cut of the buffer moves all that it takes away into the batch it sends.
LEMMA CutHolds ==
    ASSUME NEW n \in All, NEW b \in Seq(All), Len(b) <= BatchSize,
           \/ out' = <<>> /\ buffered' = b
           \/ out' = <<b>> /\ buffered' = <<>>
    PROVE  Count(n, buffered') + CountIn(n, out') = Count(n, b)
<1>1. Count(n, b) \in Nat
  BY CountType
<1>2. CountIn(n, <<b>>) = Count(n, b)
  BY CountInOne
<1>. QED  BY <1>1, <1>2, NothingHeld

\* A step loses no notification and doubles none.
LEMMA ConservedPreserved ==
    IInv /\ Conserved /\ [Next]_vars => Conserved'
<1>. SUFFICES ASSUME IInv, Conserved, [Next]_vars
             PROVE  Conserved'
  OBVIOUS
<1>. USE SinkAssumption DEF sinkVars, workerVars, processVars
<1>0. TypeOK
  BY DEF IInv
<1>1. ASSUME NEW n \in All, SendExpired(n) \/ SendDirect(n) \/ AcceptClosed(n) PROVE Conserved'
  <2>1. /\ caller[n] \in {"idle", "locking"} /\ responding' = responding \cup {n}
        /\ \E a \in {"replying", "returned"} : caller' = [caller EXCEPT ![n] = a]
        /\ UNCHANGED <<buffered, out, chan, answers>>
    BY <1>1 DEF SendExpired, SendDirect, AcceptClosed
  <2>2. n \notin responding
    BY <1>0, <2>1, HeldType DEF Conserved
  <2>3. ASSUME NEW m \in All
        PROVE  Held(m)' = IF caller'[m] \in {"idle", "locking"} THEN 0 ELSE 1
    <3>1. Held(m) = IF caller[m] \in {"idle", "locking"} THEN 0 ELSE 1
      BY DEF Conserved, Held
    <3>2. CASE m = n
      <4>1. m \in responding' /\ m \notin responding BY <2>1, <2>2, <3>2
      <4>2. caller'[m] \notin {"idle", "locking"} BY <1>0, <2>1, <3>2 DEF TypeOK
      <4>. QED  BY <1>0, <2>1, <3>1, <3>2, <4>1, <4>2, HeldType DEF Held
    <3>3. CASE m # n
      <4>1. (m \in responding' <=> m \in responding) /\ caller'[m] = caller[m]
        BY <1>0, <2>1, <3>3 DEF TypeOK
      <4>. QED  BY <2>1, <3>1, <4>1 DEF Held
    <3>. QED  BY <3>2, <3>3
  <2>. QED  BY <2>3 DEF Conserved, Held
<1>2. ASSUME NEW n \in All, SendBuffered(n) \/ SendReturn(n) PROVE Conserved'
  BY <1>0, <1>2, StaysHeld DEF SendBuffered, SendReturn, TypeOK
<1>3. ASSUME NEW n \in All, Accept(n) PROVE Conserved'
  <2>1. /\ out = <<>> /\ buffered \in Seq(All) /\ Append(buffered, n) \in Seq(All)
        /\ Len(Append(buffered, n)) <= BatchSize
    <3>1. out = <<>> /\ buffered \in Seq(All)
      BY <1>3 DEF IInv, Locking, TypeOK, Accept
    <3>2. Len(buffered) + 1 <= BatchSize
      BY <1>3, AcceptCuts
    <3>. QED  BY <3>1, <3>2
  <2>2. /\ caller[n] = "locking" /\ caller' = [caller EXCEPT ![n] = "flushing"]
        /\ UNCHANGED <<chan, responding, answers>>
    BY <1>3 DEF Accept
  <2>3. ASSUME NEW m \in All
        PROVE  Count(m, buffered') + CountIn(m, out')
               = Count(m, buffered) + IF n = m THEN 1 ELSE 0
    <3>1. Count(m, buffered') + CountIn(m, out') = Count(m, Append(buffered, n))
      BY <1>3, <2>1, AcceptCuts, CutHolds
    <3>. QED  BY <2>1, <3>1, CountAppend
  <2>4. ASSUME NEW m \in All PROVE CountIn(m, out) = 0
    BY <2>1, NothingHeld
  <2>5. ASSUME NEW m \in All
        PROVE  Held(m)' = IF caller'[m] \in {"idle", "locking"} THEN 0 ELSE 1
    <3>1. Held(m) = IF caller[m] \in {"idle", "locking"} THEN 0 ELSE 1
      BY DEF Conserved, Held
    <3>2. /\ Count(m, buffered') \in Nat /\ CountIn(m, out') \in Nat
      BY <1>3, AcceptCuts, CountType, WhereType
    <3>3. CASE m = n
      <4>1. caller'[m] = "flushing" /\ caller[m] = "locking" BY <1>0, <2>2, <3>3 DEF TypeOK
      <4>. QED  BY <1>0, <2>2, <2>3, <2>4, <3>1, <3>2, <3>3, <4>1, HeldType DEF Held
    <3>4. CASE m # n
      <4>1. caller'[m] = caller[m] BY <1>0, <2>2, <3>4 DEF TypeOK
      <4>. QED  BY <1>0, <2>2, <2>3, <2>4, <3>1, <3>2, <3>4, <4>1, HeldType DEF Held
    <3>. QED  BY <3>3, <3>4
  <2>. QED  BY <2>5 DEF Conserved, Held
<1>4. ASSUME MonitorTick \/ \E c \in Closers : Stop(c) PROVE Conserved'
  <2>1. /\ out = <<>> /\ buffered \in Seq(All) /\ Len(buffered) <= BatchSize
        /\ UNCHANGED <<chan, responding, answers, caller>>
    BY <1>4 DEF IInv, Locking, TypeOK, Sizes, MonitorTick, Stop
  <2>2. /\ \/ out' = <<>> /\ buffered' = buffered
           \/ out' = <<buffered>> /\ buffered' = <<>>
        /\ buffered' \in Seq(All) /\ out' \in Seq(Seq(All))
    BY <1>4, MonitorCuts, StopCuts
  <2>3. ASSUME NEW m \in All PROVE Held(m)' = Held(m)
    <3>1. Count(m, buffered') + CountIn(m, out') = Count(m, buffered)
      BY <2>1, <2>2, CutHolds
    <3>2. CountIn(m, out) = 0
      BY <2>1, NothingHeld
    <3>3. Count(m, buffered') \in Nat /\ CountIn(m, out') \in Nat
      BY <2>2, CountType, WhereType
    <3>. QED  BY <1>0, <2>1, <3>1, <3>2, <3>3, HeldType DEF Held
  <2>. QED  BY <2>1, <2>3 DEF Conserved, Held
<1>5. ASSUME SendBatch PROVE Conserved'
  <2>1. /\ out # <<>> /\ chan' = Append(chan, Head(out)) /\ out' = Tail(out)
        /\ UNCHANGED <<buffered, responding, answers, caller>>
    BY <1>5 DEF SendBatch
  <2>2. /\ out \in Seq(Seq(All)) /\ chan \in Seq(Seq(All)) /\ Head(out) \in Seq(All)
        /\ Tail(out) \in Seq(Seq(All)) /\ Len(Head(out)) <= BatchSize
    <3>1. out \in Seq(Seq(All)) /\ chan \in Seq(Seq(All)) BY <1>0 DEF TypeOK
    <3>2. Head(out) = out[1] /\ 1 \in DOMAIN out BY <2>1, <3>1
    <3>3. Len(out[1]) \in 1 .. BatchSize BY <3>2 DEF IInv, Sizes, BatchesFit, Fits
    <3>. QED  BY <2>1, <3>1, <3>2, <3>3
  <2>3. ASSUME NEW m \in All PROVE Held(m)' = Held(m)
    <3>1. CountIn(m, out) = Count(m, Head(out)) + CountIn(m, out')
      BY <2>1, <2>2, CountInTail
    <3>2. CountIn(m, chan') = CountIn(m, chan) + Count(m, Head(out))
      BY <2>1, <2>2, CountInAppend
    <3>3. Count(m, Head(out)) \in Nat /\ CountIn(m, out') \in Nat
      BY <2>1, <2>2, CountType, WhereType
    <3>. QED  BY <1>0, <2>1, <3>1, <3>2, <3>3, HeldType DEF Held
  <2>. QED  BY <2>1, <2>3 DEF Conserved, Held
<1>6. ASSUME NEW w \in Workers, WorkerReceive(w) PROVE Conserved'
  <2>1. /\ chan # <<>> /\ chan' = Tail(chan) /\ responding' = responding \cup Elems(Head(chan))
        /\ UNCHANGED <<buffered, out, answers, caller>>
    BY <1>6 DEF WorkerReceive
  <2>2. /\ chan \in Seq(Seq(All)) /\ Head(chan) \in Seq(All) /\ Tail(chan) \in Seq(Seq(All))
        /\ Len(Head(chan)) <= BatchSize
    <3>1. chan \in Seq(Seq(All)) BY <1>0 DEF TypeOK
    <3>2. Head(chan) = chan[1] /\ 1 \in DOMAIN chan BY <2>1, <3>1
    <3>3. Len(chan[1]) \in 1 .. BatchSize BY <3>2 DEF IInv, Sizes, BatchesFit, Fits
    <3>. QED  BY <2>1, <3>1, <3>2, <3>3
  <2>3. ASSUME NEW m \in All PROVE Held(m)' = Held(m)
    <3>1. CountIn(m, chan) = Count(m, Head(chan)) + CountIn(m, chan')
      BY <2>1, <2>2, CountInTail
    <3>2. /\ Count(m, Head(chan)) \in Nat /\ CountIn(m, chan') \in Nat
          /\ Count(m, Head(chan)) = 0 <=> m \notin Elems(Head(chan))
      BY <2>1, <2>2, CountType, WhereType
    <3>3. Held(m) \in {0, 1}
      BY DEF Conserved, Held
    <3>4. CASE m \in Elems(Head(chan))
      <4>1. Count(m, Head(chan)) = 1 /\ m \notin responding
        BY <1>0, <3>1, <3>2, <3>3, <3>4, HeldType DEF Held
      <4>2. m \in responding' BY <2>1, <3>4
      <4>. QED  BY <1>0, <2>1, <3>1, <3>2, <4>1, <4>2, HeldType DEF Held
    <3>5. CASE m \notin Elems(Head(chan))
      <4>1. m \in responding' <=> m \in responding BY <2>1, <3>5
      <4>. QED  BY <1>0, <2>1, <3>1, <3>2, <3>5, <4>1, HeldType DEF Held
    <3>. QED  BY <3>4, <3>5
  <2>. QED  BY <2>1, <2>3 DEF Conserved, Held
<1>7. ASSUME NEW n \in All, Respond(n) PROVE Conserved'
  <2>1. /\ n \in responding /\ responding' = responding \ {n}
        /\ answers' = [answers EXCEPT ![n] = @ + 1]
        /\ UNCHANGED <<buffered, out, chan, caller>>
    BY <1>7 DEF Respond
  <2>2. ASSUME NEW m \in All PROVE Held(m)' = Held(m)
    <3>1. CASE m = n
      <4>1. m \in responding /\ m \notin responding' /\ answers'[m] = answers[m] + 1
        BY <1>0, <2>1, <3>1 DEF TypeOK
      <4>. QED  BY <1>0, <2>1, <4>1, HeldType DEF Held
    <3>2. CASE m # n
      <4>1. (m \in responding' <=> m \in responding) /\ answers'[m] = answers[m]
        BY <1>0, <2>1, <3>2 DEF TypeOK
      <4>. QED  BY <2>1, <4>1 DEF Held
    <3>. QED  BY <3>1, <3>2
  <2>. QED  BY <2>1, <2>2 DEF Conserved, Held
<1>8. ASSUME NEW w \in Workers, WorkerStart(w) \/ WorkerFinish(w) \/ WorkerExit(w) PROVE Conserved'
  BY <1>8, StaysHeld DEF WorkerStart, WorkerFinish, WorkerExit
<1>9. ASSUME NEW c \in Closers, Close(c) \/ StopClosed(c) \/ CloseChannel(c) \/ StopReturn(c)
      PROVE  Conserved'
  BY <1>9, StaysHeld DEF Close, StopClosed, CloseChannel, StopReturn
<1>10. ASSUME MonitorReturn \/ MonitorExit \/ Tick \/ UNCHANGED vars PROVE Conserved'
  BY <1>10, StaysHeld DEF MonitorReturn, MonitorExit, Tick, vars
<1>. QED
  BY <1>1, <1>2, <1>3, <1>4, <1>5, <1>6, <1>7, <1>8, <1>9, <1>10
     DEF Next, CallerNext, WorkerNext, CloserNext, MonitorNext

-----------------------------------------------------------------------------
(***************************************************************************)
(* The theorems.                                                           *)
(***************************************************************************)

\* The invariant holds when newClient returns its sink.
LEMMA InitIInv == Init => IInv
<1>. SUFFICES ASSUME Init
              PROVE  IInv
  OBVIOUS
<1>. USE SinkAssumption DEF Init, All, Procs
<1>1. TypeOK
  <2>1. worker \in [Workers -> {"unused", "new", "idle", "busy", "done"}]
    OBVIOUS
  <2>2. /\ batch \in [Workers -> Seq(All)] /\ buffered \in Seq(All)
        /\ out \in Seq(Seq(All)) /\ chan \in Seq(Seq(All)) /\ Len(chan) <= ChanCap
    OBVIOUS
  <2>3. /\ answers \in [All -> Nat]
        /\ caller \in [All -> {"idle", "locking", "flushing", "replying", "returned"}]
        /\ closer \in [Closers -> {"idle", "locking", "flushing", "waiting", "returned"}]
    OBVIOUS
  <2>. QED  BY <2>1, <2>2, <2>3 DEF TypeOK
<1>2. Sizes
  BY DEF Sizes, BatchesFit
<1>3. Locking /\ Closing
  BY DEF Locking, Closing
<1>4. Working
  BY DEF Working, Started
<1>5. Coverage
  BY DEF Coverage, Covered
<1>. QED  BY <1>1, <1>2, <1>3, <1>4, <1>5 DEF IInv

\* The invariant holds for ever.
THEOREM IInvHolds == Spec => []IInv
<1>1. IInv /\ [Next]_vars => IInv'
  BY TypePreserved, SizesPreserved, LockingPreserved, ClosingPreserved,
     WorkingPreserved, CoveragePreserved DEF IInv
<1>. QED  BY InitIInv, <1>1, PTL DEF Spec

\* Every variable keeps its type, and the channel of batches never holds more than
\* its capacity: a sender waits (sink.go:65, 74; push.go:81).
THEOREM TypeCorrect == Spec => []TypeOK
<1>1. IInv => TypeOK
  BY DEF IInv
<1>. QED  BY IInvHolds, <1>1, PTL

\* No batch is empty or longer than FCM allows, for every batch size and through
\* every interleaving of callers, monitor and Close (sink.go:24-79).
THEOREM BatchesAlwaysFit == Spec => []BatchesFit
<1>1. IInv => BatchesFit
  BY DEF IInv, Sizes
<1>. QED  BY IInvHolds, <1>1, PTL

\* Nobody sends on the closed channel, and no second Close closes it again
\* (sink.go:24-42).
THEOREM ChannelStaysOpenInUse == Spec => []ChannelOpenInUse
<1>1. IInv => ChannelOpenInUse
  BY SinkAssumption DEF IInv, Locking, Closing, ChannelOpenInUse, TypeOK
<1>. QED  BY IInvHolds, <1>1, PTL

\* A Close that has returned has seen to it that each buffered notification is
\* answered: it flushed the buffer, and its wait for the workers was not cut short
\* by workers that had not started (sink.go:14, 24-42).
THEOREM CloseDrainsAlways == Spec => []CloseDrains
<1>1. IInv => CloseDrains
  BY DEF IInv, Closing, Working, Coverage, Covered, Placed, Elems, CloseDrains
<1>. QED  BY IInvHolds, <1>1, PTL

\* Each notification that Send took is in exactly one place until it is answered, and
\* is answered once: no cut of the buffer and no interleaving of callers, monitor, workers
\* and Close loses one or sends one twice (sink.go:24-79).
THEOREM NothingLostOrDoubled == Spec => []Conserved
<1>1. Init => Conserved
  <2>1. SUFFICES ASSUME Init, NEW n \in All PROVE Held(n) = 0 /\ caller[n] = "idle"
    BY DEF Conserved, Held
  <2>2. /\ buffered = <<>> /\ out = <<>> /\ chan = <<>> /\ n \notin responding
        /\ answers[n] = 0 /\ caller[n] = "idle"
    BY <2>1 DEF Init
  <2>3. Count(n, <<>>) = 0 /\ CountIn(n, <<>>) = 0
    BY NothingHeld
  <2>. QED  BY <2>2, <2>3 DEF Held
<1>2. IInv /\ Conserved /\ [Next]_vars => Conserved'
  BY ConservedPreserved
<1>. QED  BY IInvHolds, <1>1, <1>2, PTL DEF Spec

-----------------------------------------------------------------------------
(***************************************************************************)
(* A batch.                                                                *)
(*                                                                         *)
(* The code decides by comparing the sizes of its maps. The invariant      *)
(* relates these to the maps: no device has two verdicts, and either FCM   *)
(* has answered no call yet, or every device was notified or has an error. *)
(***************************************************************************)

-----------------------------------------------------------------------------
\* Two disjoint sets of devices have as many elements as the batch exactly when
\* together they are the batch.
LEMMA DisjointCount ==
    ASSUME NEW S \in SUBSET Devices, NEW T \in SUBSET Devices, S \cap T = {}
    PROVE  Cardinality(S) + Cardinality(T) = Cardinality(Devices) <=> S \cup T = Devices
<1>1. IsFiniteSet(Devices)
  BY BatchAssumption
<1>2. IsFiniteSet(S) /\ IsFiniteSet(T)
  BY <1>1, FS_Subset
<1>3. Cardinality({}) = 0 /\ Cardinality(S) \in Nat /\ Cardinality(T) \in Nat
  BY <1>2, FS_EmptySet, FS_CardinalityType
<1>4. Cardinality(S \cup T) = Cardinality(S) + Cardinality(T)
  <2>1. Cardinality(S \cup T) = Cardinality(S) + Cardinality(T) - Cardinality(S \cap T)
    BY <1>2, FS_Union
  <2>2. Cardinality(S \cap T) = 0
    BY <1>3
  <2>. QED  BY <1>3, <2>1, <2>2
<1>5. S \cup T \in SUBSET Devices
  OBVIOUS
<1>6. Cardinality(Devices) = Cardinality(S \cup T) => Devices = S \cup T
  BY <1>1, <1>5, FS_Subset
<1>. QED  BY <1>4, <1>6

-----------------------------------------------------------------------------
(***************************************************************************)
(* The inductive invariant.                                                *)
(***************************************************************************)

\* The maps: one verdict at most for each device, and the error that goes with it.
Maps ==
    /\ invalid \cap notified = {}
    /\ \A d \in Devices : failed[d] = "invalid" <=> d \in invalid
    /\ \A d \in notified : failed[d] = "none"
    /\ phase # "done" => \A d \in Devices : failed[d] # "notAttempted"

\* No call was answered, or all devices are in the maps.
Answered == \A d \in Devices : d \in notified \/ failed[d] # "none"

Unanswered == invalid \cup notified = {} /\ \A d \in Devices : failed[d] = "none"

Attempts ==
    /\ phase # "done" => Answered \/ Unanswered
    /\ phase \in {"ready", "calling", "waiting"} => Unsettled # {}
    /\ phase = "calling" => messages = Unsettled

\* What FCM delivered is notified, or was lost on the way back.
Deliveries ==
    /\ \A d \in notified : reached[d] > 0
    /\ \A d \in Devices : reached[d] > 0 => d \in notified \cup lost
    /\ DuplicateOnlyIfLost

Reports == ReportTruthful /\ VerdictKept

BInv == BatchTypeOK /\ Maps /\ Attempts /\ Deliveries /\ Reports

-----------------------------------------------------------------------------
\* An answer moves every device of the call into one map.
LEMMA AnswerStep ==
    ASSUME BInv, Answer
    PROVE  BInv'
<1>. USE DEF Outcomes, Errors
<1>1. phase = "calling" /\ messages = Unsettled /\ Unsettled \subseteq Devices
  BY DEF Answer, BInv, Attempts, Unsettled
<1>2. PICK outcome \in [messages -> Outcomes] :
        /\ invalid' = invalid \cup {d \in messages : outcome[d] = "invalid"}
        /\ notified' = notified \cup {d \in messages : outcome[d] = "ok"}
        /\ failed' = Failures(outcome)
        /\ reached' = Deliver({d \in messages : outcome[d] = "ok"})
  BY DEF Answer
<1>3. /\ messages' = {} /\ UNCHANGED <<time, report, lost>>
      /\ phase' = IF AllSettled(invalid', notified') THEN "settling" ELSE AfterFailure
  BY DEF Answer
<1>4. phase' \in {"waiting", "settling"}
  BY <1>3 DEF AfterFailure
<1>5. \A d \in Devices : d \in messages <=> d \notin invalid \cup notified
  BY <1>1 DEF Unsettled
<1>6. invalid' \subseteq Devices /\ notified' \subseteq Devices /\ invalid' \cap notified' = {}
  BY <1>1, <1>2, <1>5 DEF BInv, BatchTypeOK, Maps
<1>7. \A d \in Devices :
         failed'[d] = IF d \notin messages THEN failed[d]
                      ELSE IF outcome[d] = "ok" THEN "none" ELSE outcome[d]
  BY <1>2 DEF Failures
<1>8. BatchTypeOK'
  <2>1. failed' \in [Devices -> Errors \cup {"none"}]
    BY <1>1, <1>2 DEF Failures, BInv, BatchTypeOK
  <2>2. reached' \in [Devices -> 0 .. 2]
    BY <1>2 DEF Deliver, BInv, BatchTypeOK
  <2>. QED  BY <1>3, <1>4, <1>6, <2>1, <2>2 DEF BInv, BatchTypeOK
<1>9. Maps'
  BY <1>1, <1>2, <1>4, <1>5, <1>6, <1>7 DEF BInv, BatchTypeOK, Maps
<1>10. Attempts'
  <2>1. Answered'
    BY <1>2, <1>5, <1>6, <1>7 DEF BInv, BatchTypeOK, Maps, Answered
  <2>2. phase' = "waiting" => Unsettled' # {}
    <3>1. phase' = "waiting" => invalid' \cup notified' # Devices
      BY <1>3, <1>6, DisjointCount DEF AllSettled
    <3>. QED  BY <1>6, <3>1 DEF Unsettled
  <2>. QED  BY <1>4, <2>1, <2>2 DEF Attempts
<1>11. Deliveries'
  <2>1. \A d \in Devices :
          reached'[d] = IF d \in messages /\ outcome[d] = "ok" /\ reached[d] < 2
                        THEN reached[d] + 1 ELSE reached[d]
    BY <1>2 DEF Deliver
  <2>2. \A d \in Devices : reached[d] \in 0 .. 2
    BY DEF BInv, BatchTypeOK
  <2>. QED  BY <1>1, <1>2, <1>3, <1>5, <1>6, <2>1, <2>2
            DEF BInv, BatchTypeOK, Deliveries, DuplicateOnlyIfLost
<1>12. Reports'
  BY <1>4 DEF Reports, ReportTruthful, VerdictKept
<1>. QED  BY <1>8, <1>9, <1>10, <1>11, <1>12 DEF BInv

\* A call that fails leaves the maps alone.
LEMMA CallFailsStep ==
    ASSUME BInv, CallFails
    PROVE  BInv'
<1>. USE DEF Errors
<1>1. PICK ds \in SUBSET messages : reached' = Deliver(ds) /\ lost' = lost \cup ds
  BY DEF CallFails
<1>2. /\ phase = "calling" /\ phase' \in {"waiting", "settling"} /\ messages' = {}
      /\ UNCHANGED <<time, invalid, notified, failed, report>>
  BY DEF CallFails, AfterFailure
<1>3. BatchTypeOK'
  BY <1>1, <1>2 DEF Deliver, BInv, BatchTypeOK
<1>4. Maps' /\ Attempts' /\ Reports'
  BY <1>2 DEF BInv, Maps, Attempts, Answered, Unanswered, Unsettled, Reports,
              ReportTruthful, VerdictKept
<1>5. Deliveries'
  <2>1. \A d \in Devices :
          reached'[d] = IF d \in ds /\ reached[d] < 2 THEN reached[d] + 1 ELSE reached[d]
    BY <1>1 DEF Deliver
  <2>2. \A d \in Devices : reached[d] \in 0 .. 2
    BY DEF BInv, BatchTypeOK
  <2>. QED  BY <1>1, <1>2, <2>1, <2>2 DEF BInv, BatchTypeOK, Deliveries, DuplicateOnlyIfLost
<1>. QED  BY <1>3, <1>4, <1>5 DEF BInv

\* The fallback applies to all devices or to none, and the reports are right.
LEMMA SettleStep ==
    ASSUME BInv, Settle
    PROVE  BInv'
<1>. USE DEF Errors
<1>1. /\ phase = "settling" /\ phase' = "done" /\ failed' = Fallback
      /\ report' = [d \in Devices |-> IF failed'[d] = "none" THEN "nil" ELSE failed'[d]]
      /\ UNCHANGED <<time, messages, invalid, notified, reached, lost>>
  BY DEF Settle
<1>2. FailedDevices \in SUBSET Devices /\ notified \in SUBSET Devices
  BY DEF FailedDevices, BInv, BatchTypeOK
<1>3. notified \cap FailedDevices = {}
  BY DEF FailedDevices, BInv, Maps
<1>4. CASE Answered
  <2>1. notified \cup FailedDevices = Devices
    BY <1>2, <1>4 DEF Answered, FailedDevices
  <2>2. failed' = failed
    BY <1>1, <1>2, <1>3, <2>1, DisjointCount DEF Fallback
  <2>3. BatchTypeOK' /\ Maps' /\ Attempts' /\ Deliveries'
    BY <1>1, <2>2 DEF BInv, BatchTypeOK, Maps, Attempts, Deliveries, DuplicateOnlyIfLost
  <2>4. \A d \in Devices : report'[d] = IF failed[d] = "none" THEN "nil" ELSE failed[d]
    BY <1>1, <2>2
  <2>5. Reports'
    BY <1>1, <1>4, <2>2, <2>4
       DEF BInv, BatchTypeOK, Maps, Deliveries, Answered, Reports, ReportTruthful, VerdictKept
  <2>. QED  BY <2>3, <2>5 DEF BInv
<1>5. CASE Unanswered
  <2>1. notified \cup FailedDevices # Devices
    BY <1>5, BatchAssumption DEF Unanswered, FailedDevices
  <2>2. failed' = [d \in Devices |-> "notAttempted"]
    <3>1. Fallback = [d \in Devices |-> IF d \in notified THEN failed[d] ELSE "notAttempted"]
      BY <1>2, <1>3, <2>1, DisjointCount DEF Fallback
    <3>. QED  BY <1>1, <1>5, <3>1 DEF Unanswered
  <2>3. report' = [d \in Devices |-> "notAttempted"]
    BY <1>1, <2>2
  <2>4. BatchTypeOK' /\ Maps' /\ Attempts' /\ Deliveries' /\ Reports'
    BY <1>1, <1>5, <2>2, <2>3
       DEF BInv, BatchTypeOK, Maps, Attempts, Deliveries, DuplicateOnlyIfLost, Unanswered,
           Reports, ReportTruthful, VerdictKept
  <2>. QED  BY <2>4 DEF BInv
<1>. QED  BY <1>1, <1>4, <1>5 DEF BInv, Attempts

\* The steps that change only the phase, the time and the messages of the call.
LEMMA OtherSteps ==
    ASSUME BInv, TimePasses \/ Attempt \/ Retry \/ GiveUp \/ UNCHANGED batchVars
    PROVE  BInv'
<1>1. UNCHANGED <<invalid, notified, failed, report, reached, lost>>
  BY DEF TimePasses, Attempt, Retry, GiveUp, batchVars
<1>2. /\ phase = "done" <=> phase' = "done"
      /\ phase' \in {"ready", "calling", "waiting"} =>
            phase \in {"ready", "calling", "waiting"}
      /\ phase' = "calling" => messages' = Unsettled
      /\ time' \in {"early", "late", "expired"}
      /\ phase' \in {"ready", "calling", "waiting", "settling", "done"}
      /\ messages' \subseteq Devices
  BY DEF TimePasses, Attempt, Retry, GiveUp, batchVars, BInv, BatchTypeOK, Attempts, Unsettled
<1>3. BatchTypeOK'
  BY <1>1, <1>2 DEF BInv, BatchTypeOK
<1>4. Maps' /\ Attempts' /\ Deliveries' /\ Reports'
  BY <1>1, <1>2 DEF BInv, Maps, Attempts, Answered, Unanswered, Unsettled, Deliveries,
                    DuplicateOnlyIfLost, Reports, ReportTruthful, VerdictKept
<1>. QED  BY <1>3, <1>4 DEF BInv

\* The invariant holds when process() starts with a batch.
LEMMA BatchInitBInv == BatchInit => BInv
  BY BatchAssumption
     DEF BatchInit, BInv, BatchTypeOK, Errors, Maps, Attempts, Answered, Unanswered, Unsettled,
         Deliveries, DuplicateOnlyIfLost, Reports, ReportTruthful, VerdictKept

\* The invariant holds for ever.
THEOREM BInvHolds == BatchSpec => []BInv
<1>1. BInv /\ [BatchNext]_batchVars => BInv'
  BY AnswerStep, CallFailsStep, SettleStep, OtherSteps DEF BatchNext
<1>. QED  BY BatchInitBInv, <1>1, PTL DEF BatchSpec

\* Every variable keeps its type.
THEOREM BatchTypeCorrect == BatchSpec => []BatchTypeOK
<1>1. BInv => BatchTypeOK
  BY DEF BInv
<1>. QED  BY BInvHolds, <1>1, PTL

\* A caller is told of success exactly when FCM confirmed it (batch.go:69-102).
THEOREM ReportsAreTruthful == BatchSpec => []ReportTruthful
<1>1. BInv => ReportTruthful
  BY DEF BInv, Reports
<1>. QED  BY BInvHolds, <1>1, PTL

\* A caller learns that its token is invalid whenever FCM said so: the fallback for
\* an exhausted deadline, decided by counting (batch.go:34-40), hides no verdict.
THEOREM VerdictsAreKept == BatchSpec => []VerdictKept
<1>1. BInv => VerdictKept
  BY DEF BInv, Reports
<1>. QED  BY BInvHolds, <1>1, PTL

\* No attempt sends an empty list, which FCM rejects (batch.go:69-75).
THEOREM AttemptsSendSomething == BatchSpec => []NothingSentInVain
<1>1. BInv => NothingSentInVain
  BY DEF BInv, Attempts, NothingSentInVain
<1>. QED  BY BInvHolds, <1>1, PTL

\* A retry never notifies a device again whose notification was confirmed
\* (batch.go:104-129).
THEOREM NoNeedlessDuplicate == BatchSpec => []DuplicateOnlyIfLost
<1>1. BInv => DuplicateOnlyIfLost
  BY DEF BInv, Deliveries
<1>. QED  BY BInvHolds, <1>1, PTL
=============================================================================
