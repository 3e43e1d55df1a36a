--------------------------- MODULE ListenerProofs ---------------------------
(***************************************************************************)
(* What is proved of Listener for any number of closers, any limit of      *)
(* errors, any capacity of the channel and any number of faults: its       *)
(* types, that no connection leaks, that it never ends by itself without   *)
(* having had its fill of errors, and that a reader who sees no error      *)
(* misses nothing, although what is sent passes through three queues.      *)
(***************************************************************************)
EXTENDS Listener, SequenceTheorems, TLAPS

Notifications == Seq(1 .. MaxSent)

\* TypeOK in two parts: the notifications, and the control.
DataOK ==
    /\ wire \in Notifications
    /\ notifCh \in Notifications /\ Len(notifCh) <= ChanSize
    /\ received \in Notifications
    /\ hand \in 0 .. MaxSent

ControlOK ==
    /\ up \in BOOLEAN /\ faults \in 0 .. MaxFaults
    /\ sent \in 0 .. MaxSent /\ since \in 0 .. MaxSent
    /\ pool \in {"open", "closing", "closed"}
    /\ held \in Nat
    /\ pc \in {"start", "first", "failed", "loop", "waiting", "sending", "pausing",
               "connecting", "listening", "ended"}
    /\ conn \in {"none", "live", "lost", "closed"}
    /\ counted \in BOOLEAN
    /\ errors \in 0 .. MaxErrors
    /\ lastErr \in BOOLEAN
    /\ ctxDone \in BOOLEAN
    /\ closer \in [Closers -> {"idle", "waiting", "returned"}]
    /\ full \in BOOLEAN

\* The goroutine goes to sendNotification with the notification it received.
HandFull == pc = "sending" => hand # 0

DataInv == DataOK /\ HandFull

\* Where the goroutine has no connection of its own yet, or no more.
Unconnected == {"start", "first", "failed", "connecting", "listening", "ended"}

NoConnThere == pc \in Unconnected => conn = "none"

\* Only a goroutine that gives up reaches the limit, and an error leaves a trace.
BelowLimit == pc # "ended" => errors < MaxErrors
ErrorKept  == errors > 0 => lastErr

ControlInv ==
    /\ ControlOK
    /\ NoConnThere
    /\ NoConnLeak
    /\ BelowLimit
    /\ ErrorKept
    /\ EndsForAReason

IInv == DataInv /\ ControlInv

LEMMA TypeParts == TypeOK <=> DataOK /\ ControlOK
BY DEF TypeOK, DataOK, ControlOK, Notifications

-----------------------------------------------------------------------------
\* What the steps do to a sequence of notifications gives one.
LEMMA NoneIsData == <<>> \in Notifications /\ Len(<<>>) = 0
BY DEF Notifications

LEMMA AppendIsData ==
    ASSUME NEW s \in Notifications, NEW n \in 1 .. MaxSent
    PROVE  Append(s, n) \in Notifications /\ Len(Append(s, n)) = Len(s) + 1
BY AppendProperties DEF Notifications

LEMMA HeadTailIsData ==
    ASSUME NEW s \in Notifications, s # <<>>
    PROVE  /\ Head(s) \in 1 .. MaxSent
           /\ Tail(s) \in Notifications
           /\ Len(Tail(s)) = Len(s) - 1
BY HeadTailProperties DEF Notifications

LEMMA PrefixIsData ==
    ASSUME NEW s \in Notifications, NEW k \in 0 .. Len(s)
    PROVE  SubSeq(s, 1, k) \in Notifications
<1>1. Len(s) \in Nat /\ \A i \in 1 .. Len(s) : s[i] \in 1 .. MaxSent
  BY ElementOfSeq, LenProperties DEF Notifications
<1>2. k \in Int /\ \A i \in 1 .. k : s[i] \in 1 .. MaxSent
  BY <1>1
<1> QED
  BY <1>2, SubSeqProperties DEF Notifications

-----------------------------------------------------------------------------
LEMMA InitInv == Init => IInv
<1> SUFFICES ASSUME Init PROVE IInv
  OBVIOUS
<1>1. DataInv
  BY ListenerAssumption, NoneIsData DEF Init, DataInv, DataOK, HandFull
<1>2. ControlOK
  <2>1. up = TRUE /\ counted = FALSE /\ lastErr = FALSE /\ ctxDone = FALSE /\ full = FALSE
    BY DEF Init
  <2>2. /\ faults = 0 /\ sent = 0 /\ held = 0 /\ errors = 0 /\ since = 0
        /\ pool = "open" /\ pc = "start" /\ conn = "none"
    BY DEF Init
  <2>3. closer \in [Closers -> {"idle", "waiting", "returned"}]
    BY DEF Init
  <2>4. /\ faults \in 0 .. MaxFaults /\ sent \in 0 .. MaxSent /\ since \in 0 .. MaxSent
        /\ held \in Nat /\ errors \in 0 .. MaxErrors
    BY ListenerAssumption, <2>2
  <2> QED
    BY <2>1, <2>2, <2>3, <2>4, Zenon DEF ControlOK
<1>3. NoConnThere /\ NoConnLeak /\ BelowLimit /\ ErrorKept /\ EndsForAReason
  BY ListenerAssumption
     DEF Init, NoConnThere, NoConnLeak, BelowLimit, ErrorKept, EndsForAReason, Unconnected
<1> QED
  BY <1>1, <1>2, <1>3 DEF IInv, ControlInv

\* The data: every step leaves sequences of notifications, and the channel within
\* its capacity.
LEMMA DataStep == IInv /\ [Next]_vars => DataInv'
<1> SUFFICES ASSUME IInv, [Next]_vars PROVE DataInv'
  OBVIOUS
<1> USE ListenerAssumption, NoneIsData
<1>a. DataOK /\ HandFull /\ sent \in 0 .. MaxSent
  BY DEF IInv, DataInv, ControlInv, ControlOK
<1>1. CASE Listen
  BY <1>a, <1>1
     DEF DataInv, DataOK, HandFull, Listen, dataVars
<1>2. CASE FirstListen
  BY <1>a, <1>2
     DEF DataInv, DataOK, HandFull, FirstListen, dataVars
<1>3. CASE Loop
  BY <1>a, <1>3
     DEF DataInv, DataOK, HandFull, Loop, End, dataVars
<1>4. CASE Receive
  BY <1>a, <1>4, HeadTailIsData
     DEF DataInv, DataOK, HandFull, Receive, dataVars
<1>5. CASE WaitCancelled
  BY <1>a, <1>5
     DEF DataInv, DataOK, HandFull, WaitCancelled, End, dataVars
<1>6. CASE WaitDisconnected
  BY <1>a, <1>6
     DEF DataInv, DataOK, HandFull, WaitDisconnected, End, dataVars
<1>7. CASE WaitFails
  BY <1>a, <1>7
     DEF DataInv, DataOK, HandFull, WaitFails, End, dataVars
<1>8. CASE Pause
  BY <1>a, <1>8
     DEF DataInv, DataOK, HandFull, Pause, End, Continue, dataVars
<1>9. CASE Send
  <2>1. hand \in 1 .. MaxSent /\ Len(notifCh) \in Nat
    BY <1>a, <1>9, LenProperties DEF Send, DataOK, HandFull, Notifications
  <2>2. notifCh' \in Notifications /\ Len(notifCh') <= ChanSize
    <3>1. CASE Room /\ notifCh' = Append(notifCh, hand)
      BY <1>a, <2>1, <3>1, AppendIsData DEF Room, DataOK
    <3>2. CASE UNCHANGED notifCh
      BY <1>a, <3>2 DEF DataOK
    <3> QED
      BY <1>9, <3>1, <3>2 DEF Send
  <2>3. wire' = wire /\ received' = received /\ hand' = 0 /\ pc' = "loop"
    BY <1>9 DEF Send
  <2> QED
    BY <1>a, <2>2, <2>3 DEF DataInv, DataOK, HandFull
<1>10. CASE ConnectStop
  BY <1>a, <1>10
     DEF DataInv, DataOK, HandFull, ConnectStop, End, dataVars
<1>11. CASE Acquire
  BY <1>a, <1>11
     DEF DataInv, DataOK, HandFull, Acquire, dataVars
<1>12. CASE AcquireFails
  BY <1>a, <1>12
     DEF DataInv, DataOK, HandFull, AcquireFails, NotConnected, dataVars
<1>13. CASE Reconnect
  BY <1>a, <1>13
     DEF DataInv, DataOK, HandFull, Reconnect, dataVars
<1>14. CASE ReconnectFails
  BY <1>a, <1>14
     DEF DataInv, DataOK, HandFull, ReconnectFails, NotConnected, dataVars
<1>15. CASE Read
  BY <1>a, <1>15, AppendIsData, HeadTailIsData
     DEF DataInv, DataOK, HandFull, Read, Returned, dataVars
<1>16. CASE Cancel
  BY <1>a, <1>16
     DEF DataInv, DataOK, HandFull, Cancel, dataVars
<1>17. CASE DBClose
  BY <1>a, <1>17
     DEF DataInv, DataOK, HandFull, DBClose, dataVars
<1>18. CASE Notify
  BY <1>a, <1>18, AppendIsData
     DEF DataInv, DataOK, HandFull, Notify, dataVars
<1>19. CASE Lose
  BY <1>a, <1>19, PrefixIsData
     DEF DataInv, DataOK, HandFull, Lose, dataVars
<1>20. CASE ComeBack
  BY <1>a, <1>20
     DEF DataInv, DataOK, HandFull, ComeBack, dataVars
<1>21. ASSUME NEW c \in Closers, Close(c) \/ CloseReturn(c) PROVE DataInv'
  BY <1>a, <1>21 DEF DataInv, DataOK, HandFull, Close, CloseReturn, dataVars
<1>22. CASE UNCHANGED vars
  BY <1>a, <1>22 DEF DataInv, DataOK, HandFull, vars
<1> QED
  BY <1>1, <1>2, <1>3, <1>4, <1>5, <1>6, <1>7, <1>8, <1>9, <1>10, <1>11, <1>12,
     <1>13, <1>14, <1>15, <1>16, <1>17, <1>18, <1>19, <1>20, <1>21, <1>22
     DEF Next, Goroutine

-----------------------------------------------------------------------------
\* The control: a connection is held where it is used and given back, and the ways
\* to end are the context and the last error allowed.
LEMMA ControlStep == IInv /\ [Next]_vars => ControlInv'
<1> SUFFICES ASSUME IInv, [Next]_vars PROVE ControlInv'
  OBVIOUS
<1> USE ListenerAssumption
    DEF ControlInv, ControlOK, NoConnThere, NoConnLeak, BelowLimit, ErrorKept,
        EndsForAReason, Unconnected, envVars, errVars, dataVars
<1>a. ControlInv
  BY DEF IInv
<1>1. CASE Listen
  BY <1>a, <1>1 DEF Listen, Acquirable
<1>2. CASE FirstListen
  BY <1>a, <1>2 DEF FirstListen
<1>3. CASE Loop
  <2>1. CASE ctxDone
    BY <1>a, <1>3, <2>1 DEF Loop, End
  <2>2. CASE ~ctxDone
    <3>1. /\ pc' = IF conn = "none" THEN "connecting" ELSE "waiting"
          /\ counted' = TRUE
          /\ UNCHANGED <<held, conn, envVars, pool, errVars, ctxDone, closer, since, full>>
      BY <1>3, <2>2 DEF Loop
    <3>2. pc = "loop"
      BY <1>3 DEF Loop
    <3> QED
      BY <1>a, <3>1, <3>2, <2>2
  <2> QED
    BY <2>1, <2>2
<1>4. CASE Receive
  BY <1>a, <1>4 DEF Receive
<1>5. CASE WaitCancelled
  BY <1>a, <1>5 DEF WaitCancelled, End
<1>6. CASE WaitDisconnected
  <2>1. errors' = errors + 1 /\ lastErr'
    BY <1>6 DEF WaitDisconnected, CountError
  <2>2. CASE errors + 1 >= MaxErrors
    BY <1>a, <1>6, <2>1, <2>2 DEF WaitDisconnected, End
  <2>3. CASE errors + 1 < MaxErrors
    <3>1. held = 1 /\ conn \in {"live", "lost", "closed"}
      BY <1>a, <1>6 DEF WaitDisconnected
    <3>2. /\ pc' = "connecting"
          /\ conn' = "none"
          /\ held' = held - 1
      BY <1>a, <1>6, <2>1, <2>3 DEF WaitDisconnected
    <3>3. faults' \in 0 .. MaxFaults
      BY <1>a, <1>6 DEF WaitDisconnected
    <3>4. counted' = FALSE
      BY <1>a, <1>6, <2>1, <2>3 DEF WaitDisconnected
    <3>5. UNCHANGED <<up, sent, pool, ctxDone, closer, since, full>>
      BY <1>a, <1>6, <2>1, <2>3 DEF WaitDisconnected
    <3>6. counted' \in BOOLEAN
      BY <1>a, <3>4
    <3> QED
      BY <1>a, <2>1, <2>3, <3>1, <3>2, <3>3, <3>5, <3>6
  <2> QED
    BY <1>a, <2>2, <2>3
<1>7. CASE WaitFails
  <2>1. errors' = errors + 1 /\ lastErr'
    BY <1>7 DEF WaitFails, CountError
  <2>2. CASE errors + 1 >= MaxErrors
    BY <1>a, <1>7, <2>1, <2>2 DEF WaitFails, End
  <2>3. CASE errors + 1 < MaxErrors
    <3>1. held = 1 /\ conn \in {"live", "lost", "closed"}
      BY <1>a, <1>7 DEF WaitFails
    <3>2. /\ pc' = "pausing"
          /\ conn' = IF conn = "lost" THEN "closed" ELSE conn
          /\ held' = held
      BY <1>a, <1>7, <2>1, <2>3 DEF WaitFails
    <3>3. faults' \in 0 .. MaxFaults
      BY <1>a, <1>7 DEF WaitFails
    <3>4. counted' = counted
      BY <1>a, <1>7, <2>1, <2>3 DEF WaitFails
    <3>5. UNCHANGED <<up, sent, pool, ctxDone, closer, since, full>>
      BY <1>a, <1>7, <2>1, <2>3 DEF WaitFails
    <3>6. counted' \in BOOLEAN
      BY <1>a, <3>4
    <3> QED
      BY <1>a, <2>1, <2>3, <3>1, <3>2, <3>3, <3>5, <3>6
  <2> QED
    BY <1>a, <2>2, <2>3
<1>8. CASE Pause
  BY <1>a, <1>8 DEF Pause, End, Continue
<1>9. CASE Send
  BY <1>a, <1>9 DEF Send
<1>10. CASE ConnectStop
  BY <1>a, <1>10 DEF ConnectStop, End
<1>11. CASE Acquire
  BY <1>a, <1>11 DEF Acquire, Acquirable
<1>12. CASE AcquireFails
  BY <1>a, <1>12 DEF AcquireFails, NotConnected, Acquirable
<1>13. CASE Reconnect
  BY <1>a, <1>13 DEF Reconnect
<1>14. CASE ReconnectFails
  BY <1>a, <1>14 DEF ReconnectFails, NotConnected
<1>15. CASE Read
  BY <1>a, <1>15 DEF Read
<1>16. CASE Cancel
  BY <1>a, <1>16 DEF Cancel
<1>17. CASE DBClose
  BY <1>a, <1>17 DEF DBClose
<1>18. CASE Notify
  BY <1>a, <1>18 DEF Notify
<1>19. CASE Lose
  <2>1. faults' \in 0 .. MaxFaults
    BY <1>a, <1>19 DEF Lose
  <2>2. up' \in BOOLEAN
    BY <1>a, <1>19 DEF Lose
  <2>3. /\ conn' = IF conn = "live" THEN "lost" ELSE conn
        /\ UNCHANGED <<sent, pool, held, pc, counted, errVars, ctxDone, closer, since, full>>
    BY <1>19 DEF Lose
  <2> QED
    BY <1>a, <2>1, <2>2, <2>3
<1>20. CASE ComeBack
  BY <1>a, <1>20 DEF ComeBack
<1>21. ASSUME NEW c \in Closers, Close(c) \/ CloseReturn(c) PROVE ControlInv'
  <2>1. closer' \in [Closers -> {"idle", "waiting", "returned"}]
    BY <1>a, <1>21 DEF Close, CloseReturn
  <2>2. /\ ctxDone' \in BOOLEAN
        /\ ctxDone => ctxDone'
    BY <1>a, <1>21 DEF Close, CloseReturn
  <2>3. UNCHANGED <<up, faults, sent, pool, held, pc, conn, counted, errors, lastErr,
                    since, full>>
    BY <1>21 DEF Close, CloseReturn, envVars, errVars, dataVars
  <2> QED
    BY <1>a, <2>1, <2>2, <2>3
<1>22. CASE UNCHANGED vars
  BY <1>a, <1>22 DEF vars
<1> QED
  BY <1>1, <1>2, <1>3, <1>4, <1>5, <1>6, <1>7, <1>8, <1>9, <1>10, <1>11, <1>12,
     <1>13, <1>14, <1>15, <1>16, <1>17, <1>18, <1>19, <1>20, <1>21, <1>22
     DEF Next, Goroutine

-----------------------------------------------------------------------------
(***************************************************************************)
(* What is pending: nothing is missed. Until its first LISTEN a listener   *)
(* has nothing, and once it has a session again it has an error to tell;   *)
(* in between only the end of the wire and the front of the channel move.  *)
(***************************************************************************)
HandEmpty == pc # "sending" => hand = 0

Fresh == pc \in {"start", "first"} => received = <<>> /\ notifCh = <<>> /\ wire = <<>>

NoSessionTells == conn = "none" /\ Returned => lastErr \/ ctxDone

PendingInv ==
    /\ since <= sent
    /\ HandEmpty
    /\ Fresh
    /\ NoSessionTells
    /\ NothingMissed

\* What was sent from a to b, in order.
SentFrom(a, b) == [i \in 1 .. (b - a) |-> a + i]

\* One more is sent.
LEMMA SentMore ==
    ASSUME NEW a \in Nat, NEW b \in Nat, a <= b
    PROVE  SentFrom(a, b + 1) = Append(SentFrom(a, b), b + 1)
<1>. DEFINE s == SentFrom(a, b)
            t == SentFrom(a, b + 1)
<1>1. s \in Seq(Nat) /\ t \in Seq(Nat) /\ Len(s) = b - a /\ Len(t) = (b - a) + 1
      /\ (\A i \in 1 .. (b - a) : s[i] = a + i) /\ (\A i \in 1 .. ((b - a) + 1) : t[i] = a + i)
  BY DEF SentFrom
<1>. HIDE DEF s, t
<1>2. /\ Append(s, b + 1) \in Seq(Nat) /\ Len(Append(s, b + 1)) = Len(t)
      /\ \A i \in 1 .. Len(s) : Append(s, b + 1)[i] = s[i]
      /\ Append(s, b + 1)[Len(s) + 1] = b + 1
  <2>1. s \in Seq(Nat) /\ b + 1 \in Nat
    BY <1>1
  <2>2. /\ Append(s, b + 1) \in Seq(Nat) /\ Len(Append(s, b + 1)) = Len(s) + 1
        /\ \A i \in 1 .. Len(s) : Append(s, b + 1)[i] = s[i]
        /\ Append(s, b + 1)[Len(s) + 1] = b + 1
    BY <2>1, AppendProperties
  <2>. QED  BY <1>1, <2>2
<1>3. \A i \in 1 .. Len(t) : t[i] = Append(s, b + 1)[i]
  BY <1>1, <1>2
<1>4. t = Append(s, b + 1)
  BY <1>1, <1>2, <1>3, SeqEqual
<1>. QED  BY <1>4 DEF s, t

\* The head of a sequence, put before its tail, gives it back.
LEMMA HeadBeforeTail ==
    ASSUME NEW s \in Notifications, s # <<>>
    PROVE  <<Head(s)>> \o Tail(s) = s
<1>1. /\ Head(s) \in 1 .. MaxSent /\ Tail(s) \in Notifications /\ Len(Tail(s)) = Len(s) - 1
      /\ \A i \in 1 .. Len(Tail(s)) : Tail(s)[i] = s[i + 1]
      /\ Head(s) = s[1] /\ Len(s) \in Nat \ {0}
  <2>1. s \in Seq(1 .. MaxSent) /\ s # <<>>
    BY DEF Notifications
  <2>2. /\ Head(s) \in 1 .. MaxSent /\ Tail(s) \in Notifications /\ Len(Tail(s)) = Len(s) - 1
        /\ \A i \in 1 .. Len(Tail(s)) : Tail(s)[i] = s[i + 1]
    BY <2>1, HeadTailProperties DEF Notifications
  <2>3. Head(s) = s[1] /\ Len(s) \in Nat /\ Len(s) # 0
    BY <2>1
  <2>. QED  BY <2>2, <2>3
<1>2. <<Head(s)>> \in Notifications /\ Len(<<Head(s)>>) = 1 /\ <<Head(s)>>[1] = Head(s)
  BY <1>1 DEF Notifications
<1>. DEFINE h == <<Head(s)>>
            u == Tail(s)
<1>. HIDE DEF h, u
<1>3. /\ h \o u \in Notifications /\ Len(h \o u) = Len(s)
      /\ \A i \in 1 .. Len(s) : (h \o u)[i] = IF i <= 1 THEN h[i] ELSE u[i - 1]
  BY <1>1, <1>2, ConcatProperties DEF Notifications, h, u
<1>4. \A i \in 1 .. Len(s) : (h \o u)[i] = s[i]
  BY <1>1, <1>2, <1>3 DEF h, u
<1>5. h \o u = s
  BY <1>3, <1>4, SeqEqual DEF Notifications
<1>. QED  BY <1>5 DEF h, u

\* An element goes from the front of one sequence to the end of the one before it.
LEMMA HeadMoves ==
    ASSUME NEW s \in Notifications, NEW t \in Notifications, t # <<>>
    PROVE  Append(s, Head(t)) \o Tail(t) = s \o t
<1>1. Head(t) \in 1 .. MaxSent /\ Tail(t) \in Notifications
  BY HeadTailIsData
<1>2. <<Head(t)>> \in Notifications
  BY <1>1 DEF Notifications
<1>3. Append(s, Head(t)) = s \o <<Head(t)>>
  BY <1>1, AppendIsConcat DEF Notifications
<1>4. (s \o <<Head(t)>>) \o Tail(t) = s \o (<<Head(t)>> \o Tail(t))
  BY <1>1, <1>2, ConcatAssociative DEF Notifications
<1>. QED  BY <1>3, <1>4, HeadBeforeTail

\* An element is put at the end of the last sequence.
LEMMA AppendMoves ==
    ASSUME NEW s \in Notifications, NEW t \in Notifications, NEW n \in 1 .. MaxSent
    PROVE  s \o Append(t, n) = Append(s \o t, n)
<1>1. <<n>> \in Notifications
  BY DEF Notifications
<1>2. s \o t \in Notifications
  BY ConcatProperties DEF Notifications
<1>3. Append(t, n) = t \o <<n>> /\ Append(s \o t, n) = (s \o t) \o <<n>>
  BY <1>2, AppendIsConcat DEF Notifications
<1>4. (s \o t) \o <<n>> = s \o (t \o <<n>>)
  BY <1>1, ConcatAssociative DEF Notifications
<1>. QED  BY <1>3, <1>4

\* The steps that leave what is pending alone.
LEMMA PendingStays ==
    ASSUME PendingInv, UNCHANGED <<sent, since, received, notifCh, hand, wire>>,
           pc' = "sending" <=> pc = "sending", pc' \notin {"start", "first"},
           conn' = "live" /\ ~lastErr' /\ ~full' /\ ~ctxDone'
             => conn = "live" /\ ~lastErr /\ ~full /\ ~ctxDone,
           NoSessionTells'
    PROVE  PendingInv'
BY DEF PendingInv, HandEmpty, Fresh, NothingMissed, Pending

\* The steps that come after an error, or at the end, or leave no live session.
LEMMA PendingFree ==
    ASSUME PendingInv, UNCHANGED <<sent, since>>,
           hand' = 0, pc' \notin {"start", "first", "sending"},
           conn' # "live" \/ lastErr' \/ full' \/ ctxDone',
           NoSessionTells'
    PROVE  PendingInv'
BY DEF PendingInv, HandEmpty, Fresh, NothingMissed

\* No step loses, doubles or reorders what is pending.
LEMMA PendingStep == IInv /\ PendingInv /\ [Next]_vars => PendingInv'
<1>. SUFFICES ASSUME IInv, PendingInv, [Next]_vars PROVE PendingInv'
  OBVIOUS
<1>. USE ListenerAssumption DEF envVars, errVars, dataVars
<1>a. /\ DataOK /\ HandFull /\ ControlOK /\ NoConnThere
      /\ since <= sent /\ HandEmpty /\ Fresh /\ NoSessionTells /\ NothingMissed
  BY DEF IInv, DataInv, ControlInv, PendingInv
<1>1. CASE Listen
  BY <1>a, <1>1 DEF Listen, PendingInv, HandEmpty, Fresh, NoSessionTells, Returned,
                    NothingMissed, NoConnThere, Unconnected
<1>2. CASE FirstListen
  <2>1. received = <<>> /\ notifCh = <<>> /\ wire = <<>> /\ hand = 0 /\ conn = "none"
    BY <1>a, <1>2 DEF FirstListen, Fresh, HandEmpty, NoConnThere, Unconnected
  <2>2. UNCHANGED <<sent, dataVars, wire>>
    BY <1>2 DEF FirstListen
  <2>3. CASE pc' = "failed"
    BY <1>a, <1>2, <2>1, <2>2, <2>3
       DEF FirstListen, PendingInv, HandEmpty, Fresh, NoSessionTells, Returned, NothingMissed
  <2>4. CASE pc' = "loop" /\ conn' = "live" /\ since' = sent
    <3>1. Pending' = <<>>
      BY <2>1, <2>2 DEF Pending
    <3>2. [i \in 1 .. (sent' - since') |-> since' + i] = <<>>
      BY <1>a, <2>2, <2>4 DEF ControlOK
    <3>3. since' <= sent'
      BY <1>a, <2>2, <2>4 DEF ControlOK
    <3>. QED  BY <2>1, <2>2, <2>4, <3>1, <3>2, <3>3
              DEF PendingInv, HandEmpty, Fresh, NoSessionTells, NothingMissed
  <2>. QED  BY <1>2, <2>3, <2>4 DEF FirstListen
<1>3. CASE Loop
  <2>1. CASE ctxDone
    BY <1>a, <1>3, <2>1, PendingFree DEF Loop, End, NoSessionTells
  <2>2. CASE ~ctxDone
    BY <1>a, <1>3, <2>2, PendingStays DEF Loop, NoSessionTells, Returned
  <2>. QED  BY <2>1, <2>2
<1>4. CASE Receive
  <2>1. /\ wire # <<>> /\ hand' = Head(wire) /\ wire' = Tail(wire) /\ hand = 0
        /\ UNCHANGED <<sent, since, received, notifCh, conn, lastErr, full, ctxDone>>
        /\ pc' = "sending" /\ pc = "waiting"
    BY <1>a, <1>4 DEF Receive, HandEmpty
  <2>2. hand' # 0 /\ hand' \in 1 .. MaxSent /\ wire' \in Notifications
    BY <1>a, <2>1, HeadTailIsData DEF DataOK
  <2>3. Pending' = Pending
    <3>. DEFINE s == received \o notifCh
    <3>1. s \in Notifications
      BY <1>a, ConcatProperties DEF DataOK, Notifications
    <3>. HIDE DEF s
    <3>2. (s \o <<>>) \o wire = s \o wire
      BY <3>1, ConcatEmptySeq DEF Notifications
    <3>3. (s \o <<Head(wire)>>) \o Tail(wire) = s \o wire
      <4>1. Append(s, Head(wire)) = s \o <<Head(wire)>>
        BY <2>1, <2>2, <3>1, AppendIsConcat DEF Notifications
      <4>. QED  BY <1>a, <2>1, <3>1, <4>1, HeadMoves DEF DataOK
    <3>4. Pending = (s \o <<>>) \o wire
      BY <2>1 DEF Pending, s
    <3>5. Pending' = (s \o <<Head(wire)>>) \o Tail(wire)
      BY <2>1, <2>2 DEF Pending, s
    <3>. QED  BY <3>2, <3>3, <3>4, <3>5
  <2>. QED  BY <1>a, <2>1, <2>3
            DEF PendingInv, HandEmpty, Fresh, NoSessionTells, Returned, NothingMissed
<1>5. CASE WaitCancelled
  BY <1>a, <1>5, PendingFree DEF WaitCancelled, End, NoSessionTells
<1>6. CASE WaitDisconnected
  BY <1>a, <1>6, PendingFree
     DEF WaitDisconnected, End, CountError, NoSessionTells, HandEmpty
<1>7. CASE WaitFails
  BY <1>a, <1>7, PendingFree DEF WaitFails, End, CountError, NoSessionTells, HandEmpty
<1>8. CASE Pause
  <2>1. CASE Continue("loop")
    BY <1>a, <1>8, <2>1, PendingStays DEF Pause, Continue, NoSessionTells, Returned
  <2>2. CASE ctxDone /\ End
    BY <1>a, <1>8, <2>2, PendingFree DEF Pause, End, NoSessionTells
  <2>. QED  BY <1>8, <2>1, <2>2 DEF Pause
<1>9. CASE Send
  <2>1. /\ hand' = 0 /\ pc' = "loop" /\ pc = "sending"
        /\ UNCHANGED <<sent, since, wire, received, conn, lastErr, ctxDone>>
        /\ hand \in 1 .. MaxSent
    BY <1>a, <1>9 DEF Send, DataOK, HandFull
  <2>2. NoSessionTells'
    BY <1>a, <2>1 DEF NoSessionTells, Returned
  <2>3. CASE Room /\ notifCh' = Append(notifCh, hand)
    <3>1. Pending' = Pending
      <4>1. received \o notifCh \in Notifications
        BY <1>a, ConcatProperties DEF DataOK, Notifications
      <4>2. received \o Append(notifCh, hand) = Append(received \o notifCh, hand)
        BY <1>a, <2>1, AppendMoves DEF DataOK
      <4>3. Append(received \o notifCh, hand) = (received \o notifCh) \o <<hand>>
        BY <2>1, <4>1, AppendIsConcat DEF Notifications
      <4>4. Append(received \o notifCh, hand) \in Notifications
        BY <2>1, <4>1, AppendIsData
      <4>5. (received \o Append(notifCh, hand)) \o <<>> = (received \o notifCh) \o <<hand>>
        BY <4>2, <4>3, <4>4, ConcatEmptySeq DEF Notifications
      <4>6. Pending' = ((received \o Append(notifCh, hand)) \o <<>>) \o wire
        BY <2>1, <2>3 DEF Pending
      <4>7. Pending = ((received \o notifCh) \o <<hand>>) \o wire
        BY <2>1 DEF Pending
      <4>. QED  BY <4>5, <4>6, <4>7
    <3>2. full => full'
      BY <1>9 DEF Send
    <3>. QED  BY <1>a, <2>1, <2>2, <3>1, <3>2
              DEF PendingInv, HandEmpty, Fresh, NothingMissed
  <2>4. CASE ~Room
    <3>1. full'
      <4>1. Len(notifCh) \in Nat /\ Len(notifCh) <= ChanSize
        BY <1>a, LenProperties DEF DataOK, Notifications
      <4>2. Len(notifCh) = ChanSize
        BY <2>4, <4>1, ListenerAssumption DEF Room
      <4>. QED  BY <1>9, <4>2 DEF Send
    <3>. QED  BY <2>1, <2>2, <3>1, PendingFree
  <2>5. CASE ctxDone
    BY <2>1, <2>2, <2>5, PendingFree
  <2>. QED  BY <1>9, <2>3, <2>4, <2>5 DEF Send
<1>10. CASE ConnectStop
  BY <1>a, <1>10, PendingFree DEF ConnectStop, End, NoSessionTells
<1>11. CASE Acquire
  BY <1>a, <1>11, PendingStays DEF Acquire, NoSessionTells, Returned
<1>12. CASE AcquireFails
  BY <1>a, <1>12, PendingFree DEF AcquireFails, NotConnected, NoSessionTells, HandEmpty
<1>13. CASE Reconnect
  <2>1. conn = "none" /\ lastErr /\ hand = 0
    BY <1>a, <1>13
       DEF Reconnect, NoConnThere, Unconnected, NoSessionTells, Returned, HandEmpty
  <2>. QED  BY <1>13, <2>1, PendingFree DEF Reconnect, NoSessionTells
<1>14. CASE ReconnectFails
  BY <1>a, <1>14, PendingFree DEF ReconnectFails, NotConnected, NoSessionTells, HandEmpty
<1>15. CASE Read
  <2>1. /\ received' = Append(received, Head(notifCh)) /\ notifCh' = Tail(notifCh)
        /\ notifCh # <<>> /\ Returned
        /\ UNCHANGED <<sent, since, wire, hand, pc, conn, lastErr, full, ctxDone>>
    BY <1>15 DEF Read
  <2>2. received' \o notifCh' = received \o notifCh
    BY <1>a, <2>1, HeadMoves DEF DataOK
  <2>3. Pending' = Pending
    BY <2>1, <2>2 DEF Pending
  <2>. QED  BY <1>a, <2>1, <2>3
            DEF PendingInv, HandEmpty, Fresh, NoSessionTells, Returned, NothingMissed
<1>16. CASE Notify
  <2>1. /\ sent' = sent + 1 /\ sent + 1 \in 1 .. MaxSent
        /\ UNCHANGED <<since, received, notifCh, hand, pc, conn, lastErr, full, ctxDone>>
    BY <1>a, <1>16 DEF Notify, ControlOK
  <2>2. since <= sent' /\ since \in Nat /\ sent \in Nat
    BY <1>a, <2>1 DEF ControlOK
  <2>3. CASE conn = "live"
    <3>1. wire' = Append(wire, sent + 1)
      BY <1>16, <2>1, <2>3 DEF Notify
    <3>. DEFINE s == received \o notifCh \o (IF hand = 0 THEN <<>> ELSE <<hand>>)
    <3>2. s \in Notifications
      <4>1. received \o notifCh \in Notifications
        BY <1>a, ConcatProperties DEF DataOK, Notifications
      <4>2. (IF hand = 0 THEN <<>> ELSE <<hand>>) \in Notifications
        <5>1. hand \in 0 .. MaxSent
          BY <1>a DEF DataOK
        <5>2. CASE hand = 0
          BY <5>2, EmptySeq DEF Notifications
        <5>3. CASE hand # 0
          <6>1. hand \in 1 .. MaxSent
            BY <5>1, <5>3, ListenerAssumption
          <6>2. <<hand>> \in Seq(1 .. MaxSent)
            BY <6>1
          <6>. QED  BY <5>3, <6>2 DEF Notifications
        <5>. QED  BY <5>2, <5>3
      <4>. QED  BY <4>1, <4>2, ConcatProperties DEF Notifications
    <3>3. Pending = s \o wire /\ Pending' = s \o Append(wire, sent + 1)
      BY <2>1, <3>1 DEF Pending
    <3>. HIDE DEF s
    <3>4. Pending' = Append(Pending, sent + 1)
      BY <1>a, <2>1, <3>2, <3>3, AppendMoves DEF DataOK
    <3>5. SentFrom(since, sent + 1) = Append(SentFrom(since, sent), sent + 1)
      BY <1>a, <2>2, SentMore
    <3>6. NothingMissed'
      BY <1>a, <2>1, <2>3, <3>4, <3>5 DEF NothingMissed, SentFrom
    <3>7. pc \notin {"start", "first"}
      BY <1>a, <2>3 DEF NoConnThere, Unconnected
    <3>. QED  BY <1>a, <2>1, <2>2, <3>6, <3>7
              DEF PendingInv, HandEmpty, Fresh, NoSessionTells, Returned
  <2>4. CASE conn # "live"
    BY <1>a, <1>16, <2>1, <2>2, <2>4
       DEF Notify, PendingInv, HandEmpty, Fresh, NoSessionTells, Returned, NothingMissed
  <2>. QED  BY <2>3, <2>4
<1>17. CASE Lose
  <2>1. /\ conn' # "live" /\ (conn' = "none" <=> conn = "none")
        /\ UNCHANGED <<sent, since, received, notifCh, hand, pc, lastErr, ctxDone>>
        /\ \E k \in 0 .. Len(wire) : wire' = SubSeq(wire, 1, k)
    BY <1>a, <1>17 DEF Lose, ControlOK
  <2>2. wire = <<>> => wire' = <<>>
    BY <2>1
  <2>. QED  BY <1>a, <2>1, <2>2
            DEF PendingInv, HandEmpty, Fresh, NoSessionTells, Returned, NothingMissed
<1>18. CASE \/ Cancel \/ DBClose \/ ComeBack \/ UNCHANGED vars
            \/ \E c \in Closers : Close(c) \/ CloseReturn(c)
  <2>1. /\ UNCHANGED <<sent, since, received, notifCh, hand, wire, pc, conn, lastErr, full>>
        /\ ctxDone => ctxDone'
    BY <1>a, <1>18 DEF Cancel, DBClose, ComeBack, Close, CloseReturn, vars, ControlOK
  <2>. QED  BY <1>a, <2>1
            DEF PendingInv, HandEmpty, Fresh, NoSessionTells, Returned, NothingMissed, Pending
<1>. QED
  BY <1>1, <1>2, <1>3, <1>4, <1>5, <1>6, <1>7, <1>8, <1>9, <1>10, <1>11, <1>12, <1>13,
     <1>14, <1>15, <1>16, <1>17, <1>18 DEF Next, Goroutine

-----------------------------------------------------------------------------
THEOREM IInvHolds == Spec => []IInv
<1>1. IInv /\ [Next]_vars => IInv'
  BY DataStep, ControlStep DEF IInv
<1> QED
  BY InitInv, <1>1, PTL DEF Spec

\* Types, with the capacity of notifCh and the limit of errors (api.go:25-26).
THEOREM TypeCorrect == Spec => []TypeOK
<1>1. IInv => TypeOK
  BY TypeParts DEF IInv, DataInv, ControlInv
<1> QED
  BY <1>1, IInvHolds, PTL

\* Reconnecting never leaks a connection of the pool (api.go:493-536).
THEOREM NoConnectionLeaks == Spec => []NoConnLeak
<1>1. IInv => NoConnLeak
  BY DEF IInv, ControlInv
<1> QED
  BY <1>1, IInvHolds, PTL

\* A listener that ended without being told to had MaxErrors errors in a row and
\* reports one of them (api.go:371-401, 420-432).
THEOREM NeverEndsInSilence == Spec => []EndsForAReason
<1>1. IInv => EndsForAReason
  BY DEF IInv, ControlInv
<1> QED
  BY <1>1, IInvHolds, PTL

\* A reader who sees no error and whose channel was never full has been sent, is being
\* sent or has read all that was sent since the first LISTEN, once and in order
\* (api.go:403-418, 434-470).
THEOREM NothingIsMissed == Spec => []NothingMissed
<1>1. Init => PendingInv
  BY DEF Init, PendingInv, HandEmpty, Fresh, NoSessionTells, Returned, NothingMissed
<1>2. PendingInv => NothingMissed
  BY DEF PendingInv
<1> QED
  BY <1>1, <1>2, PendingStep, IInvHolds, PTL DEF Spec
=============================================================================
