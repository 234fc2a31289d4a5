------------------------- MODULE TrapService_proofs -------------------------
(***************************************************************************)
(* What holds of TrapService for every set of packets and workers, every   *)
(* queue size, number of retries and route file.                           *)
(*                                                                         *)
(* Three invariants are proved one on top of the other.  Typing says where *)
(* the reader and each worker have a packet in hand; Ordering says in      *)
(* which order the goroutines reach their ends during Close; Holding says  *)
(* who holds every packet.  Each is inductive relative to the ones before  *)
(* it, and the properties follow from them without looking at a step.      *)
(***************************************************************************)
EXTENDS TrapService, TLAPS

Handling == {"handle", "enqueue", "recordQueued", "recordDropped", "respond"}
Busy == {"attempt", "posting", "backoff"}

Typing ==
  /\ TypeOK
  /\ packet \in Packets <=> readPC \in Handling
  /\ \A w \in Workers : job[w] \in Packets <=> workerPC[w] \in Busy
  /\ \A w \in Workers : workerPC[w] = "backoff" => attempt[w] < Retries
-----------------------------------------------------------------------------
(* Every critical section of Stats leaves a record of natural numbers.     *)
LEMMA CountersTyped ==
  ASSUME stats \in Counters
  PROVE  /\ RecordTrapReceived \in Counters
         /\ RecordTrapDecoded \in Counters
         /\ RecordTrapRejected \in Counters
         /\ RecordTrapUnmatched \in Counters
         /\ RecordTrapQueued \in Counters
         /\ RecordTrapRetry \in Counters
         /\ \A p \in Packets : /\ RecordTrapForwardSuccess(p) \in Counters
                               /\ RecordTrapForwardFailure(p) \in Counters
<1>a. RecordTrapReceived \in Counters
  BY DEF Counters, RecordTrapReceived
<1>b. RecordTrapDecoded \in Counters
  <2> DEFINE once == [stats EXCEPT !.decoded = @ + 1]
  <2>1. once \in Counters
    BY DEF Counters
  <2>2. [once EXCEPT !.matched = @ + 1] \in Counters
    <3> HIDE DEF once
    <3> QED BY <2>1 DEF Counters
  <2>3. RecordTrapDecoded = [once EXCEPT !.matched = @ + 1]
    BY DEF RecordTrapDecoded, Counters
  <2>4. QED
    BY <2>2, <2>3
<1>c. RecordTrapRejected \in Counters
  BY DEF Counters, RecordTrapRejected
<1>d. RecordTrapUnmatched \in Counters
  BY DEF Counters, RecordTrapUnmatched
<1>e. RecordTrapQueued \in Counters
  BY DEF Counters, RecordTrapQueued
<1>f. RecordTrapRetry \in Counters
  BY DEF Counters, RecordTrapRetry
<1>g. ASSUME NEW p \in Packets
      PROVE  RecordTrapForwardSuccess(p) \in Counters
  <2> DEFINE l == RouteOf(p).cidr
             once == [stats EXCEPT !.forwarded = @ + 1]
  <2>1. l \in Labels
    BY DEF Labels
  <2>2. once \in Counters
    BY DEF Counters
  <2>3. [once EXCEPT !.routeSuccesses[l] = @ + 1] \in Counters
    <3> HIDE DEF once, l
    <3> QED BY <2>1, <2>2 DEF Counters
  <2>4. RecordTrapForwardSuccess(p) = [once EXCEPT !.routeSuccesses[l] = @ + 1]
    BY DEF RecordTrapForwardSuccess, Counters
  <2>5. QED
    BY <2>3, <2>4
<1>h. ASSUME NEW p \in Packets
      PROVE  RecordTrapForwardFailure(p) \in Counters
  <2> DEFINE l == RouteOf(p).cidr
             once == [stats EXCEPT !.failed = @ + 1]
  <2>1. l \in Labels
    BY DEF Labels
  <2>2. once \in Counters
    BY DEF Counters
  <2>3. [once EXCEPT !.routeFailures[l] = @ + 1] \in Counters
    <3> HIDE DEF once, l
    <3> QED BY <2>1, <2>2 DEF Counters
  <2>4. RecordTrapForwardFailure(p) = [once EXCEPT !.routeFailures[l] = @ + 1]
    BY DEF RecordTrapForwardFailure, Counters
  <2>5. QED
    BY <2>3, <2>4
<1>i. QED
  BY <1>a, <1>b, <1>c, <1>d, <1>e, <1>f, <1>g, <1>h

(* Type correctness, with the places of packets: the reader and each       *)
(* worker have a packet in hand exactly where the code uses one.           *)
THEOREM TypingInvariant == Spec => []Typing
<1>1. Init => Typing
  <2> SUFFICES ASSUME Init PROVE Typing
    OBVIOUS
  <2>1. stats \in Counters
    BY DEF Init, NoStats, Counters
  <2>2. queue \in Seq(Packets) /\ Len(queue) <= QueueSize
    BY ConfigAssumption DEF Init
  <2>3. /\ workerPC \in [Workers -> {"idle", "attempt", "posting", "backoff", "exited"}]
        /\ job \in [Workers -> Packets \cup {NoPacket}]
        /\ attempt \in [Workers -> 0..Retries]
        /\ outcome \in [Packets -> Outcomes]
        /\ reply \in [Packets -> {"none", "sent", "failed"}]
        /\ posts \in [Packets -> Nat]
    BY ConfigAssumption DEF Init, Outcomes
  <2>4. /\ conn = "open" /\ readPC = "read" /\ packet = NoPacket
        /\ queueClosed = FALSE /\ readDone = FALSE /\ workerCtxDone = FALSE
        /\ closePC = "idle" /\ closeResult = "none" /\ deadlinePassed = FALSE
        /\ \A w \in Workers : job[w] = NoPacket /\ workerPC[w] = "idle"
    BY DEF Init
  <2>5. QED
    BY <2>1, <2>2, <2>3, <2>4, PacketAssumption DEF Typing, TypeOK, Handling, Busy
<1>2. Typing /\ [Next]_vars => Typing'
  <2> SUFFICES ASSUME Typing, [Next]_vars
               PROVE  Typing'
    OBVIOUS
  <2> USE PacketAssumption, ConfigAssumption DEF Typing, TypeOK, Handling, Busy
  <2>1. ASSUME NEW p \in Packets, Receive(p)
        PROVE  Typing'
    BY <2>1, CountersTyped DEF Receive, ReaderUnchanged, workerVars, closeVars, Become, Outcomes
  <2>2. CASE ReadFails
    BY <2>2, CountersTyped DEF ReadFails, ReaderUnchanged, workerVars, closeVars
  <2>3. CASE CloseReadDone
    BY <2>3, CountersTyped DEF CloseReadDone, queueVars, workerVars, histVars
  <2>4. CASE ReaderExits
    BY <2>4, CountersTyped DEF ReaderExits, ReaderUnchanged, workerVars, closeVars
  <2>5. CASE Reject
    BY <2>5, CountersTyped DEF Reject, ReadNext, Become, Outcomes, ReaderUnchanged, workerVars, closeVars
  <2>6. CASE Unrouted
    BY <2>6, CountersTyped DEF Unrouted, ReadNext, Become, Outcomes, ReaderUnchanged, workerVars, closeVars
  <2>7. CASE Accept
    BY <2>7, CountersTyped DEF Accept, Become, Outcomes, ReaderUnchanged, workerVars, closeVars
  <2>8. CASE Enqueue
    BY <2>8, CountersTyped DEF Enqueue, HasRoom, Become, Outcomes, ReaderUnchanged, workerVars, closeVars
  <2>9. CASE QueueFull
    BY <2>9, CountersTyped DEF QueueFull, ReaderUnchanged, workerVars, closeVars
  <2>10. CASE RecordQueued
    BY <2>10, CountersTyped DEF RecordQueued, Acknowledge, ReadNext, ReaderUnchanged, workerVars, closeVars
  <2>11. CASE RecordDropped
    BY <2>11, CountersTyped DEF RecordDropped, Acknowledge, ReadNext, Become, Outcomes, ReaderUnchanged, workerVars, closeVars
  <2>12. CASE Respond
    BY <2>12, CountersTyped DEF Respond, ReadNext, ReaderUnchanged, workerVars, closeVars
  <2>13. ASSUME NEW w \in Workers, WorkerStep(w)
         PROVE  Typing'
    <3>1. CASE Take(w)
      BY <3>1, <2>13, CountersTyped DEF Take, WorkerUnchanged, readerVars, closeVars
    <3>2. CASE WorkerExits(w)
      BY <3>2, <2>13, CountersTyped DEF WorkerExits, WorkerUnchanged, readerVars, closeVars
    <3>3. CASE MarshalFails(w)
      BY <3>3, <2>13, CountersTyped DEF MarshalFails, GiveUp, AwaitJob, Become, Outcomes, WorkerUnchanged, readerVars, closeVars
    <3>4. CASE StartPost(w)
      BY <3>4, <2>13, CountersTyped DEF StartPost, WorkerUnchanged, readerVars, closeVars
    <3>5. CASE Answered2xx(w)
      BY <3>5, <2>13, CountersTyped DEF Answered2xx, AwaitJob, Become, Outcomes, WorkerUnchanged, readerVars, closeVars
    <3>6. CASE AnsweredFinal(w)
      BY <3>6, <2>13, CountersTyped DEF AnsweredFinal, GiveUp, AwaitJob, Become, Outcomes, WorkerUnchanged, readerVars, closeVars
    <3>7. CASE PostFails(w)
      <4>1. CASE RetriesLeft(w)
        <5>1. /\ stats' = RecordTrapRetry
              /\ workerPC' = [workerPC EXCEPT ![w] = "backoff"]
              /\ UNCHANGED <<job, attempt, outcome>>
          BY <4>1, <3>7 DEF PostFails, RetryOrGiveUp
        <5>2. UNCHANGED <<queue, posts>> /\ WorkerUnchanged /\ workerPC[w] \in Busy
          BY <3>7 DEF PostFails
        <5>3. QED
          BY <4>1, <5>1, <5>2, <2>13, CountersTyped
          DEF RetriesLeft, WorkerUnchanged, readerVars, closeVars
      <4>2. CASE ~RetriesLeft(w)
        <5>1. GiveUp(w, "exhausted")
          BY <4>2, <3>7 DEF PostFails, RetryOrGiveUp
        <5>2. UNCHANGED <<queue, posts>> /\ WorkerUnchanged /\ workerPC[w] \in Busy
          BY <3>7 DEF PostFails
        <5>3. QED
          BY <5>1, <5>2, <2>13, CountersTyped
          DEF GiveUp, AwaitJob, Become, Outcomes, WorkerUnchanged, readerVars, closeVars
      <4>3. QED
        BY <4>1, <4>2
    <3>8. CASE PostRefused(w)
      <4>1. CASE RetriesLeft(w)
        <5>1. /\ stats' = RecordTrapRetry
              /\ workerPC' = [workerPC EXCEPT ![w] = "backoff"]
              /\ UNCHANGED <<job, attempt, outcome>>
          BY <4>1, <3>8 DEF PostRefused, RetryOrGiveUp
        <5>2. UNCHANGED <<queue, posts>> /\ WorkerUnchanged /\ workerPC[w] \in Busy
          BY <3>8 DEF PostRefused
        <5>3. QED
          BY <4>1, <5>1, <5>2, <2>13, CountersTyped
          DEF RetriesLeft, WorkerUnchanged, readerVars, closeVars
      <4>2. CASE ~RetriesLeft(w)
        <5>1. GiveUp(w, "exhausted")
          BY <4>2, <3>8 DEF PostRefused, RetryOrGiveUp
        <5>2. UNCHANGED <<queue, posts>> /\ WorkerUnchanged /\ workerPC[w] \in Busy
          BY <3>8 DEF PostRefused
        <5>3. QED
          BY <5>1, <5>2, <2>13, CountersTyped
          DEF GiveUp, AwaitJob, Become, Outcomes, WorkerUnchanged, readerVars, closeVars
      <4>3. QED
        BY <4>1, <4>2
    <3>9. CASE TimerFires(w)
      BY <3>9, <2>13, CountersTyped DEF TimerFires, WorkerUnchanged, readerVars, closeVars
    <3>10. CASE Canceled(w)
      BY <3>10, <2>13, CountersTyped DEF Canceled, AwaitJob, Become, Outcomes, WorkerUnchanged, readerVars, closeVars
    <3>11. QED
      BY <2>13, <3>1, <3>2, <3>3, <3>4, <3>5, <3>6, <3>7, <3>8, <3>9, <3>10 DEF WorkerStep
  <2>14. CASE CloseSocket
    BY <2>14 DEF CloseSocket, CloseUnchanged, readerVars, workerVars, histVars
  <2>15. CASE CloseQueue
    BY <2>15 DEF CloseQueue, CloseUnchanged, readerVars, workerVars, histVars
  <2>16. CASE Drained
    BY <2>16 DEF Drained, CloseUnchanged, readerVars, workerVars, histVars
  <2>17. CASE DeadlineHit
    BY <2>17 DEF DeadlineHit, CloseUnchanged, readerVars, workerVars, histVars
  <2>18. CASE CloseReturns
    BY <2>18 DEF CloseReturns, CloseUnchanged, readerVars, workerVars, histVars
  <2>19. CASE DeadlinePasses
    BY <2>19 DEF DeadlinePasses, CloseUnchanged, readerVars, workerVars, histVars
  <2>20. CASE Terminated \/ UNCHANGED vars
    BY <2>20 DEF Terminated, vars
  <2>21. QED
    BY <2>1, <2>2, <2>3, <2>4, <2>5, <2>6, <2>7, <2>8, <2>9, <2>10, <2>11, <2>12, <2>13, <2>14, <2>15, <2>16, <2>17, <2>18, <2>19, <2>20 DEF Next, ReaderStep, CloseStep
<1>3. QED
  BY <1>1, <1>2, PTL DEF Spec
-----------------------------------------------------------------------------
(* The order of events during Close: the reader ends before the channel is *)
(* closed, the channel is closed and empty before a worker ends, everyone  *)
(* has ended before Close returns; the workers' context is canceled only   *)
(* by the shutdown deadline while a worker still runs.                     *)
Ordering ==
  /\ readDone <=> readPC \in {"stopped", "exited"}
  /\ queueClosed <=> closePC \in {"waiting", "draining", "returned"}
  /\ queueClosed => readDone
  /\ \A w \in Workers : workerPC[w] = "exited" => queueClosed /\ queue = <<>>
  /\ closePC = "returned" => AllExited
  /\ workerCtxDone => closePC \in {"draining", "returned"}
  /\ closeResult # "none" <=> closePC = "returned"
  /\ closePC = "draining" \/ closeResult = "deadline" => deadlinePassed

(* Every step of the reader, the workers and Close keeps that order.        *)
LEMMA OrderingStep == Typing /\ Ordering /\ [Next]_vars => Ordering'
<1> SUFFICES ASSUME Typing, Ordering, [Next]_vars
             PROVE  Ordering'
  OBVIOUS
<1> USE DEF Typing, TypeOK, Ordering, AllExited
<1>1. ASSUME NEW p \in Packets, Receive(p)
      PROVE  Ordering'
  BY <1>1 DEF Receive, ReaderUnchanged, workerVars, closeVars
<1>2. CASE ReadFails
  BY <1>2 DEF ReadFails, ReaderUnchanged, workerVars, closeVars
<1>3. CASE CloseReadDone
  BY <1>3 DEF CloseReadDone, queueVars, workerVars
<1>4. CASE ReaderExits
  BY <1>4 DEF ReaderExits, ReaderUnchanged, workerVars, closeVars
<1>5. CASE Reject
  BY <1>5 DEF Reject, ReadNext, ReaderUnchanged, workerVars, closeVars
<1>6. CASE Unrouted
  BY <1>6 DEF Unrouted, ReadNext, ReaderUnchanged, workerVars, closeVars
<1>7. CASE Accept
  BY <1>7 DEF Accept, ReaderUnchanged, workerVars, closeVars
<1>8. CASE Enqueue
  BY <1>8 DEF Enqueue, ReaderUnchanged, workerVars, closeVars
<1>9. CASE QueueFull
  BY <1>9 DEF QueueFull, ReaderUnchanged, workerVars, closeVars
<1>10. CASE RecordQueued
  BY <1>10 DEF RecordQueued, Acknowledge, ReadNext, ReaderUnchanged, workerVars, closeVars
<1>11. CASE RecordDropped
  BY <1>11 DEF RecordDropped, Acknowledge, ReadNext, ReaderUnchanged, workerVars, closeVars
<1>12. CASE Respond
  BY <1>12 DEF Respond, ReadNext, ReaderUnchanged, workerVars, closeVars
<1>13. ASSUME NEW w \in Workers, WorkerStep(w)
       PROVE  Ordering'
  <2>1. CASE Take(w)
    BY <2>1, <1>13 DEF Take, WorkerUnchanged, readerVars, closeVars
  <2>2. CASE WorkerExits(w)
    BY <2>2, <1>13 DEF WorkerExits, MayExit, WorkerUnchanged, readerVars, closeVars
  <2>3. CASE MarshalFails(w)
    BY <2>3, <1>13 DEF MarshalFails, GiveUp, AwaitJob, WorkerUnchanged, readerVars, closeVars
  <2>4. CASE StartPost(w)
    BY <2>4, <1>13 DEF StartPost, WorkerUnchanged, readerVars, closeVars
  <2>5. CASE Answered2xx(w)
    BY <2>5, <1>13 DEF Answered2xx, AwaitJob, WorkerUnchanged, readerVars, closeVars
  <2>6. CASE AnsweredFinal(w)
    BY <2>6, <1>13 DEF AnsweredFinal, GiveUp, AwaitJob, WorkerUnchanged, readerVars, closeVars
  <2>7. CASE PostFails(w)
    BY <2>7, <1>13 DEF PostFails, RetryOrGiveUp, GiveUp, AwaitJob, WorkerUnchanged, readerVars, closeVars
  <2>8. CASE PostRefused(w)
    BY <2>8, <1>13 DEF PostRefused, RetryOrGiveUp, GiveUp, AwaitJob, WorkerUnchanged, readerVars, closeVars
  <2>9. CASE TimerFires(w)
    BY <2>9, <1>13 DEF TimerFires, WorkerUnchanged, readerVars, closeVars
  <2>10. CASE Canceled(w)
    BY <2>10, <1>13 DEF Canceled, AwaitJob, WorkerUnchanged, readerVars, closeVars
  <2>11. QED
    BY <1>13, <2>1, <2>2, <2>3, <2>4, <2>5, <2>6, <2>7, <2>8, <2>9, <2>10 DEF WorkerStep
<1>14. CASE CloseSocket
  BY <1>14 DEF CloseSocket, CloseUnchanged, readerVars, workerVars
<1>15. CASE CloseQueue
  BY <1>15 DEF CloseQueue, MayCloseQueue, CloseUnchanged, readerVars, workerVars
<1>16. CASE Drained
  BY <1>16 DEF Drained, CloseUnchanged, readerVars, workerVars
<1>17. CASE DeadlineHit
  BY <1>17 DEF DeadlineHit, MayCancel, CloseUnchanged, readerVars, workerVars
<1>18. CASE CloseReturns
  BY <1>18 DEF CloseReturns, MayReturn, CloseUnchanged, readerVars, workerVars
<1>19. CASE DeadlinePasses
  BY <1>19 DEF DeadlinePasses, CloseUnchanged, readerVars, workerVars
<1>20. CASE Terminated \/ UNCHANGED vars
  BY <1>20 DEF Terminated, vars
<1>21. QED
  BY <1>1, <1>2, <1>3, <1>4, <1>5, <1>6, <1>7, <1>8, <1>9, <1>10, <1>11, <1>12, <1>13, <1>14, <1>15, <1>16, <1>17, <1>18, <1>19, <1>20 DEF Next, ReaderStep, CloseStep

(* Shutdown runs in that order in every behaviour: reader, channel,        *)
(* workers, Close.                                                         *)
THEOREM OrderingInvariant == Spec => []Ordering
<1>1. Init => Ordering
  BY DEF Init, Ordering, AllExited
<1>2. QED
  BY <1>1, OrderingStep, TypingInvariant, PTL DEF Spec

(* The values and places of the type invariant, for every instance.        *)
THEOREM TypeCorrect == Spec => []TypeOK
<1>1. Typing => TypeOK
  BY DEF Typing
<1>2. QED
  BY <1>1, TypingInvariant, PTL

(* close(s.queue) in Close and the send in handlePacket: the reader has    *)
(* closed readDone, hence left its loop, before the channel is closed, so  *)
(* the send never panics.                                                  *)
THEOREM SendSafety == Spec => []NoSendOnClosedQueue
<1>1. Ordering => NoSendOnClosedQueue
  BY DEF Ordering, NoSendOnClosedQueue
<1>2. QED
  BY <1>1, OrderingInvariant, PTL

(* Whichever select branch Close took, it returns after the reader and     *)
(* every worker are gone, and no job is left in the channel.               *)
THEOREM Quiescence == Spec => []QuiescentAfterClose
<1>1. Ordering => QuiescentAfterClose
  BY ConfigAssumption DEF Ordering, QuiescentAfterClose, AllExited
<1>2. QED
  BY <1>1, OrderingInvariant, PTL
-----------------------------------------------------------------------------
(* Who holds a packet.  Custody alone is not inductive: a step needs to    *)
(* know that the packet in the reader's hand is in no other place, and     *)
(* that whatever was answered or canceled got so far in the proper order.  *)
HandedOver == PastQueue \cup {"queue_full"}

Holding ==
  /\ Custody
  /\ \A p \in Packets : outcome[p] = "received" <=> readPC = "handle" /\ packet = p
  /\ readPC \in {"recordQueued", "respond"} => outcome[packet] \in HandedOver
  /\ readPC = "respond" => IsInform(packet)
  /\ \A p \in Packets : reply[p] # "none" => IsInform(p) /\ outcome[p] \in HandedOver

(* Append at the end and Tail at the front keep a sequence free of         *)
(* repetitions and change its set of elements by the one element moved.    *)
LEMMA AppendElement ==
  ASSUME NEW S, NEW s \in Seq(S), NEW e \in S,
         \A i, j \in DOMAIN s : s[i] = s[j] => i = j,
         \A i \in DOMAIN s : s[i] # e
  PROVE  /\ \A x : (\E i \in DOMAIN Append(s, e) : Append(s, e)[i] = x)
                     <=> x = e \/ \E i \in DOMAIN s : s[i] = x
         /\ \A i, j \in DOMAIN Append(s, e) : Append(s, e)[i] = Append(s, e)[j] => i = j
<1> DEFINE t == Append(s, e)
<1>1. /\ DOMAIN s = 1..Len(s) /\ DOMAIN t = 1..(Len(s) + 1) /\ Len(s) \in Nat
      /\ \A i \in 1..Len(s) : t[i] = s[i]
      /\ t[Len(s) + 1] = e
  OBVIOUS
<1>2. QED
  <2> HIDE DEF t
  <2>1. \A i \in DOMAIN t : i \in DOMAIN s \/ i = Len(s) + 1
    BY <1>1
  <2>2. \A i \in DOMAIN s : i \in DOMAIN t /\ t[i] = s[i]
    BY <1>1
  <2>3. Len(s) + 1 \in DOMAIN t
    BY <1>1
  <2>4. \A x : (\E i \in DOMAIN t : t[i] = x) <=> x = e \/ \E i \in DOMAIN s : s[i] = x
    BY <1>1, <2>1, <2>2, <2>3
  <2>5. \A i, j \in DOMAIN t : t[i] = t[j] => i = j
    BY <1>1, <2>1, <2>2
  <2>6. QED
    BY <2>4, <2>5 DEF t

(* The same for the receive of a worker, which takes the first element.    *)
LEMMA TailElement ==
  ASSUME NEW S, NEW s \in Seq(S), s # <<>>,
         \A i, j \in DOMAIN s : s[i] = s[j] => i = j
  PROVE  /\ Head(s) \in S
         /\ \E i \in DOMAIN s : s[i] = Head(s)
         /\ \A x : (\E i \in DOMAIN Tail(s) : Tail(s)[i] = x)
                     <=> x # Head(s) /\ \E i \in DOMAIN s : s[i] = x
         /\ \A i, j \in DOMAIN Tail(s) : Tail(s)[i] = Tail(s)[j] => i = j
<1> DEFINE t == Tail(s)
<1>1. /\ DOMAIN s = 1..Len(s) /\ DOMAIN t = 1..(Len(s) - 1)
      /\ Len(s) \in Nat /\ Len(s) > 0
      /\ \A i \in 1..(Len(s) - 1) : t[i] = s[i + 1]
      /\ Head(s) = s[1] /\ Head(s) \in S
  OBVIOUS
<1>2. QED
  <2> HIDE DEF t
  <2>1. \A x : (\E i \in DOMAIN t : t[i] = x)
                 => x # s[1] /\ \E i \in DOMAIN s : s[i] = x
    BY <1>1
  <2>2. ASSUME NEW i \in DOMAIN s, s[i] # s[1]
        PROVE  i - 1 \in DOMAIN t /\ t[i - 1] = s[i]
    BY <1>1, <2>2
  <2>3. \A i, j \in DOMAIN t : t[i] = t[j] => i = j
    BY <1>1
  <2>4. \E i \in DOMAIN s : s[i] = Head(s)
    BY <1>1
  <2>5. \A x : (\E i \in DOMAIN t : t[i] = x)
                 <=> x # s[1] /\ \E i \in DOMAIN s : s[i] = x
    BY <2>1, <2>2
  <2>6. QED
    BY <1>1, <2>3, <2>4, <2>5 DEF t

Settled == {"forwarded", "refused", "exhausted", "unencodable", "canceled"}

(* A worker that settles its job takes the packet out of custody: it was   *)
(* "queued" and held by this worker alone.                                 *)
LEMMA SettleKeepsHolding ==
  ASSUME Typing, Holding, NEW w \in Workers, workerPC[w] \in Busy,
         NEW why \in Settled, Become(job[w], why), AwaitJob(w),
         UNCHANGED <<readPC, packet, queue, reply>>
  PROVE  Holding'
<1> DEFINE q == job[w]
<1>1. q \in Packets /\ q # NoPacket /\ outcome[q] = "queued"
  BY PacketAssumption DEF Typing, TypeOK, Holding, Custody
<1>2. outcome' = [outcome EXCEPT ![q] = why] /\ job' = [job EXCEPT ![w] = NoPacket]
  BY DEF Become, AwaitJob
<1>3. outcome'[q] = why /\ \A p \in Packets \ {q} : outcome'[p] = outcome[p]
  BY <1>1, <1>2 DEF Typing, TypeOK
<1>4. job'[w] = NoPacket /\ \A v \in Workers \ {w} : job'[v] = job[v] /\ job[v] # q
  BY <1>1, <1>2 DEF Typing, TypeOK, Holding, Custody
<1>5. why \notin {"unseen", "received", "decoded", "queued"} /\ why \in HandedOver
  BY DEF Settled, HandedOver, PastQueue
<1>6. ~InQueue(q)
  BY <1>1 DEF Holding, Custody
<1>7. Custody'
  <2> HIDE DEF q
  <2>1. \A p \in Packets : outcome'[p] = "decoded" <=> ReaderHolds(p)'
    BY <1>1, <1>3, <1>5 DEF Holding, Custody, ReaderHolds
  <2>2. \A p \in Packets :
          outcome'[p] = "queued" <=> InQueue(p)' \/ \E v \in Workers : job'[v] = p
    <3>1. \A p \in Packets : InQueue(p)' <=> InQueue(p)
      BY DEF InQueue
    <3>2. ASSUME NEW p \in Packets, p # q
          PROVE  (\E v \in Workers : job'[v] = p) <=> \E v \in Workers : job[v] = p
      BY <1>1, <1>4, <3>2, PacketAssumption DEF q
    <3>3. ~ \E v \in Workers : job'[v] = q
      BY <1>1, <1>4
    <3>4. QED
      BY <1>1, <1>3, <1>5, <1>6, <3>1, <3>2, <3>3 DEF Holding, Custody
  <2>3. QED
    BY <2>1, <2>2, <1>4 DEF Holding, Custody, InQueue
<1>8. QED
  <2>1. \A p \in Packets : outcome[p] \in HandedOver => outcome'[p] \in HandedOver
    BY <1>1, <1>3, <1>5
  <2>2. readPC \in Handling => packet \in Packets
    BY DEF Typing
  <2>3. QED
    BY <1>1, <1>3, <1>5, <1>7, <2>1, <2>2 DEF Holding, Handling, Typing, TypeOK

(* Steps that move no packet.                                              *)
LEMMA IdleKeepsHolding ==
  ASSUME Typing, Holding, UNCHANGED <<queue, job, outcome, reply>>,
         \/ UNCHANGED <<readPC, packet>>
         \/ /\ readPC \in {"read", "stopping", "stopped", "exited"}
            /\ readPC' \in {"read", "stopping", "stopped", "exited"}
         \/ readPC = "enqueue" /\ readPC' = "recordDropped" /\ UNCHANGED packet
         \/ /\ readPC = "recordQueued" /\ Acknowledge
  PROVE  Holding'
BY DEF Typing, TypeOK, Holding, Custody, ReaderHolds, InQueue, Acknowledge, ReadNext, IsInform

(* The reader decides on the packet in its hand, which nobody else holds.  *)
LEMMA DecideKeepsHolding ==
  ASSUME Typing, Holding, readPC = "handle", NEW what, Become(packet, what),
         UNCHANGED <<queue, job, reply>>,
         \/ what = "decoded" /\ readPC' = "enqueue" /\ packet' = packet
         \/ what \notin {"received", "decoded", "queued"} /\ readPC' = "read"
  PROVE  Holding'
<1>1. packet \in Packets /\ outcome[packet] = "received"
  BY DEF Typing, Handling, Holding
<1>2. outcome'[packet] = what /\ \A p \in Packets \ {packet} : outcome'[p] = outcome[p]
  BY <1>1 DEF Become, Typing, TypeOK
<1>3. \A p \in Packets \ {packet} : outcome[p] # "received" /\ outcome[p] # "decoded"
  BY DEF Holding, Custody, ReaderHolds
<1>4. \A p \in Packets : outcome[p] \in HandedOver => outcome'[p] \in HandedOver
  BY <1>1, <1>2 DEF HandedOver, PastQueue
<1>5. Custody'
  <2>1. \A p \in Packets : outcome'[p] = "decoded" <=> ReaderHolds(p)'
    BY <1>2, <1>3 DEF ReaderHolds
  <2>2. \A p \in Packets :
          outcome'[p] = "queued" <=> InQueue(p) \/ \E w \in Workers : job[w] = p
    BY <1>1, <1>2 DEF Holding, Custody
  <2>3. QED
    BY <2>1, <2>2 DEF Holding, Custody, InQueue
<1>6. \A p \in Packets : outcome'[p] = "received" <=> readPC' = "handle" /\ packet' = p
  BY <1>2, <1>3
<1>7. QED
  BY <1>4, <1>5, <1>6 DEF Holding

(* Every step hands a packet from one holder to the next or settles it.    *)
LEMMA HoldingStep == Typing /\ Ordering /\ Holding /\ [Next]_vars => Holding'
<1> SUFFICES ASSUME Typing, Ordering, Holding, [Next]_vars
             PROVE  Holding'
  OBVIOUS
<1> USE DEF Handling
<1>1. ASSUME NEW p \in Packets, Receive(p)
      PROVE  Holding'
  <2>1. /\ readPC = "read" /\ readPC' = "handle" /\ packet' = p
        /\ outcome[p] = "unseen" /\ outcome'[p] = "received"
        /\ \A o \in Packets \ {p} : outcome'[o] = outcome[o] /\ outcome[o] # "received"
        /\ UNCHANGED <<queue, job, reply>>
    BY <1>1 DEF Receive, Become, ReaderUnchanged, workerVars, Typing, TypeOK, Holding
  <2>2. \A o \in Packets : outcome[o] \in HandedOver => outcome'[o] \in HandedOver
    BY <2>1 DEF HandedOver, PastQueue
  <2>3. Custody'
    BY <2>1 DEF Holding, Custody, ReaderHolds, InQueue
  <2>4. QED
    BY <2>1, <2>2, <2>3 DEF Holding
<1>2. CASE ReadFails \/ CloseReadDone \/ ReaderExits
  BY <1>2, IdleKeepsHolding
  DEF ReadFails, CloseReadDone, ReaderExits, queueVars, histVars, ReaderUnchanged, workerVars,
      closeVars
<1>3. CASE Reject
  <2>1. Verdict(packet) \notin {"received", "decoded", "queued"}
    BY <1>3 DEF Reject, Refusals
  <2>2. QED
    BY <1>3, <2>1, DecideKeepsHolding DEF Reject, ReadNext, ReaderUnchanged, workerVars
<1>4. CASE Unrouted
  BY <1>4, DecideKeepsHolding DEF Unrouted, ReadNext, ReaderUnchanged, workerVars
<1>5. CASE Accept
  BY <1>5, DecideKeepsHolding DEF Accept, ReaderUnchanged, workerVars
<1>6. CASE Enqueue
  <2>1. /\ packet \in Packets /\ outcome[packet] = "decoded"
        /\ queue \in Seq(Packets) /\ queue' = Append(queue, packet)
    BY <1>6 DEF Enqueue, Typing, TypeOK, Holding, Custody, ReaderHolds
  <2>2. \A i \in DOMAIN queue : queue[i] # packet
    BY <2>1 DEF Holding, Custody, InQueue
  <2>3. /\ \A x : InQueue(x)' <=> x = packet \/ InQueue(x)
        /\ \A i, j \in DOMAIN queue' : queue'[i] = queue'[j] => i = j
    BY <2>1, <2>2, AppendElement DEF Holding, Custody, InQueue
  <2>4. \A w \in Workers : job[w] # packet
    BY <2>1 DEF Holding, Custody
  <2>5. QED
    BY <1>6, <2>1, <2>3, <2>4
    DEF Enqueue, Become, ReaderUnchanged, workerVars, closeVars, Typing, TypeOK, Holding,
        Custody, ReaderHolds, HandedOver, PastQueue
<1>7. CASE QueueFull \/ RecordQueued
  BY <1>7, IdleKeepsHolding
  DEF QueueFull, RecordQueued, ReaderUnchanged, workerVars, closeVars
<1>8. CASE RecordDropped
  <2>1. packet \in Packets /\ outcome[packet] = "decoded"
    BY <1>8 DEF RecordDropped, Typing, Holding, Custody, ReaderHolds
  <2>2. QED
    BY <1>8, <2>1
    DEF RecordDropped, Acknowledge, ReadNext, IsInform, Become, ReaderUnchanged, workerVars,
        closeVars, Typing, TypeOK, Holding, Custody, ReaderHolds, InQueue, HandedOver, PastQueue
<1>9. CASE Respond
  BY <1>9
  DEF Respond, ReadNext, IsInform, ReaderUnchanged, workerVars, closeVars, Typing, TypeOK,
      Holding, Custody, ReaderHolds, InQueue
<1>10. ASSUME NEW w \in Workers, WorkerStep(w)
       PROVE  Holding'
  <2> USE DEF WorkerUnchanged, readerVars, closeVars
  <2>1. CASE Take(w)
    <3>1. /\ queue \in Seq(Packets) /\ queue # <<>>
          /\ queue' = Tail(queue) /\ job' = [job EXCEPT ![w] = Head(queue)]
          /\ job[w] \notin Packets
      BY <2>1 DEF Take, Typing, TypeOK, Busy
    <3>2. /\ Head(queue) \in Packets /\ InQueue(Head(queue))
          /\ \A x : InQueue(x)' <=> x # Head(queue) /\ InQueue(x)
          /\ \A i, j \in DOMAIN queue' : queue'[i] = queue'[j] => i = j
      BY <3>1, TailElement DEF Holding, Custody, InQueue
    <3>3. /\ job'[w] = Head(queue)
          /\ \A v \in Workers \ {w} : job'[v] = job[v] /\ job[v] # Head(queue)
      BY <3>1, <3>2, PacketAssumption DEF Typing, TypeOK, Holding, Custody
    <3>4. \A p \in Packets :
            InQueue(p)' \/ (\E v \in Workers : job'[v] = p)
              <=> InQueue(p) \/ \E v \in Workers : job[v] = p
      BY <3>1, <3>2, <3>3
    <3>5. Custody'
      BY <2>1, <3>2, <3>3, <3>4 DEF Take, Holding, Custody, ReaderHolds
    <3>6. QED
      BY <2>1, <3>5 DEF Take, Holding
  <2>2. CASE WorkerExits(w) \/ StartPost(w) \/ TimerFires(w)
    BY <2>2, IdleKeepsHolding DEF WorkerExits, StartPost, TimerFires
  <2>3. CASE MarshalFails(w)
    BY <2>3, SettleKeepsHolding DEF MarshalFails, GiveUp, Settled, Busy
  <2>4. CASE Answered2xx(w)
    BY <2>4, SettleKeepsHolding DEF Answered2xx, Settled, Busy
  <2>5. CASE AnsweredFinal(w)
    BY <2>5, SettleKeepsHolding DEF AnsweredFinal, GiveUp, Settled, Busy
  <2>6. CASE PostFails(w) \/ PostRefused(w)
    <3>1. /\ workerPC[w] \in Busy /\ RetryOrGiveUp(w)
          /\ UNCHANGED <<readPC, packet, queue, reply>>
      BY <2>6 DEF PostFails, PostRefused, Busy
    <3>2. CASE UNCHANGED <<job, outcome>>
      BY <3>1, <3>2, IdleKeepsHolding
    <3>3. CASE GiveUp(w, "exhausted")
      BY <3>1, <3>3, SettleKeepsHolding DEF GiveUp, Settled
    <3>4. QED
      BY <3>1, <3>2, <3>3 DEF RetryOrGiveUp
  <2>7. CASE Canceled(w)
    BY <2>7, SettleKeepsHolding DEF Canceled, Settled, Busy
  <2>8. QED
    BY <1>10, <2>1, <2>2, <2>3, <2>4, <2>5, <2>6, <2>7 DEF WorkerStep
<1>11. CASE CloseSocket \/ CloseStep \/ DeadlinePasses
  BY <1>11, IdleKeepsHolding
  DEF CloseSocket, CloseStep, CloseQueue, Drained, DeadlineHit, CloseReturns, DeadlinePasses,
      CloseUnchanged, readerVars, workerVars, histVars
<1>12. CASE Terminated \/ UNCHANGED vars
  BY <1>12, IdleKeepsHolding DEF Terminated, vars
<1>13. QED
  BY <1>1, <1>2, <1>3, <1>4, <1>5, <1>6, <1>7, <1>8, <1>9, <1>10, <1>11, <1>12
  DEF Next, ReaderStep

(* In every behaviour each open packet has exactly one holder.             *)
THEOREM HoldingInvariant == Spec => []Holding
<1>1. Init => Holding
  <2> SUFFICES ASSUME Init PROVE Holding
    OBVIOUS
  <2>1. /\ readPC = "read" /\ DOMAIN queue = {} /\ \A w \in Workers : job[w] = NoPacket
        /\ \A p \in Packets : outcome[p] = "unseen" /\ reply[p] = "none"
    BY DEF Init
  <2>2. QED
    BY <2>1, PacketAssumption DEF Holding, Custody, ReaderHolds, InQueue
<1>2. QED
  BY <1>1, HoldingStep, TypingInvariant, OrderingInvariant, PTL DEF Spec

(* A canceled trap means a passed deadline that Close reports.  The step   *)
(* that cancels needs Ordering: a worker is still running, so Close has    *)
(* not returned and the context was canceled by the deadline's branch.     *)
LEMMA CancelStep ==
  Typing /\ Ordering /\ CancelOnlyPastDeadline /\ [Next]_vars => CancelOnlyPastDeadline'
<1> SUFFICES ASSUME Typing, Ordering, CancelOnlyPastDeadline, [Next]_vars
             PROVE  CancelOnlyPastDeadline'
  OBVIOUS
<1> DEFINE Few == \A p \in Packets : outcome'[p] = "canceled" => outcome[p] = "canceled"
           Late == closePC = "draining" \/ closeResult = "deadline"
<1>1. ASSUME Few, UNCHANGED <<deadlinePassed, closePC, closeResult>>
      PROVE  CancelOnlyPastDeadline'
  BY <1>1 DEF CancelOnlyPastDeadline
<1>2. ASSUME NEW p \in Packets, NEW what, what # "canceled", Become(p, what)
      PROVE  Few
  BY <1>2 DEF Become, Typing, TypeOK
<1>3. UNCHANGED outcome => Few
  OBVIOUS
<1>4. readPC \in Handling => packet \in Packets
  BY DEF Typing
<1>5. ASSUME NEW p \in Packets, Receive(p)
      PROVE  CancelOnlyPastDeadline'
  BY <1>1, <1>2, <1>5 DEF Receive, ReaderUnchanged, closeVars
<1>6. CASE ReaderStep
  <2>1. Few
    <3>1. CASE Reject
      BY <1>2, <1>4, <3>1 DEF Reject, Refusals, Handling
    <3>2. CASE Unrouted
      BY <1>2, <1>4, <3>2 DEF Unrouted, Handling
    <3>3. CASE Accept
      BY <1>2, <1>4, <3>3 DEF Accept, Handling
    <3>4. CASE Enqueue
      BY <1>2, <1>4, <3>4 DEF Enqueue, Handling
    <3>5. CASE RecordDropped
      BY <1>2, <1>4, <3>5 DEF RecordDropped, Handling
    <3>6. CASE \/ ReadFails \/ CloseReadDone \/ ReaderExits \/ QueueFull \/ RecordQueued
               \/ Respond
      BY <1>3, <3>6
      DEF ReadFails, CloseReadDone, ReaderExits, QueueFull, RecordQueued, Respond, histVars
    <3>7. QED
      BY <1>6, <3>1, <3>2, <3>3, <3>4, <3>5, <3>6 DEF ReaderStep
  <2>2. UNCHANGED <<deadlinePassed, closePC, closeResult>>
    BY <1>6
    DEF ReaderStep, ReadFails, CloseReadDone, ReaderExits, Reject, Unrouted, Accept, Enqueue,
        QueueFull, RecordQueued, RecordDropped, Respond, ReaderUnchanged, closeVars
  <2>3. QED
    BY <1>1, <2>1, <2>2
<1>7. ASSUME NEW w \in Workers, WorkerStep(w)
      PROVE  CancelOnlyPastDeadline'
  <2>1. UNCHANGED <<deadlinePassed, closePC, closeResult>>
    BY <1>7
    DEF WorkerStep, Take, WorkerExits, MarshalFails, StartPost, Answered2xx, AnsweredFinal,
        PostFails, PostRefused, TimerFires, Canceled, WorkerUnchanged, closeVars
  <2>2. workerPC[w] \in Busy => job[w] \in Packets
    BY <1>7 DEF Typing
  <2>3. CASE Canceled(w)
    <3>1. workerPC[w] = "backoff" /\ workerCtxDone
      BY <2>3 DEF Canceled
    <3>2. closePC = "draining" /\ deadlinePassed
      BY <1>7, <3>1 DEF Ordering, AllExited
    <3>3. QED
      BY <2>1, <3>2 DEF CancelOnlyPastDeadline
  <2>4. CASE ~Canceled(w)
    <3>1. Few
      <4>1. CASE MarshalFails(w) \/ Answered2xx(w) \/ AnsweredFinal(w)
        BY <1>2, <2>2, <4>1 DEF MarshalFails, Answered2xx, AnsweredFinal, GiveUp, Busy
      <4>2. CASE PostFails(w) \/ PostRefused(w)
        BY <1>2, <1>3, <2>2, <4>2 DEF PostFails, PostRefused, RetryOrGiveUp, GiveUp, Busy
      <4>3. CASE Take(w) \/ WorkerExits(w) \/ StartPost(w) \/ TimerFires(w)
        BY <1>3, <4>3 DEF Take, WorkerExits, StartPost, TimerFires
      <4>4. QED
        BY <1>7, <2>4, <4>1, <4>2, <4>3 DEF WorkerStep
    <3>2. QED
      BY <1>1, <2>1, <3>1
  <2>5. QED
    BY <2>3, <2>4
<1>8. CASE CloseSocket \/ CloseStep \/ DeadlinePasses
  <2>1. UNCHANGED outcome
    BY <1>8
    DEF CloseSocket, CloseStep, CloseQueue, Drained, DeadlineHit, CloseReturns, DeadlinePasses,
        CloseUnchanged, histVars
  <2>2. Late /\ deadlinePassed => (Late /\ deadlinePassed)'
    BY <1>8
    DEF CloseSocket, CloseStep, CloseQueue, Drained, DeadlineHit, CloseReturns, DeadlinePasses,
        Ordering, Typing, TypeOK
  <2>3. QED
    BY <2>1, <2>2 DEF CancelOnlyPastDeadline
<1>9. CASE Terminated \/ UNCHANGED vars
  BY <1>9 DEF Terminated, vars, CancelOnlyPastDeadline
<1>10. QED
  BY <1>5, <1>6, <1>7, <1>8, <1>9 DEF Next

(* No trap is canceled unless the shutdown deadline has passed, and Close  *)
(* then returns the error of its context.                                  *)
THEOREM CancelSafety == Spec => []CancelOnlyPastDeadline
<1>1. Init => CancelOnlyPastDeadline
  BY DEF Init, CancelOnlyPastDeadline
<1>2. QED
  BY <1>1, CancelStep, TypingInvariant, OrderingInvariant, PTL DEF Spec

(* Every decoded, unsettled trap is held by exactly one of the reader, a   *)
(* position of the channel and a worker, for any number of workers, any    *)
(* queue size and any number of retries.                                   *)
THEOREM CustodyHolds == Spec => []Custody
<1>1. Holding => Custody
  BY DEF Holding
<1>2. QED
  BY <1>1, HoldingInvariant, PTL

(* An inform is answered only after its trap was handed over.              *)
THEOREM AnswerSafety == Spec => []AnswerAfterHandover
<1>1. Holding => AnswerAfterHandover
  BY DEF Holding, AnswerAfterHandover, HandedOver, PastQueue, Refusals
<1>2. QED
  BY <1>1, HoldingInvariant, PTL

(* Close returns nil only when every trap that was read is settled and     *)
(* none was canceled: the ends of the reader and the workers leave no      *)
(* place where Custody would allow an open trap.                           *)
THEOREM GracefulShutdown == Spec => []GracefulClose
<1>1. Typing /\ Ordering /\ Holding /\ CancelOnlyPastDeadline => GracefulClose
  <2> SUFFICES ASSUME Typing, Ordering, Holding, CancelOnlyPastDeadline,
                      closeResult = "nil", NEW p \in Packets
               PROVE  outcome[p] \notin {"received", "decoded", "queued", "canceled"}
    BY DEF GracefulClose
  <2>1. /\ closePC = "returned" /\ readPC = "exited" /\ queue = <<>>
        /\ \A w \in Workers : workerPC[w] = "exited"
    BY ConfigAssumption DEF Ordering, AllExited
  <2>2. outcome[p] # "canceled"
    BY <2>1 DEF CancelOnlyPastDeadline
  <2>3. outcome[p] \notin {"received", "decoded"}
    BY <2>1 DEF Holding, Custody, ReaderHolds
  <2>4. \A w \in Workers : job[w] # p
    BY <2>1 DEF Typing, Busy
  <2>5. ~InQueue(p)
    BY <2>1 DEF InQueue
  <2>6. QED
    BY <2>2, <2>3, <2>4, <2>5 DEF Holding, Custody
<1>2. QED
  BY <1>1, TypingInvariant, OrderingInvariant, HoldingInvariant, CancelSafety, PTL
=============================================================================
