------------------------- MODULE TrapDelivery_proofs -------------------------
(***************************************************************************)
(* Three more results about TrapService for every instance: the number of  *)
(* POSTs a trap may cost, that the counters of /metrics add up in every    *)
(* state, and that the service is an implementation of TrapDelivery as far *)
(* as safety goes.  They rest on the invariants of TrapService_proofs.     *)
(***************************************************************************)
EXTENDS TrapService_proofs, FiniteSetTheorems

(* No worker has made a request for the packet. *)
Untried(p) ==
  \/ outcome[p] \in {"unseen", "received", "decoded", "queue_full"}
  \/ InQueue(p) \/ ~Datagram[p].encodes

(* Requests worker w has made for its job if none was cut off. *)
Most(w) == attempt[w] + (IF workerPC[w] = "attempt" THEN 0 ELSE 1)

Counted(w) ==
  /\ posts[job[w]] <= Most(w)
  /\ posts[job[w]] = Most(w) \/ workerCtxDone
  /\ workerPC[w] = "posting" => posts[job[w]] > 0
  /\ workerPC[w] # "attempt" => Datagram[job[w]].encodes

(* The loop counter of forward tells how often the job was posted, and     *)
(* starts from 0 with every job.                                           *)
Retrying ==
  /\ \A w \in Workers : workerPC[w] \notin Busy => attempt[w] = 0
  /\ \A w \in Workers : workerPC[w] \in Busy => Counted(w)
  /\ \A p \in Packets : Untried(p) => posts[p] = 0
  /\ RetryBudget

(* Steps of the reader and of Close: no worker moves, nothing new becomes  *)
(* untried, no trap gets a final answer.                                   *)
LEMMA OthersKeepRetrying ==
  ASSUME Typing, Retrying, UNCHANGED <<workerPC, job, attempt, posts>>,
         workerCtxDone => workerCtxDone',
         \A p \in Packets : Untried(p)' => Untried(p),
         \A p \in Packets : outcome'[p] \in {"exhausted", "forwarded", "refused"} =>
                              outcome'[p] = outcome[p]
  PROVE  Retrying'
<1>1. \A w \in Workers : workerPC'[w] \in Busy => Counted(w)'
  BY DEF Retrying, Counted, Most
<1>2. \A p \in Packets : Untried(p)' => posts'[p] = 0
  BY DEF Retrying
<1>3. RetryBudget'
  BY <1>2 DEF Retrying, RetryBudget, Untried
<1>4. QED
  BY <1>1, <1>2, <1>3 DEF Retrying

(* A worker that settles its job: the packet was its own, and no longer    *)
(* untried only if it was posted.                                          *)
LEMMA SettleKeepsRetrying ==
  ASSUME Typing, Holding, Retrying, NEW w \in Workers, workerPC[w] \in Busy,
         NEW why \in Settled, Become(job[w], why), AwaitJob(w),
         UNCHANGED <<queue, posts, workerCtxDone>>,
         why = "exhausted" => posts[job[w]] = Retries + 1 \/ workerCtxDone,
         why \in {"forwarded", "refused"} => posts[job[w]] > 0
  PROVE  Retrying'
<1> DEFINE q == job[w]
<1>1. q \in Packets /\ outcome[q] = "queued"
  BY PacketAssumption DEF Typing, TypeOK, Holding, Custody
<1>2. outcome'[q] = why /\ \A p \in Packets \ {q} : outcome'[p] = outcome[p]
  BY <1>1 DEF Become, Typing, TypeOK
<1>3. /\ workerPC'[w] = "idle" /\ attempt'[w] = 0
      /\ \A v \in Workers \ {w} : /\ workerPC'[v] = workerPC[v]
                                  /\ attempt'[v] = attempt[v] /\ job'[v] = job[v]
  BY DEF AwaitJob, Typing, TypeOK
<1>4. \A v \in Workers : workerPC'[v] \in Busy => Counted(v)'
  BY <1>3 DEF Retrying, Counted, Most, Busy
<1>5. \A p \in Packets : Untried(p)' => Untried(p)
  BY <1>1, <1>2 DEF Untried, InQueue, Settled
<1>6. \A p \in Packets : Untried(p)' => posts'[p] = 0
  BY <1>5 DEF Retrying
<1>7. RetryBudget'
  BY <1>1, <1>2, <1>6 DEF Retrying, RetryBudget, Untried
<1>8. QED
  BY <1>3, <1>4, <1>6, <1>7 DEF Retrying

(* A worker that goes on with its job: only this job's posts change, and   *)
(* by a request while the worker may still make one.                       *)
LEMMA GoOnKeepsRetrying ==
  ASSUME Typing, Holding, Retrying, NEW w \in Workers, workerPC[w] \in Busy,
         Typing', UNCHANGED <<queue, job, outcome, workerCtxDone>>,
         \A v \in Workers \ {w} : workerPC'[v] = workerPC[v] /\ attempt'[v] = attempt[v],
         \A p \in Packets \ {job[w]} : posts'[p] = posts[p],
         posts'[job[w]] # posts[job[w]] => Datagram[job[w]].encodes,
         posts'[job[w]] >= posts[job[w]],
         workerPC'[w] \in Busy, Counted(w)'
  PROVE  Retrying'
<1> DEFINE q == job[w]
<1>1. q \in Packets /\ outcome[q] = "queued" /\ ~InQueue(q)
  BY PacketAssumption DEF Typing, TypeOK, Holding, Custody
<1>2. \A v \in Workers \ {w} : workerPC[v] \in Busy => job[v] \in Packets \ {q}
  BY <1>1, PacketAssumption DEF Holding, Custody, Typing
<1>3. \A v \in Workers : workerPC'[v] \in Busy => Counted(v)'
  BY <1>2 DEF Retrying, Counted, Most
<1>4. \A p \in Packets : Untried(p)' <=> Untried(p)
  BY DEF Untried, InQueue
<1>5. \A p \in Packets : Untried(p)' => posts'[p] = 0
  BY <1>1, <1>4 DEF Retrying, Untried
<1>6. posts'[q] <= Retries + 1
  BY <1>1, ConfigAssumption DEF Counted, Most, Typing, TypeOK, Busy
<1>7. RetryBudget'
  BY <1>1, <1>5, <1>6 DEF Retrying, RetryBudget, Untried
<1>8. \A v \in Workers : workerPC'[v] \notin Busy => attempt'[v] = 0
  BY DEF Retrying
<1>9. QED
  BY <1>3, <1>5, <1>7, <1>8 DEF Retrying

(* Every step keeps the count of requests.                                 *)
LEMMA RetryingStep == Typing /\ Holding /\ Retrying /\ [Next]_vars /\ Typing' => Retrying'
<1> SUFFICES ASSUME Typing, Holding, Retrying, [Next]_vars, Typing'
             PROVE  Retrying'
  OBVIOUS
<1>1. readPC \in Handling => packet \in Packets
  BY DEF Typing
<1>2. ASSUME NEW p \in Packets, NEW what, Become(p, what)
      PROVE  outcome'[p] = what /\ \A o \in Packets \ {p} : outcome'[o] = outcome[o]
  BY <1>2 DEF Become, Typing, TypeOK
<1>3. ASSUME NEW p \in Packets, Receive(p)
      PROVE  Retrying'
  BY <1>2, <1>3, OthersKeepRetrying
  DEF Receive, ReaderUnchanged, workerVars, closeVars, Untried, InQueue
<1>4. CASE Reject
  BY <1>1, <1>2, <1>4, OthersKeepRetrying
  DEF Reject, Refusals, Handling, ReaderUnchanged, workerVars, closeVars, Untried, InQueue
<1>5. CASE Unrouted
  BY <1>1, <1>2, <1>5, OthersKeepRetrying
  DEF Unrouted, Handling, ReaderUnchanged, workerVars, closeVars, Untried, InQueue
<1>6. CASE Accept
  <2>1. outcome[packet] = "received" /\ packet \in Packets
    BY <1>1, <1>6 DEF Accept, Holding, Handling
  <2>2. QED
    BY <1>2, <1>6, <2>1, OthersKeepRetrying
    DEF Accept, ReaderUnchanged, workerVars, closeVars, Untried, InQueue
<1>7. CASE Enqueue
  <2>1. outcome[packet] = "decoded" /\ packet \in Packets
    BY <1>1, <1>7 DEF Enqueue, Holding, Custody, ReaderHolds, Handling
  <2>2. queue \in Seq(Packets) /\ queue' = Append(queue, packet)
    BY <1>7 DEF Enqueue, Typing, TypeOK
  <2>3. \A p \in Packets : InQueue(p)' => p = packet \/ InQueue(p)
    BY <2>2 DEF InQueue
  <2>4. QED
    BY <1>2, <1>7, <2>1, <2>3, OthersKeepRetrying
    DEF Enqueue, ReaderUnchanged, workerVars, closeVars, Untried
<1>8. CASE RecordDropped
  <2>1. outcome[packet] = "decoded" /\ packet \in Packets
    BY <1>1, <1>8 DEF RecordDropped, Holding, Custody, ReaderHolds, Handling
  <2>2. QED
    BY <1>2, <1>8, <2>1, OthersKeepRetrying
    DEF RecordDropped, ReaderUnchanged, workerVars, closeVars, Untried, InQueue
<1>9. CASE ReadFails \/ CloseReadDone \/ ReaderExits \/ QueueFull \/ RecordQueued \/ Respond
  BY <1>9, OthersKeepRetrying
  DEF ReadFails, CloseReadDone, ReaderExits, QueueFull, RecordQueued, Respond,
      ReaderUnchanged, workerVars, closeVars, queueVars, histVars, Untried, InQueue
<1>10. ASSUME NEW w \in Workers, WorkerStep(w)
       PROVE  Retrying'
  <2> USE DEF WorkerUnchanged, closeVars
  <2>1. workerPC[w] \in Busy => job[w] \in Packets /\ Counted(w)
    BY <1>10 DEF Typing, Retrying
  <2>2. CASE Take(w)
    <3>1. /\ queue \in Seq(Packets) /\ queue # <<>> /\ queue' = Tail(queue)
          /\ job'[w] = Head(queue) /\ workerPC'[w] = "attempt"
          /\ \A v \in Workers \ {w} : job'[v] = job[v] /\ workerPC'[v] = workerPC[v]
          /\ UNCHANGED <<attempt, outcome, posts, workerCtxDone>>
      BY <1>10, <2>2 DEF Take, Typing, TypeOK
    <3>2. Head(queue) \in Packets /\ InQueue(Head(queue))
      BY <3>1, TailElement DEF Holding, Custody, InQueue
    <3>3. posts[Head(queue)] = 0 /\ attempt[w] = 0
      BY <2>2, <3>2 DEF Take, Retrying, Untried, Busy
    <3>4. \A v \in Workers : workerPC'[v] \in Busy => Counted(v)'
      BY <3>1, <3>3 DEF Retrying, Counted, Most
    <3>5. \A p \in Packets : Untried(p)' => Untried(p)
      BY <3>1, TailElement DEF Holding, Custody, InQueue, Untried
    <3>6. QED
      BY <3>1, <3>4, <3>5 DEF Retrying, RetryBudget, Busy
  <2>3. CASE WorkerExits(w)
    <3>1. \A v \in Workers : workerPC'[v] \in Busy <=> workerPC[v] \in Busy
      BY <2>3 DEF WorkerExits, Typing, TypeOK, Busy
    <3>2. \A v \in Workers : workerPC'[v] \in Busy => workerPC'[v] = workerPC[v]
      BY <2>3 DEF WorkerExits, Typing, TypeOK, Busy
    <3>3. \A v \in Workers : workerPC'[v] \in Busy => Counted(v)'
      BY <2>3, <3>1, <3>2 DEF WorkerExits, Retrying, Counted, Most
    <3>4. QED
      BY <2>3, <3>1, <3>3 DEF WorkerExits, Retrying, RetryBudget, Untried, InQueue
  <2>4. CASE MarshalFails(w)
    BY <2>4, SettleKeepsRetrying DEF MarshalFails, GiveUp, Settled, Busy
  <2>5. CASE StartPost(w)
    <3>1. /\ workerPC[w] = "attempt" /\ workerPC'[w] = "posting"
          /\ posts'[job[w]] = posts[job[w]] + 1
          /\ \A p \in Packets \ {job[w]} : posts'[p] = posts[p]
          /\ \A v \in Workers \ {w} : workerPC'[v] = workerPC[v]
          /\ posts[job[w]] \in Nat /\ attempt[w] \in Nat
      BY <1>10, <2>1, <2>5, ConfigAssumption DEF StartPost, Typing, TypeOK, Busy
    <3>2. posts[job[w]] = attempt[w]
      BY <2>1, <2>5, <3>1 DEF StartPost, Counted, Most, Busy
    <3>3. Counted(w)'
      BY <2>5, <3>1, <3>2 DEF StartPost, Counted, Most
    <3>4. QED
      BY <2>5, <3>1, <3>3, GoOnKeepsRetrying DEF StartPost, Busy
  <2>6. CASE Answered2xx(w)
    BY <2>1, <2>6, SettleKeepsRetrying DEF Answered2xx, Settled, Busy, Counted
  <2>7. CASE AnsweredFinal(w)
    BY <2>1, <2>7, SettleKeepsRetrying DEF AnsweredFinal, GiveUp, Settled, Busy, Counted
  <2>8. CASE PostFails(w) \/ PostRefused(w)
    <3>1. /\ workerPC[w] \in {"attempt", "posting"} /\ RetryOrGiveUp(w)
          /\ workerPC[w] = "attempt" => workerCtxDone
          /\ UNCHANGED <<queue, posts, workerCtxDone>> /\ Datagram[job[w]].encodes
      BY <2>1, <2>8 DEF PostFails, PostRefused, Counted, Busy
    <3>2. posts[job[w]] \in Nat /\ attempt[w] \in 0..Retries /\ job[w] \in Packets
      BY <2>1, <3>1 DEF Typing, TypeOK, Busy
    <3>3. posts[job[w]] <= attempt[w] + 1 /\ (posts[job[w]] = attempt[w] + 1 \/ workerCtxDone)
      BY <2>1, <3>1, <3>2 DEF Counted, Most, Busy
    <3>4. CASE ~RetriesLeft(w)
      <4>0. GiveUp(w, "exhausted")
        BY <3>1, <3>4 DEF RetryOrGiveUp
      <4>1. attempt[w] = Retries
        BY <3>2, <3>4, ConfigAssumption DEF RetriesLeft
      <4>2. QED
        BY <3>1, <3>3, <4>0, <4>1, SettleKeepsRetrying DEF GiveUp, Settled, Busy
    <3>5. CASE RetriesLeft(w)
      <4>1. /\ workerPC'[w] = "backoff" /\ UNCHANGED <<job, attempt, outcome>>
            /\ \A v \in Workers \ {w} : workerPC'[v] = workerPC[v]
        BY <3>1, <3>5 DEF RetryOrGiveUp, Typing, TypeOK
      <4>2. Counted(w)'
        BY <3>1, <3>3, <4>1 DEF Counted, Most
      <4>3. QED
        BY <3>1, <3>2, <4>1, <4>2, GoOnKeepsRetrying DEF Busy
    <3>6. QED
      BY <3>4, <3>5
  <2>9. CASE TimerFires(w)
    <3>1. /\ workerPC[w] = "backoff" /\ workerPC'[w] = "attempt"
          /\ attempt'[w] = attempt[w] + 1 /\ attempt[w] \in Nat /\ posts[job[w]] \in Nat
          /\ \A v \in Workers \ {w} : workerPC'[v] = workerPC[v] /\ attempt'[v] = attempt[v]
      BY <1>10, <2>1, <2>9, ConfigAssumption DEF TimerFires, Typing, TypeOK, Busy
    <3>2. Counted(w)'
      BY <2>1, <2>9, <3>1 DEF TimerFires, Counted, Most, Busy
    <3>3. QED
      BY <2>9, <3>1, <3>2, GoOnKeepsRetrying DEF TimerFires, Busy
  <2>10. CASE Canceled(w)
    BY <2>10, SettleKeepsRetrying DEF Canceled, Settled, Busy
  <2>11. QED
    BY <1>10, <2>2, <2>3, <2>4, <2>5, <2>6, <2>7, <2>8, <2>9, <2>10 DEF WorkerStep
<1>11. CASE CloseSocket \/ CloseStep \/ DeadlinePasses
  BY <1>11, OthersKeepRetrying
  DEF CloseSocket, CloseStep, CloseQueue, Drained, DeadlineHit, CloseReturns, DeadlinePasses,
      CloseUnchanged, readerVars, workerVars, histVars, Untried, InQueue
<1>12. CASE Terminated \/ UNCHANGED vars
  BY <1>12, OthersKeepRetrying DEF Terminated, vars, Untried, InQueue
<1>13. QED
  BY <1>3, <1>4, <1>5, <1>6, <1>7, <1>8, <1>9, <1>10, <1>11, <1>12 DEF Next, ReaderStep

(* The loop counter counts the requests in every behaviour.                *)
THEOREM RetryingInvariant == Spec => []Retrying
<1>1. Init => Retrying
  <2> SUFFICES ASSUME Init PROVE Retrying
    OBVIOUS
  <2>1. /\ \A w \in Workers : workerPC[w] = "idle" /\ attempt[w] = 0
        /\ \A p \in Packets : outcome[p] = "unseen" /\ posts[p] = 0
    BY DEF Init
  <2>2. QED
    BY <2>1, ConfigAssumption DEF Retrying, RetryBudget, Busy
<1>2. QED
  BY <1>1, RetryingStep, TypingInvariant, HoldingInvariant, PTL DEF Spec

(* The retry loop of forward: whatever the webhook answers and whenever    *)
(* the context is canceled, a trap is posted at most 1 + Retries times,    *)
(* not fewer before it is given up as exhausted, and never again after it  *)
(* got a final answer.                                                     *)
THEOREM RetriesBounded == Spec => []RetryBudget
<1>1. Retrying => RetryBudget
  BY DEF Retrying
<1>2. QED
  BY <1>1, RetryingInvariant, PTL
-----------------------------------------------------------------------------
(* Accounting.  Typing and Holding say where the packet a step moves comes *)
(* from; counting is then a matter of sets that gain or lose one element.  *)

(* The packets of one route, and how many packets of T have an outcome in S. *)
Via(l) == {p \in Packets : RouteOf(p).cidr = l}
Num(T, S) == Cardinality({p \in T : outcome[p] \in S})
Jobs == {w \in Workers : job[w] # NoPacket}

InFlight == Len(queue) + Cardinality(Jobs) + Bit(readPC \in {"enqueue", "recordDropped"})

(* CountersBalance in terms of these numbers.                              *)
ReceivedBalance ==
  stats.received = stats.rejected + stats.unmatched + stats.decoded + Bit(readPC = "handle")
DecodedBalance ==
  stats.decoded = stats.forwarded + stats.failed + Num(Packets, {"canceled"}) + InFlight
QueuedBalance == stats.queued + Bit(readPC = "recordQueued") = Num(Packets, PastQueue)
ForwardedBalance ==
  /\ stats.forwarded = Num(Packets, {"forwarded"})
  /\ \A l \in Labels : stats.routeSuccesses[l] = Num(Via(l), {"forwarded"})
FailedBalance ==
  /\ stats.failed = Num(Packets, Failures)
  /\ \A l \in Labels : stats.routeFailures[l] = Num(Via(l), Failures)

Balance ==
  /\ ReceivedBalance /\ DecodedBalance /\ QueuedBalance /\ ForwardedBalance /\ FailedBalance

(* The quantities of the balance are numbers.                              *)
LEMMA Quantities ==
  ASSUME Typing
  PROVE  /\ stats.received \in Nat /\ stats.rejected \in Nat /\ stats.unmatched \in Nat
         /\ stats.decoded \in Nat /\ stats.queued \in Nat /\ stats.forwarded \in Nat
         /\ stats.failed \in Nat /\ Len(queue) \in Nat /\ Cardinality(Jobs) \in Nat
         /\ InFlight \in Nat
         /\ \A l \in Labels : /\ stats.routeSuccesses[l] \in Nat
                              /\ stats.routeFailures[l] \in Nat
<1>1. Jobs \in SUBSET Workers
  BY DEF Jobs
<1>2. Cardinality(Jobs) \in Nat
  BY <1>1, ConfigAssumption, FS_Subset, FS_CardinalityType
<1>3. InFlight \in Nat
  <2>1. Len(queue) \in Nat /\ Bit(readPC \in {"enqueue", "recordDropped"}) \in Nat
    BY DEF Typing, TypeOK, Bit
  <2>2. QED
    BY <1>2, <2>1 DEF InFlight
<1>4. QED
  BY <1>2, <1>3 DEF Counters, Typing, TypeOK

(* They are the same numbers.                                              *)
LEMMA BalanceIsCountersBalance == Typing /\ Balance => CountersBalance
<1> SUFFICES ASSUME Typing, Balance PROVE CountersBalance
  OBVIOUS
<1>1. \A S : {p \in Packets : outcome[p] \in S} = Having(S)
  BY DEF Having
<1>2. \A l, S : {p \in Via(l) : outcome[p] \in S} = {p \in Having(S) : RouteOf(p).cidr = l}
  BY DEF Having, Via
<1>3. /\ \A S : Num(Packets, S) = Cardinality(Having(S))
      /\ \A l, S : Num(Via(l), S) = Cardinality({p \in Having(S) : RouteOf(p).cidr = l})
  BY <1>1, <1>2 DEF Num
<1>4. stats.decoded = stats.forwarded + stats.failed + Cardinality(Having({"canceled"}))
        + Len(queue) + Cardinality(Jobs) + Bit(readPC \in {"enqueue", "recordDropped"})
  <2> DEFINE b == Bit(readPC \in {"enqueue", "recordDropped"})
             n == Cardinality(Having({"canceled"}))
             j == Cardinality(Jobs)
  <2>1. Having({"canceled"}) \in SUBSET Packets
    BY DEF Having
  <2>2. n \in Nat
    BY <2>1, PacketAssumption, FS_Subset, FS_CardinalityType
  <2>3. b \in Nat
    BY DEF Bit
  <2>4. /\ stats.decoded \in Nat /\ stats.forwarded \in Nat /\ stats.failed \in Nat
        /\ Len(queue) \in Nat /\ j \in Nat
    BY Quantities
  <2>5. stats.decoded = stats.forwarded + stats.failed + n + (Len(queue) + j + b)
    BY <1>3 DEF Balance, DecodedBalance, InFlight
  <2>6. stats.decoded = stats.forwarded + stats.failed + n + Len(queue) + j + b
    <3> HIDE DEF b, n, j
    <3> QED BY <2>2, <2>3, <2>4, <2>5
  <2>7. QED
    BY <2>6
<1>5. QED
  BY <1>3, <1>4
  DEF Balance, ReceivedBalance, QueuedBalance, ForwardedBalance, FailedBalance,
      CountersBalance, Jobs

(* When one packet gets another outcome, a set of packets told by their    *)
(* outcome gains it, loses it or stays as it is.                           *)
LEMMA CountMoves ==
  ASSUME NEW T \in SUBSET Packets, NEW S, NEW p \in Packets, NEW what,
         outcome \in [Packets -> Outcomes], Become(p, what)
  PROVE  /\ Num(T, S) \in Nat /\ Num(T, S)' \in Nat
         /\ Num(T, S)' + Bit(p \in T /\ outcome[p] \in S)
              = Num(T, S) + Bit(p \in T /\ what \in S)
<1> DEFINE A == {q \in T : outcome[q] \in S}
           B == {q \in T : outcome'[q] \in S}
<1>1. IsFiniteSet(A) /\ IsFiniteSet(B)
  <2>1. IsFiniteSet(T)
    BY PacketAssumption, FS_Subset
  <2>2. A \in SUBSET T /\ B \in SUBSET T
    OBVIOUS
  <2>3. QED
    <3> HIDE DEF A, B
    <3> QED BY <2>1, <2>2, FS_Subset
<1>2. outcome'[p] = what /\ \A q \in Packets \ {p} : outcome'[q] = outcome[q]
  BY DEF Become
<1>3. B \cup {p} = A \cup {p} /\ (p \in A <=> p \in T /\ outcome[p] \in S)
      /\ (p \in B <=> p \in T /\ what \in S)
  BY <1>2
<1>4. Num(T, S) = Cardinality(A) /\ Num(T, S)' = Cardinality(B)
  BY DEF Num
<1>5. Cardinality(A) \in Nat /\ Cardinality(B) \in Nat
  <2> HIDE DEF A, B
  <2> QED BY <1>1, FS_CardinalityType
<1>6. /\ Cardinality(A \cup {p}) = IF p \in A THEN Cardinality(A) ELSE Cardinality(A) + 1
      /\ Cardinality(B \cup {p}) = IF p \in B THEN Cardinality(B) ELSE Cardinality(B) + 1
  <2> HIDE DEF A, B
  <2> QED BY <1>1, FS_AddElement
<1>7. QED
  <2> HIDE DEF A, B
  <2> QED BY <1>3, <1>4, <1>5, <1>6 DEF Bit

(* When a worker gets or gives up a job, the set of busy workers does.      *)
LEMMA JobsMove ==
  ASSUME NEW w \in Workers, NEW p, job \in [Workers -> Packets \cup {NoPacket}],
         job' = [job EXCEPT ![w] = p]
  PROVE  /\ Cardinality(Jobs) \in Nat /\ Cardinality(Jobs)' \in Nat
         /\ Cardinality(Jobs)' + Bit(job[w] # NoPacket) = Cardinality(Jobs) + Bit(p # NoPacket)
<1> DEFINE A == {v \in Workers : job[v] # NoPacket}
           B == {v \in Workers : job'[v] # NoPacket}
<1>1. IsFiniteSet(A) /\ IsFiniteSet(B)
  <2>1. A \in SUBSET Workers /\ B \in SUBSET Workers
    OBVIOUS
  <2>2. QED
    <3> HIDE DEF A, B
    <3> QED BY <2>1, ConfigAssumption, FS_Subset
<1>2. B \cup {w} = A \cup {w} /\ (w \in A <=> job[w] # NoPacket) /\ (w \in B <=> p # NoPacket)
  OBVIOUS
<1>3. Cardinality(Jobs) = Cardinality(A) /\ Cardinality(Jobs)' = Cardinality(B)
  BY DEF Jobs
<1>4. Cardinality(A) \in Nat /\ Cardinality(B) \in Nat
  <2> HIDE DEF A, B
  <2> QED BY <1>1, FS_CardinalityType
<1>5. /\ Cardinality(A \cup {w}) = IF w \in A THEN Cardinality(A) ELSE Cardinality(A) + 1
      /\ Cardinality(B \cup {w}) = IF w \in B THEN Cardinality(B) ELSE Cardinality(B) + 1
  <2> HIDE DEF A, B
  <2> QED BY <1>1, FS_AddElement
<1>6. QED
  <2> HIDE DEF A, B
  <2> QED BY <1>2, <1>3, <1>4, <1>5 DEF Bit
-----------------------------------------------------------------------------
(* What the critical sections of Stats do to the counters the balance is   *)
(* about.                                                                  *)
LEMMA CountersMove ==
  ASSUME stats \in Counters
  PROVE  /\ RecordTrapRetry = [stats EXCEPT !.retries = stats.retries + 1]
         /\ \A p \in Packets :
              /\ RecordTrapForwardSuccess(p) =
                   [stats EXCEPT !.forwarded = stats.forwarded + 1,
                                 !.routeSuccesses = [l \in Labels |->
                                    stats.routeSuccesses[l] + Bit(RouteOf(p).cidr = l)]]
              /\ RecordTrapForwardFailure(p) =
                   [stats EXCEPT !.failed = stats.failed + 1,
                                 !.routeFailures = [l \in Labels |->
                                    stats.routeFailures[l] + Bit(RouteOf(p).cidr = l)]]
<1>1. RecordTrapRetry = [stats EXCEPT !.retries = stats.retries + 1]
  BY DEF RecordTrapRetry
<1>2. ASSUME NEW f \in [Labels -> Nat], NEW p \in Packets
      PROVE  [f EXCEPT ![RouteOf(p).cidr] = @ + 1]
               = [l \in Labels |-> f[l] + Bit(RouteOf(p).cidr = l)]
  <2> DEFINE c == RouteOf(p).cidr
  <2> HIDE DEF c
  <2>1. ASSUME NEW l \in Labels
        PROVE  [f EXCEPT ![c] = @ + 1][l] = f[l] + Bit(c = l)
    <3>1. f[l] \in Nat
      OBVIOUS
    <3>2. QED
      BY <3>1 DEF Bit
  <2>2. [f EXCEPT ![c] = @ + 1] = [l \in Labels |-> f[l] + Bit(c = l)]
    BY <2>1
  <2>3. QED
    BY <2>2 DEF c
<1>3. stats.routeSuccesses \in [Labels -> Nat] /\ stats.routeFailures \in [Labels -> Nat]
  BY DEF Counters
<1>4. ASSUME NEW p \in Packets
      PROVE  /\ [stats.routeSuccesses EXCEPT ![RouteOf(p).cidr] = @ + 1]
                   = [l \in Labels |-> stats.routeSuccesses[l] + Bit(RouteOf(p).cidr = l)]
             /\ [stats.routeFailures EXCEPT ![RouteOf(p).cidr] = @ + 1]
                   = [l \in Labels |-> stats.routeFailures[l] + Bit(RouteOf(p).cidr = l)]
  BY <1>2, <1>3
<1>5. ASSUME NEW p \in Packets
      PROVE  RecordTrapForwardSuccess(p) =
               [stats EXCEPT !.forwarded = stats.forwarded + 1,
                             !.routeSuccesses = [stats.routeSuccesses EXCEPT
                                                   ![RouteOf(p).cidr] = @ + 1]]
  BY DEF RecordTrapForwardSuccess, Counters
<1>6. ASSUME NEW p \in Packets
      PROVE  RecordTrapForwardFailure(p) =
               [stats EXCEPT !.failed = stats.failed + 1,
                             !.routeFailures = [stats.routeFailures EXCEPT
                                                  ![RouteOf(p).cidr] = @ + 1]]
  BY DEF RecordTrapForwardFailure, Counters
<1>7. QED
  BY <1>1, <1>4, <1>5, <1>6

(* Steps that move no packet and count nothing but a retry.                *)
LEMMA QuietKeepsBalance ==
  ASSUME Typing, Balance, UNCHANGED <<queue, job, outcome>>,
         stats' = stats \/ stats' = RecordTrapRetry,
         readPC = "handle" <=> readPC' = "handle",
         readPC \in {"enqueue", "recordDropped"} <=> readPC' \in {"enqueue", "recordDropped"},
         readPC = "recordQueued" <=> readPC' = "recordQueued"
  PROVE  Balance'
<1>1. /\ \A T, S : Num(T, S)' = Num(T, S)
      /\ Jobs' = Jobs
  BY DEF Num, Jobs
<1>2. stats \in Counters
  BY DEF Typing, TypeOK
<1>3. /\ stats'.received = stats.received /\ stats'.rejected = stats.rejected
      /\ stats'.unmatched = stats.unmatched /\ stats'.decoded = stats.decoded
      /\ stats'.queued = stats.queued /\ stats'.forwarded = stats.forwarded
      /\ stats'.failed = stats.failed /\ stats'.routeSuccesses = stats.routeSuccesses
      /\ stats'.routeFailures = stats.routeFailures
  BY <1>2, CountersMove DEF Counters
<1>4. QED
  BY <1>1, <1>3
  DEF Balance, ReceivedBalance, DecodedBalance, QueuedBalance, ForwardedBalance, FailedBalance,
      InFlight, Bit

(* The reader decides on the packet in its hand: it leaves "received",     *)
(* which is counted nowhere but by the counter of received traps.          *)
LEMMA DecideKeepsBalance ==
  ASSUME Typing, Balance, NEW p \in Packets, NEW what, Become(p, what),
         outcome[p] \in {"unseen", "received"}, what \in Refusals \cup {"received", "route_not_found", "decoded"},
         UNCHANGED <<queue, job>>,
         \/ /\ readPC = "read" /\ readPC' = "handle" /\ stats' = RecordTrapReceived
         \/ /\ readPC = "handle" /\ readPC' = "read"
            /\ stats' = RecordTrapRejected \/ stats' = RecordTrapUnmatched
         \/ readPC = "handle" /\ readPC' = "enqueue" /\ stats' = RecordTrapDecoded
  PROVE  Balance'
<1>1. stats \in Counters /\ outcome \in [Packets -> Outcomes]
  BY DEF Typing, TypeOK
<1>2. ASSUME NEW T \in SUBSET Packets, NEW S \in {{"canceled"}, {"forwarded"}, Failures, PastQueue}
      PROVE  Num(T, S) \in Nat /\ Num(T, S)' = Num(T, S)
  <2>1. outcome[p] \notin S /\ what \notin S
    BY DEF Failures, PastQueue, Refusals
  <2>2. QED
    BY <1>1, <2>1, CountMoves DEF Bit
<1>3. \A l : Via(l) \in SUBSET Packets
  BY DEF Via
<1>4. /\ readPC' # "enqueue" => InFlight' = InFlight
      /\ readPC' = "enqueue" => InFlight' = InFlight + 1
  <2>1. Len(queue) \in Nat /\ Cardinality(Jobs) \in Nat
    BY Quantities
  <2>2. Cardinality(Jobs)' = Cardinality(Jobs)
    BY DEF Jobs
  <2>3. QED
    BY <2>1, <2>2 DEF InFlight, Bit
<1>5. /\ stats'.queued = stats.queued /\ stats'.forwarded = stats.forwarded
      /\ stats'.failed = stats.failed /\ stats'.routeSuccesses = stats.routeSuccesses
      /\ stats'.routeFailures = stats.routeFailures
  BY <1>1 DEF Counters, RecordTrapReceived, RecordTrapRejected, RecordTrapUnmatched,
              RecordTrapDecoded
<1>6. Num(Packets, {"canceled"})' = Num(Packets, {"canceled"})
  BY <1>2
<1>7. ReceivedBalance' /\ DecodedBalance'
  <2>0. /\ stats.received \in Nat /\ stats.rejected \in Nat /\ stats.unmatched \in Nat
        /\ stats.decoded \in Nat /\ stats.forwarded \in Nat /\ stats.failed \in Nat
        /\ Num(Packets, {"canceled"}) \in Nat /\ InFlight \in Nat
    BY <1>2, Quantities
  <2>1. CASE readPC = "read" /\ readPC' = "handle" /\ stats' = RecordTrapReceived
    <3>1. /\ stats'.received = stats.received + 1 /\ stats'.rejected = stats.rejected
          /\ stats'.unmatched = stats.unmatched /\ stats'.decoded = stats.decoded
      BY <1>1, <2>1 DEF Counters, RecordTrapReceived
    <3>2. QED
      BY <1>4, <1>5, <1>6, <2>0, <2>1, <3>1 DEF Balance, ReceivedBalance, DecodedBalance, Bit
  <2>2. CASE readPC = "handle" /\ readPC' = "read" /\ stats' = RecordTrapRejected
    <3>1. /\ stats'.received = stats.received /\ stats'.rejected = stats.rejected + 1
          /\ stats'.unmatched = stats.unmatched /\ stats'.decoded = stats.decoded
      BY <1>1, <2>2 DEF Counters, RecordTrapRejected
    <3>2. QED
      BY <1>4, <1>5, <1>6, <2>0, <2>2, <3>1 DEF Balance, ReceivedBalance, DecodedBalance, Bit
  <2>3. CASE readPC = "handle" /\ readPC' = "read" /\ stats' = RecordTrapUnmatched
    <3>1. /\ stats'.received = stats.received /\ stats'.rejected = stats.rejected
          /\ stats'.unmatched = stats.unmatched + 1 /\ stats'.decoded = stats.decoded
      BY <1>1, <2>3 DEF Counters, RecordTrapUnmatched
    <3>2. QED
      BY <1>4, <1>5, <1>6, <2>0, <2>3, <3>1 DEF Balance, ReceivedBalance, DecodedBalance, Bit
  <2>4. CASE readPC = "handle" /\ readPC' = "enqueue" /\ stats' = RecordTrapDecoded
    <3>1. /\ stats'.received = stats.received /\ stats'.rejected = stats.rejected
          /\ stats'.unmatched = stats.unmatched /\ stats'.decoded = stats.decoded + 1
      BY <1>1, <2>4 DEF Counters, RecordTrapDecoded
    <3>2. QED
      BY <1>4, <1>5, <1>6, <2>0, <2>4, <3>1 DEF Balance, ReceivedBalance, DecodedBalance, Bit
  <2>5. QED
    BY <2>1, <2>2, <2>3, <2>4
<1>8. QueuedBalance' /\ ForwardedBalance' /\ FailedBalance'
  <2>1. /\ Num(Packets, {"forwarded"})' = Num(Packets, {"forwarded"})
        /\ Num(Packets, Failures)' = Num(Packets, Failures)
        /\ Num(Packets, PastQueue)' = Num(Packets, PastQueue)
    BY <1>2
  <2>2. \A l \in Labels : /\ Num(Via(l), {"forwarded"})' = Num(Via(l), {"forwarded"})
                          /\ Num(Via(l), Failures)' = Num(Via(l), Failures)
    BY <1>2, <1>3
  <2>3. QED
    BY <1>5, <2>1, <2>2 DEF Balance, QueuedBalance, ForwardedBalance, FailedBalance, Bit
<1>9. QED
  BY <1>7, <1>8 DEF Balance

(* A trap past its decoding is given up or delivered: its packet leaves    *)
(* "decoded" or "queued" for the outcome that the statistics record.  What *)
(* is left to say of a step is that the places of open traps lose one.     *)
LEMMA EndKeepsBalance ==
  ASSUME Typing, Balance, NEW q \in Packets, NEW why, Become(q, why),
         \/ outcome[q] = "queued" /\ why \in Settled
         \/ outcome[q] = "decoded" /\ why = "queue_full",
         readPC = "handle" <=> readPC' = "handle",
         readPC = "recordQueued" <=> readPC' = "recordQueued",
         InFlight' \in Nat, InFlight = InFlight' + 1,
         \/ why = "forwarded" /\ stats' = RecordTrapForwardSuccess(q)
         \/ why \in Failures /\ stats' = RecordTrapForwardFailure(q)
         \/ why = "canceled" /\ stats' = stats
  PROVE  Balance'
<1>1. stats \in Counters /\ outcome \in [Packets -> Outcomes]
  BY DEF Typing, TypeOK
<1>2. \A l : Via(l) \in SUBSET Packets /\ (q \in Via(l) <=> RouteOf(q).cidr = l)
  BY DEF Via
<1>3. ASSUME NEW T \in SUBSET Packets, NEW S
      PROVE  /\ Num(T, S) \in Nat /\ Num(T, S)' \in Nat
             /\ Num(T, S)' + Bit(q \in T /\ outcome[q] \in S)
                  = Num(T, S) + Bit(q \in T /\ why \in S)
  BY <1>1, CountMoves
<1>4. /\ outcome[q] \notin {"forwarded"} \cup {"canceled"} \cup Failures
      /\ outcome[q] \in PastQueue <=> why \in PastQueue
  BY DEF PastQueue, Settled, Failures
<1>5. ASSUME NEW S \in {{"forwarded"}, {"canceled"}, Failures}
      PROVE  /\ Num(Packets, S) \in Nat
             /\ why \notin S => /\ Num(Packets, S)' = Num(Packets, S)
                               /\ \A l : Num(Via(l), S)' = Num(Via(l), S)
             /\ why \in S =>
                  /\ Num(Packets, S)' = Num(Packets, S) + 1
                  /\ \A l : Num(Via(l), S)' = Num(Via(l), S) + Bit(RouteOf(q).cidr = l)
  <2>1. outcome[q] \notin S
    BY <1>4
  <2>2. ASSUME NEW T \in SUBSET Packets
        PROVE  /\ Num(T, S) \in Nat
               /\ why \notin S => Num(T, S)' = Num(T, S)
               /\ why \in S => Num(T, S)' = Num(T, S) + Bit(q \in T)
    <3>1. /\ Num(T, S) \in Nat /\ Num(T, S)' \in Nat
          /\ Num(T, S)' + Bit(q \in T /\ outcome[q] \in S)
               = Num(T, S) + Bit(q \in T /\ why \in S)
      BY <1>3
    <3>2. QED
      BY <2>1, <3>1 DEF Bit
  <2>3. Bit(q \in Packets) = 1
    BY DEF Bit
  <2>4. QED
    BY <1>2, <2>2, <2>3
<1>6. Num(Packets, PastQueue)' = Num(Packets, PastQueue)
  BY <1>3, <1>4 DEF Bit
<1>7. /\ stats.decoded = stats.forwarded + stats.failed + Num(Packets, {"canceled"})
                            + (InFlight' + 1)
      /\ stats.decoded \in Nat /\ stats.forwarded \in Nat /\ stats.failed \in Nat
  BY Quantities DEF Balance, DecodedBalance
<1>8. CASE why = "forwarded" /\ stats' = RecordTrapForwardSuccess(q)
  <2>1. /\ stats'.received = stats.received /\ stats'.rejected = stats.rejected
        /\ stats'.unmatched = stats.unmatched /\ stats'.decoded = stats.decoded
        /\ stats'.queued = stats.queued /\ stats'.forwarded = stats.forwarded + 1
        /\ stats'.failed = stats.failed /\ stats'.routeFailures = stats.routeFailures
        /\ \A l \in Labels :
             stats'.routeSuccesses[l] = stats.routeSuccesses[l] + Bit(RouteOf(q).cidr = l)
    <3>1. stats' = [stats EXCEPT !.forwarded = stats.forwarded + 1,
                                 !.routeSuccesses = [l \in Labels |->
                                    stats.routeSuccesses[l] + Bit(RouteOf(q).cidr = l)]]
      BY <1>1, <1>8, CountersMove
    <3>2. QED
      BY <1>1, <3>1 DEF Counters
  <2>2. why \in {"forwarded"} /\ why \notin Failures /\ why \notin {"canceled"}
    BY <1>8 DEF Failures
  <2>3. ReceivedBalance' /\ QueuedBalance'
    BY <1>6, <2>1 DEF Balance, ReceivedBalance, QueuedBalance, Bit
  <2>4. ForwardedBalance' /\ FailedBalance'
    BY <1>5, <2>1, <2>2 DEF Balance, ForwardedBalance, FailedBalance
  <2>5. Num(Packets, {"canceled"})' = Num(Packets, {"canceled"})
        /\ Num(Packets, {"canceled"}) \in Nat
    BY <1>5, <2>2
  <2>7. DecodedBalance'
    BY <1>7, <2>1, <2>5 DEF DecodedBalance
  <2>8. QED
    BY <2>3, <2>4, <2>7 DEF Balance
<1>9. CASE why \in Failures /\ stats' = RecordTrapForwardFailure(q)
  <2>1. /\ stats'.received = stats.received /\ stats'.rejected = stats.rejected
        /\ stats'.unmatched = stats.unmatched /\ stats'.decoded = stats.decoded
        /\ stats'.queued = stats.queued /\ stats'.forwarded = stats.forwarded
        /\ stats'.failed = stats.failed + 1 /\ stats'.routeSuccesses = stats.routeSuccesses
        /\ \A l \in Labels :
             stats'.routeFailures[l] = stats.routeFailures[l] + Bit(RouteOf(q).cidr = l)
    <3>1. stats' = [stats EXCEPT !.failed = stats.failed + 1,
                                 !.routeFailures = [l \in Labels |->
                                    stats.routeFailures[l] + Bit(RouteOf(q).cidr = l)]]
      BY <1>1, <1>9, CountersMove
    <3>2. QED
      BY <1>1, <3>1 DEF Counters
  <2>2. why \notin {"forwarded"} /\ why \in Failures /\ why \notin {"canceled"}
    BY <1>9 DEF Failures
  <2>3. ReceivedBalance' /\ QueuedBalance'
    BY <1>6, <2>1 DEF Balance, ReceivedBalance, QueuedBalance, Bit
  <2>4. ForwardedBalance' /\ FailedBalance'
    BY <1>5, <2>1, <2>2 DEF Balance, ForwardedBalance, FailedBalance
  <2>5. Num(Packets, {"canceled"})' = Num(Packets, {"canceled"})
        /\ Num(Packets, {"canceled"}) \in Nat
    BY <1>5, <2>2
  <2>7. DecodedBalance'
    BY <1>7, <2>1, <2>5 DEF DecodedBalance
  <2>8. QED
    BY <2>3, <2>4, <2>7 DEF Balance
<1>10. CASE why = "canceled" /\ stats' = stats
  <2>1. why \notin {"forwarded"} /\ why \notin Failures /\ why \in {"canceled"}
    BY <1>10 DEF Failures
  <2>2. ReceivedBalance' /\ QueuedBalance'
    BY <1>6, <1>10 DEF Balance, ReceivedBalance, QueuedBalance, Bit
  <2>3. ForwardedBalance' /\ FailedBalance'
    BY <1>5, <1>10, <2>1 DEF Balance, ForwardedBalance, FailedBalance
  <2>4. Num(Packets, {"canceled"})' = Num(Packets, {"canceled"}) + 1
        /\ Num(Packets, {"canceled"}) \in Nat
    BY <1>5, <2>1
  <2>6. DecodedBalance'
    BY <1>7, <1>10, <2>4 DEF DecodedBalance
  <2>7. QED
    BY <2>2, <2>3, <2>6 DEF Balance
<1>11. QED
  BY <1>8, <1>9, <1>10

(* A worker that settles its job makes one trap fewer in flight.           *)
LEMMA SettleKeepsBalance ==
  ASSUME Typing, Holding, Balance, NEW w \in Workers, workerPC[w] \in Busy,
         NEW why \in Settled, Become(job[w], why), AwaitJob(w), UNCHANGED <<readPC, queue>>,
         \/ why = "forwarded" /\ stats' = RecordTrapForwardSuccess(job[w])
         \/ why \in Failures /\ stats' = RecordTrapForwardFailure(job[w])
         \/ why = "canceled" /\ stats' = stats
  PROVE  Balance'
<1>1. PICK q \in Packets : q = job[w]
  BY DEF Typing
<1>2. outcome[q] = "queued" /\ q # NoPacket
  BY <1>1, PacketAssumption DEF Holding, Custody
<1>3. InFlight' \in Nat /\ InFlight = InFlight' + 1
  <2>1. /\ Cardinality(Jobs) \in Nat /\ Cardinality(Jobs)' \in Nat
        /\ Cardinality(Jobs)' + Bit(job[w] # NoPacket)
             = Cardinality(Jobs) + Bit(NoPacket # NoPacket)
    BY JobsMove DEF Typing, TypeOK, AwaitJob
  <2>2. Cardinality(Jobs)' + 1 = Cardinality(Jobs)
    BY <1>1, <1>2, <2>1 DEF Bit
  <2>3. Len(queue) \in Nat /\ Bit(readPC \in {"enqueue", "recordDropped"}) \in Nat
    BY Quantities DEF Bit
  <2>4. InFlight' = Len(queue) + Cardinality(Jobs)' + Bit(readPC \in {"enqueue", "recordDropped"})
    BY DEF InFlight
  <2>5. QED
    BY <2>1, <2>2, <2>3, <2>4 DEF InFlight
<1>4. Become(q, why)
  BY <1>1
<1>5. QED
  BY <1>1, <1>2, <1>3, <1>4, EndKeepsBalance

(* Every step keeps the counters balanced.                                 *)
LEMMA BalanceStep == Typing /\ Holding /\ Balance /\ [Next]_vars => Balance'
<1> SUFFICES ASSUME Typing, Holding, Balance, [Next]_vars
             PROVE  Balance'
  OBVIOUS
<1>1. ASSUME NEW p \in Packets, Receive(p)
      PROVE  Balance'
  BY <1>1, DecideKeepsBalance DEF Receive, ReaderUnchanged, workerVars
<1>2. CASE ReadFails \/ CloseReadDone \/ ReaderExits \/ QueueFull \/ Respond
  BY <1>2, QuietKeepsBalance
  DEF ReadFails, CloseReadDone, ReaderExits, QueueFull, Respond, ReadNext, ReaderUnchanged,
      queueVars, workerVars, histVars
<1>3. CASE Reject \/ Unrouted \/ Accept
  <2>1. PICK q \in Packets : q = packet
    BY <1>3 DEF Reject, Unrouted, Accept, Typing, Handling
  <2>2. readPC = "handle" /\ outcome[q] = "received" /\ UNCHANGED <<queue, job>>
    BY <1>3, <2>1 DEF Reject, Unrouted, Accept, Holding, ReaderUnchanged, workerVars
  <2>3. CASE Reject
    <3>1. PICK what \in Refusals : what = Verdict(q)
      BY <2>1, <2>3 DEF Reject
    <3>2. Become(q, what) /\ readPC' = "read" /\ stats' = RecordTrapRejected
      BY <2>1, <2>3, <3>1 DEF Reject, ReadNext
    <3>3. QED
      BY <2>2, <3>1, <3>2, DecideKeepsBalance
  <2>4. CASE Unrouted
    <3>1. /\ Become(q, "route_not_found") /\ readPC' = "read" /\ stats' = RecordTrapUnmatched
      BY <2>1, <2>4 DEF Unrouted, ReadNext
    <3>2. QED
      BY <2>2, <3>1, DecideKeepsBalance
  <2>5. CASE Accept
    <3>1. Become(q, "decoded") /\ readPC' = "enqueue" /\ stats' = RecordTrapDecoded
      BY <2>1, <2>5 DEF Accept
    <3>2. QED
      BY <2>2, <3>1, DecideKeepsBalance
  <2>6. QED
    BY <1>3, <2>3, <2>4, <2>5
<1>4. CASE Enqueue
  <2>1. PICK q \in Packets : q = packet /\ outcome[q] = "decoded"
    BY <1>4 DEF Enqueue, Typing, Handling, Holding, Custody, ReaderHolds
  <2>2. /\ Become(q, "queued") /\ queue' = Append(queue, q)
        /\ readPC = "enqueue" /\ readPC' = "recordQueued" /\ UNCHANGED <<job, stats>>
    BY <1>4, <2>1 DEF Enqueue, ReaderUnchanged, workerVars
  <2>3. ASSUME NEW T \in SUBSET Packets, NEW S
        PROVE  /\ Num(T, S) \in Nat /\ Num(T, S)' \in Nat
               /\ Num(T, S)' + Bit(q \in T /\ outcome[q] \in S)
                    = Num(T, S) + Bit(q \in T /\ "queued" \in S)
    <3>1. outcome \in [Packets -> Outcomes] /\ Become(q, "queued")
      BY <2>2 DEF Typing, TypeOK
    <3>2. QED
      BY <3>1, CountMoves
  <2>4. ASSUME NEW T \in SUBSET Packets, NEW S \in {{"canceled"}, {"forwarded"}, Failures}
        PROVE  Num(T, S)' = Num(T, S)
    <3>1. outcome[q] \notin S /\ "queued" \notin S
      BY <2>1 DEF Failures
    <3>2. QED
      BY <2>3, <3>1 DEF Bit
  <2>5. Num(Packets, PastQueue)' = Num(Packets, PastQueue) + 1 /\ Num(Packets, PastQueue) \in Nat
    <3>1. outcome[q] \notin PastQueue /\ "queued" \in PastQueue
      BY <2>1 DEF PastQueue
    <3>2. QED
      BY <2>3, <3>1 DEF Bit
  <2>6. InFlight' = InFlight
    <3>1. Len(queue) \in Nat /\ Cardinality(Jobs) \in Nat
      BY Quantities
    <3>2. Cardinality(Jobs)' = Cardinality(Jobs)
      BY <2>2 DEF Jobs
    <3>3. Len(queue') = Len(queue) + 1
      BY <2>2 DEF Typing, TypeOK
    <3>4. QED
      BY <2>2, <3>1, <3>2, <3>3 DEF InFlight, Bit
  <2>7. \A l : Via(l) \in SUBSET Packets
    BY DEF Via
  <2>8. ReceivedBalance' /\ DecodedBalance'
    BY <2>2, <2>4, <2>6 DEF Balance, ReceivedBalance, DecodedBalance, Bit
  <2>9. QueuedBalance'
    BY <2>2, <2>5, Quantities DEF Balance, QueuedBalance, Bit
  <2>10. ForwardedBalance' /\ FailedBalance'
    BY <2>2, <2>4, <2>7 DEF Balance, ForwardedBalance, FailedBalance
  <2>11. QED
    BY <2>8, <2>9, <2>10 DEF Balance
<1>5. CASE RecordQueued
  <2>1. /\ readPC = "recordQueued" /\ readPC' \in {"respond", "read"}
        /\ UNCHANGED <<queue, job, outcome>> /\ stats' = RecordTrapQueued
    BY <1>5 DEF RecordQueued, Acknowledge, ReadNext, ReaderUnchanged, workerVars
  <2>2. /\ \A T, S : Num(T, S)' = Num(T, S)
        /\ Jobs' = Jobs
    BY <2>1 DEF Num, Jobs
  <2>3. /\ stats'.received = stats.received /\ stats'.rejected = stats.rejected
        /\ stats'.unmatched = stats.unmatched /\ stats'.decoded = stats.decoded
        /\ stats'.queued = stats.queued + 1 /\ stats'.forwarded = stats.forwarded
        /\ stats'.failed = stats.failed /\ stats'.routeSuccesses = stats.routeSuccesses
        /\ stats'.routeFailures = stats.routeFailures
    BY <2>1 DEF RecordTrapQueued, Counters, Typing, TypeOK
  <2>4. QueuedBalance'
    BY <2>1, <2>2, <2>3, Quantities DEF Balance, QueuedBalance, Bit
  <2>5. ReceivedBalance' /\ DecodedBalance' /\ ForwardedBalance' /\ FailedBalance'
    BY <2>1, <2>2, <2>3
    DEF Balance, ReceivedBalance, DecodedBalance, ForwardedBalance, FailedBalance, InFlight, Bit
  <2>6. QED
    BY <2>4, <2>5 DEF Balance
<1>6. CASE RecordDropped
  <2>1. PICK q \in Packets : q = packet /\ outcome[q] = "decoded"
    BY <1>6 DEF RecordDropped, Typing, Handling, Holding, Custody, ReaderHolds
  <2>2. /\ Become(q, "queue_full") /\ stats' = RecordTrapForwardFailure(q)
        /\ readPC = "recordDropped" /\ readPC' \in {"respond", "read"}
        /\ UNCHANGED <<queue, job>>
    BY <1>6, <2>1 DEF RecordDropped, Acknowledge, ReadNext, ReaderUnchanged, workerVars
  <2>3. InFlight' \in Nat /\ InFlight = InFlight' + 1
    <3>1. Len(queue) \in Nat /\ Cardinality(Jobs) \in Nat
      BY Quantities
    <3>2. Cardinality(Jobs)' = Cardinality(Jobs)
      BY <2>2 DEF Jobs
    <3>3. QED
      BY <2>2, <3>1, <3>2 DEF InFlight, Bit
  <2>4. "queue_full" \in Failures
    BY DEF Failures
  <2>5. QED
    BY <2>1, <2>2, <2>3, <2>4, EndKeepsBalance
<1>7. ASSUME NEW w \in Workers, WorkerStep(w)
      PROVE  Balance'
  <2> USE DEF WorkerUnchanged, readerVars
  <2>1. CASE Take(w)
    <3>1. /\ queue \in Seq(Packets) /\ queue # <<>> /\ job[w] = NoPacket
          /\ queue' = Tail(queue) /\ job' = [job EXCEPT ![w] = Head(queue)]
          /\ UNCHANGED <<outcome, stats, readPC>>
      BY <1>7, <2>1 DEF Take, Typing, TypeOK, Busy
    <3>2. PICK q \in Packets : q = Head(queue)
      BY <3>1
    <3>3. /\ Cardinality(Jobs) \in Nat /\ Cardinality(Jobs)' \in Nat
          /\ Cardinality(Jobs)' + Bit(job[w] # NoPacket) = Cardinality(Jobs) + Bit(q # NoPacket)
      BY <3>1, <3>2, JobsMove DEF Typing, TypeOK
    <3>4. Cardinality(Jobs)' = Cardinality(Jobs) + 1
      BY <3>1, <3>2, <3>3, PacketAssumption DEF Bit
    <3>5. Len(queue) \in Nat /\ Len(queue') = Len(queue) - 1
      BY <3>1
    <3>6. InFlight' = InFlight
      <4>1. Bit(readPC \in {"enqueue", "recordDropped"}) \in Nat
        BY DEF Bit
      <4>2. InFlight' = Len(queue') + Cardinality(Jobs)'
                         + Bit(readPC \in {"enqueue", "recordDropped"})
        BY <3>1 DEF InFlight
      <4>3. QED
        BY <3>3, <3>4, <3>5, <4>1, <4>2 DEF InFlight
    <3>7. \A T, S : Num(T, S)' = Num(T, S)
      BY <3>1 DEF Num
    <3>8. QED
      BY <3>1, <3>6, <3>7
      DEF Balance, ReceivedBalance, DecodedBalance, QueuedBalance, ForwardedBalance,
          FailedBalance, Bit
  <2>2. CASE WorkerExits(w) \/ StartPost(w) \/ TimerFires(w)
    BY <2>2, QuietKeepsBalance DEF WorkerExits, StartPost, TimerFires
  <2>3. CASE MarshalFails(w)
    BY <2>3, SettleKeepsBalance DEF MarshalFails, GiveUp, Settled, Failures, Busy
  <2>4. CASE Answered2xx(w)
    BY <2>4, SettleKeepsBalance DEF Answered2xx, Settled, Busy
  <2>5. CASE AnsweredFinal(w)
    BY <2>5, SettleKeepsBalance DEF AnsweredFinal, GiveUp, Settled, Failures, Busy
  <2>6. CASE PostFails(w) \/ PostRefused(w)
    <3>1. /\ workerPC[w] \in Busy /\ RetryOrGiveUp(w) /\ UNCHANGED <<readPC, packet, queue>>
      BY <2>6 DEF PostFails, PostRefused, Busy
    <3>2. CASE stats' = RecordTrapRetry /\ UNCHANGED <<job, outcome>>
      BY <3>1, <3>2, QuietKeepsBalance
    <3>3. CASE GiveUp(w, "exhausted")
      BY <3>1, <3>3, SettleKeepsBalance DEF GiveUp, Settled, Failures
    <3>4. QED
      BY <3>1, <3>2, <3>3 DEF RetryOrGiveUp
  <2>7. CASE Canceled(w)
    BY <2>7, SettleKeepsBalance DEF Canceled, Settled, Busy
  <2>8. QED
    BY <1>7, <2>1, <2>2, <2>3, <2>4, <2>5, <2>6, <2>7 DEF WorkerStep
<1>8. CASE CloseSocket \/ CloseStep \/ DeadlinePasses
  BY <1>8, QuietKeepsBalance
  DEF CloseSocket, CloseStep, CloseQueue, Drained, DeadlineHit, CloseReturns, DeadlinePasses,
      CloseUnchanged, readerVars, workerVars, histVars
<1>9. CASE Terminated \/ UNCHANGED vars
  BY <1>9, QuietKeepsBalance DEF Terminated, vars
<1>10. QED
  BY <1>1, <1>2, <1>3, <1>4, <1>5, <1>6, <1>7, <1>8, <1>9 DEF Next, ReaderStep

(* Whenever /metrics takes a snapshot, every received trap is accounted    *)
(* for: rejected, unmatched or decoded; then forwarded, failed, canceled   *)
(* or still in flight; and the per-route counters split the totals.        *)
THEOREM CountersAlwaysBalance == Spec => []CountersBalance
<1>1. Init => Balance
  <2> SUFFICES ASSUME Init PROVE Balance
    OBVIOUS
  <2>1. ASSUME NEW T \in SUBSET Packets, NEW S, "unseen" \notin S
        PROVE  Num(T, S) = 0
    <3>1. {p \in T : outcome[p] \in S} = {}
      BY <2>1 DEF Init
    <3>2. QED
      BY <3>1, FS_EmptySet DEF Num
  <2>2. \A l : Via(l) \in SUBSET Packets
    BY DEF Via
  <2>3. /\ Num(Packets, {"canceled"}) = 0 /\ Num(Packets, {"forwarded"}) = 0
        /\ Num(Packets, Failures) = 0 /\ Num(Packets, PastQueue) = 0
        /\ \A l : Num(Via(l), {"forwarded"}) = 0 /\ Num(Via(l), Failures) = 0
    BY <2>1, <2>2 DEF Failures, PastQueue
  <2>4. InFlight = 0
    <3>1. Jobs = {}
      BY DEF Init, Jobs
    <3>2. Cardinality(Jobs) = 0
      BY <3>1, FS_EmptySet
    <3>3. QED
      BY <3>2 DEF Init, InFlight, Bit
  <2>5. QED
    BY <2>3, <2>4
    DEF Init, NoStats, Balance, ReceivedBalance, DecodedBalance, QueuedBalance,
        ForwardedBalance, FailedBalance, Bit
<1>2. QED
  BY <1>1, BalanceStep, BalanceIsCountersBalance, TypingInvariant, HoldingInvariant, PTL
  DEF Spec
-----------------------------------------------------------------------------
(* The refinement of TrapDelivery.  Its state is a function of outcome,    *)
(* reply and closePC.                                                      *)

(* A step that changes none of the three is a stutter.                     *)
LEMMA StutterRefines ==
  ASSUME UNCHANGED <<outcome, reply, closePC>>
  PROVE  UNCHANGED Delivery!vars
BY DEF Delivery!vars, Status, Phase

(* The status of a packet read off its outcome, before and after a step.   *)
StatusTable ==
  \A p \in Packets :
    /\ outcome[p] = "unseen" => Status(p) = "new"
    /\ outcome[p] = "received" => Status(p) = "received"
    /\ outcome[p] \in Refusals \cup {"route_not_found"} => Status(p) = "refused"
    /\ outcome[p] \in {"decoded", "queued"} => Status(p) = "accepted"
    /\ outcome[p] = "forwarded" => Status(p) = "delivered"
    /\ outcome[p] \in Failures => Status(p) = "failed"
    /\ outcome[p] = "canceled" => Status(p) = "abandoned"

(* The conditions of Status exclude each other. *)
LEMMA StatusReads == StatusTable
BY DEF StatusTable, Status, Refusals, Failures

(* The same of the next state. *)
LEMMA StatusReadsNext == StatusTable'
<1>1. \A p \in Packets :
        /\ outcome'[p] = "unseen" => Status(p)' = "new"
        /\ outcome'[p] = "received" => Status(p)' = "received"
        /\ outcome'[p] \in Refusals \cup {"route_not_found"} => Status(p)' = "refused"
        /\ outcome'[p] \in {"decoded", "queued"} => Status(p)' = "accepted"
        /\ outcome'[p] = "forwarded" => Status(p)' = "delivered"
        /\ outcome'[p] \in Failures => Status(p)' = "failed"
        /\ outcome'[p] = "canceled" => Status(p)' = "abandoned"
  BY DEF Status, Refusals, Failures
<1>2. QED
  BY <1>1 DEF StatusTable, Refusals, Failures

(* A step that decides on one packet moves that packet and no other.       *)
LEMMA MoveRefines ==
  ASSUME Typing, NEW p \in Packets, NEW what, Become(p, what), UNCHANGED <<reply, closePC>>,
         NEW from, NEW to, Status(p) = from, Status(p)' = to
  PROVE  Delivery!Move(p, from, to)
<1>1. \A o \in Packets \ {p} : outcome'[o] = outcome[o]
  BY DEF Become, Typing, TypeOK
<1>2. \A o \in Packets \ {p} : Status(o)' = Status(o)
  BY <1>1 DEF Status
<1>3. Phase' = Phase
  BY DEF Phase
<1>4. [o \in Packets |-> Status(o)]' = [[o \in Packets |-> Status(o)] EXCEPT ![p] = to]
  BY <1>2
<1>5. QED
  BY <1>3, <1>4 DEF Delivery!Move

(* An inform is not answered before the reader gets to it, and the socket  *)
(* is open until Close begins: what the refinement needs of a step beyond  *)
(* Ordering and Holding.                                                   *)
Fronting ==
  /\ readPC \in Handling => reply[packet] = "none"
  /\ conn = "open" <=> closePC = "idle"

(* Every step keeps it. *)
LEMMA FrontingStep == Typing /\ Holding /\ Fronting /\ [Next]_vars => Fronting'
<1> SUFFICES ASSUME Typing, Holding, Fronting, [Next]_vars
             PROVE  Fronting'
  OBVIOUS
<1> USE DEF Handling
<1>1. ASSUME NEW p \in Packets, Receive(p)
      PROVE  Fronting'
  <2>1. reply[p] = "none"
    BY <1>1 DEF Receive, Holding, HandedOver, PastQueue
  <2>2. QED
    BY <1>1, <2>1 DEF Receive, ReaderUnchanged, closeVars, Fronting
<1>2. CASE ReaderStep
  BY <1>2
  DEF ReaderStep, ReadFails, CloseReadDone, ReaderExits, Reject, Unrouted, Accept, Enqueue,
      QueueFull, RecordQueued, RecordDropped, Respond, Acknowledge, ReadNext,
      ReaderUnchanged, closeVars, histVars, Fronting
<1>3. ASSUME NEW w \in Workers, WorkerStep(w)
      PROVE  Fronting'
  BY <1>3
  DEF WorkerStep, Take, WorkerExits, MarshalFails, StartPost, Answered2xx, AnsweredFinal,
      PostFails, PostRefused, TimerFires, Canceled, WorkerUnchanged, readerVars, closeVars,
      Fronting
<1>4. CASE CloseSocket \/ CloseStep \/ DeadlinePasses
  BY <1>4
  DEF CloseSocket, CloseStep, CloseQueue, Drained, DeadlineHit, CloseReturns, DeadlinePasses,
      CloseUnchanged, readerVars, histVars, Fronting
<1>5. CASE Terminated \/ UNCHANGED vars
  BY <1>5 DEF Terminated, vars, Fronting
<1>6. QED
  BY <1>1, <1>2, <1>3, <1>4, <1>5 DEF Next

(* It holds in every behaviour.                                            *)
THEOREM FrontingInvariant == Spec => []Fronting
<1>1. Init => Fronting
  BY DEF Init, Fronting, Handling
<1>2. QED
  BY <1>1, FrontingStep, TypingInvariant, HoldingInvariant, PTL DEF Spec

(* When reader and workers are gone and the channel is empty nobody holds  *)
(* an open trap.                                                           *)
LEMMA ExitedLeavesNothing ==
  ASSUME Typing, Ordering, Holding, AllExited
  PROVE  \A p \in Packets : Status(p) \notin {"received", "accepted"}
<1> SUFFICES ASSUME NEW p \in Packets
             PROVE  outcome[p] \notin {"received", "decoded", "queued"}
  BY DEF Status, Typing, TypeOK, Outcomes, Refusals, Failures
<1>1. /\ readPC = "exited" /\ queue = <<>>
      /\ \A w \in Workers : workerPC[w] = "exited"
  BY ConfigAssumption DEF Ordering, AllExited
<1>2. outcome[p] \notin {"received", "decoded"}
  BY <1>1 DEF Holding, Custody, ReaderHolds
<1>3. \A w \in Workers : job[w] # p
  BY <1>1 DEF Typing, Busy
<1>4. QED
  BY <1>1, <1>2, <1>3 DEF Holding, Custody, InQueue

(* A worker that settles its job finishes an accepted trap.                *)
LEMMA SettleRefines ==
  ASSUME Typing, Ordering, Holding, NEW w \in Workers, workerPC[w] \in Busy,
         NEW why \in Settled, Become(job[w], why), UNCHANGED <<reply, closePC>>,
         why = "canceled" => closePC = "draining"
  PROVE  \E p \in Packets : Delivery!Finish(p)
<1>1. PICK p \in Packets : p = job[w]
  BY DEF Typing
<1>2. outcome[p] = "queued" /\ Become(p, why)
  BY <1>1, PacketAssumption DEF Holding, Custody
<1>3. outcome'[p] = why
  BY <1>2 DEF Become, Typing, TypeOK
<1>4. Status(p) = "accepted"
  BY <1>2, StatusReads DEF StatusTable
<1>5. closePC # "returned"
  BY DEF Ordering, AllExited, Busy
<1>6. Phase # "stopped" /\ (closePC = "draining" => Phase = "expired")
  BY <1>5 DEF Phase, Typing, TypeOK
<1>7. CASE why = "forwarded"
  <2>1. Status(p)' = "delivered"
    BY <1>3, <1>7, StatusReadsNext DEF StatusTable
  <2>2. Delivery!Move(p, "accepted", "delivered")
    BY <1>2, <1>4, <2>1, MoveRefines
  <2>3. QED
    BY <1>6, <2>2 DEF Delivery!Finish
<1>8. CASE why \in Failures
  <2>1. Status(p)' = "failed"
    BY <1>3, <1>8, StatusReadsNext DEF StatusTable
  <2>2. Delivery!Move(p, "accepted", "failed")
    BY <1>2, <1>4, <2>1, MoveRefines
  <2>3. QED
    BY <1>6, <2>2 DEF Delivery!Finish
<1>9. CASE why = "canceled"
  <2>1. Status(p)' = "abandoned"
    BY <1>3, <1>9, StatusReadsNext DEF StatusTable
  <2>2. Delivery!Move(p, "accepted", "abandoned")
    BY <1>2, <1>4, <2>1, MoveRefines
  <2>3. QED
    BY <1>6, <1>9, <2>2 DEF Delivery!Finish
<1>10. QED
  BY <1>7, <1>8, <1>9 DEF Settled, Failures

(* The step of the promise that each step of the service is.               *)
LEMMA StepRefines ==
  Typing /\ Ordering /\ Holding /\ Fronting /\ [Next]_vars => [Delivery!Next]_(Delivery!vars)
<1> SUFFICES ASSUME Typing, Ordering, Holding, Fronting, [Next]_vars
             PROVE  Delivery!Next \/ UNCHANGED Delivery!vars
  OBVIOUS
<1> USE DEF Handling
<1>1. readPC \in Handling => packet \in Packets /\ closePC # "returned"
  BY DEF Typing, Ordering, AllExited
<1>2. closePC # "returned" => Phase # "stopped"
  BY DEF Phase, Typing, TypeOK
<1>3. ASSUME NEW p \in Packets, NEW what, Become(p, what)
      PROVE  outcome'[p] = what
  BY <1>3 DEF Become, Typing, TypeOK
<1>4. ASSUME NEW p \in Packets, Receive(p)
      PROVE  Delivery!Next
  <2>1. Become(p, "received") /\ UNCHANGED <<reply, closePC>> /\ outcome[p] = "unseen"
        /\ conn = "open"
    BY <1>4 DEF Receive, ReaderUnchanged, closeVars
  <2>2. Phase = "serving"
    BY <2>1 DEF Fronting, Phase
  <2>3. Status(p) = "new" /\ outcome'[p] = "received"
    BY <1>3, <2>1, StatusReads DEF StatusTable
  <2>4. Status(p)' = "received"
    BY <2>3, StatusReadsNext DEF StatusTable
  <2>5. Delivery!Move(p, "new", "received")
    BY <2>1, <2>3, <2>4, MoveRefines
  <2>6. QED
    BY <2>2, <2>5 DEF Delivery!Receive, Delivery!Next
<1>5. CASE Reject \/ Unrouted \/ Accept
  <2>1. readPC = "handle" /\ UNCHANGED <<reply, closePC>>
    BY <1>5 DEF Reject, Unrouted, Accept, ReaderUnchanged, closeVars
  <2>2. PICK p \in Packets : p = packet
    BY <1>1, <2>1
  <2>3. PICK what \in Refusals \cup {"route_not_found", "decoded"} : Become(p, what)
    BY <1>5, <2>2 DEF Reject, Unrouted, Accept, Refusals
  <2>4. outcome[p] = "received" /\ outcome'[p] = what
    BY <1>3, <2>1, <2>2, <2>3 DEF Holding
  <2>5. Status(p) = "received"
    BY <2>4, StatusReads DEF StatusTable
  <2>6. Status(p)' = IF what = "decoded" THEN "accepted" ELSE "refused"
    BY <2>3, <2>4, StatusReadsNext DEF StatusTable, Refusals
  <2>7. Delivery!Move(p, "received", IF what = "decoded" THEN "accepted" ELSE "refused")
    BY <2>1, <2>3, <2>5, <2>6, MoveRefines
  <2>8. Delivery!Decide(p)
    BY <1>1, <1>2, <2>1, <2>7 DEF Delivery!Decide
  <2>9. QED
    BY <2>8 DEF Delivery!Next
<1>6. CASE Enqueue
  <2>1. packet \in Packets /\ outcome[packet] = "decoded" /\ Become(packet, "queued")
    BY <1>1, <1>6 DEF Enqueue, Holding, Custody, ReaderHolds
  <2>2. UNCHANGED <<reply, closePC>>
    BY <1>6 DEF Enqueue, ReaderUnchanged, closeVars
  <2>3. \A p \in Packets : p = packet => outcome[p] = "decoded" /\ outcome'[p] = "queued"
    BY <1>3, <2>1
  <2>4. \A p \in Packets : p # packet => outcome'[p] = outcome[p]
    BY <2>1 DEF Become, Typing, TypeOK
  <2>5. \A p \in Packets : p = packet => Status(p)' = Status(p)
    BY <2>3, StatusReads, StatusReadsNext DEF StatusTable
  <2>6. \A p \in Packets : p # packet => Status(p)' = Status(p)
    BY <2>4 DEF Status
  <2>7. QED
    BY <2>2, <2>5, <2>6 DEF Delivery!vars, Phase
<1>7. CASE RecordDropped
  <2>1. readPC = "recordDropped" /\ UNCHANGED <<reply, closePC>>
    BY <1>7 DEF RecordDropped, ReaderUnchanged, closeVars
  <2>2. PICK p \in Packets : p = packet
    BY <1>1, <2>1
  <2>3. outcome[p] = "decoded" /\ Become(p, "queue_full")
    BY <1>7, <2>1, <2>2 DEF RecordDropped, Holding, Custody, ReaderHolds
  <2>4. Status(p) = "accepted"
    BY <2>3, StatusReads DEF StatusTable
  <2>5. Status(p)' = "failed"
    BY <1>3, <2>3, StatusReadsNext DEF StatusTable, Failures
  <2>6. Delivery!Move(p, "accepted", "failed")
    BY <2>1, <2>3, <2>4, <2>5, MoveRefines
  <2>7. QED
    BY <1>1, <1>2, <2>1, <2>6 DEF Delivery!Finish, Delivery!Next
<1>8. CASE Respond
  <2>1. PICK result \in {"sent", "failed"} : reply' = [reply EXCEPT ![packet] = result]
    BY <1>8 DEF Respond
  <2>2. readPC = "respond" /\ UNCHANGED <<outcome, closePC>>
    BY <1>8 DEF Respond, ReaderUnchanged, closeVars
  <2>3. PICK p \in Packets : p = packet
    BY <1>1, <2>2
  <2>4. reply[p] = "none" /\ outcome[p] \in HandedOver
    BY <2>2, <2>3 DEF Fronting, Holding
  <2>5. UNCHANGED <<[o \in Packets |-> Status(o)], Phase>>
    BY <2>2 DEF Status, Phase
  <2>6. reply'[p] = result /\ \A o \in Packets \ {p} : reply'[o] = reply[o]
    BY <2>1, <2>3 DEF Typing, TypeOK
  <2>7. CASE result = "failed"
    <3>1. {o \in Packets : reply'[o] = "sent"} = {o \in Packets : reply[o] = "sent"}
      BY <2>4, <2>6, <2>7
    <3>2. QED
      BY <2>5, <3>1 DEF Delivery!vars
  <2>8. CASE result = "sent"
    <3>1. Status(p) \in Delivery!Unrefused
      BY <2>4, StatusReads
      DEF HandedOver, PastQueue, StatusTable, Failures, Refusals, Delivery!Unrefused
    <3>2. {o \in Packets : reply'[o] = "sent"} = {o \in Packets : reply[o] = "sent"} \cup {p}
      BY <2>6, <2>8
    <3>3. p \notin {o \in Packets : reply[o] = "sent"}
      BY <2>4
    <3>4. Delivery!Answer(p)
      BY <1>1, <1>2, <2>2, <2>5, <3>1, <3>2, <3>3 DEF Delivery!Answer
    <3>5. QED
      BY <3>4 DEF Delivery!Next
  <2>9. QED
    BY <2>7, <2>8
<1>9. CASE ReadFails \/ CloseReadDone \/ ReaderExits \/ QueueFull \/ RecordQueued
  BY <1>9, StutterRefines
  DEF ReadFails, CloseReadDone, ReaderExits, QueueFull, RecordQueued, ReaderUnchanged,
      closeVars, histVars
<1>10. ASSUME NEW w \in Workers, WorkerStep(w)
       PROVE  Delivery!Next \/ UNCHANGED Delivery!vars
  <2> USE DEF WorkerUnchanged, closeVars
  <2>1. CASE \/ MarshalFails(w) \/ Answered2xx(w) \/ AnsweredFinal(w)
             \/ (PostFails(w) \/ PostRefused(w)) /\ GiveUp(w, "exhausted")
    BY <1>10, <2>1, SettleRefines
    DEF MarshalFails, Answered2xx, AnsweredFinal, PostFails, PostRefused, GiveUp, Settled, Busy,
        Delivery!Next
  <2>2. CASE Canceled(w)
    <3>1. closePC = "draining"
      BY <1>10, <2>2 DEF Canceled, Ordering, AllExited
    <3>2. QED
      BY <1>10, <2>2, <3>1, SettleRefines DEF Canceled, Settled, Busy, Delivery!Next
  <2>3. CASE \/ Take(w) \/ WorkerExits(w) \/ StartPost(w) \/ TimerFires(w)
             \/ (PostFails(w) \/ PostRefused(w)) /\ UNCHANGED outcome
    BY <2>3, StutterRefines DEF Take, WorkerExits, StartPost, TimerFires, PostFails, PostRefused
  <2>4. QED
    BY <1>10, <2>1, <2>2, <2>3 DEF WorkerStep, PostFails, PostRefused, RetryOrGiveUp
<1>11. CASE CloseSocket
  BY <1>11
  DEF CloseSocket, CloseUnchanged, histVars, Phase, Status, Delivery!Stop, Delivery!Next
<1>12. CASE CloseQueue
  BY <1>12 DEF CloseQueue, CloseUnchanged, histVars, Phase, Status, Delivery!vars
<1>13. CASE DeadlineHit
  BY <1>13
  DEF DeadlineHit, CloseUnchanged, histVars, Phase, Status, Delivery!Expire, Delivery!Next
<1>14. CASE Drained \/ CloseReturns
  <2>1. AllExited /\ UNCHANGED <<outcome, reply>>
    BY <1>14 DEF Drained, CloseReturns, MayReturn, CloseUnchanged, histVars
  <2>2. Phase \in {"stopping", "expired"} /\ Phase' = "stopped"
    BY <1>14 DEF Drained, CloseReturns, Phase
  <2>3. UNCHANGED [p \in Packets |-> Status(p)]
    BY <2>1 DEF Status
  <2>4. Delivery!Stopped
    BY <2>1, <2>2, <2>3, ExitedLeavesNothing DEF Delivery!Stopped, Delivery!Open
  <2>5. QED
    BY <2>4 DEF Delivery!Next
<1>15. CASE DeadlinePasses
  BY <1>15, StutterRefines DEF DeadlinePasses, CloseUnchanged, histVars
<1>16. CASE Terminated \/ UNCHANGED vars
  BY <1>16, StutterRefines DEF Terminated, vars
<1>17. QED
  BY <1>4, <1>5, <1>6, <1>7, <1>8, <1>9, <1>10, <1>11, <1>12, <1>13, <1>14, <1>15, <1>16
  DEF Next, ReaderStep, CloseStep

(* The service keeps the promise of TrapDelivery: no interleaving of       *)
(* reader, workers, Close and its deadline lets a trap end twice, be       *)
(* abandoned before the deadline, be answered when it was refused, or stay *)
(* open when the service reports that it has stopped.                      *)
THEOREM ServiceDelivers == Spec => DeliversSafely
<1>1. Init => Delivery!Init
  <2> SUFFICES ASSUME Init PROVE Delivery!Init
    OBVIOUS
  <2>1. \A p \in Packets : outcome[p] = "unseen" /\ reply[p] = "none"
    BY DEF Init
  <2>2. \A p \in Packets : Status(p) = "new"
    BY <2>1, StatusReads DEF StatusTable
  <2>3. {p \in Packets : reply[p] = "sent"} = {}
    BY <2>1
  <2>4. Phase = "serving"
    BY DEF Init, Phase
  <2>5. QED
    BY <2>2, <2>3, <2>4 DEF Delivery!Init
<1>2. QED
  BY <1>1, StepRefines, TypingInvariant, OrderingInvariant, HoldingInvariant,
     FrontingInvariant, PTL DEF Spec, DeliversSafely, Delivery!Safety
=============================================================================
