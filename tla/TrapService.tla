----------------------------- MODULE TrapService -----------------------------
(***************************************************************************)
(* The trap service of internal/gateway/traps.go while it is enabled: one  *)
(* goroutine reads datagrams from the UDP socket (readLoop, handlePacket), *)
(* a pool of goroutines takes jobs from a bounded channel and POSTs them   *)
(* to a webhook (worker, forward), and the main goroutine shuts everything *)
(* down (Close).  They share the channel, the socket, a cancellable        *)
(* context, a wait group and the counters of internal/gateway/stats.go.    *)
(*                                                                         *)
(* One action is a piece of code between two points where another          *)
(* goroutine can tell the difference: a channel operation, a system call,  *)
(* a critical section of Stats.  The payload of a trapJob is computed once *)
(* and never changes, so a job is represented by its packet.               *)
(***************************************************************************)
EXTENDS TrapRouter

CONSTANTS Packets,             \* the datagrams that can arrive, each at most once
          NoPacket,
          Datagram,            \* what the decoder makes of each packet
          Workers,             \* TrapForwardWorkers goroutines
          QueueSize,           \* TrapForwardQueueSize
          Retries,             \* TrapForwardRetries
          AllowedCommunities,  \* TrapAllowedCommunities, {} admits all
          RouteFile, DefaultTarget

Versions == {"1", "2c", "3"}
PDUTypes == {"Trap", "SNMPv2Trap", "InformRequest", "Other"}

ASSUME PacketAssumption ==
  /\ IsFiniteSet(Packets) /\ NoPacket \notin Packets
  /\ \A p \in Packets :
       /\ Datagram[p].decodes \in BOOLEAN /\ Datagram[p].encodes \in BOOLEAN
       /\ Datagram[p].version \in Versions /\ Datagram[p].pdu \in PDUTypes

(* What Config.Validate leaves of the numeric settings. *)
ASSUME ConfigAssumption ==
  /\ IsFiniteSet(Workers) /\ Workers # {}
  /\ QueueSize \in Nat \ {0} /\ Retries \in Nat

Router == LoadTrapRouter(RouteFile, DefaultTarget)

(* NewTrapService returns no service otherwise. *)
ASSUME RouterAssumption ==
  Router.ok /\ (Router.routes # <<>> \/ Router.defaultTarget # NoTarget)
-----------------------------------------------------------------------------
VARIABLES
  conn,         \* the UDP socket: "open" or "closed"
  readPC,       \* where readLoop / handlePacket stands
  packet,       \* the packet it is handling
  queue,        \* contents of the jobs channel
  queueClosed,  \* close(s.queue) has happened
  readDone,     \* close(s.readDone) has happened
  workerPC, job, attempt,      \* per worker: place in forward, job, loop counter
  workerCtxDone,               \* s.cancel has been called
  closePC, closeResult,        \* place in Close, and what it returned
  deadlinePassed,              \* the context given to Close has expired
  stats,                       \* the trap counters of Stats
  outcome,      \* history: what has become of each packet
  reply,        \* history: the response to each inform
  posts         \* history: POST requests made for each packet

readerVars == <<readPC, packet>>
queueVars  == <<queue, queueClosed>>
workerVars == <<workerPC, job, attempt>>
closeVars  == <<conn, readDone, workerCtxDone, closePC, closeResult, deadlinePassed>>
histVars   == <<outcome, reply, posts>>
vars == <<conn, readPC, packet, queue, queueClosed, readDone, workerPC, job, attempt,
          workerCtxDone, closePC, closeResult, deadlinePassed, stats, outcome,
          reply, posts>>
-----------------------------------------------------------------------------
(* Deciding about one packet. *)

supportedTrapPacket(d) ==
  \/ d.version = "1" /\ d.pdu = "Trap"
  \/ d.version \in {"2c", "3"} /\ d.pdu \in {"SNMPv2Trap", "InformRequest"}

communityAllowed(community) ==
  AllowedCommunities = {} \/ community \in AllowedCommunities

Verdict(p) ==
  LET d == Datagram[p]
  IN  CASE ~d.decodes -> "decode_error"
        [] d.decodes /\ ~supportedTrapPacket(d) -> "unsupported_version"
        [] /\ d.decodes /\ supportedTrapPacket(d)
           /\ d.version # "3" /\ ~communityAllowed(d.community) -> "community_rejected"
        [] OTHER -> "admitted"

Refusals == {"decode_error", "unsupported_version", "community_rejected"}

RouteOf(p) == Match(Router, Datagram[p].source, Datagram[p].trapOID)
IsInform(p) == Datagram[p].pdu = "InformRequest"
-----------------------------------------------------------------------------
(* The critical sections of Stats; the latency sums are left out. *)

Labels == {RouteOf(p).cidr : p \in Packets}     \* keys of the per-route counters

RecordTrapReceived  == [stats EXCEPT !.received = @ + 1]
RecordTrapDecoded   == [stats EXCEPT !.decoded = @ + 1, !.matched = @ + 1]
RecordTrapRejected  == [stats EXCEPT !.rejected = @ + 1]
RecordTrapUnmatched == [stats EXCEPT !.unmatched = @ + 1]
RecordTrapQueued    == [stats EXCEPT !.queued = @ + 1]
RecordTrapRetry     == [stats EXCEPT !.retries = @ + 1]
RecordTrapForwardSuccess(p) ==
  [stats EXCEPT !.forwarded = @ + 1, !.routeSuccesses[RouteOf(p).cidr] = @ + 1]
RecordTrapForwardFailure_RouteOnly(p) ==    \* mutant: the total is forgotten
  [stats EXCEPT !.routeFailures[RouteOf(p).cidr] = @ + 1]
RecordTrapForwardFailure(p) ==
  [stats EXCEPT !.failed = @ + 1, !.routeFailures[RouteOf(p).cidr] = @ + 1]

NoStats ==
  [received |-> 0, decoded |-> 0, matched |-> 0, rejected |-> 0, unmatched |-> 0,
   queued |-> 0, forwarded |-> 0, failed |-> 0, retries |-> 0,
   routeSuccesses |-> [l \in Labels |-> 0], routeFailures |-> [l \in Labels |-> 0]]

Become(p, what) == outcome' = [outcome EXCEPT ![p] = what]
-----------------------------------------------------------------------------
(* The service just after Start. *)
Init ==
  /\ conn = "open" /\ readPC = "read" /\ packet = NoPacket
  /\ queue = <<>> /\ queueClosed = FALSE /\ readDone = FALSE
  /\ workerPC = [w \in Workers |-> "idle"]
  /\ job = [w \in Workers |-> NoPacket]
  /\ attempt = [w \in Workers |-> 0]
  /\ workerCtxDone = FALSE
  /\ closePC = "idle" /\ closeResult = "none" /\ deadlinePassed = FALSE
  /\ stats = NoStats
  /\ outcome = [p \in Packets |-> "unseen"]
  /\ reply = [p \in Packets |-> "none"]
  /\ posts = [p \in Packets |-> 0]
-----------------------------------------------------------------------------
(* readLoop.  A read error other than a closed socket is logged and the    *)
(* loop reads again: no step.                                              *)

ReaderUnchanged == UNCHANGED <<workerVars, closeVars, queueClosed, posts>>

Receive(p) ==
  /\ readPC = "read" /\ conn = "open" /\ outcome[p] = "unseen"
  /\ readPC' = "handle" /\ packet' = p
  /\ stats' = RecordTrapReceived
  /\ Become(p, "received")
  /\ UNCHANGED <<queue, reply>> /\ ReaderUnchanged

ReadFails ==        \* net.ErrClosed
  /\ readPC = "read" /\ conn = "closed"
  /\ readPC' = "stopping"
  /\ UNCHANGED <<packet, queue, stats, outcome, reply>> /\ ReaderUnchanged

CloseReadDone ==    \* the deferred calls run last first
  /\ readPC = "stopping"
  /\ readDone' = TRUE
  /\ readPC' = "stopped"
  /\ UNCHANGED <<packet, queueVars, workerVars, conn, workerCtxDone, closePC,
                 closeResult, deadlinePassed, stats, histVars>>

ReaderExits ==      \* wg.Done
  /\ readPC = "stopped"
  /\ readPC' = "exited"
  /\ UNCHANGED <<packet, queue, stats, outcome, reply>> /\ ReaderUnchanged

ReadNext == readPC' = "read" /\ packet' = NoPacket

Acknowledge ==
  IF IsInform(packet)
  THEN readPC' = "respond" /\ UNCHANGED packet
  ELSE ReadNext

(* handlePacket, and the decoding before it. *)
Reject_Answered ==  \* mutant: a refused inform is answered
  /\ readPC = "handle" /\ Verdict(packet) \in Refusals
  /\ stats' = RecordTrapRejected
  /\ Become(packet, Verdict(packet))
  /\ Acknowledge
  /\ UNCHANGED <<queue, reply>> /\ ReaderUnchanged

Reject ==
  /\ readPC = "handle" /\ Verdict(packet) \in Refusals
  /\ stats' = RecordTrapRejected
  /\ Become(packet, Verdict(packet))
  /\ ReadNext
  /\ UNCHANGED <<queue, reply>> /\ ReaderUnchanged

Unrouted ==
  /\ readPC = "handle" /\ Verdict(packet) = "admitted" /\ ~RouteOf(packet).ok
  /\ stats' = RecordTrapUnmatched
  /\ Become(packet, "route_not_found")
  /\ ReadNext
  /\ UNCHANGED <<queue, reply>> /\ ReaderUnchanged

Accept ==
  /\ readPC = "handle" /\ Verdict(packet) = "admitted" /\ RouteOf(packet).ok
  /\ stats' = RecordTrapDecoded
  /\ Become(packet, "decoded")
  /\ readPC' = "enqueue"
  /\ UNCHANGED <<packet, queue, reply>> /\ ReaderUnchanged

HasRoom_TooBig == Len(queue) <= QueueSize       \* mutant: one job too many
HasRoom == Len(queue) < QueueSize

(* The select: a send on the channel, or its default.  A send after        *)
(* close(s.queue) would panic: NoSendOnClosedQueue.                        *)
Enqueue ==
  /\ readPC = "enqueue" /\ HasRoom
  /\ queue' = Append(queue, packet)
  /\ Become(packet, "queued")
  /\ readPC' = "recordQueued"
  /\ UNCHANGED <<packet, stats, reply>> /\ ReaderUnchanged

QueueFull_Silent == \* mutant: the default branch does nothing
  /\ readPC = "enqueue" /\ ~HasRoom
  /\ Acknowledge
  /\ UNCHANGED <<queue, stats, outcome, reply>> /\ ReaderUnchanged

QueueFull ==
  /\ readPC = "enqueue" /\ ~HasRoom
  /\ readPC' = "recordDropped"
  /\ UNCHANGED <<packet, queue, stats, outcome, reply>> /\ ReaderUnchanged

RecordQueued ==
  /\ readPC = "recordQueued"
  /\ stats' = RecordTrapQueued
  /\ Acknowledge
  /\ UNCHANGED <<queue, outcome, reply>> /\ ReaderUnchanged

RecordDropped ==
  /\ readPC = "recordDropped"
  /\ stats' = RecordTrapForwardFailure(packet)
  /\ Become(packet, "queue_full")
  /\ Acknowledge
  /\ UNCHANGED <<queue, reply>> /\ ReaderUnchanged

(* sendInformResponse: encoding or sending may fail, and sending does fail *)
(* once Close has closed the socket.                                       *)
Respond ==
  /\ readPC = "respond"
  /\ \E result \in {"sent", "failed"} :
       /\ result = "sent" => conn = "open"
       /\ reply' = [reply EXCEPT ![packet] = result]
  /\ ReadNext
  /\ UNCHANGED <<queue, stats, outcome>> /\ ReaderUnchanged

ReaderStep ==
  \/ ReadFails \/ CloseReadDone \/ ReaderExits \/ Reject \/ Unrouted \/ Accept
  \/ Enqueue \/ QueueFull \/ RecordQueued \/ RecordDropped \/ Respond
-----------------------------------------------------------------------------
(* worker and forward.  An answer that is neither 2xx nor retried is any   *)
(* status below 500 but 429; a retryable one is 429, 5xx, a network error  *)
(* or the client's timeout.                                                *)

WorkerUnchanged == UNCHANGED <<readerVars, closeVars, queueClosed, reply>>

AwaitJob(w) ==
  /\ workerPC' = [workerPC EXCEPT ![w] = "idle"]
  /\ job' = [job EXCEPT ![w] = NoPacket]
  /\ attempt' = [attempt EXCEPT ![w] = 0]

Take(w) ==
  /\ workerPC[w] = "idle" /\ queue # <<>>
  /\ workerPC' = [workerPC EXCEPT ![w] = "attempt"]
  /\ job' = [job EXCEPT ![w] = Head(queue)]
  /\ queue' = Tail(queue)
  /\ UNCHANGED <<attempt, stats, outcome, posts>> /\ WorkerUnchanged

MayExit_Eager == queue = <<>>       \* mutant: the worker polls the queue
MayExit == queue = <<>> /\ queueClosed

WorkerExits(w) ==   \* the range over the channel ends; wg.Done
  /\ workerPC[w] = "idle" /\ MayExit
  /\ workerPC' = [workerPC EXCEPT ![w] = "exited"]
  /\ UNCHANGED <<queue, job, attempt, stats, outcome, posts>> /\ WorkerUnchanged

GiveUp(w, why) ==
  /\ stats' = RecordTrapForwardFailure(job[w])
  /\ Become(job[w], why)
  /\ AwaitJob(w)

MarshalFails(w) ==
  /\ workerPC[w] = "attempt" /\ ~Datagram[job[w]].encodes
  /\ GiveUp(w, "unencodable")
  /\ UNCHANGED <<queue, posts>> /\ WorkerUnchanged

StartPost(w) ==
  /\ workerPC[w] = "attempt" /\ Datagram[job[w]].encodes /\ ~workerCtxDone
  /\ workerPC' = [workerPC EXCEPT ![w] = "posting"]
  /\ posts' = [posts EXCEPT ![job[w]] = @ + 1]
  /\ UNCHANGED <<queue, job, attempt, stats, outcome>> /\ WorkerUnchanged

Answered2xx(w) ==
  /\ workerPC[w] = "posting"
  /\ stats' = RecordTrapForwardSuccess(job[w])
  /\ Become(job[w], "forwarded")
  /\ AwaitJob(w)
  /\ UNCHANGED <<queue, posts>> /\ WorkerUnchanged

AnsweredFinal(w) ==
  /\ workerPC[w] = "posting"
  /\ GiveUp(w, "refused")
  /\ UNCHANGED <<queue, posts>> /\ WorkerUnchanged

RetriesLeft_OneMore(w) == attempt[w] <= Retries     \* mutant: off by one
RetriesLeft(w) == attempt[w] < Retries

RetryOrGiveUp(w) ==
  \/ /\ RetriesLeft(w)
     /\ stats' = RecordTrapRetry
     /\ workerPC' = [workerPC EXCEPT ![w] = "backoff"]
     /\ UNCHANGED <<job, attempt, outcome>>
  \/ ~RetriesLeft(w) /\ GiveUp(w, "exhausted")

PostFails(w) ==
  /\ workerPC[w] = "posting"
  /\ RetryOrGiveUp(w)
  /\ UNCHANGED <<queue, posts>> /\ WorkerUnchanged

PostRefused(w) ==   \* client.Do does not send a request whose context is done
  /\ workerPC[w] = "attempt" /\ Datagram[job[w]].encodes /\ workerCtxDone
  /\ RetryOrGiveUp(w)
  /\ UNCHANGED <<queue, posts>> /\ WorkerUnchanged

(* The select in the backoff: when both are ready either may be taken. *)
TimerFires(w) ==
  /\ workerPC[w] = "backoff"
  /\ workerPC' = [workerPC EXCEPT ![w] = "attempt"]
  /\ attempt' = [attempt EXCEPT ![w] = @ + 1]
  /\ UNCHANGED <<queue, job, stats, outcome, posts>> /\ WorkerUnchanged

Canceled(w) ==      \* the return leaves no statistic and no log line
  /\ workerPC[w] = "backoff" /\ workerCtxDone
  /\ Become(job[w], "canceled")
  /\ AwaitJob(w)
  /\ UNCHANGED <<queue, stats, posts>> /\ WorkerUnchanged

WorkerStep(w) ==
  \/ Take(w) \/ WorkerExits(w) \/ MarshalFails(w) \/ StartPost(w)
  \/ Answered2xx(w) \/ AnsweredFinal(w) \/ PostFails(w) \/ PostRefused(w)
  \/ TimerFires(w) \/ Canceled(w)
-----------------------------------------------------------------------------
(* Close.  The goroutine that turns wg.Wait into the channel "done" is the *)
(* condition AllExited.                                                    *)

CloseUnchanged == UNCHANGED <<readerVars, workerVars, queue, readDone, stats, histVars>>

AllExited == readPC = "exited" /\ \A w \in Workers : workerPC[w] = "exited"

CloseSocket ==
  /\ closePC = "idle"
  /\ conn' = "closed"
  /\ closePC' = "awaitReader"
  /\ UNCHANGED <<queueClosed, workerCtxDone, closeResult, deadlinePassed>>
  /\ CloseUnchanged

MayCloseQueue_Unordered == TRUE     \* mutant: no wait for the reader
MayCloseQueue == readDone

CloseQueue_Forgotten ==             \* mutant: the channel stays open
  /\ closePC = "awaitReader" /\ MayCloseQueue
  /\ closePC' = "waiting"
  /\ UNCHANGED <<conn, queueClosed, workerCtxDone, closeResult, deadlinePassed>>
  /\ CloseUnchanged

CloseQueue ==
  /\ closePC = "awaitReader" /\ MayCloseQueue
  /\ queueClosed' = TRUE
  /\ closePC' = "waiting"
  /\ UNCHANGED <<conn, workerCtxDone, closeResult, deadlinePassed>>
  /\ CloseUnchanged

(* The select between done and ctx.Done; either when both are ready. *)
Drained ==
  /\ closePC = "waiting" /\ AllExited
  /\ workerCtxDone' = TRUE
  /\ closeResult' = "nil"
  /\ closePC' = "returned"
  /\ UNCHANGED <<conn, queueClosed, deadlinePassed>>
  /\ CloseUnchanged

MayCancel_Early == TRUE             \* mutant: cancels without waiting
MayCancel == deadlinePassed

DeadlineHit ==
  /\ closePC = "waiting" /\ MayCancel
  /\ workerCtxDone' = TRUE
  /\ closePC' = "draining"
  /\ UNCHANGED <<conn, queueClosed, closeResult, deadlinePassed>>
  /\ CloseUnchanged

MayReturn_Impatient == TRUE         \* mutant: no second wait for the workers
MayReturn == AllExited

CloseReturns ==
  /\ closePC = "draining" /\ MayReturn
  /\ closeResult' = "deadline"
  /\ closePC' = "returned"
  /\ UNCHANGED <<conn, queueClosed, workerCtxDone, deadlinePassed>>
  /\ CloseUnchanged

CloseStep == CloseQueue \/ Drained \/ DeadlineHit \/ CloseReturns

(* main creates the context before it shuts the HTTP server down, so it    *)
(* may have expired when Close starts.                                     *)
DeadlinePasses ==
  /\ ~deadlinePassed /\ closePC # "returned"
  /\ deadlinePassed' = TRUE
  /\ UNCHANGED <<conn, queueClosed, workerCtxDone, closePC, closeResult>>
  /\ CloseUnchanged

Terminated == closePC = "returned" /\ AllExited /\ UNCHANGED vars
-----------------------------------------------------------------------------
Next ==
  \/ \E p \in Packets : Receive(p)
  \/ ReaderStep
  \/ \E w \in Workers : WorkerStep(w)
  \/ CloseSocket \/ CloseStep \/ DeadlinePasses \/ Terminated

Spec == Init /\ [][Next]_vars

(* Goroutines are scheduled, timers fire, and the client's timeout ends    *)
(* every POST.  Nothing makes a datagram arrive, Close be called or the    *)
(* deadline pass.                                                          *)
Fairness ==
  /\ WF_vars(ReaderStep)
  /\ \A w \in Workers : WF_vars(WorkerStep(w))
  /\ WF_vars(CloseStep)

FairSpec == Spec /\ Fairness
-----------------------------------------------------------------------------
(* Properties. *)

Outcomes == {"unseen", "received", "route_not_found", "decoded", "queued", "queue_full",
             "forwarded", "refused", "exhausted", "unencodable", "canceled"} \cup Refusals

Counters ==
  [received : Nat, decoded : Nat, matched : Nat, rejected : Nat, unmatched : Nat,
   queued : Nat, forwarded : Nat, failed : Nat, retries : Nat,
   routeSuccesses : [Labels -> Nat], routeFailures : [Labels -> Nat]]

(* Type invariant; the channel never holds more than its capacity and the  *)
(* retry loop of forward never counts beyond TrapForwardRetries.           *)
TypeOK ==
  /\ conn \in {"open", "closed"}
  /\ readPC \in {"read", "handle", "enqueue", "recordQueued", "recordDropped", "respond",
                 "stopping", "stopped", "exited"}
  /\ packet \in Packets \cup {NoPacket}
  /\ queue \in Seq(Packets) /\ Len(queue) <= QueueSize
  /\ queueClosed \in BOOLEAN /\ readDone \in BOOLEAN
  /\ workerPC \in [Workers -> {"idle", "attempt", "posting", "backoff", "exited"}]
  /\ job \in [Workers -> Packets \cup {NoPacket}]
  /\ attempt \in [Workers -> 0..Retries]
  /\ workerCtxDone \in BOOLEAN /\ deadlinePassed \in BOOLEAN
  /\ closePC \in {"idle", "awaitReader", "waiting", "draining", "returned"}
  /\ closeResult \in {"none", "nil", "deadline"}
  /\ stats \in Counters
  /\ outcome \in [Packets -> Outcomes]
  /\ reply \in [Packets -> {"none", "sent", "failed"}]
  /\ posts \in [Packets -> Nat]

(* The reader never sends on the channel after Close has closed it, which  *)
(* would panic: Close waits for readDone before close(s.queue).            *)
NoSendOnClosedQueue == readPC = "enqueue" => ~queueClosed

ReaderHolds(p) == readPC \in {"enqueue", "recordDropped"} /\ packet = p
InQueue(p) == \E i \in DOMAIN queue : queue[i] = p

(* A decoded trap that is not settled is in exactly one place: with the    *)
(* reader, at one position of the channel, or with one worker.  No         *)
(* interleaving of the select, the workers and Close loses or doubles it.  *)
Custody ==
  /\ \A p \in Packets : outcome[p] = "decoded" <=> ReaderHolds(p)
  /\ \A p \in Packets :
       outcome[p] = "queued" <=> InQueue(p) \/ \E w \in Workers : job[w] = p
  /\ \A i, j \in DOMAIN queue : queue[i] = queue[j] => i = j
  /\ \A w \in Workers : job[w] # NoPacket =>
       /\ ~InQueue(job[w])
       /\ \A v \in Workers : job[v] = job[w] => v = w

Bit(b) == IF b THEN 1 ELSE 0
Having(S) == {p \in Packets : outcome[p] \in S}
Failures == {"queue_full", "refused", "exhausted", "unencodable"}
PastQueue == {"queued", "forwarded", "refused", "exhausted", "unencodable", "canceled"}

(* Whenever /metrics takes a snapshot the counters add up: every received  *)
(* trap is rejected, unmatched, decoded or in the reader's hand; every     *)
(* decoded one is forwarded, failed, canceled or in flight; "queued" lags  *)
(* the channel by at most the one trap whose send the reader has yet to    *)
(* record; the per-route counters split the totals.                        *)
CountersBalance ==
  /\ stats.received = stats.rejected + stats.unmatched + stats.decoded
                        + Bit(readPC = "handle")
  /\ stats.decoded = stats.forwarded + stats.failed + Cardinality(Having({"canceled"}))
       + Len(queue) + Cardinality({w \in Workers : job[w] # NoPacket})
       + Bit(readPC \in {"enqueue", "recordDropped"})
  /\ stats.queued + Bit(readPC = "recordQueued") = Cardinality(Having(PastQueue))
  /\ stats.forwarded = Cardinality(Having({"forwarded"}))
  /\ stats.failed = Cardinality(Having(Failures))
  /\ \A l \in Labels :
       /\ stats.routeSuccesses[l] =
             Cardinality({p \in Having({"forwarded"}) : RouteOf(p).cidr = l})
       /\ stats.routeFailures[l] =
             Cardinality({p \in Having(Failures) : RouteOf(p).cidr = l})

(* Close returns nil only when every trap that was read is settled and     *)
(* none was canceled: the channel is drained before the workers leave.     *)
GracefulClose ==
  closeResult = "nil" =>
    \A p \in Packets : outcome[p] \notin {"received", "decoded", "queued", "canceled"}

(* A trap is canceled only after the shutdown deadline, and then Close     *)
(* reports it: it is still draining or returned the context's error.       *)
CancelOnlyPastDeadline ==
  \A p \in Packets : outcome[p] = "canceled" =>
    deadlinePassed /\ (closePC = "draining" \/ closeResult = "deadline")

(* When Close returns, by either path, nothing runs behind its back: the   *)
(* reader and all workers are gone and the channel is empty.               *)
QuiescentAfterClose == closePC = "returned" => AllExited /\ queue = <<>>

(* A trap is POSTed at most 1 + Retries times, and given up as exhausted   *)
(* only after all of them unless the context was canceled meanwhile; a     *)
(* trap with a final answer or no JSON form is not tried again.            *)
RetryBudget ==
  \A p \in Packets :
    /\ posts[p] <= Retries + 1
    /\ outcome[p] = "exhausted" => posts[p] = Retries + 1 \/ workerCtxDone
    /\ outcome[p] \in {"forwarded", "refused"} => posts[p] > 0
    /\ ~Datagram[p].encodes \/ outcome[p] = "queue_full" => posts[p] = 0

(* An inform is answered only when its routing is over and its job is in   *)
(* the channel, taken by a worker or counted as dropped; a refused inform  *)
(* never gets an answer.                                                   *)
AnswerAfterHandover ==
  \A p \in Packets : reply[p] # "none" =>
    /\ IsInform(p)
    /\ outcome[p] \notin {"unseen", "received", "decoded"} \cup Refusals

(* SPEC.md:337, "Accepted informs receive the required SNMP response after *)
(* routing is attempted": an inform that passed every check of             *)
(* handlePacket is answered when the reader is done with it.               *)
AcceptedInformsAnswered ==
  \A p \in Packets :
    IsInform(p) /\ Verdict(p) = "admitted" /\ outcome[p] # "unseen" /\ packet # p
      => reply[p] # "none"

(* SPEC.md:685, "Unmatched, malformed, rejected, dropped, and              *)
(* failed-forward traps are observable through sanitized logs and          *)
(* aggregate statistics": after shutdown every decoded trap is counted as  *)
(* forwarded or failed.                                                    *)
DropsAreObservable ==
  closePC = "returned" => stats.decoded = stats.forwarded + stats.failed

(* Once called, Close returns: the reader cannot keep it waiting for       *)
(* readDone, nor a worker for the wait group.                              *)
CloseCompletes == closePC # "idle" ~> closePC = "returned"

(* A trap that was decoded and routed is eventually forwarded, counted as  *)
(* failed, or canceled by shutdown; it is never stuck in the channel or in *)
(* the retry loop.                                                         *)
EveryTrapIsSettled ==
  \A p \in Packets :
    outcome[p] \in {"decoded", "queued"}
      ~> outcome[p] \in Failures \cup {"forwarded", "canceled"}
-----------------------------------------------------------------------------
(* The service implements TrapDelivery. *)

Status(p) ==
  CASE outcome[p] = "unseen" -> "new"
    [] outcome[p] = "received" -> "received"
    [] outcome[p] \in Refusals \cup {"route_not_found"} -> "refused"
    [] outcome[p] \in {"decoded", "queued"} -> "accepted"
    [] outcome[p] = "forwarded" -> "delivered"
    [] outcome[p] \in Failures -> "failed"
    [] outcome[p] = "canceled" -> "abandoned"

Phase ==
  CASE closePC = "idle" -> "serving"
    [] closePC \in {"awaitReader", "waiting"} -> "stopping"
    [] closePC = "draining" -> "expired"
    [] closePC = "returned" -> "stopped"

Delivery == INSTANCE TrapDelivery WITH
  status   <- [p \in Packets |-> Status(p)],
  phase    <- Phase,
  answered <- {p \in Packets : reply[p] = "sent"}

(* Every step of the reader, the workers and Close is a step of the        *)
(* promise or changes nothing it speaks of.                                *)
DeliversSafely == Delivery!Safety

(* The same with the promise's fairness: every received trap is decided    *)
(* on, every accepted one finished, every shutdown completed.              *)
Delivers == Delivery!Spec
=============================================================================
