--------------------------- MODULE QueryExecution ---------------------------
(***************************************************************************)
(* The execution of one validated query: Server.query and Server.execute   *)
(* of internal/gateway/server.go, GoSNMPExecutor.Execute of executor.go    *)
(* and Stats.Record of stats.go.                                           *)
(*                                                                         *)
(* The handler starts one goroutine per target.  A goroutine waits for a   *)
(* place in a semaphore or for the cancellation of the request; with a     *)
(* place it opens an SNMP session and runs the target's operations one     *)
(* after the other, while a second goroutine, the watcher, closes the      *)
(* session's socket when the request is canceled.  The handler waits for   *)
(* all, records statistics and writes the response.                        *)
(***************************************************************************)
EXTENDS Naturals, FiniteSets, Sequences

CONSTANTS Requests,            \* per target, the sequence of its operations' types
          MaxParallelTargets,
          MaxVarbinds,         \* MaxVarbindsPerOperation
          ConnectErrors,       \* classes of error Connect may return
          OperationErrors      \* classes of error an operation may return

Types == {"get", "getnext", "getbulk", "walk"}
Targets == DOMAIN Requests
Places(i) == DOMAIN Requests[i]

(* What ValidateQuery and Config.Validate let through. *)
ASSUME RequestAssumption ==
  /\ Requests # <<>> /\ Targets = 1..Len(Requests)
  /\ \A i \in Targets : Requests[i] \in Seq(Types) /\ Requests[i] # <<>>
ASSUME LimitAssumption ==
  MaxParallelTargets \in Nat \ {0} /\ MaxVarbinds \in Nat \ {0}
-----------------------------------------------------------------------------
VARIABLES
  ctxDone,     \* the request's context is canceled
  handlerPC,   \* where query / execute stands
  started,     \* targets whose goroutine has been started
  wg,          \* counter of the wait group
  sem,         \* tokens in the semaphore
  pc,          \* per target: where its goroutine stands
  conn,        \* per target: the session's socket
  watcher,     \* per target: the goroutine that waits for the cancellation
  finished,    \* per target: close(done) has happened
  out,         \* per target: the results Execute has so far
  walked,      \* per target: varbinds the walk under way has collected
  results,     \* the slots of the response, <<>> until assigned
  stats        \* the query counters of Stats

taskVars == <<pc, conn, watcher, finished, out, walked, results>>
vars == <<ctxDone, handlerPC, started, wg, sem, taskVars, stats>>
-----------------------------------------------------------------------------
(* Results. *)

(* The classes are the cases the function tells apart. *)
classifyError(err) ==
  CASE err = "result limit exceeded" -> "result_limit_exceeded"
    [] err = "net timeout"           -> "timeout"
    [] err = "no such host"          -> "dns_error"
    [] err = "connection refused"    -> "connection_error"
    [] err = "context canceled"      -> "internal_error"
    [] OTHER                         -> "snmp_error"

Ok(type, n) == [type |-> type, status |-> "ok", code |-> "none", values |-> n]
Failed(type, code) == [type |-> type, status |-> "error", code |-> code, values |-> 0]
Canceled(type) == Failed(type, "request canceled")

errorResults(ops, code) == [j \in DOMAIN ops |-> Failed(ops[j], code)]

(* convertPDU, on n variables in the response packet. *)
convertPDU_OffByOne(type, n) ==     \* mutant
  IF n > MaxVarbinds + 1 THEN Failed(type, classifyError("result limit exceeded"))
  ELSE Ok(type, n)
convertPDU(type, n) ==
  IF n > MaxVarbinds THEN Failed(type, classifyError("result limit exceeded"))
  ELSE Ok(type, n)

Goto(i, place) == pc' = [pc EXCEPT ![i] = place]
Report(i, result) == out' = [out EXCEPT ![i] = Append(@, result)]
Current(i) == Requests[i][Len(out[i]) + 1]      \* type of the next operation
-----------------------------------------------------------------------------
NoStats == [totalQueries |-> 0, successfulQueries |-> 0, partiallyFailed |-> 0,
            fullyFailed |-> 0, targetCount |-> 0, operationCount |-> 0,
            operationSuccesses |-> 0, operationFailures |-> 0]

Init ==
  /\ ctxDone = FALSE /\ handlerPC = "starting"
  /\ started = 0 /\ wg = 0 /\ sem = 0
  /\ pc = [i \in Targets |-> "unborn"]
  /\ conn = [i \in Targets |-> "none"]
  /\ watcher = [i \in Targets |-> "none"]
  /\ finished = [i \in Targets |-> FALSE]
  /\ out = [i \in Targets |-> <<>>]
  /\ walked = [i \in Targets |-> 0]
  /\ results = [i \in Targets |-> <<>>]
  /\ stats = NoStats
-----------------------------------------------------------------------------
(* Server.execute: the goroutine of target i. *)

ServerUnchanged == UNCHANGED <<ctxDone, handlerPC, started, stats>>

Acquire_Unlimited(i) ==             \* mutant: the semaphore has no capacity
  /\ pc[i] = "waiting"
  /\ sem' = sem + 1
  /\ Goto(i, "connecting")
  /\ UNCHANGED <<wg, conn, watcher, finished, out, walked, results>> /\ ServerUnchanged

(* The select; when there is a place and the request is canceled, either. *)
Acquire(i) ==
  /\ pc[i] = "waiting" /\ sem < MaxParallelTargets
  /\ sem' = sem + 1
  /\ Goto(i, "connecting")
  /\ UNCHANGED <<wg, conn, watcher, finished, out, walked, results>> /\ ServerUnchanged

CanceledWaiting(i) ==
  /\ pc[i] = "waiting" /\ ctxDone
  /\ results' = [results EXCEPT
                  ![i] = [j \in Places(i) |-> Canceled(Requests[i][j])]]
  /\ Goto(i, "ending")
  /\ UNCHANGED <<wg, sem, conn, watcher, finished, out, walked>> /\ ServerUnchanged

Store(i) ==
  /\ pc[i] = "storing"
  /\ results' = [results EXCEPT ![i] = out[i]]
  /\ Goto(i, "releasing")
  /\ UNCHANGED <<wg, sem, conn, watcher, finished, out, walked>> /\ ServerUnchanged

Release_Forgotten(i) ==             \* mutant: the token is not given back
  /\ pc[i] = "releasing"
  /\ Goto(i, "ending")
  /\ UNCHANGED <<wg, sem, conn, watcher, finished, out, walked, results>> /\ ServerUnchanged

Release(i) ==       \* <-sem, deferred last and run first
  /\ pc[i] = "releasing"
  /\ sem' = sem - 1
  /\ Goto(i, "ending")
  /\ UNCHANGED <<wg, conn, watcher, finished, out, walked, results>> /\ ServerUnchanged

End(i) ==           \* wg.Done
  /\ pc[i] = "ending"
  /\ wg' = wg - 1
  /\ Goto(i, "ended")
  /\ UNCHANGED <<sem, conn, watcher, finished, out, walked, results>> /\ ServerUnchanged
-----------------------------------------------------------------------------
(* GoSNMPExecutor.Execute. *)

ExecutorUnchanged == UNCHANGED <<wg, sem, results>> /\ ServerUnchanged

ConnectFails(i) ==
  /\ pc[i] = "connecting"
  /\ \E err \in ConnectErrors :
       out' = [out EXCEPT ![i] = errorResults(Requests[i], classifyError(err))]
  /\ Goto(i, "storing")
  /\ UNCHANGED <<conn, watcher, finished, walked>> /\ ExecutorUnchanged

Connected_Unwatched(i) ==           \* mutant: nobody waits for the cancellation
  /\ pc[i] = "connecting"
  /\ conn' = [conn EXCEPT ![i] = "open"]
  /\ Goto(i, "checking")
  /\ UNCHANGED <<watcher, finished, out, walked>> /\ ExecutorUnchanged

Connected(i) ==
  /\ pc[i] = "connecting"
  /\ conn' = [conn EXCEPT ![i] = "open"]
  /\ watcher' = [watcher EXCEPT ![i] = "watching"]
  /\ Goto(i, "checking")
  /\ UNCHANGED <<finished, out, walked>> /\ ExecutorUnchanged

OperationsLeft(i) == Len(out[i]) < Len(Requests[i])

SkipCanceled(i) ==
  /\ pc[i] = "checking" /\ OperationsLeft(i) /\ ctxDone
  /\ Report(i, Canceled(Current(i)))
  /\ UNCHANGED <<pc, conn, watcher, finished, walked>> /\ ExecutorUnchanged

MayBegin_Unchecked == TRUE          \* mutant: no select before an operation
MayBegin == ~ctxDone

Begin(i) ==
  /\ pc[i] = "checking" /\ OperationsLeft(i) /\ MayBegin
  /\ Goto(i, "operating")
  /\ walked' = [walked EXCEPT ![i] = 0]
  /\ UNCHANGED <<conn, watcher, finished, out>> /\ ExecutorUnchanged

(* Leaving executeOperation with a result, for good or for bad. *)
Conclude(i, result) ==
  /\ Report(i, result)
  /\ Goto(i, "checking")
  /\ UNCHANGED <<conn, watcher, finished, walked>> /\ ExecutorUnchanged

(* A reply may still be read in the moment the watcher closes the socket.  *)
Reply(i) ==         \* get, getnext, getbulk
  /\ pc[i] = "operating" /\ Current(i) # "walk"
  /\ \E n \in 0..(MaxVarbinds + 1) : Conclude(i, convertPDU(Current(i), n))

WalkPDU(i) ==       \* the callback of client.Walk accepts one more
  /\ pc[i] = "operating" /\ Current(i) = "walk" /\ walked[i] < MaxVarbinds
  /\ walked' = [walked EXCEPT ![i] = @ + 1]
  /\ UNCHANGED <<pc, conn, watcher, finished, out>> /\ ExecutorUnchanged

WalkLimit(i) ==     \* the callback refuses
  /\ pc[i] = "operating" /\ Current(i) = "walk" /\ walked[i] >= MaxVarbinds
  /\ Conclude(i, Failed("walk", classifyError("result limit exceeded")))

WalkEnds(i) ==
  /\ pc[i] = "operating" /\ Current(i) = "walk"
  /\ Conclude(i, Ok("walk", walked[i]))

OperationFails(i) ==
  /\ pc[i] = "operating"
  /\ \E err \in OperationErrors : Conclude(i, Failed(Current(i), classifyError(err)))

Hangup_Leaky(i) ==                  \* mutant: the session stays open
  /\ pc[i] = "checking" /\ ~OperationsLeft(i)
  /\ finished' = [finished EXCEPT ![i] = TRUE]
  /\ Goto(i, "storing")
  /\ UNCHANGED <<conn, watcher, out, walked>> /\ ExecutorUnchanged

Hangup(i) ==        \* the deferred close(done) and Conn.Close
  /\ pc[i] = "checking" /\ ~OperationsLeft(i)
  /\ finished' = [finished EXCEPT ![i] = TRUE]
  /\ conn' = [conn EXCEPT ![i] = "closed"]
  /\ Goto(i, "storing")
  /\ UNCHANGED <<watcher, out, walked>> /\ ExecutorUnchanged

(* The watcher's select; closing the socket a second time does nothing. *)
WatcherCloses(i) ==
  /\ watcher[i] = "watching" /\ ctxDone
  /\ conn' = [conn EXCEPT ![i] = "closed"]
  /\ watcher' = [watcher EXCEPT ![i] = "gone"]
  /\ UNCHANGED <<pc, finished, out, walked>> /\ ExecutorUnchanged

WatcherLeaves(i) ==
  /\ watcher[i] = "watching" /\ finished[i]
  /\ watcher' = [watcher EXCEPT ![i] = "gone"]
  /\ UNCHANGED <<pc, conn, finished, out, walked>> /\ ExecutorUnchanged
-----------------------------------------------------------------------------
(* The handler. *)

HandlerUnchanged == UNCHANGED <<sem, taskVars>>

StartTask ==        \* wg.Add(1); go ...
  /\ handlerPC = "starting" /\ started < Len(Requests)
  /\ started' = started + 1
  /\ wg' = wg + 1
  /\ pc' = [pc EXCEPT ![started + 1] = "waiting"]
  /\ UNCHANGED <<ctxDone, handlerPC, sem, conn, watcher, finished, out, walked, results, stats>>

MayWaitEnd_Impatient == TRUE        \* mutant: no wg.Wait
MayWaitEnd == wg = 0

WaitEnds ==         \* wg.Wait
  /\ handlerPC = "starting" /\ started = Len(Requests) /\ MayWaitEnd
  /\ handlerPC' = "recording"
  /\ UNCHANGED <<ctxDone, started, wg, stats>> /\ HandlerUnchanged

Slots == {s \in Targets \X UNION {Places(i) : i \in Targets} : s[2] \in DOMAIN results[s[1]]}
Successes == {s \in Slots : results[s[1]][s[2]].status = "ok"}

Bit(b) == IF b THEN 1 ELSE 0

Outcome_AnyFailure(ok, bad) ==      \* mutant: one failure fails the query
  IF bad = 0 THEN "successful" ELSE "fully"
Outcome(ok, bad) ==
  CASE bad = 0            -> "successful"
    [] bad > 0 /\ ok = 0  -> "fully"
    [] bad > 0 /\ ok > 0  -> "partially"

Record ==
  LET ok  == Cardinality(Successes)
      bad == Cardinality(Slots \ Successes)
  IN  [totalQueries       |-> stats.totalQueries + 1,
       successfulQueries  |-> stats.successfulQueries + Bit(Outcome(ok, bad) = "successful"),
       partiallyFailed    |-> stats.partiallyFailed + Bit(Outcome(ok, bad) = "partially"),
       fullyFailed        |-> stats.fullyFailed + Bit(Outcome(ok, bad) = "fully"),
       targetCount        |-> stats.targetCount + Len(Requests),
       operationCount     |-> stats.operationCount + Cardinality(Slots),
       operationSuccesses |-> stats.operationSuccesses + ok,
       operationFailures  |-> stats.operationFailures + bad]

RecordStats ==
  /\ handlerPC = "recording"
  /\ stats' = Record
  /\ handlerPC' = "responding"
  /\ UNCHANGED <<ctxDone, started, wg>> /\ HandlerUnchanged

(* writeJSON, and the return that cancels the request's context. *)
Respond ==
  /\ handlerPC = "responding"
  /\ handlerPC' = "returned"
  /\ ctxDone' = TRUE
  /\ UNCHANGED <<started, wg, stats>> /\ HandlerUnchanged

Disconnect ==       \* the client goes away
  /\ ~ctxDone
  /\ ctxDone' = TRUE
  /\ UNCHANGED <<handlerPC, started, wg, stats>> /\ HandlerUnchanged

Terminated ==
  /\ handlerPC = "returned" /\ \A i \in Targets : watcher[i] # "watching"
  /\ UNCHANGED vars
-----------------------------------------------------------------------------
(* The steps of a goroutine that wait for nobody but the scheduler. *)
TaskStep(i) ==
  \/ Acquire(i) \/ CanceledWaiting(i) \/ ConnectFails(i) \/ Connected(i)
  \/ SkipCanceled(i) \/ Begin(i) \/ Hangup(i) \/ Store(i) \/ Release(i) \/ End(i)

OperationStep(i) ==
  Reply(i) \/ WalkPDU(i) \/ WalkLimit(i) \/ WalkEnds(i) \/ OperationFails(i)

WatcherStep(i) == WatcherCloses(i) \/ WatcherLeaves(i)
HandlerStep == StartTask \/ WaitEnds \/ RecordStats \/ Respond

Next ==
  \/ \E i \in Targets : TaskStep(i) \/ OperationStep(i) \/ WatcherStep(i)
  \/ HandlerStep \/ Disconnect \/ Terminated

Spec == Init /\ [][Next]_vars

Scheduled ==
  /\ \A i \in Targets : WF_vars(TaskStep(i)) /\ WF_vars(WatcherStep(i))
  /\ WF_vars(HandlerStep)

(* Nothing is assumed of the devices and their timeouts: an operation must *)
(* come to an end only when its socket has been closed under it.           *)
ClosedSocketStep(i) == conn[i] = "closed" /\ OperationFails(i)
SilentSpec == Spec /\ Scheduled /\ \A i \in Targets : WF_vars(ClosedSocketStep(i))

(* What gosnmp's timeouts and bounded retries add: every operation comes   *)
(* to an end.                                                              *)
OperationsEnd == \A i \in Targets : WF_vars(OperationStep(i))
-----------------------------------------------------------------------------
(* Properties. *)

Codes == {"none", "result_limit_exceeded", "timeout", "dns_error", "connection_error",
          "internal_error", "snmp_error", "request canceled"}
Result == [type : Types, status : {"ok", "error"}, code : Codes, values : 0..MaxVarbinds]

Holding == {"connecting", "checking", "operating", "storing", "releasing"}

(* Type invariant; the semaphore never holds more than its capacity and no *)
(* operation returns more than MaxVarbinds values.                         *)
TypeOK ==
  /\ ctxDone \in BOOLEAN
  /\ handlerPC \in {"starting", "recording", "responding", "returned"}
  /\ started \in 0..Len(Requests) /\ wg \in 0..Len(Requests)
  /\ sem \in 0..MaxParallelTargets
  /\ pc \in [Targets -> {"unborn", "waiting", "ending", "ended"} \cup Holding]
  /\ conn \in [Targets -> {"none", "open", "closed"}]
  /\ watcher \in [Targets -> {"none", "watching", "gone"}]
  /\ finished \in [Targets -> BOOLEAN]
  /\ walked \in [Targets -> 0..MaxVarbinds]
  /\ out \in [Targets -> Seq(Result)] /\ results \in [Targets -> Seq(Result)]
  /\ stats \in [DOMAIN NoStats -> Nat]

(* At most MaxParallelTargets goroutines are between taking and returning  *)
(* a token, whether they end normally, fail to connect or are canceled.    *)
ConcurrencyBound ==
  /\ sem = Cardinality({i \in Targets : pc[i] \in Holding})
  /\ sem <= MaxParallelTargets

(* When the handler leaves wg.Wait every slot of the response is filled:   *)
(* one result per requested operation, in request order, for every target, *)
(* whatever failed or was canceled meanwhile.                              *)
ResponseComplete ==
  handlerPC # "starting" =>
    \A i \in Targets :
      /\ DOMAIN results[i] = Places(i)
      /\ \A j \in Places(i) : results[i][j].type = Requests[i][j]

(* No goroutine writes a slot while the handler counts or encodes them.    *)
ResponseStable == [][handlerPC # "starting" => UNCHANGED results]_vars

(* The statistics of a query describe the response it gets: the operations *)
(* of each kind, and partial failure exactly when both kinds occur.        *)
StatsDescribeResponse ==
  handlerPC \in {"responding", "returned"} =>
    LET ok  == Successes
        bad == Slots \ Successes
    IN  /\ stats.operationSuccesses = Cardinality(ok)
        /\ stats.operationFailures = Cardinality(bad)
        /\ stats.operationCount = Cardinality(UNION {{i} \X Places(i) : i \in Targets})
        /\ stats.successfulQueries + stats.partiallyFailed + stats.fullyFailed = 1
        /\ stats.partiallyFailed = 1 <=> ok # {} /\ bad # {}
        /\ stats.fullyFailed = 1 <=> ok = {}

(* Cancellation cuts a target's operations at one point: after the first   *)
(* that was not attempted none is, and none is skipped without a           *)
(* cancellation.                                                           *)
CanceledSuffix ==
  \A i \in Targets : \A j \in DOMAIN out[i] :
    out[i][j].code = "request canceled" =>
      /\ ctxDone
      /\ \A k \in DOMAIN out[i] : k > j => out[i][k].code = "request canceled"

(* The response is not recorded or written while a session is open: every  *)
(* path through Execute closes the socket it opened before wg.Done.        *)
SessionsClosed == handlerPC # "starting" => \A i \in Targets : conn[i] # "open"

(* If operations come to an end every query gets its response, although    *)
(* targets compete for places in the semaphore.                            *)
EveryQueryReturns == OperationsEnd => <>(handlerPC = "returned")

(* A canceled query returns without waiting for the timeouts of silent     *)
(* devices: the watcher ends the operation under way, the select ends the  *)
(* wait for a place, the check before each operation skips the rest.       *)
PromptCancellation == ctxDone ~> handlerPC = "returned"
=============================================================================
