------------------------ MODULE QueryExecution_proofs ------------------------
(***************************************************************************)
(* Theorems about QueryExecution, for a query of any size and any limits:  *)
(* all the safety properties the module states.                            *)
(*                                                                         *)
(* Four invariants are proved on top of each other.  Counting relates the  *)
(* two counters to the goroutines they count; Recording says how much of   *)
(* its target's results a goroutine has at each place; Socketing says      *)
(* where a session can be open; Tallying says when the statistics are      *)
(* those of the response.  The properties follow without looking at steps. *)
(***************************************************************************)
EXTENDS QueryExecution, FiniteSetTheorems, SequenceTheorems, TLAPS

AllPlaces == {"unborn", "waiting", "ending", "ended"} \cup Holding

Held == {i \in Targets : pc[i] \in Holding}
Running == {i \in Targets : pc[i] \notin {"unborn", "ended"}}

Counting ==
  /\ handlerPC \in {"starting", "recording", "responding", "returned"}
  /\ started \in 0..Len(Requests)
  /\ pc \in [Targets -> AllPlaces]
  /\ \A i \in Targets : pc[i] = "unborn" <=> i > started
  /\ wg = Cardinality(Running)
  /\ sem = Cardinality(Held) /\ sem <= MaxParallelTargets
  /\ handlerPC # "starting" => \A i \in Targets : pc[i] = "ended"

(* The targets of a query are finitely many numbers.                       *)
LEMMA TargetsFinite == IsFiniteSet(Targets) /\ Targets \subseteq Nat /\ Len(Requests) \in Nat
<1>1. Targets = 1..Len(Requests)
  BY RequestAssumption
<1>2. Len(Requests) \in Nat
  BY RequestAssumption DEF Targets
<1> QED
  BY <1>1, <1>2, FS_Interval
-----------------------------------------------------------------------------
(* How the two sets change when one goroutine moves on.                    *)
LEMMA MoveCounts ==
  ASSUME pc \in [Targets -> AllPlaces], NEW i \in Targets, NEW place \in AllPlaces, Goto(i, place)
  PROVE  /\ pc' \in [Targets -> AllPlaces]
         /\ Cardinality(Held) \in Nat /\ Cardinality(Running) \in Nat
         /\ Cardinality(Held') =
              CASE pc[i] \in Holding /\ place \notin Holding -> Cardinality(Held) - 1
                [] pc[i] \notin Holding /\ place \in Holding -> Cardinality(Held) + 1
                [] OTHER -> Cardinality(Held)
         /\ Cardinality(Running') =
              CASE pc[i] \notin {"unborn", "ended"} /\ place \in {"unborn", "ended"} ->
                     Cardinality(Running) - 1
                [] pc[i] \in {"unborn", "ended"} /\ place \notin {"unborn", "ended"} ->
                     Cardinality(Running) + 1
                [] OTHER -> Cardinality(Running)
<1>1. pc' \in [Targets -> AllPlaces]
  BY DEF Goto
<1>2. IsFiniteSet(Held) /\ IsFiniteSet(Running)
  BY TargetsFinite, FS_Subset DEF Held, Running
<1>3. Cardinality(Held) \in Nat /\ Cardinality(Running) \in Nat
  BY <1>2, FS_CardinalityType
<1>4. Held' = IF place \in Holding THEN Held \cup {i} ELSE Held \ {i}
  BY DEF Goto, Held
<1>5. Running' = IF place \in {"unborn", "ended"} THEN Running \ {i} ELSE Running \cup {i}
  BY DEF Goto, Running
<1>6. (i \in Held <=> pc[i] \in Holding) /\ (i \in Running <=> pc[i] \notin {"unborn", "ended"})
  BY DEF Held, Running
<1>7. /\ Cardinality(Held \cup {i}) = IF i \in Held THEN Cardinality(Held) ELSE Cardinality(Held) + 1
      /\ Cardinality(Held \ {i}) = IF i \in Held THEN Cardinality(Held) - 1 ELSE Cardinality(Held)
  BY <1>2, FS_AddElement, FS_RemoveElement
<1>8. /\ Cardinality(Running \cup {i}) =
           IF i \in Running THEN Cardinality(Running) ELSE Cardinality(Running) + 1
      /\ Cardinality(Running \ {i}) =
           IF i \in Running THEN Cardinality(Running) - 1 ELSE Cardinality(Running)
  BY <1>2, FS_AddElement, FS_RemoveElement
<1>9. Cardinality(Held') =
        CASE pc[i] \in Holding /\ place \notin Holding -> Cardinality(Held) - 1
          [] pc[i] \notin Holding /\ place \in Holding -> Cardinality(Held) + 1
          [] OTHER -> Cardinality(Held)
  BY <1>3, <1>4, <1>6, <1>7
<1>10. Cardinality(Running') =
         CASE pc[i] \notin {"unborn", "ended"} /\ place \in {"unborn", "ended"} ->
                Cardinality(Running) - 1
           [] pc[i] \in {"unborn", "ended"} /\ place \notin {"unborn", "ended"} ->
                Cardinality(Running) + 1
           [] OTHER -> Cardinality(Running)
  BY <1>3, <1>5, <1>6, <1>8
<1> QED
  BY <1>1, <1>3, <1>9, <1>10

(* A goroutine under way keeps the counters right if it counts its token   *)
(* and its end.                                                            *)
LEMMA MoveKeepsCounting ==
  ASSUME Counting, NEW i \in Targets, NEW place \in AllPlaces \ {"unborn"},
         pc[i] \notin {"unborn", "ended"}, Goto(i, place), UNCHANGED <<handlerPC, started>>,
         wg' = wg - Bit(place = "ended"),
         sem' = sem + Bit(place \in Holding) - Bit(pc[i] \in Holding),
         sem' <= MaxParallelTargets
  PROVE  Counting'
<1>1. handlerPC = "starting"
  BY DEF Counting
<1>2. wg' = Cardinality(Running')
  BY MoveCounts DEF Counting, Bit
<1>3. sem' = Cardinality(Held')
  BY MoveCounts DEF Counting, Bit
<1>4. pc' \in [Targets -> AllPlaces]
  BY MoveCounts DEF Counting
<1>5. \A t \in Targets : pc'[t] = "unborn" <=> t > started'
  BY <1>4 DEF Counting, Goto
<1> QED
  BY <1>1, <1>2, <1>3, <1>4, <1>5 DEF Counting

(* Steps that move no goroutine.                                           *)
LEMMA StayKeepsCounting ==
  ASSUME Counting, UNCHANGED <<handlerPC, started, wg, sem, pc>>
  PROVE  Counting'
<1>1. UNCHANGED <<Held, Running>>
  BY DEF Held, Running
<1> QED
  BY <1>1 DEF Counting

(* The goroutine of a target takes and returns its token and its place in  *)
(* the wait group.                                                         *)
LEMMA TaskKeepsCounting ==
  ASSUME Counting, NEW i \in Targets, TaskStep(i)
  PROVE  Counting'
<1> USE DEF ServerUnchanged, ExecutorUnchanged, Bit
<1>1. CASE Acquire(i)
  <2>1. /\ pc[i] = "waiting" /\ Goto(i, "connecting")
        /\ UNCHANGED <<handlerPC, started, wg>> /\ sem' = sem + 1 /\ sem < MaxParallelTargets
    BY <1>1 DEF Acquire
  <2>2. sem \in Nat /\ wg \in Nat
    BY <2>1, MoveCounts DEF Counting, AllPlaces, Holding
  <2>3. sem' <= MaxParallelTargets /\ wg' = wg - 0 /\ sem' = sem + 1 - 0
    BY <2>1, <2>2, LimitAssumption
  <2>4. "waiting" \notin Holding /\ "connecting" \in Holding /\ Holding \subseteq AllPlaces
    BY DEF Holding, AllPlaces
  <2> QED
    BY <2>1, <2>3, <2>4, MoveKeepsCounting
<1>2. CASE CanceledWaiting(i)
  <2>1. /\ pc[i] = "waiting" /\ Goto(i, "ending")
        /\ UNCHANGED <<handlerPC, started, wg, sem>>
    BY <1>2 DEF CanceledWaiting
  <2>2. sem \in Nat /\ wg \in Nat /\ sem <= MaxParallelTargets
    BY <2>1, MoveCounts DEF Counting, AllPlaces
  <2>3. wg' = wg - 0 /\ sem' = sem + 0 - 0 /\ sem' <= MaxParallelTargets
    BY <2>1, <2>2
  <2>4. "waiting" \notin Holding /\ "ending" \notin Holding /\ "ending" \in AllPlaces
    BY DEF Holding, AllPlaces
  <2> QED
    BY <2>1, <2>2, <2>3, <2>4, MoveKeepsCounting
<1>3. CASE ConnectFails(i)
  <2>1. /\ pc[i] = "connecting" /\ Goto(i, "storing")
        /\ UNCHANGED <<handlerPC, started, wg, sem>>
    BY <1>3 DEF ConnectFails
  <2> QED
    BY <2>1, MoveKeepsCounting, MoveCounts, LimitAssumption DEF Counting, AllPlaces, Holding
<1>4. CASE Connected(i)
  BY <1>4, MoveKeepsCounting, MoveCounts, LimitAssumption
     DEF Connected, Counting, AllPlaces, Holding
<1>5. CASE SkipCanceled(i)
  BY <1>5, StayKeepsCounting DEF SkipCanceled
<1>6. CASE Begin(i)
  BY <1>6, MoveKeepsCounting, MoveCounts, LimitAssumption
     DEF Begin, Counting, AllPlaces, Holding
<1>7. CASE Hangup(i)
  BY <1>7, MoveKeepsCounting, MoveCounts, LimitAssumption
     DEF Hangup, Counting, AllPlaces, Holding
<1>8. CASE Store(i)
  BY <1>8, MoveKeepsCounting, MoveCounts, LimitAssumption
     DEF Store, Counting, AllPlaces, Holding
<1>9. CASE Release(i)
  BY <1>9, MoveKeepsCounting, MoveCounts, LimitAssumption
     DEF Release, Counting, AllPlaces, Holding
<1>10. CASE End(i)
  BY <1>10, MoveKeepsCounting, MoveCounts, LimitAssumption
     DEF End, Counting, AllPlaces, Holding
<1> QED
  BY <1>1, <1>2, <1>3, <1>4, <1>5, <1>6, <1>7, <1>8, <1>9, <1>10 DEF TaskStep

(* The steps of operations and watchers leave tokens and goroutines        *)
(* alone.                                                                  *)
LEMMA OperationKeepsCounting ==
  ASSUME Counting, NEW i \in Targets, OperationStep(i) \/ WatcherStep(i)
  PROVE  Counting'
<1> USE DEF ServerUnchanged, ExecutorUnchanged, Bit
<1>1. CASE OperationStep(i) /\ UNCHANGED pc
  BY <1>1, StayKeepsCounting
     DEF OperationStep, Reply, WalkPDU, WalkLimit, WalkEnds, OperationFails, Conclude
<1>2. CASE OperationStep(i) /\ ~UNCHANGED pc
  <2>1. /\ pc[i] = "operating" /\ Goto(i, "checking")
        /\ UNCHANGED <<handlerPC, started, wg, sem>>
    BY <1>2 DEF OperationStep, Reply, WalkPDU, WalkLimit, WalkEnds, OperationFails, Conclude
  <2> QED
    BY <2>1, MoveKeepsCounting, MoveCounts, LimitAssumption DEF Counting, AllPlaces, Holding
<1>3. CASE WatcherStep(i)
  BY <1>3, StayKeepsCounting DEF WatcherStep, WatcherCloses, WatcherLeaves
<1> QED
  BY <1>1, <1>2, <1>3

(* The handler starts goroutines in order and passes wg.Wait when none is  *)
(* left.                                                                   *)
LEMMA HandlerKeepsCounting ==
  ASSUME Counting, HandlerStep \/ Disconnect
  PROVE  Counting'
<1> USE DEF HandlerUnchanged, taskVars
<1>1. CASE StartTask
  <2>1. started + 1 \in Targets /\ pc[started + 1] = "unborn"
    BY <1>1, TargetsFinite, RequestAssumption DEF StartTask, Counting
  <2>2. Goto(started + 1, "waiting")
    BY <1>1 DEF StartTask, Goto
  <2>3. wg' = Cardinality(Running') /\ sem' = Cardinality(Held') /\ pc' \in [Targets -> AllPlaces]
    BY <1>1, <2>1, <2>2, MoveCounts DEF StartTask, Counting, AllPlaces, Holding
  <2>4. \A t \in Targets : pc'[t] = "unborn" <=> t > started'
    BY <1>1, <2>1, TargetsFinite DEF StartTask, Counting
  <2> QED
    BY <1>1, <2>1, <2>3, <2>4, TargetsFinite DEF StartTask, Counting
<1>2. CASE WaitEnds
  <2>1. IsFiniteSet(Running)
    BY TargetsFinite, FS_Subset DEF Running
  <2>2. Running = {}
    BY <1>2, <2>1, FS_EmptySet DEF WaitEnds, MayWaitEnd, Counting
  <2>3. \A i \in Targets : pc[i] = "ended"
    BY <1>2, <2>2, TargetsFinite, RequestAssumption DEF WaitEnds, Counting, Running
  <2>4. UNCHANGED <<Held, Running>>
    BY <1>2 DEF WaitEnds, Held, Running
  <2> QED
    BY <1>2, <2>3, <2>4 DEF WaitEnds, Counting
<1>3. CASE RecordStats \/ Respond \/ Disconnect
  <2>1. UNCHANGED <<Held, Running>>
    BY <1>3 DEF RecordStats, Respond, Disconnect, Held, Running
  <2> QED
    BY <1>3, <2>1 DEF RecordStats, Respond, Disconnect, Counting
<1> QED
  BY <1>1, <1>2, <1>3 DEF HandlerStep

(* The counters are right in every reachable state.                        *)
THEOREM CountingInvariant == Spec => []Counting
<1>1. Init => Counting
  <2> SUFFICES ASSUME Init PROVE Counting
    OBVIOUS
  <2>1. Held = {} /\ Running = {}
    BY DEF Init, Held, Running, Holding
  <2> QED
    BY <2>1, FS_EmptySet, TargetsFinite, LimitAssumption, RequestAssumption
       DEF Init, Counting, AllPlaces
<1>2. Counting /\ [Next]_vars => Counting'
  <2> SUFFICES ASSUME Counting, [Next]_vars PROVE Counting'
    OBVIOUS
  <2>1. CASE UNCHANGED vars
    BY <2>1, StayKeepsCounting DEF vars, taskVars
  <2>2. CASE Terminated
    BY <2>2, StayKeepsCounting DEF Terminated, vars, taskVars
  <2> QED
    BY <2>1, <2>2, TaskKeepsCounting, OperationKeepsCounting, HandlerKeepsCounting DEF Next
<1> QED
  BY <1>1, <1>2, PTL DEF Spec

(* At most MaxParallelTargets goroutines of a query are between taking and *)
(* returning a token, whatever number of targets it has.                   *)
THEOREM SpecConcurrencyBound == Spec => []ConcurrencyBound
<1>1. Counting => ConcurrencyBound
  BY DEF Counting, ConcurrencyBound, Held
<1> QED
  BY <1>1, CountingInvariant, PTL
-----------------------------------------------------------------------------
(* Results.                                                                *)

IsCanceled(result) == result.code = "request canceled"

(* A sequence of results answers the first operations of target i.         *)
Answers(i, list) ==
  /\ list \in Seq(Result)
  /\ Len(list) <= Len(Requests[i])
  /\ \A j \in 1..Len(list) : list[j].type = Requests[i][j]

Suffix(list) ==
  \A j, k \in 1..Len(list) : j < k /\ IsCanceled(list[j]) => IsCanceled(list[k])
NoneCanceled(list) == \A j \in 1..Len(list) : ~IsCanceled(list[j])

(* What goroutine i has in hand at each place.                             *)
InHand(i) ==
  /\ Answers(i, out[i]) /\ Suffix(out[i])
  /\ ~ctxDone \/ pc[i] = "operating" => NoneCanceled(out[i])
  /\ pc[i] \in {"unborn", "waiting", "connecting"} => out[i] = <<>>
  /\ pc[i] = "operating" => Len(out[i]) < Len(Requests[i])
  /\ pc[i] = "storing" => Len(out[i]) = Len(Requests[i])
  /\ pc[i] \in {"releasing", "ending", "ended"} =>
       Answers(i, results[i]) /\ Len(results[i]) = Len(Requests[i])

Recording ==
  /\ ctxDone \in BOOLEAN
  /\ out \in [Targets -> Seq(Result)] /\ results \in [Targets -> Seq(Result)]
  /\ walked \in [Targets -> 0..MaxVarbinds]
  /\ \A i \in Targets : InHand(i)

(* classifyError answers with one of the documented codes.                 *)
LEMMA ErrorsClassified ==
  \A err : classifyError(err) \in Codes /\ classifyError(err) # "request canceled"
  BY DEF classifyError, Codes

(* A request is a sequence of operation types.                             *)
LEMMA RequestTyped ==
  ASSUME NEW i \in Targets
  PROVE  /\ Requests[i] \in Seq(Types) /\ Places(i) = 1..Len(Requests[i])
         /\ Len(Requests[i]) \in Nat \ {0}
         /\ \A j \in Places(i) : Requests[i][j] \in Types
<1>1. Requests[i] \in Seq(Types) /\ Requests[i] # <<>>
  BY RequestAssumption
<1> QED
  BY <1>1 DEF Places

(* One more result on a list that is not complete.                         *)
LEMMA AppendAnswers ==
  ASSUME NEW i \in Targets, NEW list, Answers(i, list), Suffix(list),
         Len(list) < Len(Requests[i]),
         NEW r \in Result, r.type = Requests[i][Len(list) + 1],
         IsCanceled(r) \/ NoneCanceled(list)
  PROVE  /\ Answers(i, Append(list, r)) /\ Suffix(Append(list, r))
         /\ Len(Append(list, r)) = Len(list) + 1
         /\ NoneCanceled(list) /\ ~IsCanceled(r) => NoneCanceled(Append(list, r))
<1>1. list \in Seq(Result) /\ Len(list) \in Nat
  BY DEF Answers
<1>2. /\ Append(list, r) \in Seq(Result) /\ Len(Append(list, r)) = Len(list) + 1
      /\ \A j \in 1..Len(list) : Append(list, r)[j] = list[j]
      /\ Append(list, r)[Len(list) + 1] = r
  BY <1>1, AppendProperties
<1>3. 1..(Len(list) + 1) = (1..Len(list)) \cup {Len(list) + 1}
  BY <1>1
<1>4. Answers(i, Append(list, r))
  BY <1>1, <1>2, <1>3, RequestTyped DEF Answers
<1>5. Suffix(Append(list, r))
  BY <1>1, <1>2, <1>3 DEF Suffix, NoneCanceled
<1>6. NoneCanceled(list) /\ ~IsCanceled(r) => NoneCanceled(Append(list, r))
  BY <1>2, <1>3 DEF NoneCanceled
<1> QED
  BY <1>2, <1>4, <1>5, <1>6

(* errorResults, and the results of a target that was canceled waiting.    *)
LEMMA WholeAnswers ==
  ASSUME NEW i \in Targets, NEW code \in Codes
  PROVE  LET list == [j \in Places(i) |-> Failed(Requests[i][j], code)]
         IN  /\ Answers(i, list) /\ Len(list) = Len(Requests[i]) /\ Suffix(list)
             /\ code # "request canceled" => NoneCanceled(list)
<1> DEFINE list == [j \in Places(i) |-> Failed(Requests[i][j], code)]
<1>1. \A j \in Places(i) : Failed(Requests[i][j], code) \in Result
  BY RequestTyped, LimitAssumption DEF Failed, Result
<1>2. list \in Seq(Result) /\ Len(list) = Len(Requests[i])
  <2>1. list \in [1..Len(Requests[i]) -> Result]
    BY <1>1, RequestTyped
  <2>2. Len(Requests[i]) \in Nat
    BY RequestTyped
  <2> HIDE DEF list
  <2>3. list \in Seq(Result)
    BY <2>1, <2>2, SeqDef
  <2>4. DOMAIN list = 1..Len(Requests[i]) /\ DOMAIN list = 1..Len(list) /\ Len(list) \in Nat
    BY <2>1, <2>3, LenProperties
  <2>5. Len(Requests[i]) \in 1..Len(list)
    BY <2>4, RequestTyped
  <2>6. Len(list) \in 1..Len(Requests[i])
    BY <2>4, <2>5
  <2> QED
    BY <2>2, <2>3, <2>4, <2>5, <2>6
<1>3. \A j \in 1..Len(list) : list[j].type = Requests[i][j] /\ list[j].code = code
  BY <1>2, RequestTyped DEF Failed
<1> HIDE DEF list
<1>4. Answers(i, list)
  BY <1>2, <1>3, RequestTyped DEF Answers
<1>5. Suffix(list) /\ (code # "request canceled" => NoneCanceled(list))
  BY <1>3 DEF Suffix, NoneCanceled, IsCanceled
<1> QED
  BY <1>2, <1>4, <1>5 DEF list
-----------------------------------------------------------------------------
(* A step of one goroutine keeps Recording if it keeps that goroutine's    *)
(* part of it.                                                             *)
LEMMA LocalStep ==
  ASSUME Recording, NEW i \in Targets, ctxDone' = ctxDone,
         out' \in [Targets -> Seq(Result)], results' \in [Targets -> Seq(Result)],
         walked' \in [Targets -> 0..MaxVarbinds],
         \A t \in Targets \ {i} : pc'[t] = pc[t] /\ out'[t] = out[t] /\ results'[t] = results[t],
         InHand(i)'
  PROVE  Recording'
<1>1. ASSUME NEW t \in Targets \ {i} PROVE InHand(t)'
  <2>1. InHand(t) /\ pc'[t] = pc[t] /\ out'[t] = out[t] /\ results'[t] = results[t]
    BY <1>1 DEF Recording
  <2> QED
    BY <2>1 DEF InHand, Answers, Suffix, NoneCanceled
<1> QED
  BY <1>1 DEF Recording

(* Steps of a goroutine append to its own results, in request order, and   *)
(* fill its slot.                                                          *)
LEMMA TaskKeepsRecording ==
  ASSUME Counting, Recording, NEW i \in Targets, TaskStep(i)
  PROVE  Recording'
<1> USE DEF ServerUnchanged, ExecutorUnchanged
<1>0. InHand(i) /\ pc \in [Targets -> AllPlaces] /\ Len(Requests[i]) \in Nat \ {0}
  BY RequestTyped DEF Recording, Counting
<1>1. CASE Acquire(i) \/ Release(i) \/ End(i)
  <2>1. InHand(i)'
    BY <1>0, <1>1 DEF Acquire, Release, End, Goto, InHand, Answers
  <2> QED
    BY <1>0, <1>1, <2>1, LocalStep DEF Acquire, Release, End, Goto, Recording
<1>2. CASE CanceledWaiting(i)
  <2> DEFINE list == [j \in Places(i) |-> Failed(Requests[i][j], "request canceled")]
  <2>1. results' = [results EXCEPT ![i] = list]
    BY <1>2 DEF CanceledWaiting, Canceled
  <2>2. Answers(i, list) /\ Len(list) = Len(Requests[i])
    BY WholeAnswers DEF Codes
  <2> HIDE DEF list
  <2>3. results' \in [Targets -> Seq(Result)] /\ results'[i] = list
    BY <2>1, <2>2 DEF Recording, Answers
  <2>4. InHand(i)'
    BY <1>0, <1>2, <2>2, <2>3 DEF CanceledWaiting, Goto, InHand, Answers
  <2> QED
    BY <1>0, <1>2, <2>1, <2>3, <2>4, LocalStep DEF CanceledWaiting, Goto, Recording
<1>3. CASE ConnectFails(i)
  <2>1. PICK err \in ConnectErrors :
          out' = [out EXCEPT ![i] = errorResults(Requests[i], classifyError(err))]
    BY <1>3 DEF ConnectFails
  <2> DEFINE list == [j \in Places(i) |-> Failed(Requests[i][j], classifyError(err))]
  <2>2. out' = [out EXCEPT ![i] = list]
    BY <2>1 DEF errorResults, Places
  <2>3. Answers(i, list) /\ Len(list) = Len(Requests[i]) /\ Suffix(list) /\ NoneCanceled(list)
    BY WholeAnswers, ErrorsClassified
  <2> HIDE DEF list
  <2>4. out' \in [Targets -> Seq(Result)] /\ out'[i] = list
    BY <2>2, <2>3 DEF Recording, Answers
  <2>5. InHand(i)'
    BY <1>0, <1>3, <2>3, <2>4 DEF ConnectFails, Goto, InHand, Answers
  <2> QED
    BY <1>0, <1>3, <2>2, <2>4, <2>5, LocalStep DEF ConnectFails, Goto, Recording
<1>4. CASE Connected(i)
  <2>1. InHand(i)'
    BY <1>0, <1>4 DEF Connected, Goto, InHand, Answers
  <2> QED
    BY <1>0, <1>4, <2>1, LocalStep DEF Connected, Goto, Recording
<1>5. CASE SkipCanceled(i)
  <2> DEFINE r == Canceled(Current(i))
  <2>1. Len(out[i]) \in Nat /\ Len(out[i]) < Len(Requests[i]) /\ out[i] \in Seq(Result)
    BY <1>0, <1>5 DEF SkipCanceled, OperationsLeft, InHand, Answers
  <2>2. Len(out[i]) + 1 \in Places(i) /\ Current(i) \in Types
    BY <1>0, <2>1, RequestTyped DEF Current
  <2>3. r \in Result /\ r.type = Requests[i][Len(out[i]) + 1] /\ IsCanceled(r)
    BY <2>2, LimitAssumption DEF Canceled, Failed, Result, Codes, Current, IsCanceled
  <2>4. out' = [out EXCEPT ![i] = Append(out[i], r)]
    BY <1>5 DEF SkipCanceled, Report
  <2> HIDE DEF r
  <2>5. /\ Answers(i, Append(out[i], r)) /\ Suffix(Append(out[i], r))
        /\ Len(Append(out[i], r)) = Len(out[i]) + 1
    BY <1>0, <2>1, <2>3, AppendAnswers DEF InHand
  <2>6. out' \in [Targets -> Seq(Result)] /\ out'[i] = Append(out[i], r)
    BY <2>4, <2>5 DEF Recording, Answers
  <2>7. InHand(i)'
    BY <1>0, <1>5, <2>5, <2>6 DEF SkipCanceled, InHand, Answers
  <2> QED
    BY <1>0, <1>5, <2>4, <2>6, <2>7, LocalStep DEF SkipCanceled, Recording
<1>6. CASE Begin(i)
  <2>1. InHand(i)'
    BY <1>0, <1>6 DEF Begin, MayBegin, OperationsLeft, Goto, InHand, Answers
  <2>2. walked' \in [Targets -> 0..MaxVarbinds]
    BY <1>6, LimitAssumption DEF Begin, Recording
  <2> QED
    BY <1>0, <1>6, <2>1, <2>2, LocalStep DEF Begin, Goto, Recording
<1>7. CASE Hangup(i)
  <2>1. Len(out[i]) \in Nat
    BY <1>0 DEF InHand, Answers
  <2>2. InHand(i)'
    BY <1>0, <1>7, <2>1 DEF Hangup, OperationsLeft, Goto, InHand, Answers
  <2> QED
    BY <1>0, <1>7, <2>2, LocalStep DEF Hangup, Goto, Recording
<1>8. CASE Store(i)
  <2>1. results' = [results EXCEPT ![i] = out[i]] /\ out[i] \in Seq(Result)
    BY <1>8 DEF Store, Recording
  <2>2. InHand(i)'
    BY <1>0, <1>8, <2>1 DEF Store, Goto, InHand, Answers, Recording
  <2> QED
    BY <1>0, <1>8, <2>1, <2>2, LocalStep DEF Store, Goto, Recording
<1> QED
  BY <1>1, <1>2, <1>3, <1>4, <1>5, <1>6, <1>7, <1>8 DEF TaskStep

(* An operation that comes to an end.                                      *)
LEMMA ConcludeKeepsRecording ==
  ASSUME Counting, Recording, NEW i \in Targets, pc[i] = "operating",
         NEW r \in Result, r.type = Current(i), ~IsCanceled(r), Conclude(i, r)
  PROVE  Recording'
<1> USE DEF ServerUnchanged, ExecutorUnchanged
<1>1. InHand(i) /\ pc \in [Targets -> AllPlaces] /\ Len(Requests[i]) \in Nat \ {0}
  BY RequestTyped DEF Recording, Counting
<1>2. Len(out[i]) \in Nat /\ Len(out[i]) < Len(Requests[i]) /\ NoneCanceled(out[i])
  BY <1>1 DEF InHand, Answers
<1>3. out' = [out EXCEPT ![i] = Append(out[i], r)]
  BY DEF Conclude, Report
<1>4. /\ Answers(i, Append(out[i], r)) /\ Suffix(Append(out[i], r))
      /\ Len(Append(out[i], r)) = Len(out[i]) + 1 /\ NoneCanceled(Append(out[i], r))
  BY <1>1, <1>2, AppendAnswers DEF InHand, Current
<1>5. out' \in [Targets -> Seq(Result)] /\ out'[i] = Append(out[i], r)
  BY <1>3, <1>4 DEF Recording, Answers
<1>6. InHand(i)'
  BY <1>1, <1>4, <1>5 DEF Conclude, Goto, InHand, Answers
<1> QED
  BY <1>1, <1>3, <1>5, <1>6, LocalStep DEF Conclude, Goto, Recording

(* The end of an operation appends the result of that operation.           *)
LEMMA OperationKeepsRecording ==
  ASSUME Counting, Recording, NEW i \in Targets, OperationStep(i)
  PROVE  Recording'
<1> USE DEF ServerUnchanged, ExecutorUnchanged
<1>0. /\ InHand(i) /\ pc \in [Targets -> AllPlaces] /\ pc[i] = "operating"
      /\ walked[i] \in 0..MaxVarbinds /\ Current(i) \in Types
  <2>1. InHand(i) /\ pc \in [Targets -> AllPlaces] /\ walked[i] \in 0..MaxVarbinds
    BY DEF Recording, Counting
  <2>2. pc[i] = "operating"
    BY DEF OperationStep, Reply, WalkPDU, WalkLimit, WalkEnds, OperationFails
  <2>3. Len(out[i]) \in Nat /\ Len(out[i]) < Len(Requests[i])
    BY <2>1, <2>2 DEF InHand, Answers
  <2>4. Current(i) \in Types
    BY <2>3, RequestTyped DEF Current
  <2> QED
    BY <2>1, <2>2, <2>4
<1>f. ASSUME NEW err PROVE LET r == Failed(Current(i), classifyError(err))
                           IN  r \in Result /\ r.type = Current(i) /\ ~IsCanceled(r)
  <2>1. classifyError(err) \in Codes /\ classifyError(err) # "request canceled"
    BY ErrorsClassified
  <2>2. 0 \in 0..MaxVarbinds
    BY LimitAssumption
  <2> QED
    BY <1>0, <2>1, <2>2 DEF Failed, Result, IsCanceled
<1>g. ASSUME NEW n \in 0..MaxVarbinds PROVE LET r == Ok(Current(i), n)
                           IN  r \in Result /\ r.type = Current(i) /\ ~IsCanceled(r)
  BY <1>0, LimitAssumption DEF Ok, Result, IsCanceled, Codes
<1>1. CASE Reply(i)
  <2>1. PICK n \in 0..(MaxVarbinds + 1) : Conclude(i, convertPDU(Current(i), n))
    BY <1>1 DEF Reply
  <2>2. CASE n > MaxVarbinds
    BY <1>0, <1>f, <2>1, <2>2, ConcludeKeepsRecording DEF convertPDU
  <2>3. CASE ~(n > MaxVarbinds)
    <3>1. n \in 0..MaxVarbinds
      BY <2>3, LimitAssumption
    <3> QED
      BY <1>0, <1>g, <2>1, <2>3, <3>1, ConcludeKeepsRecording DEF convertPDU
  <2> QED
    BY <2>2, <2>3
<1>2. CASE WalkPDU(i)
  <2>1. walked' \in [Targets -> 0..MaxVarbinds]
    BY <1>0, <1>2, LimitAssumption DEF WalkPDU, Recording
  <2>2. InHand(i)'
    BY <1>0, <1>2 DEF WalkPDU, InHand, Answers, Suffix, NoneCanceled
  <2> QED
    BY <1>2, <2>1, <2>2, LocalStep DEF WalkPDU, Recording
<1>3. CASE WalkLimit(i)
  <2>1. Conclude(i, Failed(Current(i), classifyError("result limit exceeded")))
    BY <1>3 DEF WalkLimit
  <2> QED
    BY <1>0, <1>f, <2>1, ConcludeKeepsRecording
<1>4. CASE WalkEnds(i)
  <2>1. Conclude(i, Ok(Current(i), walked[i]))
    BY <1>4 DEF WalkEnds
  <2> QED
    BY <1>0, <1>g, <2>1, ConcludeKeepsRecording
<1>5. CASE OperationFails(i)
  <2>1. PICK err \in OperationErrors : Conclude(i, Failed(Current(i), classifyError(err)))
    BY <1>5 DEF OperationFails
  <2> QED
    BY <1>0, <1>f, <2>1, ConcludeKeepsRecording
<1> QED
  BY <1>1, <1>2, <1>3, <1>4, <1>5 DEF OperationStep

(* Steps that move no goroutine and touch no result.  A cancellation may   *)
(* happen at any time.                                                     *)
LEMMA OtherKeepsRecording ==
  ASSUME Counting, Recording, UNCHANGED <<out, results, walked>>, ctxDone' \in BOOLEAN,
         ctxDone => ctxDone',
         \A i \in Targets : pc'[i] = pc[i] \/ (pc[i] = "unborn" /\ pc'[i] = "waiting")
  PROVE  Recording'
<1>1. ASSUME NEW i \in Targets PROVE InHand(i)'
  <2>1. InHand(i) /\ (pc'[i] = pc[i] \/ (pc[i] = "unborn" /\ pc'[i] = "waiting"))
    BY DEF Recording
  <2> QED
    BY <2>1 DEF InHand, Answers, Suffix, NoneCanceled
<1> QED
  BY <1>1 DEF Recording

(* In every reachable state each goroutine has the results its place in    *)
(* the code calls for.                                                     *)
THEOREM RecordingInvariant == Spec => []Recording
<1>1. Init => Recording
  <2> SUFFICES ASSUME Init PROVE Recording
    OBVIOUS
  <2>1. ASSUME NEW i \in Targets PROVE InHand(i)
    <3>1. out[i] = <<>> /\ pc[i] = "unborn"
      BY DEF Init
    <3>2. <<>> \in Seq(Result) /\ Len(<<>>) = 0
      OBVIOUS
    <3> QED
      BY <3>1, <3>2, RequestTyped DEF InHand, Answers, Suffix, NoneCanceled
  <2>2. <<>> \in Seq(Result) /\ 0 \in 0..MaxVarbinds
    BY LimitAssumption
  <2> QED
    BY <2>1, <2>2 DEF Init, Recording
<1>2. Counting /\ Recording /\ [Next]_vars => Recording'
  <2> SUFFICES ASSUME Counting, Recording, [Next]_vars PROVE Recording'
    OBVIOUS
  <2>1. CASE UNCHANGED vars \/ Terminated
    BY <2>1, OtherKeepsRecording DEF Terminated, vars, taskVars, Recording
  <2>2. ASSUME NEW i \in Targets, WatcherStep(i) PROVE Recording'
    BY <2>2, OtherKeepsRecording
       DEF WatcherStep, WatcherCloses, WatcherLeaves, ExecutorUnchanged, ServerUnchanged, Recording
  <2>3. CASE StartTask
    <3>1. pc[started + 1] = "unborn"
      BY <2>3, TargetsFinite, RequestAssumption DEF StartTask, Counting
    <3>2. \A i \in Targets : pc'[i] = pc[i] \/ (pc[i] = "unborn" /\ pc'[i] = "waiting")
      BY <2>3, <3>1 DEF StartTask, Counting
    <3> QED
      BY <2>3, <3>2, OtherKeepsRecording DEF StartTask, Recording
  <2>4. CASE WaitEnds \/ RecordStats \/ Respond \/ Disconnect
    BY <2>4, OtherKeepsRecording
       DEF WaitEnds, RecordStats, Respond, Disconnect, HandlerUnchanged, taskVars, Recording
  <2> QED
    BY <2>1, <2>2, <2>3, <2>4, TaskKeepsRecording, OperationKeepsRecording DEF Next, HandlerStep
<1> QED
  BY <1>1, <1>2, CountingInvariant, PTL DEF Spec

(* When the handler leaves wg.Wait the response has one result per         *)
(* requested operation, in request order, for any query.                   *)
THEOREM SpecResponseComplete == Spec => []ResponseComplete
<1>1. Counting /\ Recording => ResponseComplete
  <2> SUFFICES ASSUME Counting, Recording, handlerPC # "starting", NEW i \in Targets
               PROVE  /\ DOMAIN results[i] = Places(i)
                      /\ \A j \in Places(i) : results[i][j].type = Requests[i][j]
    BY DEF ResponseComplete
  <2>1. Answers(i, results[i]) /\ Len(results[i]) = Len(Requests[i])
    BY DEF Counting, Recording, InHand
  <2>2. DOMAIN results[i] = 1..Len(results[i])
    BY <2>1, LenProperties DEF Answers
  <2> QED
    BY <2>1, <2>2, RequestTyped DEF Answers
<1> QED
  BY <1>1, CountingInvariant, RecordingInvariant, PTL

(* Slots are written by goroutines only, and at wg.Wait all have ended.    *)
LEMMA StableStep == Counting /\ [Next]_vars => [handlerPC # "starting" => UNCHANGED results]_vars
<1> SUFFICES ASSUME Counting, Next, handlerPC # "starting" PROVE UNCHANGED results
  BY DEF vars, taskVars
<1> USE DEF ServerUnchanged, ExecutorUnchanged, HandlerUnchanged, taskVars
<1>1. ASSUME NEW i \in Targets, TaskStep(i) PROVE UNCHANGED results
  <2>1. pc[i] = "ended"
    BY DEF Counting
  <2> QED
    BY <1>1, <2>1 DEF TaskStep, Acquire, CanceledWaiting, ConnectFails, Connected, SkipCanceled,
       Begin, Hangup, Store, Release, End
<1>2. ASSUME NEW i \in Targets, OperationStep(i) \/ WatcherStep(i) PROVE UNCHANGED results
  BY <1>2 DEF OperationStep, Reply, WalkPDU, WalkLimit, WalkEnds, OperationFails, Conclude,
     WatcherStep, WatcherCloses, WatcherLeaves
<1>3. CASE HandlerStep \/ Disconnect \/ Terminated
  BY <1>3 DEF HandlerStep, StartTask, WaitEnds, RecordStats, Respond, Disconnect, Terminated, vars
<1> QED
  BY <1>1, <1>2, <1>3 DEF Next

(* No goroutine writes a slot while the handler counts or encodes them.    *)
THEOREM SpecResponseStable == Spec => ResponseStable
  BY StableStep, CountingInvariant, PTL DEF Spec, ResponseStable

(* Cancellation cuts the operations of every target at one point.          *)
THEOREM SpecCanceledSuffix == Spec => []CanceledSuffix
<1>1. Recording => CanceledSuffix
  <2> SUFFICES ASSUME Recording, NEW i \in Targets, NEW j \in DOMAIN out[i],
                      out[i][j].code = "request canceled"
               PROVE  /\ ctxDone
                      /\ \A k \in DOMAIN out[i] : k > j => out[i][k].code = "request canceled"
    BY DEF CanceledSuffix
  <2>1. InHand(i) /\ DOMAIN out[i] = 1..Len(out[i]) /\ Len(out[i]) \in Nat
    BY LenProperties DEF Recording
  <2> QED
    BY <2>1 DEF InHand, Suffix, NoneCanceled, IsCanceled
<1> QED
  BY <1>1, RecordingInvariant, PTL
-----------------------------------------------------------------------------
(* Sessions.                                                               *)

(* An open socket belongs to a goroutine that is busy with operations.     *)
Socketing ==
  /\ conn \in [Targets -> {"none", "open", "closed"}]
  /\ watcher \in [Targets -> {"none", "watching", "gone"}]
  /\ finished \in [Targets -> BOOLEAN]
  /\ \A i \in Targets : conn[i] = "open" => pc[i] \in {"checking", "operating"}

(* The session of every target is inside the part of its goroutine that    *)
(* closes it.                                                              *)
THEOREM SocketingInvariant == Spec => []Socketing
<1>1. Init => Socketing
  BY DEF Init, Socketing
<1>2. Counting /\ Socketing /\ [Next]_vars => Socketing'
  <2> SUFFICES ASSUME Counting, Socketing, [Next]_vars PROVE Socketing'
    OBVIOUS
  <2> USE DEF ServerUnchanged, ExecutorUnchanged, HandlerUnchanged, taskVars, Goto
  <2>0. pc \in [Targets -> AllPlaces]
    BY DEF Counting
  <2>1. CASE UNCHANGED vars \/ Terminated
    BY <2>1 DEF Terminated, vars, Socketing
  <2>2. ASSUME NEW i \in Targets, TaskStep(i) PROVE Socketing'
    <3>1. CASE Acquire(i) \/ CanceledWaiting(i) \/ ConnectFails(i) \/ SkipCanceled(i)
      BY <2>0, <3>1 DEF Acquire, CanceledWaiting, ConnectFails, SkipCanceled, Socketing
    <3>2. CASE Connected(i)
      BY <2>0, <3>2 DEF Connected, Socketing
    <3>3. CASE Begin(i) \/ Hangup(i)
      BY <2>0, <3>3 DEF Begin, Hangup, Socketing
    <3>4. CASE Store(i) \/ Release(i) \/ End(i)
      BY <2>0, <3>4 DEF Store, Release, End, Socketing
    <3> QED
      BY <2>2, <3>1, <3>2, <3>3, <3>4 DEF TaskStep
  <2>3. ASSUME NEW i \in Targets, OperationStep(i) PROVE Socketing'
    <3>1. /\ UNCHANGED <<conn, watcher, finished>>
          /\ UNCHANGED pc \/ Goto(i, "checking")
      BY <2>3 DEF OperationStep, Reply, WalkPDU, WalkLimit, WalkEnds, OperationFails, Conclude
    <3> QED
      BY <2>0, <3>1 DEF Socketing
  <2>4. ASSUME NEW i \in Targets, WatcherStep(i) PROVE Socketing'
    BY <2>4 DEF WatcherStep, WatcherCloses, WatcherLeaves, Socketing
  <2>5. CASE StartTask
    <3>1. pc[started + 1] = "unborn"
      BY <2>5, TargetsFinite, RequestAssumption DEF StartTask, Counting
    <3> QED
      BY <2>0, <2>5, <3>1 DEF StartTask, Socketing
  <2>6. CASE WaitEnds \/ RecordStats \/ Respond \/ Disconnect
    BY <2>6 DEF WaitEnds, RecordStats, Respond, Disconnect, Socketing
  <2> QED
    BY <2>1, <2>2, <2>3, <2>4, <2>5, <2>6 DEF Next, HandlerStep
<1> QED
  BY <1>1, <1>2, CountingInvariant, PTL DEF Spec

(* The response is not recorded or written while a session is open.        *)
THEOREM SpecSessionsClosed == Spec => []SessionsClosed
<1>1. Counting /\ Socketing => SessionsClosed
  BY DEF Counting, Socketing, SessionsClosed
<1> QED
  BY <1>1, CountingInvariant, SocketingInvariant, PTL
-----------------------------------------------------------------------------
(* Statistics.                                                             *)

AllPlacesOf == UNION {Places(i) : i \in Targets}

(* The results Record counts are finitely many.                            *)
LEMMA SlotsFinite ==
  /\ IsFiniteSet(Slots) /\ IsFiniteSet(Successes) /\ IsFiniteSet(Slots \ Successes)
  /\ Cardinality(Slots) \in Nat /\ Cardinality(Successes) \in Nat
  /\ Cardinality(Slots \ Successes) \in Nat
<1> DEFINE T == {Places(i) : i \in Targets}
           f == [i \in Targets |-> Places(i)]
<1>1. IsFiniteSet(T)
  <2>1. f \in Surjection(Targets, T)
    BY DEF Surjection
  <2> QED
    BY <2>1, FS_Surjection, TargetsFinite
<1>2. \A P \in T : IsFiniteSet(P)
  <2>1. ASSUME NEW i \in Targets PROVE IsFiniteSet(Places(i))
    <3>1. Len(Requests[i]) \in Int /\ Places(i) = 1..Len(Requests[i])
      BY RequestTyped
    <3>2. IsFiniteSet(1..Len(Requests[i]))
      BY <3>1, FS_Interval
    <3> QED
      BY <3>1, <3>2
  <2> QED
    BY <2>1
<1>3. IsFiniteSet(AllPlacesOf)
  <2> HIDE DEF T
  <2>1. IsFiniteSet(UNION T)
    BY <1>1, <1>2, FS_UNION
  <2> QED
    BY <2>1 DEF T, AllPlacesOf
<1>4. IsFiniteSet(Targets \X AllPlacesOf)
  BY <1>3, TargetsFinite, FS_Product
<1>5. Slots \subseteq Targets \X AllPlacesOf /\ Successes \subseteq Slots
  BY DEF Slots, Successes, AllPlacesOf
<1>6. IsFiniteSet(Slots)
  BY <1>4, <1>5, FS_Subset
<1>7. IsFiniteSet(Successes) /\ IsFiniteSet(Slots \ Successes)
  BY <1>5, <1>6, FS_Subset, FS_Difference
<1> QED
  BY <1>6, <1>7, FS_CardinalityType

(* What StatsDescribeResponse says once the response is recorded; before   *)
(* that nothing is counted.                                                *)
Tallying ==
  /\ stats \in [DOMAIN NoStats -> Nat]
  /\ handlerPC \in {"starting", "recording"} => stats = NoStats
  /\ StatsDescribeResponse

(* Record counts every result of the response once, by outcome.            *)
LEMMA RecordTallies ==
  ASSUME Counting, Recording, Tallying, RecordStats
  PROVE  Tallying'
<1> DEFINE ok == Cardinality(Successes)
           bad == Cardinality(Slots \ Successes)
           all == Cardinality(Slots)
<1>1. ok \in Nat /\ bad \in Nat /\ all \in Nat
  BY SlotsFinite
<1>2. stats = NoStats
  BY DEF RecordStats, Tallying
<1>3. /\ stats' = Record /\ handlerPC' = "responding" /\ UNCHANGED <<results>>
      /\ UNCHANGED <<Slots, Successes>>
  BY DEF RecordStats, HandlerUnchanged, taskVars, Slots, Successes
<1>4. /\ stats'.operationSuccesses = ok /\ stats'.operationFailures = bad
      /\ stats'.operationCount = all
      /\ stats'.successfulQueries = Bit(Outcome(ok, bad) = "successful")
      /\ stats'.partiallyFailed = Bit(Outcome(ok, bad) = "partially")
      /\ stats'.fullyFailed = Bit(Outcome(ok, bad) = "fully")
  BY <1>1, <1>2, <1>3 DEF Record, NoStats, Bit
<1>5. stats' \in [DOMAIN NoStats -> Nat]
  BY <1>1, <1>2, <1>3, TargetsFinite DEF Record, NoStats, Bit
<1>6. Slots = UNION {{i} \X Places(i) : i \in Targets}
  <2>1. \A i \in Targets : DOMAIN results[i] = Places(i)
    <3> SUFFICES ASSUME NEW i \in Targets PROVE DOMAIN results[i] = Places(i)
      OBVIOUS
    <3>1. Answers(i, results[i]) /\ Len(results[i]) = Len(Requests[i])
      BY DEF RecordStats, Counting, Recording, InHand
    <3> QED
      BY <3>1, LenProperties, RequestTyped DEF Answers
  <2>2. ASSUME NEW s \in Slots PROVE s \in UNION {{i} \X Places(i) : i \in Targets}
    <3>1. PICK i \in Targets, j \in AllPlacesOf : s = <<i, j>>
      BY DEF Slots, AllPlacesOf
    <3>2. j \in Places(i)
      BY <2>1, <3>1 DEF Slots
    <3> QED
      BY <3>1, <3>2
  <2>3. ASSUME NEW i \in Targets, NEW j \in Places(i) PROVE <<i, j>> \in Slots
    BY <2>1, <2>3 DEF Slots
  <2> QED
    BY <2>2, <2>3
<1>7. (ok = 0 <=> Successes = {}) /\ (bad = 0 <=> Slots \ Successes = {})
  BY SlotsFinite, FS_EmptySet
<1>8. Slots # {}
  <2>1. 1 \in Targets /\ 1 \in Places(1)
    <3>1. 1 \in Targets
      BY RequestAssumption, TargetsFinite
    <3> QED
      BY <3>1, RequestTyped
  <2>2. <<1, 1>> \in {1} \X Places(1)
    BY <2>1
  <2>3. <<1, 1>> \in Slots
    BY <1>6, <2>1, <2>2
  <2> QED
    BY <2>3
<1>9. Successes # {} \/ Slots \ Successes # {}
  BY <1>8
<1> HIDE DEF ok, bad, all
<1>10. /\ stats'.successfulQueries + stats'.partiallyFailed + stats'.fullyFailed = 1
       /\ stats'.partiallyFailed = 1 <=> Successes # {} /\ Slots \ Successes # {}
       /\ stats'.fullyFailed = 1 <=> Successes = {}
  BY <1>1, <1>4, <1>7, <1>9 DEF Bit, Outcome
<1> QED
  BY <1>3, <1>4, <1>5, <1>6, <1>10 DEF Tallying, StatsDescribeResponse, ok, bad, all

(* Nothing but RecordStats counts, and nothing passes it by.               *)
LEMMA OthersDoNotCount ==
  ASSUME [Next]_vars, ~RecordStats
  PROVE  /\ UNCHANGED stats
         /\ \/ UNCHANGED handlerPC
            \/ handlerPC = "starting" /\ handlerPC' = "recording"
            \/ handlerPC = "responding" /\ handlerPC' = "returned"
<1> USE DEF ServerUnchanged, ExecutorUnchanged, HandlerUnchanged
<1>1. ASSUME NEW i \in Targets, TaskStep(i) PROVE UNCHANGED <<stats, handlerPC>>
  BY <1>1 DEF TaskStep, Acquire, CanceledWaiting, ConnectFails, Connected, SkipCanceled, Begin,
     Hangup, Store, Release, End
<1>2. ASSUME NEW i \in Targets, OperationStep(i) \/ WatcherStep(i)
      PROVE  UNCHANGED <<stats, handlerPC>>
  BY <1>2 DEF OperationStep, Reply, WalkPDU, WalkLimit, WalkEnds, OperationFails, Conclude,
     WatcherStep, WatcherCloses, WatcherLeaves
<1> QED
  BY <1>1, <1>2 DEF Next, HandlerStep, StartTask, WaitEnds, Respond, Disconnect, Terminated, vars

(* Every step keeps Tallying.                                              *)
LEMMA TallyingStep == Counting /\ Recording /\ Tallying /\ [Next]_vars => Tallying'
<1> SUFFICES ASSUME Counting, Recording, Tallying, [Next]_vars PROVE Tallying'
  OBVIOUS
<1>1. CASE RecordStats
  BY <1>1, RecordTallies
<1>2. CASE ~RecordStats /\ handlerPC' \in {"starting", "recording"}
  BY <1>2, OthersDoNotCount DEF Tallying, StatsDescribeResponse
<1>3. CASE ~RecordStats /\ handlerPC' \notin {"starting", "recording"}
  <2>1. UNCHANGED stats /\ handlerPC \in {"responding", "returned"}
    BY <1>3, OthersDoNotCount DEF Counting
  <2>2. UNCHANGED <<Slots, Successes>>
    <3>1. UNCHANGED results
      BY <2>1, StableStep DEF vars, taskVars
    <3> QED
      BY <3>1 DEF Slots, Successes
  <2> QED
    BY <1>3, <2>1, <2>2 DEF Tallying, StatsDescribeResponse
<1> QED
  BY <1>1, <1>2, <1>3

(* Nothing is counted before the response is complete, and what is counted *)
(* stays true of it.                                                       *)
THEOREM TallyingInvariant == Spec => []Tallying
<1>1. Init => Tallying
  BY DEF Init, Tallying, NoStats, StatsDescribeResponse
<1> QED
  BY <1>1, TallyingStep, CountingInvariant, RecordingInvariant, PTL DEF Spec

(* The statistics of a query describe the response it gets.                *)
THEOREM SpecStatsDescribeResponse == Spec => []StatsDescribeResponse
<1>1. Tallying => StatsDescribeResponse
  BY DEF Tallying
<1> QED
  BY <1>1, TallyingInvariant, PTL

(* Type correctness: the semaphore never holds more than its capacity and  *)
(* no operation returns more than MaxVarbinds values.                      *)
THEOREM SpecTypeOK == Spec => []TypeOK
<1>1. Counting /\ Recording /\ Socketing /\ Tallying => TypeOK
  <2> SUFFICES ASSUME Counting, Recording, Socketing, Tallying PROVE TypeOK
    OBVIOUS
  <2>1. wg \in 0..Len(Requests)
    <3>1. IsFiniteSet(Running) /\ Cardinality(Running) <= Cardinality(Targets)
      BY TargetsFinite, FS_Subset DEF Running
    <3>2. Cardinality(Running) \in Nat
      BY <3>1, FS_CardinalityType
    <3>3. Cardinality(Targets) = Len(Requests)
      BY TargetsFinite, RequestAssumption, FS_Interval
    <3> QED
      BY <3>1, <3>2, <3>3, TargetsFinite DEF Counting
  <2>2. sem \in 0..MaxParallelTargets
    <3>1. IsFiniteSet(Held)
      BY TargetsFinite, FS_Subset DEF Held
    <3>2. Cardinality(Held) \in Nat
      BY <3>1, FS_CardinalityType
    <3> QED
      BY <3>2, LimitAssumption DEF Counting
  <2> QED
    BY <2>1, <2>2 DEF Counting, AllPlaces, Recording, Socketing, Tallying, TypeOK
<1> QED
  BY <1>1, CountingInvariant, RecordingInvariant, SocketingInvariant, TallyingInvariant, PTL
=============================================================================
