------------------------------- MODULE Metrics -------------------------------
(***************************************************************************)
(* A scrape of /metrics while the rest of the program counts on:           *)
(* Stats.Snapshot copies everything in one critical section, and           *)
(* PrometheusText writes the copy line by line without the lock (the code  *)
(* sorts the routes, the model writes them in any order).                  *)
(***************************************************************************)
EXTENDS Naturals, FiniteSets

CONSTANTS Routes,       \* labels of the routes: CIDRs and "default"
          MaxEvents     \* bound on what is counted in one behaviour
ASSUME RouteAssumption == IsFiniteSet(Routes) /\ MaxEvents \in Nat

Outcomes == {"success", "failure"}
QueryOutcomes == {"success", "partial_failure", "failure"}

VARIABLES stats,        \* what mu protects; a route map has the keys counted so far
          snapshot,     \* of the scrape under way
          pending,      \* routes whose lines are still to be written
          text,         \* the lines written so far
          lastText      \* history: the exposition before this one
vars == <<stats, snapshot, pending, text, lastText>>

NoCounts == [r \in {} |-> 0]
NoStats == [queries |-> [o \in QueryOutcomes |-> 0], total |-> 0,
            forwards |-> [o \in Outcomes |-> 0], routes |-> [o \in Outcomes |-> NoCounts]]
NoText == [done |-> FALSE, queries |-> NoStats.queries, count |-> 0,
           forwards |-> NoStats.forwards, routes |-> NoStats.routes]

Init ==
  /\ stats = NoStats /\ snapshot = [taken |-> FALSE] /\ pending = {}
  /\ text = NoText /\ lastText = NoText

Count(counts, key) ==
  [k \in DOMAIN counts \cup {key} |->
     (IF k \in DOMAIN counts THEN counts[k] ELSE 0) + (IF k = key THEN 1 ELSE 0)]

(* The events that were counted, numbered key by key, and their number:    *)
(* the sum of the counts.                                                  *)
Ticks(counts) == UNION {{k} \X (1 .. counts[k]) : k \in DOMAIN counts}
Total(counts) == Cardinality(Ticks(counts))
-----------------------------------------------------------------------------
(* The critical sections of Record and of RecordTrapForwardSuccess and     *)
(* RecordTrapForwardFailure, which create their map when it is missing.    *)
RecordQuery(outcome) ==
  /\ stats.total + Total(stats.forwards) < MaxEvents
  /\ stats' = [stats EXCEPT !.queries[outcome] = @ + 1, !.total = @ + 1]
  /\ UNCHANGED <<snapshot, pending, text, lastText>>

RecordForward_Fresh(outcome, route) ==  \* mutant: the map is made anew each time
  /\ stats.total + Total(stats.forwards) < MaxEvents
  /\ stats' = [stats EXCEPT !.forwards[outcome] = @ + 1,
                            !.routes[outcome] = Count(NoCounts, route)]
  /\ UNCHANGED <<snapshot, pending, text, lastText>>
RecordForward(outcome, route) ==
  /\ stats.total + Total(stats.forwards) < MaxEvents
  /\ stats' = [stats EXCEPT !.forwards[outcome] = @ + 1, !.routes[outcome] = Count(@, route)]
  /\ UNCHANGED <<snapshot, pending, text, lastText>>

(* A Go map is a reference: not copied it goes on changing. *)
copyCounts_Live(counts) == [live |-> TRUE, counts |-> counts]       \* mutant
copyCounts(counts) == [live |-> FALSE, counts |-> counts]

Snapshot ==
  /\ ~snapshot.taken
  /\ snapshot' = [taken |-> TRUE, queries |-> stats.queries, total |-> stats.total,
                  forwards |-> stats.forwards,
                  routes |-> [o \in Outcomes |-> copyCounts(stats.routes[o])]]
  /\ lastText' = text /\ text' = NoText
  /\ UNCHANGED <<stats, pending>>

(* The snapshot's count of a route, 0 for a missing key. *)
Read(outcome, route) ==
  LET map == snapshot.routes[outcome]
      counts == IF map.live THEN stats.routes[outcome] ELSE map.counts
  IN  IF route \in DOMAIN counts THEN counts[route] ELSE 0

mergeRouteKeys(maps) == UNION {DOMAIN maps[o].counts : o \in Outcomes}

WriteTotals ==
  /\ snapshot.taken /\ pending = {} /\ ~text.done
  /\ text' = [NoText EXCEPT !.done = TRUE, !.queries = snapshot.queries,
                            !.count = snapshot.total, !.forwards = snapshot.forwards]
  /\ pending' = mergeRouteKeys(snapshot.routes)
  /\ UNCHANGED <<stats, snapshot, lastText>>

WriteRoute(route) ==
  /\ route \in pending
  /\ text' = [text EXCEPT !.routes = [o \in Outcomes |->
                [r \in DOMAIN @[o] \cup {route} |->
                   IF r = route THEN Read(o, route) ELSE @[o][r]]]]
  /\ pending' = pending \ {route}
  /\ UNCHANGED <<stats, snapshot, lastText>>

Written == snapshot.taken /\ text.done /\ pending = {}
Send == Written /\ snapshot' = [taken |-> FALSE] /\ UNCHANGED <<stats, pending, text, lastText>>

Next ==
  \/ \E o \in QueryOutcomes : RecordQuery(o)
  \/ \E o \in Outcomes, r \in Routes : RecordForward(o, r)
  \/ \E r \in Routes : WriteRoute(r)
  \/ Snapshot \/ WriteTotals \/ Send

Spec == Init /\ [][Next]_vars
-----------------------------------------------------------------------------
(* One exposition describes one moment, whatever was counted while it was  *)
(* written: its series per route add up to its totals, and its queries by  *)
(* outcome to the count of the latency summary.                            *)
OneMoment ==
  Written =>
    /\ \A o \in Outcomes : Total(text.routes[o]) = text.forwards[o]
    /\ Total(text.queries) = text.count

(* A counter never falls, and no series disappears, from one scrape to the *)
(* next: a fall would be taken for a restart of the process.               *)
CountersOnlyGrow ==
  Written /\ lastText.done =>
    /\ \A o \in QueryOutcomes : lastText.queries[o] <= text.queries[o]
    /\ \A o \in Outcomes :
         /\ lastText.forwards[o] <= text.forwards[o]
         /\ \A r \in DOMAIN lastText.routes[o] :
              r \in DOMAIN text.routes[o] /\ lastText.routes[o][r] <= text.routes[o][r]
=============================================================================
