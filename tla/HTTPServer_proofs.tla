-------------------------- MODULE HTTPServer_proofs --------------------------
(***************************************************************************)
(* What the server answers, for every limit, default and size of an        *)
(* integer; and what a scrape shows, for every number of events and routes.*)
(***************************************************************************)
EXTENDS MCHTTPServer, V3Credentials_proofs, FiniteSetTheorems

(* Counts over some keys, and what they say of one: 0 if they lack it.     *)
Counts(K) == UNION {[D -> Nat] : D \in SUBSET K}
At(counts, k) == IF k \in DOMAIN counts THEN counts[k] ELSE 0

(* Counts over some keys are numbers for some of the keys, and 0 is read   *)
(* for the others.                                                         *)
LEMMA CountsForm ==
  ASSUME NEW K, NEW c \in Counts(K)
  PROVE  /\ DOMAIN c \in SUBSET K /\ c \in [DOMAIN c -> Nat]
         /\ \A k : At(c, k) \in Nat
<1>1. PICK D \in SUBSET K : c \in [D -> Nat]
  BY DEF Counts
<1>2. QED
  BY <1>1 DEF At

(* A key has as many ticks as its count says.                              *)
LEMMA TicksForm ==
  ASSUME NEW K, NEW c \in Counts(K), NEW k, NEW n
  PROVE  <<k, n>> \in Ticks(c) <=> n \in 1 .. At(c, k)
BY CountsForm DEF Ticks, At

(* Counting an event adds it: one to the key's count and to the sum.       *)
LEMMA OneMoreTick ==
  ASSUME NEW K, NEW c \in Counts(K), NEW k, NEW d \in Counts(K),
         At(d, k) = At(c, k) + 1, \A l : l # k => At(d, l) = At(c, l),
         IsFiniteSet(Ticks(c))
  PROVE  IsFiniteSet(Ticks(d)) /\ Total(d) = Total(c) + 1
<1> DEFINE x == <<k, At(c, k) + 1>>
<1>1. Ticks(d) = Ticks(c) \cup {x}
  <2>1. \A l, n : <<l, n>> \in Ticks(d) <=> <<l, n>> \in Ticks(c) \/ <<l, n>> = x
    <3> SUFFICES ASSUME NEW l, NEW n
                 PROVE  <<l, n>> \in Ticks(d) <=> <<l, n>> \in Ticks(c) \/ <<l, n>> = x
      OBVIOUS
    <3>1. /\ <<l, n>> \in Ticks(d) <=> n \in 1 .. At(d, l)
          /\ <<l, n>> \in Ticks(c) <=> n \in 1 .. At(c, l)
      BY TicksForm
    <3>2. At(c, l) \in Nat /\ At(c, k) \in Nat
      BY CountsForm
    <3>3. CASE l = k
      BY <3>1, <3>2, <3>3
    <3>4. CASE l # k
      BY <3>1, <3>4
    <3>5. QED
      BY <3>3, <3>4
  <2>2. \A t : t \in Ticks(d) \/ t \in Ticks(c) => \E l, n : t = <<l, n>>
    BY DEF Ticks
  <2>3. QED
    <3> HIDE DEF x
    <3>1. \A t : t \in Ticks(d) <=> t \in Ticks(c) \cup {x}
      BY <2>1, <2>2 DEF x
    <3>2. QED
      BY <3>1
<1>2. x \notin Ticks(c)
  <2>1. At(c, k) \in Nat
    BY CountsForm
  <2>2. At(c, k) + 1 \notin 1 .. At(c, k)
    BY <2>1
  <2>3. QED
    BY <2>2, TicksForm
<1>3. QED
  <2> HIDE DEF x
  <2> QED BY <1>1, <1>2, FS_AddElement DEF Total

(* Keys that were never counted do not change a sum.                       *)
LEMMA SameTicks ==
  ASSUME NEW K, NEW c \in Counts(K), NEW d \in Counts(K), \A k : At(d, k) = At(c, k)
  PROVE  Total(d) = Total(c)
<1>1. \A k, n : <<k, n>> \in Ticks(d) <=> <<k, n>> \in Ticks(c)
  BY TicksForm
<1>2. \A t : t \in Ticks(d) \/ t \in Ticks(c) => \E k, n : t = <<k, n>>
  BY DEF Ticks
<1>3. Ticks(d) = Ticks(c)
  BY <1>1, <1>2
<1>4. QED
  BY <1>3 DEF Total
-----------------------------------------------------------------------------
(* The statistics, and what an exposition shows of them.                   *)
Statistics ==
  [queries : [QueryOutcomes -> Nat], total : Nat, forwards : [Outcomes -> Nat],
   routes : [Outcomes -> Counts(Routes)]]
Expositions ==
  [done : BOOLEAN, queries : [QueryOutcomes -> Nat], count : Nat, forwards : [Outcomes -> Nat],
   routes : [Outcomes -> Counts(Routes)]]

(* Sums agree, and are sums of finitely many events.                       *)
Consistent(s) ==
  /\ s \in Statistics
  /\ IsFiniteSet(Ticks(s.queries)) /\ Total(s.queries) = s.total
  /\ \A o \in Outcomes :
       IsFiniteSet(Ticks(s.routes[o])) /\ Total(s.routes[o]) = s.forwards[o]

(* The routes one of the maps of s has; and an older copy or exposition,   *)
(* none of whose counts is above that of s.                                *)
Keys(s) == UNION {DOMAIN s.routes[o] : o \in Outcomes}
AtMost(old, s) ==
  /\ \A o \in QueryOutcomes : old.queries[o] <= s.queries[o]
  /\ \A o \in Outcomes :
       /\ old.forwards[o] <= s.forwards[o]
       /\ \A r : At(old.routes[o], r) <= At(s.routes[o], r)
  /\ Keys(old) \in SUBSET Keys(s)

(* An exposition of s that still lacks the lines of some routes.           *)
Shows(t, s, left) ==
  /\ t.queries = s.queries /\ t.count = s.total /\ t.forwards = s.forwards
  /\ \A o \in Outcomes :
       /\ DOMAIN t.routes[o] = Keys(s) \ left
       /\ \A r \in Keys(s) \ left : t.routes[o][r] = At(s.routes[o], r)

(* A snapshot without the marks of its copies.                             *)
Frozen ==
  [queries |-> snapshot.queries, total |-> snapshot.total, forwards |-> snapshot.forwards,
   routes |-> [o \in Outcomes |-> snapshot.routes[o].counts]]

(* The inductive invariant of counting and exposing: the snapshot is a     *)
(* consistent copy, not above the statistics and not below the exposition  *)
(* before it, and the text so far is the snapshot's.                       *)
ScrapeInv ==
  /\ Consistent(stats)
  /\ snapshot.taken \in BOOLEAN /\ text \in Expositions /\ lastText \in Expositions
  /\ snapshot.taken =>
       /\ \A o \in Outcomes : ~snapshot.routes[o].live
       /\ Consistent(Frozen) /\ AtMost(Frozen, stats)
       /\ lastText.done => AtMost(lastText, Frozen)
       /\ text.done => pending \in SUBSET Keys(Frozen) /\ Shows(text, Frozen, pending)
  /\ pending # {} => snapshot.taken /\ text.done
  /\ ~snapshot.taken /\ text.done => AtMost(text, stats)

(* A complete exposition says of every route what its source says.         *)
LEMMA ShownWhole ==
  ASSUME NEW t \in Expositions, NEW s \in Statistics, Shows(t, s, {}), NEW o \in Outcomes
  PROVE  DOMAIN t.routes[o] = Keys(s) /\ \A r : At(t.routes[o], r) = At(s.routes[o], r)
<1>1. DOMAIN t.routes[o] = Keys(s) /\ \A r \in Keys(s) : t.routes[o][r] = At(s.routes[o], r)
  BY DEF Shows
<1>2. DOMAIN s.routes[o] \in SUBSET Keys(s)
  BY DEF Keys
<1>3. QED
  BY <1>1, <1>2 DEF At

(* What does not exceed the statistics at one moment does not exceed those *)
(* of a later one.                                                         *)
LEMMA AtMostTransitive ==
  ASSUME NEW a \in Statistics \cup Expositions, NEW b \in Statistics, NEW c \in Statistics,
         AtMost(a, b), AtMost(b, c)
  PROVE  AtMost(a, c)
<1>1. ASSUME NEW o \in QueryOutcomes PROVE a.queries[o] <= c.queries[o]
  <2>1. a.queries[o] \in Nat /\ b.queries[o] \in Nat /\ c.queries[o] \in Nat
    BY DEF Statistics, Expositions
  <2>2. a.queries[o] <= b.queries[o] /\ b.queries[o] <= c.queries[o]
    BY DEF AtMost
  <2>3. QED
    BY <2>1, <2>2
<1>2. ASSUME NEW o \in Outcomes PROVE a.forwards[o] <= c.forwards[o]
  <2>1. a.forwards[o] \in Nat /\ b.forwards[o] \in Nat /\ c.forwards[o] \in Nat
    BY DEF Statistics, Expositions
  <2>2. a.forwards[o] <= b.forwards[o] /\ b.forwards[o] <= c.forwards[o]
    BY DEF AtMost
  <2>3. QED
    BY <2>1, <2>2
<1>3. ASSUME NEW o \in Outcomes, NEW r PROVE At(a.routes[o], r) <= At(c.routes[o], r)
  <2>1. a.routes[o] \in Counts(Routes) /\ b.routes[o] \in Counts(Routes) /\ c.routes[o] \in Counts(Routes)
    BY DEF Statistics, Expositions
  <2>2. At(a.routes[o], r) \in Nat /\ At(b.routes[o], r) \in Nat /\ At(c.routes[o], r) \in Nat
    BY <2>1, CountsForm
  <2>3. At(a.routes[o], r) <= At(b.routes[o], r) /\ At(b.routes[o], r) <= At(c.routes[o], r)
    BY DEF AtMost
  <2>4. QED
    BY <2>2, <2>3
<1>4. Keys(a) \in SUBSET Keys(c)
  BY DEF AtMost
<1>5. QED
  BY <1>1, <1>2, <1>3, <1>4 DEF AtMost

(* Statistics do not exceed themselves: a snapshot may be taken at once.   *)
LEMMA AtMostReflexive ==
  ASSUME NEW a \in Statistics
  PROVE  AtMost(a, a)
<1>1. \A o \in QueryOutcomes : a.queries[o] \in Nat
  BY DEF Statistics
<1>2. \A o \in Outcomes : a.forwards[o] \in Nat /\ a.routes[o] \in Counts(Routes)
  BY DEF Statistics
<1>3. \A o \in Outcomes : \A r : At(a.routes[o], r) \in Nat
  BY <1>2, CountsForm
<1>4. QED
  BY <1>1, <1>2, <1>3 DEF AtMost

(* Counting: the sums stay right and no count falls.                       *)
LEMMA QueryCounted ==
  ASSUME Consistent(stats), NEW outcome \in QueryOutcomes, RecordQuery(outcome)
  PROVE  Consistent(stats') /\ AtMost(stats, stats')
<1> DEFINE q == stats.queries
           d == [q EXCEPT ![outcome] = @ + 1]
<1>1. stats \in Statistics /\ q \in [QueryOutcomes -> Nat] /\ stats.total \in Nat
  BY DEF Consistent, Statistics
<1>2. d \in [QueryOutcomes -> Nat] /\ q \in Counts(QueryOutcomes) /\ d \in Counts(QueryOutcomes)
  <2>1. d \in [QueryOutcomes -> Nat]
    BY <1>1
  <2>2. QED
    BY <1>1, <2>1 DEF Counts
<1>3. /\ At(d, outcome) = At(q, outcome) + 1 /\ \A l : l # outcome => At(d, l) = At(q, l)
      /\ \A l \in QueryOutcomes : q[l] <= d[l]
  BY <1>1 DEF At
<1>4. /\ stats'.queries = d /\ stats'.total = stats.total + 1 /\ stats' \in Statistics
      /\ stats'.forwards = stats.forwards /\ stats'.routes = stats.routes
  <2>1. stats' = [stats EXCEPT !.queries = d, !.total = stats.total + 1]
    BY <1>1 DEF RecordQuery, Statistics
  <2>2. stats.total + 1 \in Nat
    BY <1>1
  <2>3. QED
    <3> HIDE DEF d, q
    <3> QED BY <1>1, <1>2, <2>1, <2>2 DEF Statistics
<1>5. IsFiniteSet(Ticks(d)) /\ Total(d) = Total(q) + 1
  <2> HIDE DEF d, q
  <2>1. IsFiniteSet(Ticks(q))
    BY DEF Consistent, q
  <2>2. QED
    BY <1>2, <1>3, <2>1, OneMoreTick
<1>6. Consistent(stats')
  BY <1>4, <1>5 DEF Consistent
<1>7. AtMost(stats, stats')
  <2>1. AtMost(stats, stats)
    BY <1>1, AtMostReflexive
  <2>2. QED
    <3> HIDE DEF d
    <3> QED BY <1>3, <1>4, <2>1 DEF AtMost, Keys
<1>8. QED
  BY <1>6, <1>7

(* The same for a forward, whose route may be counted for the first time.  *)
LEMMA ForwardCounted ==
  ASSUME Consistent(stats), NEW outcome \in Outcomes, NEW route \in Routes,
         RecordForward(outcome, route)
  PROVE  Consistent(stats') /\ AtMost(stats, stats')
<1> DEFINE c == stats.routes[outcome]
           d == Count(c, route)
<1>1. /\ stats \in Statistics /\ stats.forwards \in [Outcomes -> Nat]
      /\ stats.routes \in [Outcomes -> Counts(Routes)] /\ c \in Counts(Routes)
  BY DEF Consistent, Statistics
<1>2. DOMAIN c \in SUBSET Routes /\ c \in [DOMAIN c -> Nat]
  <2> HIDE DEF c
  <2> QED BY <1>1, CountsForm
<1>3. d \in [DOMAIN c \cup {route} -> Nat]
  <2> HIDE DEF c
  <2> QED BY <1>2 DEF Count
<1>4. d \in Counts(Routes)
  <2>1. DOMAIN c \cup {route} \in SUBSET Routes
    BY <1>2
  <2>2. QED
    <3> HIDE DEF c, d
    <3> QED BY <1>3, <2>1 DEF Counts
<1>5. At(d, route) = At(c, route) + 1 /\ \A l : l # route => At(d, l) = At(c, l)
  <2> HIDE DEF c
  <2> QED BY <1>2 DEF Count, At
<1>6. /\ stats'.queries = stats.queries /\ stats'.total = stats.total /\ stats' \in Statistics
      /\ stats'.forwards = [stats.forwards EXCEPT ![outcome] = @ + 1]
      /\ stats'.routes = [stats.routes EXCEPT ![outcome] = d]
  <2>1. stats' = [stats EXCEPT !.forwards = [stats.forwards EXCEPT ![outcome] = @ + 1],
                               !.routes = [stats.routes EXCEPT ![outcome] = d]]
    BY <1>1 DEF RecordForward, Statistics
  <2>2. /\ [stats.forwards EXCEPT ![outcome] = @ + 1] \in [Outcomes -> Nat]
        /\ [stats.routes EXCEPT ![outcome] = d] \in [Outcomes -> Counts(Routes)]
    <3> HIDE DEF d
    <3> QED BY <1>1, <1>4
  <2>3. QED
    <3> HIDE DEF d
    <3> QED BY <1>1, <2>1, <2>2 DEF Statistics
<1>7. IsFiniteSet(Ticks(d)) /\ Total(d) = Total(c) + 1
  <2> HIDE DEF d, c
  <2>1. IsFiniteSet(Ticks(c))
    BY DEF Consistent, c
  <2>2. QED
    BY <1>1, <1>4, <1>5, <2>1, OneMoreTick
<1>8. ASSUME NEW o \in Outcomes
      PROVE  /\ IsFiniteSet(Ticks(stats'.routes[o]))
             /\ Total(stats'.routes[o]) = stats'.forwards[o]
  <2>1. CASE o = outcome
    <3>1. stats'.routes[o] = d /\ stats'.forwards[o] = stats.forwards[outcome] + 1
      <4> HIDE DEF d
      <4> QED BY <1>1, <1>6, <2>1
    <3>2. Total(c) = stats.forwards[outcome]
      BY DEF Consistent
    <3>3. QED
      <4> HIDE DEF c, d
      <4> QED BY <1>7, <3>1, <3>2
  <2>2. CASE o # outcome
    <3>1. stats'.routes[o] = stats.routes[o] /\ stats'.forwards[o] = stats.forwards[o]
      <4> HIDE DEF d
      <4> QED BY <1>1, <1>6, <2>2
    <3>2. QED
      BY <3>1 DEF Consistent
  <2>3. QED
    BY <2>1, <2>2
<1>9. Consistent(stats')
  BY <1>6, <1>8 DEF Consistent
<1>10. AtMost(stats, stats')
  <2>1. AtMost(stats, stats)
    BY <1>1, AtMostReflexive
  <2>2. \A o \in Outcomes : stats.forwards[o] <= stats'.forwards[o]
    BY <1>1, <1>6
  <2>3. ASSUME NEW o \in Outcomes
        PROVE  /\ \A r : At(stats.routes[o], r) <= At(stats'.routes[o], r)
               /\ DOMAIN stats.routes[o] \in SUBSET DOMAIN stats'.routes[o]
    <3>1. CASE o = outcome
      <4>1. stats.routes[o] = c /\ stats'.routes[o] = d
        <5> HIDE DEF d
        <5> QED BY <1>1, <1>6, <3>1
      <4>2. \A r : At(c, r) \in Nat
        <5> HIDE DEF c
        <5> QED BY <1>1, CountsForm
      <4>3. DOMAIN c \in SUBSET DOMAIN d
        <5> HIDE DEF c
        <5> QED BY DEF Count
      <4>4. QED
        <5> HIDE DEF c, d
        <5> QED BY <1>5, <4>1, <4>2, <4>3
    <3>2. CASE o # outcome
      <4>1. stats'.routes[o] = stats.routes[o]
        <5> HIDE DEF d
        <5> QED BY <1>1, <1>6, <3>2
      <4>2. QED
        BY <2>1, <4>1 DEF AtMost
    <3>3. QED
      BY <3>1, <3>2
  <2>4. Keys(stats) \in SUBSET Keys(stats')
    BY <2>3 DEF Keys
  <2>5. QED
    BY <1>6, <2>1, <2>2, <2>3, <2>4 DEF AtMost
<1>11. QED
  BY <1>9, <1>10

(* Nothing is counted at first, and there is no exposition yet.            *)
LEMMA ScrapeInit == Init => ScrapeInv
<1> SUFFICES ASSUME Init PROVE ScrapeInv
  OBVIOUS
<1>1. NoCounts \in Counts(Routes) /\ DOMAIN NoCounts = {}
  BY DEF NoCounts, Counts
<1>2. NoStats \in Statistics /\ NoText \in Expositions /\ ~NoText.done
  BY <1>1 DEF NoStats, NoText, Statistics, Expositions
<1>3. /\ Ticks(NoStats.queries) = {} /\ NoStats.total = 0
      /\ \A o \in Outcomes : Ticks(NoStats.routes[o]) = {} /\ NoStats.forwards[o] = 0
  BY <1>1 DEF NoStats, Ticks
<1>4. Consistent(NoStats)
  BY <1>2, <1>3, FS_EmptySet DEF Consistent, Total
<1>5. QED
  BY <1>2, <1>4 DEF Init, ScrapeInv

(* Counting goes on under a scrape: its snapshot does not change.          *)
LEMMA CountedUnderScrape ==
  ASSUME ScrapeInv, Consistent(stats'), AtMost(stats, stats'),
         UNCHANGED <<snapshot, pending, text, lastText>>
  PROVE  ScrapeInv'
<1>1. Frozen' = Frozen
  BY DEF Frozen
<1>2. stats \in Statistics /\ stats' \in Statistics
  BY DEF ScrapeInv, Consistent
<1>3. snapshot.taken => AtMost(Frozen, stats')
  BY <1>2, AtMostTransitive DEF ScrapeInv, Consistent
<1>4. ~snapshot.taken /\ text.done => AtMost(text, stats')
  BY <1>2, AtMostTransitive DEF ScrapeInv
<1>5. QED
  BY <1>1, <1>3, <1>4 DEF ScrapeInv

(* Counting leaves the snapshot and what was written of it alone;          *)
(* Snapshot, WriteTotals, WriteRoute and Send keep the text that of the    *)
(* snapshot.                                                               *)
LEMMA ScrapeStep == ScrapeInv /\ [Next]_vars => ScrapeInv'
<1> SUFFICES ASSUME ScrapeInv, [Next]_vars PROVE ScrapeInv'
  OBVIOUS
<1>1. CASE UNCHANGED vars
  BY <1>1 DEF ScrapeInv, Frozen, vars
<1>2. ASSUME NEW o \in QueryOutcomes, RecordQuery(o) PROVE ScrapeInv'
  <2>1. Consistent(stats') /\ AtMost(stats, stats')
    BY <1>2, QueryCounted DEF ScrapeInv
  <2>2. QED
    BY <1>2, <2>1, CountedUnderScrape DEF RecordQuery
<1>3. ASSUME NEW o \in Outcomes, NEW r \in Routes, RecordForward(o, r) PROVE ScrapeInv'
  <2>1. Consistent(stats') /\ AtMost(stats, stats')
    BY <1>3, ForwardCounted DEF ScrapeInv
  <2>2. QED
    BY <1>3, <2>1, CountedUnderScrape DEF RecordForward
<1>4. CASE Snapshot
  <2>1. stats \in Statistics /\ ~snapshot.taken /\ pending = {}
    BY <1>4 DEF Snapshot, ScrapeInv, Consistent
  <2>2. Frozen' = stats /\ snapshot'.taken = TRUE /\ \A o \in Outcomes : ~snapshot'.routes[o].live
    <3>1. /\ snapshot'.queries = stats.queries /\ snapshot'.total = stats.total
          /\ snapshot'.forwards = stats.forwards /\ snapshot'.taken = TRUE
          /\ snapshot'.routes = [o \in Outcomes |-> copyCounts(stats.routes[o])]
      BY <1>4 DEF Snapshot
    <3>2. [o \in Outcomes |-> snapshot'.routes[o].counts] = stats.routes
      BY <2>1, <3>1 DEF copyCounts, Statistics
    <3>3. stats = [queries |-> stats.queries, total |-> stats.total,
                   forwards |-> stats.forwards, routes |-> stats.routes]
      BY <2>1 DEF Statistics
    <3>4. Frozen' = stats
      BY <3>1, <3>2, <3>3 DEF Frozen
    <3>5. QED
      BY <3>1, <3>4 DEF copyCounts
  <2>3. AtMost(stats, stats)
    BY <2>1, AtMostReflexive
  <2>4. /\ lastText' = text /\ text' = NoText /\ NoText \in Expositions /\ ~NoText.done
        /\ pending' = pending /\ stats' = stats
    <3>1. NoCounts \in Counts(Routes)
      BY DEF NoCounts, Counts
    <3>2. QED
      BY <1>4, <3>1 DEF Snapshot, NoText, NoStats, Expositions
  <2>5. QED
    BY <2>1, <2>2, <2>3, <2>4 DEF ScrapeInv
<1>5. CASE WriteTotals
  <2>1. /\ snapshot.taken /\ snapshot' = snapshot /\ stats' = stats /\ lastText' = lastText
        /\ Frozen' = Frozen /\ Frozen \in Statistics
    BY <1>5 DEF WriteTotals, Frozen, ScrapeInv, Consistent
  <2>2. pending' = Keys(Frozen)
    BY <1>5 DEF WriteTotals, mergeRouteKeys, Keys, Frozen
  <2>3. NoCounts \in Counts(Routes) /\ DOMAIN NoCounts = {}
    BY DEF NoCounts, Counts
  <2>4. /\ text' \in Expositions /\ text'.done = TRUE /\ text'.queries = Frozen.queries
        /\ text'.count = Frozen.total /\ text'.forwards = Frozen.forwards
        /\ \A o \in Outcomes : DOMAIN text'.routes[o] = {}
    <3>1. text' = [NoText EXCEPT !.done = TRUE, !.queries = Frozen.queries,
                                 !.count = Frozen.total, !.forwards = Frozen.forwards]
      BY <1>5 DEF WriteTotals, Frozen
    <3>2. NoText \in Expositions /\ \A o \in Outcomes : DOMAIN NoText.routes[o] = {}
      BY <2>3 DEF NoText, NoStats, Expositions
    <3>3. QED
      BY <2>1, <3>1, <3>2 DEF Expositions, Statistics
  <2>5. Shows(text', Frozen, Keys(Frozen))
    BY <2>4 DEF Shows
  <2>6. QED
    BY <2>1, <2>2, <2>4, <2>5 DEF ScrapeInv
<1>6. ASSUME NEW r \in Routes, WriteRoute(r) PROVE ScrapeInv'
  <2>1. /\ snapshot.taken /\ text.done /\ snapshot' = snapshot /\ stats' = stats
        /\ lastText' = lastText /\ Frozen' = Frozen /\ Frozen \in Statistics
        /\ pending \in SUBSET Keys(Frozen) /\ Shows(text, Frozen, pending)
        /\ r \in pending /\ pending' = pending \ {r}
    BY <1>6 DEF WriteRoute, Frozen, ScrapeInv, Consistent
  <2>2. ASSUME NEW o \in Outcomes
        PROVE  Read(o, r) = At(Frozen.routes[o], r) /\ Read(o, r) \in Nat
    <3>1. Frozen.routes[o] = snapshot.routes[o].counts /\ ~snapshot.routes[o].live
      BY <2>1 DEF Frozen, ScrapeInv
    <3>2. Read(o, r) = At(Frozen.routes[o], r)
      BY <3>1 DEF Read, At
    <3>3. Frozen.routes[o] \in Counts(Routes)
      BY <2>1 DEF Statistics
    <3>4. QED
      BY <3>2, <3>3, CountsForm
  <2> DEFINE lines == [o \in Outcomes |->
                         [k \in DOMAIN text.routes[o] \cup {r} |->
                            IF k = r THEN Read(o, r) ELSE text.routes[o][k]]]
  <2>3. text.routes \in [Outcomes -> Counts(Routes)]
    BY DEF ScrapeInv, Expositions
  <2>4. text' = [text EXCEPT !.routes = lines]
    BY <1>6 DEF WriteRoute
  <2>5. ASSUME NEW o \in Outcomes
        PROVE  /\ lines[o] \in Counts(Routes)
               /\ DOMAIN lines[o] = Keys(Frozen) \ pending'
               /\ \A k \in Keys(Frozen) \ pending' : lines[o][k] = At(Frozen.routes[o], k)
    <3>1. text.routes[o] \in Counts(Routes)
      BY <2>3
    <3>2. DOMAIN text.routes[o] \in SUBSET Routes /\ text.routes[o] \in [DOMAIN text.routes[o] -> Nat]
      BY <3>1, CountsForm
    <3>3. lines[o] \in [DOMAIN text.routes[o] \cup {r} -> Nat]
      BY <2>2, <3>2
    <3>4. DOMAIN text.routes[o] \cup {r} \in SUBSET Routes
      BY <3>2
    <3>5. lines[o] \in Counts(Routes)
      <4> HIDE DEF lines
      <4> QED BY <3>3, <3>4 DEF Counts
    <3>6. /\ DOMAIN text.routes[o] = Keys(Frozen) \ pending
          /\ \A k \in Keys(Frozen) \ pending : text.routes[o][k] = At(Frozen.routes[o], k)
      BY <2>1 DEF Shows
    <3>7. r \in Keys(Frozen) /\ Keys(Frozen) \ pending' = (Keys(Frozen) \ pending) \cup {r}
      BY <2>1
    <3>8. DOMAIN lines[o] = DOMAIN text.routes[o] \cup {r}
      OBVIOUS
    <3>9. \A k \in DOMAIN text.routes[o] \cup {r} : lines[o][k] = At(Frozen.routes[o], k)
      BY <2>2, <3>6
    <3>10. QED
      <4> HIDE DEF lines
      <4> QED BY <3>5, <3>6, <3>7, <3>8, <3>9
  <2>6. lines \in [Outcomes -> Counts(Routes)]
    <3>1. \A o \in Outcomes : lines[o] \in Counts(Routes)
      <4> HIDE DEF lines
      <4> QED BY <2>5
    <3>2. QED
      BY <3>1
  <2>7. /\ text' \in Expositions /\ text'.done = text.done /\ text'.queries = text.queries
        /\ text'.count = text.count /\ text'.forwards = text.forwards /\ text'.routes = lines
    <3> HIDE DEF lines
    <3>1. text \in Expositions
      BY DEF ScrapeInv
    <3>2. QED
      BY <2>4, <2>6, <3>1 DEF Expositions
  <2>8. Shows(text', Frozen, pending')
    <3> HIDE DEF lines
    <3> QED BY <2>1, <2>5, <2>7 DEF Shows
  <2>9. QED
    <3> HIDE DEF lines
    <3> QED BY <2>1, <2>7, <2>8 DEF ScrapeInv
<1>7. CASE Send
  <2>1. /\ snapshot.taken /\ text.done /\ pending = {} /\ Frozen \in Statistics /\ stats \in Statistics
        /\ text \in Expositions /\ Shows(text, Frozen, {}) /\ AtMost(Frozen, stats)
    BY <1>7 DEF Send, Written, ScrapeInv, Consistent
  <2>2. /\ \A o \in Outcomes : \A r : At(text.routes[o], r) = At(Frozen.routes[o], r)
        /\ \A o \in Outcomes : DOMAIN text.routes[o] = Keys(Frozen)
    BY <2>1, ShownWhole
  <2>3. Keys(text) \in SUBSET Keys(Frozen)
    BY <2>2 DEF Keys
  <2>4. text.queries = Frozen.queries /\ text.forwards = Frozen.forwards
    BY <2>1 DEF Shows
  <2>5. AtMost(text, stats)
    BY <2>1, <2>2, <2>3, <2>4 DEF AtMost
  <2>6. snapshot'.taken = FALSE /\ UNCHANGED <<stats, pending, text, lastText>>
    BY <1>7 DEF Send
  <2>7. QED
    BY <2>1, <2>5, <2>6 DEF ScrapeInv
<1>8. QED
  BY <1>1, <1>2, <1>3, <1>4, <1>5, <1>6, <1>7 DEF Next

(* The server runs the scrapes among its requests. *)
LEMMA ScrapeAlways == ServerSpec => []ScrapeInv
<1>1. ServerInit => ScrapeInv
  BY ScrapeInit DEF ServerInit
<1>2. [ServerNext]_serverVars => [Next]_vars
  BY DEF ServerNext, Serve, Expose, serverVars
<1>3. ScrapeInv /\ [ServerNext]_serverVars => ScrapeInv'
  BY <1>2, ScrapeStep
<1>4. QED
  BY <1>1, <1>3, PTL DEF ServerSpec

(* An exposition describes the moment of its snapshot, for any number of   *)
(* events counted while it is written.                                     *)
THEOREM ScrapesShowOneMoment == ServerSpec => []OneMoment
<1>1. ScrapeInv => OneMoment
  <2> SUFFICES ASSUME ScrapeInv, Written PROVE OneMoment
    BY DEF OneMoment
  <2>1. /\ Consistent(Frozen) /\ Frozen \in Statistics /\ text \in Expositions
        /\ Shows(text, Frozen, {})
    BY DEF Written, ScrapeInv, Consistent
  <2>2. ASSUME NEW o \in Outcomes PROVE Total(text.routes[o]) = text.forwards[o]
    <3>1. \A r : At(text.routes[o], r) = At(Frozen.routes[o], r)
      BY <2>1, ShownWhole
    <3>2. text.routes[o] \in Counts(Routes) /\ Frozen.routes[o] \in Counts(Routes)
      BY <2>1 DEF Expositions, Statistics
    <3>3. Total(text.routes[o]) = Total(Frozen.routes[o])
      BY <3>1, <3>2, SameTicks
    <3>4. Total(Frozen.routes[o]) = Frozen.forwards[o] /\ text.forwards = Frozen.forwards
      BY <2>1 DEF Consistent, Shows
    <3>5. QED
      BY <3>3, <3>4
  <2>3. Total(text.queries) = text.count
    BY <2>1 DEF Consistent, Shows
  <2>4. QED
    BY <2>2, <2>3 DEF OneMoment
<1>2. QED
  BY <1>1, ScrapeAlways, PTL

(* No counter falls and no series disappears from one exposition to the    *)
(* next.                                                                   *)
THEOREM ScrapesOnlyGrow == ServerSpec => []CountersOnlyGrow
<1>1. ScrapeInv => CountersOnlyGrow
  <2> SUFFICES ASSUME ScrapeInv, Written, lastText.done PROVE CountersOnlyGrow
    BY DEF CountersOnlyGrow
  <2>1. /\ Frozen \in Statistics /\ text \in Expositions /\ Shows(text, Frozen, {})
        /\ AtMost(lastText, Frozen)
    BY DEF Written, ScrapeInv, Consistent
  <2>2. text.queries = Frozen.queries /\ text.forwards = Frozen.forwards
    BY <2>1 DEF Shows
  <2>3. ASSUME NEW o \in Outcomes, NEW r \in DOMAIN lastText.routes[o]
        PROVE  r \in DOMAIN text.routes[o] /\ lastText.routes[o][r] <= text.routes[o][r]
    <3>1. r \in Keys(lastText)
      BY DEF Keys
    <3>2. /\ DOMAIN text.routes[o] = Keys(Frozen)
          /\ At(text.routes[o], r) = At(Frozen.routes[o], r)
      BY <2>1, ShownWhole
    <3>3. r \in Keys(Frozen) /\ At(lastText.routes[o], r) <= At(Frozen.routes[o], r)
      BY <2>1, <3>1 DEF AtMost
    <3>4. QED
      BY <3>2, <3>3 DEF At
  <2>4. QED
    BY <2>1, <2>2, <2>3 DEF AtMost, CountersOnlyGrow
<1>2. QED
  BY <1>1, ScrapeAlways, PTL
-----------------------------------------------------------------------------
(* A request and its answer: Handler is asked once, for one of the inputs. *)
HandledInv == input \in Inputs /\ (response = NoResponse \/ response = Handler(input))

(* It holds throughout: the server answers a request by one call of        *)
(* Handler.                                                                *)
LEMMA HandledAlways == ServerSpec => []HandledInv
<1>1. ServerInit => HandledInv
  BY DEF ServerInit, HandledInv
<1>2. HandledInv /\ [ServerNext]_serverVars => HandledInv'
  BY DEF HandledInv, ServerNext, Serve, Expose, serverVars
<1>3. QED
  BY <1>1, <1>2, PTL DEF ServerSpec

(* What the query endpoint makes of a request: the first check that fails  *)
(* decides.                                                                *)
Bodies == {"query", "malformed", "too large"}
Accepts(r) ==
  /\ r.method = "POST" /\ r.contentType = "application/json"
  /\ r.first = "query" /\ r.rest = "nothing" /\ ValidateQuery(r.query).ok
QueryStatus(r) ==
  IF r.method # "POST" THEN 405
  ELSE IF r.contentType # "application/json" THEN 415
  ELSE IF r.first = "too large" THEN 413
  ELSE IF r.first = "malformed" \/ r.rest # "nothing" \/ ~ValidateQuery(r.query).ok THEN 400
  ELSE 200

(* A response without work or a challenge, one that asks for credentials   *)
(* and one that carries what devices said.                                 *)
ResponseFields == {"status", "body", "challenge", "requestID", "executed", "recorded"}
Idle(h, status) ==
  /\ DOMAIN h = ResponseFields /\ h.status = status
  /\ h.challenge = FALSE /\ h.executed = <<>> /\ h.recorded = FALSE
Challenging(h) ==
  /\ DOMAIN h = ResponseFields /\ h.status = 401
  /\ h.challenge = TRUE /\ h.executed = <<>> /\ h.recorded = FALSE
Working(h, requests) ==
  /\ DOMAIN h = ResponseFields /\ h.status = 200
  /\ h.challenge = FALSE /\ h.executed = requests /\ h.recorded = TRUE

(* Respond, writeJSON and writeError neither ask devices nor for           *)
(* credentials.                                                            *)
LEMMA Answers ==
  /\ Idle(NoResponse, 0)
  /\ \A status, body : Idle(Respond(status, body), status)
  /\ \A status, body, encodes : Idle(writeJSON(status, body, encodes), status)
  /\ \A status : Idle(writeError(status), status)
<1>1. DOMAIN NoResponse = ResponseFields
  BY DEF NoResponse, ResponseFields
<1>2. NoResponse.challenge = FALSE
  BY Zenon DEF NoResponse
<1>3. NoResponse.recorded = FALSE
  BY Zenon DEF NoResponse
<1>4. NoResponse.executed = <<>> /\ NoResponse.status = 0
  BY DEF NoResponse
<1>5. ASSUME NEW status, NEW body PROVE Idle(Respond(status, body), status)
  BY <1>1, <1>2, <1>3, <1>4 DEF Respond, Idle, ResponseFields
<1>6. Idle(NoResponse, 0)
  BY <1>1, <1>2, <1>3, <1>4 DEF Idle
<1>7. ASSUME NEW status, NEW body, NEW encodes PROVE Idle(writeJSON(status, body, encodes), status)
  BY <1>5 DEF writeJSON
<1>8. ASSUME NEW status PROVE Idle(writeError(status), status)
  BY <1>7 DEF writeError
<1>9. QED
  BY <1>5, <1>6, <1>7, <1>8

(* What requireBasicAuth answers to wrong credentials asks for them.       *)
LEMMA Challenge == Challenging([writeError(401) EXCEPT !.challenge = TRUE])
<1>1. ASSUME NEW a, Idle(a, 401) PROVE Challenging([a EXCEPT !.challenge = TRUE])
  BY <1>1 DEF Idle, Challenging, ResponseFields
<1>2. QED
  BY <1>1, Answers

(* The handler of /api/v1/query asks devices exactly if no check fails,    *)
(* and otherwise answers with the status of the first that does.           *)
LEMMA QueryAnswer ==
  ASSUME NEW r, r.first \in Bodies
  PROVE  /\ Accepts(r) => Working(query(r), ValidateQuery(r.query).requests)
         /\ ~Accepts(r) => Idle(query(r), QueryStatus(r))
         /\ Accepts(r) => QueryStatus(r) = 200
<1>1. CASE r.method # "POST"
  <2>1. query(r) = Respond(405, "empty") /\ QueryStatus(r) = 405 /\ ~Accepts(r)
    BY <1>1 DEF query, MethodNotAllowed, QueryStatus, Accepts
  <2>2. QED
    BY <2>1, Answers
<1>2. CASE r.method = "POST" /\ r.contentType # "application/json"
  <2>1. query(r) = writeError(415) /\ QueryStatus(r) = 415 /\ ~Accepts(r)
    BY <1>2 DEF query, QueryStatus, Accepts
  <2>2. QED
    BY <2>1, Answers
<1>3. CASE r.method = "POST" /\ r.contentType = "application/json" /\ r.first = "too large"
  <2>1. query(r) = writeError(413) /\ QueryStatus(r) = 413 /\ ~Accepts(r)
    BY <1>3 DEF query, QueryStatus, Accepts
  <2>2. QED
    BY <2>1, Answers
<1>4. CASE r.method = "POST" /\ r.contentType = "application/json" /\ r.first = "malformed"
  <2>1. query(r) = writeError(400) /\ QueryStatus(r) = 400 /\ ~Accepts(r)
    BY <1>4 DEF query, QueryStatus, Accepts
  <2>2. QED
    BY <2>1, Answers
<1>5. CASE /\ r.method = "POST" /\ r.contentType = "application/json" /\ r.first = "query"
           /\ r.rest # "nothing"
  <2>1. query(r) = writeError(400) /\ QueryStatus(r) = 400 /\ ~Accepts(r)
    BY <1>5 DEF query, OneValue, QueryStatus, Accepts
  <2>2. QED
    BY <2>1, Answers
<1>6. CASE /\ r.method = "POST" /\ r.contentType = "application/json" /\ r.first = "query"
           /\ r.rest = "nothing"
  <2> DEFINE checked == ValidateQuery(r.query)
  <2>1. query(r) = IF ~checked.ok THEN writeError(400)
                   ELSE [writeJSON(200, "results", r.encodes) EXCEPT
                           !.executed = checked.requests, !.recorded = TRUE]
    BY <1>6 DEF query, OneValue
  <2>2. (Accepts(r) <=> checked.ok) /\ QueryStatus(r) = IF ~checked.ok THEN 400 ELSE 200
    BY <1>6 DEF Accepts, QueryStatus
  <2>3. ASSUME NEW a, Idle(a, 200), NEW requests
        PROVE  Working([a EXCEPT !.executed = requests, !.recorded = TRUE], requests)
    BY <2>3 DEF Idle, Working, ResponseFields
  <2>4. CASE checked.ok
    <3>1. Working(query(r), checked.requests)
      <4> DEFINE answer == writeJSON(200, "results", r.encodes)
                 requests == checked.requests
      <4>1. Idle(answer, 200)
        BY Answers
      <4>2. query(r) = [answer EXCEPT !.executed = requests, !.recorded = TRUE]
        BY <2>1, <2>4
      <4>3. QED
        <5> HIDE DEF checked, answer, requests
        <5>1. Working([answer EXCEPT !.executed = requests, !.recorded = TRUE], requests)
          BY <2>3, <4>1
        <5>2. QED
          BY <4>2, <5>1 DEF requests
    <3>2. QED
      BY <2>2, <2>4, <3>1
  <2>5. CASE ~checked.ok
    <3>1. query(r) = writeError(400)
      BY <2>1, <2>5
    <3>2. QED
      BY <2>2, <2>5, <3>1, Answers
  <2>6. QED
    BY <2>4, <2>5
<1>7. QED
  BY <1>1, <1>2, <1>3, <1>4, <1>5, <1>6 DEF Bodies

(* What becomes of any request.                                            *)
Paths == {"/healthz", "/metrics", "/version", "/api/v1/query", "/"}
Guarded(r) == r.path \in {"/version", "/api/v1/query"}
Known(r) == r.credentials = <<BasicAuth>>
Executes(r) == r.path = "/api/v1/query" /\ Known(r) /\ Accepts(r)
StatusOf(r) ==
  IF r.path = "/" THEN 404
  ELSE IF Guarded(r) /\ ~Known(r) THEN 401
  ELSE IF r.path = "/api/v1/query" THEN QueryStatus(r)
  ELSE IF r.method = "GET" THEN 200 ELSE 405

(* The same of the whole server, whose paths have the query handler, the   *)
(* other handlers or none, behind the request ID and the authentication.   *)
LEMMA HandlerAnswer ==
  ASSUME NEW r, r.path \in Paths, r.first \in Bodies
  PROVE  LET h == Handler(r)
         IN  /\ h.requestID
                  = <<IF validRequestID(r.requestID) THEN r.requestID ELSE GeneratedID>>
             /\ h.status = StatusOf(r)
             /\ Executes(r) => Working(h, ValidateQuery(r.query).requests)
             /\ Guarded(r) /\ ~Known(r) => Challenging(h)
             /\ ~Executes(r) /\ ~(Guarded(r) /\ ~Known(r)) => Idle(h, StatusOf(r))
<1>1. PICK a : /\ Handler(r) = requestIDMiddleware(r, a)
               /\ Executes(r) => Working(a, ValidateQuery(r.query).requests)
               /\ Guarded(r) /\ ~Known(r) => Challenging(a)
               /\ ~Executes(r) /\ ~(Guarded(r) /\ ~Known(r)) => Idle(a, StatusOf(r))
  <2>1. \A body : Idle(Get(r, body), IF r.method = "GET" THEN 200 ELSE 405)
    BY Answers DEF Get, MethodNotAllowed
  <2>2. CASE r.path = "/"
    <3>1. Handler(r) = requestIDMiddleware(r, Respond(404, "text"))
      BY <2>2 DEF Handler
    <3>2. ~Guarded(r) /\ ~Executes(r) /\ StatusOf(r) = 404
      BY <2>2 DEF Guarded, Executes, StatusOf
    <3>3. QED
      BY <3>1, <3>2, Answers
  <2>3. CASE r.path = "/healthz" \/ r.path = "/metrics"
    <3>1. PICK body : Handler(r) = requestIDMiddleware(r, Get(r, body))
      BY <2>3 DEF Handler, healthz, metrics
    <3>2. ~Guarded(r) /\ ~Executes(r) /\ StatusOf(r) = IF r.method = "GET" THEN 200 ELSE 405
      BY <2>3 DEF Guarded, Executes, StatusOf
    <3>3. QED
      BY <2>1, <3>1, <3>2
  <2>4. CASE r.path = "/version"
    <3>1. Handler(r) = requestIDMiddleware(r, auth(r, Get(r, "version")))
      BY <2>4 DEF Handler, versionHandler
    <3>2. Guarded(r) /\ ~Executes(r)
          /\ StatusOf(r) = IF ~Known(r) THEN 401 ELSE IF r.method = "GET" THEN 200 ELSE 405
      BY <2>4 DEF Guarded, Executes, StatusOf
    <3>3. auth(r, Get(r, "version")) = IF Known(r) THEN Get(r, "version")
                                       ELSE [writeError(401) EXCEPT !.challenge = TRUE]
      BY DEF auth, Known
    <3>4. CASE Known(r)
      <4>1. Idle(Get(r, "version"), StatusOf(r))
        BY <2>1, <3>2, <3>4
      <4>2. QED
        BY <3>1, <3>2, <3>3, <3>4, <4>1
    <3>5. CASE ~Known(r)
      BY <3>1, <3>2, <3>3, <3>5, Challenge
    <3>6. QED
      BY <3>4, <3>5
  <2>5. CASE r.path = "/api/v1/query"
    <3>1. Handler(r) = requestIDMiddleware(r, auth(r, query(r)))
      BY <2>5 DEF Handler
    <3>2. /\ Guarded(r) /\ StatusOf(r) = IF ~Known(r) THEN 401 ELSE QueryStatus(r)
          /\ Executes(r) <=> Known(r) /\ Accepts(r)
      BY <2>5 DEF Guarded, Executes, StatusOf
    <3>3. auth(r, query(r)) = IF Known(r) THEN query(r)
                              ELSE [writeError(401) EXCEPT !.challenge = TRUE]
      BY DEF auth, Known
    <3>4. QED
      BY <3>1, <3>2, <3>3, Challenge, QueryAnswer
  <2>6. QED
    BY <2>2, <2>3, <2>4, <2>5 DEF Paths
<1>2. ASSUME DOMAIN a = ResponseFields
      PROVE  LET h == requestIDMiddleware(r, a)
             IN  /\ DOMAIN h = ResponseFields /\ h.status = a.status /\ h.challenge = a.challenge
                 /\ h.executed = a.executed /\ h.recorded = a.recorded
                 /\ h.requestID
                      = <<IF validRequestID(r.requestID) THEN r.requestID ELSE GeneratedID>>
  BY <1>2 DEF requestIDMiddleware, ResponseFields
<1>3. DOMAIN a = ResponseFields
  BY <1>1 DEF Idle, Challenging, Working
<1>4. /\ Executes(r) => StatusOf(r) = 200
      /\ Guarded(r) /\ ~Known(r) => StatusOf(r) = 401 /\ ~Executes(r)
  BY QueryAnswer DEF StatusOf, Executes, Guarded
<1>5. QED
  BY <1>1, <1>2, <1>3, <1>4 DEF Idle, Challenging, Working
-----------------------------------------------------------------------------
(* The targets of the queries: any values of their settings.               *)
Names == [arcs : {"none", "malformed", "sysUpTime", "a", "b", "c"}, dotted : BOOLEAN]
AnyOperation ==
  [type : {"get", "getnext", "getbulk", "walk", "set"}, oids : Seq(Names), rootOID : Names,
   nonRepeaters : {<<>>, <<0>>}, maxRepetitions : {<<>>, <<0>>, <<2>>}]
MaybeV3 == {<<>>} \cup {<<c>> : c \in Credentials}
AnyTarget ==
  [target : Devices, port : Ports, version : Versions, community : Communities, v3 : MaybeV3,
   timeoutMS : Timeouts, retries : RetryCounts, operations : Seq(AnyOperation)]

(* Sequences of up to three elements, as the inputs have them.             *)
LEMMA ShortSequences ==
  ASSUME NEW S
  PROVE  /\ <<>> \in Seq(S) /\ \A x \in S : <<x>> \in Seq(S)
         /\ \A x, y \in S : <<x, y>> \in Seq(S)
         /\ \A x, y, z \in S : <<x, y, z>> \in Seq(S)
OBVIOUS

(* The operations of the inputs have the fields the decoder gives them.    *)
LEMMA OperationsTyped ==
  GetOp \in AnyOperation /\ [GetOp EXCEPT !.type = "set"] \in AnyOperation
  /\ \A op \in Operations : op \in AnyOperation
<1>1. \A x \in {"sysUpTime", "a", "b", "c", "malformed"} : Plain(x) \in Names /\ Dotted(x) \in Names
  BY Zenon DEF Plain, Dotted, Names
<1>2. NoOID \in Names
  BY Zenon DEF NoOID, OID!NoOID, Names
<1>3. \A oids \in OIDLists : oids \in Seq(Names)
  <2>1. /\ Plain("a") \in Names /\ Dotted("a") \in Names /\ Plain("b") \in Names
        /\ Plain("malformed") \in Names /\ Plain("c") \in Names
    BY <1>1
  <2>2. QED
    BY <2>1, ShortSequences DEF OIDLists
<1>4. \A op \in Operations : op \in AnyOperation
  <2>1. \A oid \in {NoOID, Plain("a"), Dotted("a"), Plain("malformed")} : oid \in Names
    BY <1>1, <1>2
  <2>2. QED
    BY <1>3, <2>1 DEF Operations, AnyOperation
<1>5. GetOp \in AnyOperation
  <2>1. <<Plain("sysUpTime")>> \in Seq(Names)
    BY <1>1
  <2>2. QED
    BY <1>2, <2>1 DEF GetOp, AnyOperation
<1>6. [GetOp EXCEPT !.type = "set"] \in AnyOperation
  BY <1>5 DEF AnyOperation
<1>7. QED
  BY <1>4, <1>5, <1>6

(* So have their targets, each with what a family of requests varies in    *)
(* it.                                                                     *)
LEMMA TargetsTyped ==
  /\ Target \in AnyTarget
  /\ \A tr \in Targets : tr \in AnyTarget
  /\ \A c \in Credentials :
       [Target EXCEPT !.version = "3", !.community = "", !.v3 = <<c>>] \in AnyTarget
  /\ \A v \in {"1", "2c"} : \A ops \in Seq(AnyOperation) :
       [Target EXCEPT !.version = v, !.operations = ops] \in AnyTarget
  /\ \A ops \in Seq(AnyOperation) : [Target EXCEPT !.operations = ops] \in AnyTarget
  /\ [Target EXCEPT !.community = ""] \in AnyTarget
<1>1. Target \in AnyTarget
  <2>1. <<GetOp>> \in Seq(AnyOperation)
    BY OperationsTyped
  <2>2. /\ "switch" \in Devices /\ <<>> \in Ports /\ "" \in Versions /\ "public" \in Communities
        /\ <<>> \in MaybeV3 /\ <<>> \in Timeouts /\ <<>> \in RetryCounts
    BY DEF Devices, Ports, Versions, Communities, MaybeV3, Timeouts, RetryCounts
  <2>3. QED
    BY <2>1, <2>2 DEF Target, AnyTarget
<1>2. ASSUME NEW tr \in Targets PROVE tr \in AnyTarget
  <2>1. <<GetOp>> \in Seq(AnyOperation)
    BY OperationsTyped
  <2>2. V3 \in Credentials
    BY DEF V3, Credentials, AuthProtocols, PrivProtocols
  <2>3. {<<>>, <<V3>>} \in SUBSET MaybeV3
    BY <2>2 DEF MaybeV3
  <2>4. tr \in [target : Devices, port : Ports, version : Versions, community : Communities,
                v3 : {<<>>, <<V3>>}, timeoutMS : Timeouts, retries : RetryCounts,
                operations : {<<GetOp>>}]
    BY DEF Targets
  <2>5. QED
    BY <2>1, <2>3, <2>4 DEF AnyTarget
<1>3. ASSUME NEW tr \in AnyTarget
      PROVE  /\ \A v \in Versions : [tr EXCEPT !.version = v] \in AnyTarget
             /\ \A c \in Communities : [tr EXCEPT !.community = c] \in AnyTarget
             /\ \A x \in MaybeV3 : [tr EXCEPT !.v3 = x] \in AnyTarget
             /\ \A ops \in Seq(AnyOperation) : [tr EXCEPT !.operations = ops] \in AnyTarget
  BY DEF AnyTarget
<1>4. {"1", "2c", "3"} \in SUBSET Versions /\ "" \in Communities
      /\ \A c \in Credentials : <<c>> \in MaybeV3
  BY DEF Versions, Communities, MaybeV3
<1>5. ASSUME NEW c \in Credentials
      PROVE  [Target EXCEPT !.version = "3", !.community = "", !.v3 = <<c>>] \in AnyTarget
  <2> DEFINE a == [Target EXCEPT !.version = "3"]
             b == [a EXCEPT !.community = ""]
  <2>1. a \in AnyTarget
    BY <1>1, <1>3, <1>4
  <2>2. b \in AnyTarget
    <3> HIDE DEF a
    <3> QED BY <1>3, <1>4, <2>1
  <2>3. [b EXCEPT !.v3 = <<c>>] \in AnyTarget
    <3> HIDE DEF b
    <3> QED BY <1>3, <1>4, <2>2
  <2>4. QED
    BY <2>3
<1>6. ASSUME NEW v \in {"1", "2c"}, NEW ops \in Seq(AnyOperation)
      PROVE  [Target EXCEPT !.version = v, !.operations = ops] \in AnyTarget
  <2> DEFINE a == [Target EXCEPT !.version = v]
  <2>1. a \in AnyTarget
    BY <1>1, <1>3, <1>4
  <2>2. [a EXCEPT !.operations = ops] \in AnyTarget
    <3> HIDE DEF a
    <3> QED BY <1>3, <2>1
  <2>3. QED
    BY <2>2
<1>7. QED
  BY <1>1, <1>2, <1>3, <1>4, <1>5, <1>6

(* And so a query of the inputs is a list of decoded targets.              *)
LEMMA QueriesTyped == \A q \in Queries : q \in Seq(AnyTarget)
<1>1. ASSUME NEW n \in 0..3, NEW m \in 0..3 PROVE Sized(n, m) \in Seq(AnyTarget)
  <2>1. [j \in 1..m |-> GetOp] \in Seq(AnyOperation)
    BY OperationsTyped
  <2>2. [Target EXCEPT !.operations = [j \in 1..m |-> GetOp]] \in AnyTarget
    BY <2>1, TargetsTyped
  <2>3. QED
    BY <2>2 DEF Sized
<1>2. \A v \in {"1", "2c"}, op \in Operations : WithOperation(v, op) \in AnyTarget
  <2>1. \A op \in Operations : <<GetOp, op>> \in Seq(AnyOperation)
    BY OperationsTyped, ShortSequences
  <2>2. QED
    BY <2>1, TargetsTyped DEF WithOperation
<1>3. WithSet \in AnyTarget
  <2>1. <<GetOp, [GetOp EXCEPT !.type = "set"]>> \in Seq(AnyOperation)
    BY OperationsTyped, ShortSequences
  <2>2. QED
    BY <2>1, TargetsTyped DEF WithSet
<1>4. \A c \in Credentials : WithV3(c) \in AnyTarget
  BY TargetsTyped DEF WithV3
<1>5. Target \in AnyTarget /\ \A tr \in Targets : tr \in AnyTarget
  BY TargetsTyped
<1>6. \A tr \in SingleTargets : tr \in AnyTarget
  BY <1>2, <1>4, <1>5 DEF SingleTargets
<1>7. /\ \A q \in {<<tr>> : tr \in SingleTargets} : q \in Seq(AnyTarget)
      /\ <<Target, WithSet>> \in Seq(AnyTarget)
  BY <1>3, <1>5, <1>6, ShortSequences
<1>8. \A q \in {Sized(n, m) : n \in 0..3, m \in 0..3} : q \in Seq(AnyTarget)
  <2> DEFINE Typed == Seq(AnyTarget)
  <2>1. \A n, m \in 0..3 : Sized(n, m) \in Typed
    BY <1>1
  <2>2. QED
    <3> HIDE DEF Typed
    <3>1. \A q \in {Sized(n, m) : n \in 0..3, m \in 0..3} : q \in Typed
      BY <2>1
    <3>2. QED
      BY <3>1 DEF Typed
<1>9. QED
  <2> DEFINE A == {<<tr>> : tr \in SingleTargets}
             B == {Sized(n, m) : n \in 0..3, m \in 0..3}
             x == <<Target, WithSet>>
  <2>1. Queries = A \cup B \cup {x}
    BY DEF Queries
  <2>2. QED
    <3>1. (\A q \in A : q \in Seq(AnyTarget)) /\ (\A q \in B : q \in Seq(AnyTarget))
          /\ x \in Seq(AnyTarget)
      BY <1>7, <1>8
    <3>2. QED
      <4> HIDE DEF A, B, x
      <4> QED BY <2>1, <3>1

(* Every request the server is given. *)
LEMMA InputsTyped ==
  ASSUME NEW r \in Inputs
  PROVE  /\ r.path \in Paths /\ r.first \in Bodies /\ r.query \in Seq(AnyTarget)
         /\ r.method \in {"GET", "POST"} /\ r.contentType \in {"application/json", "text/plain"}
         /\ r.rest \in {"nothing", "value", "too large"}
         /\ r.requestID \in {"", "id", "longer than 128"}
<1>1. CASE \E q \in Queries : r = [Good EXCEPT !.query = q]
  <2>1. PICK q \in Queries : r = [Good EXCEPT !.query = q]
    BY <1>1
  <2>2. r.query = q /\ r.path = "/api/v1/query" /\ r.first = "query" /\ r.method = "POST"
        /\ r.contentType = "application/json" /\ r.rest = "nothing" /\ r.requestID = "id"
    BY <2>1 DEF Good
  <2>3. QED
    BY <2>2, QueriesTyped DEF Paths, Bodies
<1>2. CASE ~\E q \in Queries : r = [Good EXCEPT !.query = q]
  <2>1. \A q \in {<<Target>>, <<Target, [Target EXCEPT !.community = ""]>>, <<>>} :
          q \in Seq(AnyTarget)
    BY TargetsTyped, ShortSequences
  <2>2. QED
    BY <1>2, <2>1 DEF Inputs, Paths, Bodies
<1>3. QED
  BY <1>1, <1>2
-----------------------------------------------------------------------------
(* Ports are 1 to MaxPort; 0 is the absent one. *)
LEMMA PortRange ==
  /\ MaxPort \in Nat /\ MaxPort > 1
  /\ 0 \in 0..MaxPort /\ 1 \in 0..MaxPort /\ MaxPort \in 0..MaxPort
  /\ -1 \notin 0..MaxPort /\ MaxPort + 1 \notin 0..MaxPort
BY SMT DEF MaxPort

(* validateOperation, with the test for version 1 before it, refuses what  *)
(* breaks a rule of the operations table.                                  *)
LEMMA OperationRules ==
  ASSUME NEW o \in AnyOperation, NEW v
  PROVE  BrokenOperation(v, o)
           <=> \/ v = "1" /\ o.type = "getbulk"
               \/ ~validateOperation(o)
<1>1. /\ o.type \in {"get", "getnext", "getbulk", "walk", "set"} /\ o.oids \in Seq(Names)
      /\ o.maxRepetitions \in {<<>>, <<0>>, <<2>>}
  BY DEF AnyOperation
<1>2. /\ Len(o.oids) \in Nat /\ MaxOIDsPerOperation \in Nat \ {0}
      /\ o.oids = <<>> => DOMAIN o.oids = {} /\ Len(o.oids) = 0
  BY <1>1, LimitAssumption
<1>3. NoOID.arcs = "none"
  BY DEF NoOID, OID!NoOID
<1>4. <<0>> # <<>>
  OBVIOUS
<1>5. o.oids # <<>> =>
        (validateOIDs(o.oids) <=> /\ ~(Len(o.oids) > MaxOIDsPerOperation)
                                  /\ \A k \in DOMAIN o.oids :
                                       Numeric(o.oids[k]))
  BY <1>2 DEF validateOIDs, OID!validOID, Numeric
<1>6. ~(o.oids = <<>>) <=> o.oids # <<>>
  OBVIOUS
<1> DEFINE malformed == \E k \in DOMAIN o.oids : ~Numeric(o.oids[k])
           long == Len(o.oids) > MaxOIDsPerOperation
           badRoot == ~Numeric(o.rootOID)
<1>7. BrokenOperation(v, o) <=>
        \/ o.type \notin {"get", "getnext", "getbulk", "walk"}
        \/ (o.oids = <<>>) <=> (o.type # "walk")
        \/ (o.rootOID = NoOID) <=> (o.type = "walk")
        \/ o.type # "getbulk" /\ (o.nonRepeaters # <<>> \/ o.maxRepetitions # <<>>)
        \/ o.type = "getbulk" /\ (v = "1" \/ o.maxRepetitions = <<0>>)
        \/ long \/ malformed
        \/ o.rootOID # NoOID /\ badRoot
  BY DEF BrokenOperation
<1>8. validateOperation(o) <=>
        \/ /\ o.type \in {"get", "getnext"} /\ validateOIDs(o.oids)
           /\ o.rootOID = NoOID /\ o.nonRepeaters = <<>> /\ o.maxRepetitions = <<>>
        \/ /\ o.type = "getbulk" /\ validateOIDs(o.oids)
           /\ o.rootOID = NoOID /\ o.maxRepetitions # <<0>>
        \/ /\ o.type = "walk" /\ ~badRoot
           /\ o.oids = <<>> /\ o.nonRepeaters = <<>> /\ o.maxRepetitions = <<>>
  BY DEF validateOperation, OID!validOID, Numeric
<1>9. o.oids # <<>> => (validateOIDs(o.oids) <=> ~long /\ ~malformed)
  BY <1>5
<1>10. o.oids = <<>> => ~validateOIDs(o.oids) /\ ~malformed /\ ~long
  BY <1>2 DEF validateOIDs
<1>11. o.rootOID = NoOID => badRoot
  BY <1>3 DEF Numeric
<1>12. QED
  <2> HIDE DEF malformed, long, badRoot
  <2>1. CASE o.type = "walk"
    BY <1>7, <1>8, <1>10, <1>11, <2>1
  <2>2. CASE o.type \in {"get", "getnext"}
    <3>1. o.type # "walk" /\ o.type # "getbulk"
      BY <2>2
    <3>2. BrokenOperation(v, o) <=>
            \/ o.oids = <<>> \/ o.rootOID # NoOID
            \/ o.nonRepeaters # <<>> \/ o.maxRepetitions # <<>> \/ long \/ malformed
      BY <1>7, <2>2, <3>1
    <3>3. validateOperation(o) <=>
            /\ validateOIDs(o.oids) /\ o.rootOID = NoOID
            /\ o.nonRepeaters = <<>> /\ o.maxRepetitions = <<>>
      BY <1>8, <2>2, <3>1
    <3>4. QED
      BY <1>9, <1>10, <3>1, <3>2, <3>3
  <2>3. CASE o.type = "getbulk"
    <3>1. o.type # "walk" /\ o.type \notin {"get", "getnext"}
      BY <2>3
    <3>2. BrokenOperation(v, o) <=>
            \/ o.oids = <<>> \/ o.rootOID # NoOID
            \/ v = "1" \/ o.maxRepetitions = <<0>> \/ long \/ malformed
      BY <1>7, <2>3, <3>1
    <3>3. validateOperation(o) <=>
            validateOIDs(o.oids) /\ o.rootOID = NoOID /\ o.maxRepetitions # <<0>>
      BY <1>8, <2>3, <3>1
    <3>4. QED
      BY <1>9, <1>10, <2>3, <3>2, <3>3
  <2>4. CASE o.type = "set"
    BY <1>7, <1>8, <2>4
  <2>5. QED
    BY <1>1, <2>1, <2>2, <2>3, <2>4

(* validateV3Credentials refuses what breaks one of the credentials table. *)
LEMMA CredentialRules ==
  ASSUME NEW c
  PROVE  BrokenCredentials(c) <=> ~validateV3Credentials(<<c>>)
<1>1. <<c>>[1] = c /\ <<c>> # <<>>
  OBVIOUS
<1>2. validateV3Credentials(<<c>>) <=>
        LET authenticates == c.authProtocol \in AuthProtocols /\ c.authPassphrase # ""
            noPrivacy == c.privProtocol = "" /\ c.privPassphrase = ""
        IN  /\ ~BlankName(c.username)
            /\ \/ /\ c.securityLevel = "noAuthNoPriv" /\ noPrivacy
                  /\ c.authProtocol = "" /\ c.authPassphrase = ""
               \/ c.securityLevel = "authNoPriv" /\ authenticates /\ noPrivacy
               \/ /\ c.securityLevel = "authPriv" /\ authenticates
                  /\ c.privProtocol \in PrivProtocols /\ c.privPassphrase # ""
  BY <1>1 DEF validateV3Credentials
<1>3. QED
  BY <1>2 DEF BrokenCredentials, BlankName, AuthProtocols, PrivProtocols

(* What the rules of the table refuse. *)
TargetRules == {"target", "port", "version", "community", "v3", "timeout_ms", "retries",
                "operations"}
BadPort(tr) == tr.port # <<>> /\ ~(1 <= tr.port[1] /\ tr.port[1] <= 65535)
BadVersion(tr) == tr.version \notin {"", "1", "2c", "3"}
BadCommunity(tr) == (tr.version = "3") = (tr.community # "")
BadV3(tr) == \/ (tr.version = "3") = (tr.v3 = <<>>)
             \/ tr.v3 # <<>> /\ BrokenCredentials(tr.v3[1])
BadTimeout(tr) == tr.timeoutMS # <<>> /\ tr.timeoutMS[1] <= 0
BadRetries(tr) == tr.retries # <<>> /\ tr.retries[1] < 0
BadOperations(tr) ==
  \/ Len(tr.operations) \notin 1..MaxOperationsPerTarget
  \/ \E j \in DOMAIN tr.operations : BrokenOperation(tr.version, tr.operations[j])

(* The rules of the table a target breaks, one by one. *)
LEMMA RulesListed ==
  ASSUME NEW tr
  PROVE  /\ \A x \in BrokenRules(tr) : x \in TargetRules
         /\ ("target" \in BrokenRules(tr)) <=> (tr.target # "switch")
         /\ ("port" \in BrokenRules(tr)) <=> BadPort(tr)
         /\ ("version" \in BrokenRules(tr)) <=> BadVersion(tr)
         /\ ("community" \in BrokenRules(tr)) <=> BadCommunity(tr)
         /\ ("v3" \in BrokenRules(tr)) <=> BadV3(tr)
         /\ ("timeout_ms" \in BrokenRules(tr)) <=> BadTimeout(tr)
         /\ ("retries" \in BrokenRules(tr)) <=> BadRetries(tr)
         /\ ("operations" \in BrokenRules(tr)) <=> BadOperations(tr)
<1> DEFINE listed == BrokenRules(tr)
           badPort == BadPort(tr)
           badVersion == BadVersion(tr)
           badCommunity == BadCommunity(tr)
           badV3 == BadV3(tr)
           badTimeout == BadTimeout(tr)
           badRetries == BadRetries(tr)
           badOperations == BadOperations(tr)
<1>1. listed = {rule \in TargetRules :
                  CASE rule = "target"     -> tr.target # "switch"
                    [] rule = "port"       -> badPort
                    [] rule = "version"    -> badVersion
                    [] rule = "community"  -> badCommunity
                    [] rule = "v3"         -> badV3
                    [] rule = "timeout_ms" -> badTimeout
                    [] rule = "retries"    -> badRetries
                    [] rule = "operations" -> badOperations}
  BY DEF BrokenRules, TargetRules, BadPort, BadVersion, BadCommunity, BadV3, BadTimeout, BadRetries,
         BadOperations
<1>2. /\ \A x \in listed : x \in TargetRules
      /\ ("target" \in listed) <=> (tr.target # "switch")
      /\ ("port" \in listed) <=> badPort
      /\ ("version" \in listed) <=> badVersion
      /\ ("community" \in listed) <=> badCommunity
      /\ ("v3" \in listed) <=> badV3
      /\ ("timeout_ms" \in listed) <=> badTimeout
      /\ ("retries" \in listed) <=> badRetries
      /\ ("operations" \in listed) <=> badOperations
  <2> HIDE DEF listed, badPort, badVersion, badCommunity, badV3, badTimeout, badRetries,
               badOperations
  <2> QED BY <1>1 DEF TargetRules
<1>3. QED
  BY <1>2, Zenon

(* The rules among them that the code does not see broken. *)
LEMMA AbsentListed ==
  ASSUME NEW tr
  PROVE  \A x : x \in TakenAsAbsent(tr) <=> \/ x = "port" /\ tr.port = <<0>>
                                            \/ x = "timeout_ms" /\ tr.timeoutMS = <<0>>
BY DEF TakenAsAbsent

(* The checks of ValidateQuery are the documented rules, but for the rules *)
(* an explicit 0 breaks.                                                   *)
LEMMA ChecksAreTheRules ==
  ASSUME NEW tr \in AnyTarget
  PROVE  ValidTarget(tr) <=> BrokenRules(tr) \ TakenAsAbsent(tr) = {}
<1> DEFINE listed == BrokenRules(tr)
           absent == TakenAsAbsent(tr)
           broken == listed \ absent
           badOperations ==
             \/ Len(tr.operations) \notin 1..MaxOperationsPerTarget
             \/ \E j \in DOMAIN tr.operations :
                  \/ tr.version = "1" /\ tr.operations[j].type = "getbulk"
                  \/ ~validateOperation(tr.operations[j])
<1>0. /\ \A x \in broken : x \in TargetRules
      /\ ("target" \in broken) <=> ("target" \in listed)
      /\ ("version" \in broken) <=> ("version" \in listed)
      /\ ("community" \in broken) <=> ("community" \in listed)
      /\ ("v3" \in broken) <=> ("v3" \in listed)
      /\ ("retries" \in broken) <=> ("retries" \in listed)
      /\ ("operations" \in broken) <=> ("operations" \in listed)
      /\ ("port" \in broken) <=> ("port" \in listed /\ tr.port # <<0>>)
      /\ ("timeout_ms" \in broken) <=> ("timeout_ms" \in listed /\ tr.timeoutMS # <<0>>)
  <2>1. \A x \in listed : x \in TargetRules
    BY RulesListed
  <2>2. \A x : x \in absent <=> \/ x = "port" /\ tr.port = <<0>>
                                \/ x = "timeout_ms" /\ tr.timeoutMS = <<0>>
    BY AbsentListed
  <2>3. QED
    <3> HIDE DEF listed, absent
    <3> QED BY <2>1, <2>2
<1>1. \A x \in broken : x \in TargetRules
  BY <1>0
<1>2. ("target" \in broken) <=> (tr.target # "switch")
  BY <1>0, RulesListed
<1>3. ("port" \in broken) <=> (tr.port \in {<<-1>>, <<MaxPort + 1>>})
  <2>1. ("port" \in broken) <=> (BadPort(tr) /\ tr.port # <<0>>)
    BY <1>0, RulesListed
  <2>2. \/ tr.port = <<>> \/ tr.port = <<0>> \/ tr.port = <<1>> \/ tr.port = <<MaxPort>>
        \/ tr.port = <<-1>> \/ tr.port = <<MaxPort + 1>>
    BY DEF AnyTarget, Ports
  <2>3. \A m, n \in Int : (<<m>> = <<n>> => m = n) /\ <<n>>[1] = n /\ <<n>> # <<>>
    OBVIOUS
  <2>4. MaxPort = 65535
    BY DEF MaxPort
  <2>5. (BadPort(tr) /\ tr.port # <<0>>) <=> (tr.port \in {<<-1>>, <<MaxPort + 1>>})
    <3>1. /\ <<0>>[1] = 0 /\ <<1>>[1] = 1 /\ <<MaxPort>>[1] = MaxPort
          /\ <<-1>>[1] = -1 /\ <<MaxPort + 1>>[1] = MaxPort + 1
      BY <2>3, <2>4
    <3>2. CASE tr.port = <<-1>> \/ tr.port = <<MaxPort + 1>>
      <4>1. tr.port # <<>> /\ tr.port # <<0>>
        <5>1. tr.port = <<-1>> => tr.port # <<>> /\ tr.port # <<0>>
          BY <2>3
        <5>2. tr.port = <<MaxPort + 1>> => tr.port # <<>> /\ tr.port # <<0>>
          BY <2>3, PortRange
        <5>3. QED
          BY <3>2, <5>1, <5>2
      <4>2. tr.port[1] = -1 \/ tr.port[1] = 65536
        BY <2>4, <3>1, <3>2
      <4>3. BadPort(tr)
        BY <4>1, <4>2 DEF BadPort
      <4>4. QED
        BY <3>2, <4>1, <4>3
    <3>3. CASE tr.port = <<>> \/ tr.port = <<0>>
      <4>1. tr.port # <<-1>> /\ tr.port # <<MaxPort + 1>>
        <5>1. tr.port = <<>> => tr.port # <<-1>> /\ tr.port # <<MaxPort + 1>>
          BY <2>3, PortRange
        <5>2. tr.port = <<0>> => tr.port # <<-1>> /\ tr.port # <<MaxPort + 1>>
          BY <2>3, PortRange
        <5>3. QED
          BY <3>3, <5>1, <5>2
      <4>2. QED
        BY <3>3, <4>1 DEF BadPort
    <3>4. CASE tr.port = <<1>> \/ tr.port = <<MaxPort>>
      <4>1. tr.port # <<-1>> /\ tr.port # <<MaxPort + 1>>
        <5>1. tr.port = <<1>> => tr.port # <<-1>> /\ tr.port # <<MaxPort + 1>>
          BY <2>3, PortRange
        <5>2. tr.port = <<MaxPort>> => tr.port # <<-1>> /\ tr.port # <<MaxPort + 1>>
          BY <2>3, PortRange
        <5>3. QED
          BY <3>4, <5>1, <5>2
      <4>2. tr.port[1] = 1 \/ tr.port[1] = 65535
        BY <2>4, <3>1, <3>4
      <4>3. QED
        BY <4>1, <4>2 DEF BadPort
    <3>5. QED
      BY <2>2, <3>2, <3>3, <3>4
  <2>6. QED
    <3> HIDE DEF broken
    <3> QED BY <2>1, <2>5
<1>4. ("version" \in broken) <=> (tr.version \notin {"", "1", "2c", "3"})
  <2>1. ("version" \in broken) <=> BadVersion(tr)
    BY <1>0, RulesListed
  <2>2. QED
    BY <2>1 DEF BadVersion
<1>5. ("community" \in broken) <=> ((tr.version = "3") = (tr.community # ""))
  <2>1. ("community" \in broken) <=> BadCommunity(tr)
    BY <1>0, RulesListed
  <2>2. QED
    BY <2>1 DEF BadCommunity
<1>6. ("v3" \in broken) <=> \/ (tr.version = "3") = (tr.v3 = <<>>)
                            \/ tr.v3 # <<>> /\ ~validateV3Credentials(tr.v3)
  <2>1. tr.v3 # <<>> => tr.v3 = <<tr.v3[1]>>
    BY DEF AnyTarget, MaybeV3
  <2>2. tr.v3 # <<>> => (BrokenCredentials(tr.v3[1]) <=> ~validateV3Credentials(tr.v3))
    BY <2>1, CredentialRules
  <2>3. ("v3" \in broken) <=> BadV3(tr)
    BY <1>0, RulesListed
  <2>4. QED
    <3> HIDE DEF broken
    <3> QED BY <2>2, <2>3 DEF BadV3
<1>7. ("timeout_ms" \in broken) <=> (tr.timeoutMS = <<-1>>)
  <2>1. ("timeout_ms" \in broken) <=> (BadTimeout(tr) /\ tr.timeoutMS # <<0>>)
    BY <1>0, RulesListed
  <2>2. \/ tr.timeoutMS = <<>> \/ tr.timeoutMS = <<0>> \/ tr.timeoutMS = <<-1>>
        \/ tr.timeoutMS = <<5>> \/ tr.timeoutMS = <<20>>
    BY DEF AnyTarget, Timeouts
  <2>3. QED
    <3> HIDE DEF broken
    <3> QED BY <2>1, <2>2 DEF BadTimeout
<1>8. ("retries" \in broken) <=> (tr.retries = <<-1>>)
  <2>1. ("retries" \in broken) <=> BadRetries(tr)
    BY <1>0, RulesListed
  <2>2. \/ tr.retries = <<>> \/ tr.retries = <<0>> \/ tr.retries = <<-1>>
        \/ tr.retries = <<2>>
    BY DEF AnyTarget, RetryCounts
  <2>3. QED
    <3> HIDE DEF broken
    <3> QED BY <2>1, <2>2 DEF BadRetries
<1>9. ("operations" \in broken) <=> badOperations
  <2>1. ("operations" \in broken) <=> BadOperations(tr)
    BY <1>0, RulesListed
  <2>2. \A j \in DOMAIN tr.operations : tr.operations[j] \in AnyOperation
    BY DEF AnyTarget
  <2>3. \A j \in DOMAIN tr.operations :
          BrokenOperation(tr.version, tr.operations[j])
            <=> \/ tr.version = "1" /\ tr.operations[j].type = "getbulk"
                \/ ~validateOperation(tr.operations[j])
    BY <2>2, OperationRules
  <2>4. QED
    <3> HIDE DEF broken
    <3> QED BY <2>1, <2>3 DEF BadOperations
<1>10. /\ tr.target \in Devices /\ tr.port \in Ports /\ tr.version \in Versions
       /\ tr.timeoutMS \in Timeouts /\ tr.retries \in RetryCounts /\ tr.v3 \in MaybeV3
  BY DEF AnyTarget
<1>11. ~BlankName(tr.target) <=> tr.target = "switch"
  BY <1>10 DEF BlankName, Devices
<1>12. Number(tr.port) \in 0..MaxPort <=> tr.port \notin {<<-1>>, <<MaxPort + 1>>}
  <2> DEFINE InRange == {<<>>, <<0>>, <<1>>, <<MaxPort>>}
  <2>1. \A m, n \in Int : (<<m>> = <<n>> => m = n) /\ Number(<<n>>) = n /\ <<n>> # <<>>
    BY DEF Number
  <2>2. Number(<<>>) = 0
    BY DEF Number
  <2>3. ASSUME NEW port \in InRange
        PROVE  /\ Number(port) \in 0..MaxPort /\ port # <<-1>> /\ port # <<MaxPort + 1>>
    <3>1. port # <<-1>> /\ port # <<MaxPort + 1>>
      BY <2>1, PortRange
    <3>2. Number(port) \in {0, 1, MaxPort}
      BY <2>1, <2>2, PortRange
    <3>3. QED
      BY <3>1, <3>2, PortRange
  <2>4. Number(<<-1>>) \notin 0..MaxPort /\ Number(<<MaxPort + 1>>) \notin 0..MaxPort
    <3>1. Number(<<-1>>) = -1 /\ Number(<<MaxPort + 1>>) = MaxPort + 1
      BY <2>1, PortRange
    <3>2. QED
      BY <3>1, PortRange
  <2>5. \/ tr.port \in InRange
        \/ tr.port = <<-1>> \/ tr.port = <<MaxPort + 1>>
    BY <1>10 DEF Ports
  <2>6. QED
    BY <2>3, <2>4, <2>5
<1>13. Number(tr.timeoutMS) >= 0 <=> tr.timeoutMS # <<-1>>
  BY <1>10 DEF Number, Timeouts
<1>14. Number(tr.retries) >= 0 <=> tr.retries # <<-1>>
  <2>1. tr.retries = <<>> \/ tr.retries = <<0>> \/ tr.retries = <<-1>> \/ tr.retries = <<2>>
    BY <1>10 DEF RetryCounts
  <2>2. Number(<<>>) = 0 /\ Number(<<0>>) = 0 /\ Number(<<2>>) = 2 /\ Number(<<-1>>) = -1
    BY DEF Number
  <2>3. <<>> # <<-1>> /\ <<0>> # <<-1>> /\ <<2>> # <<-1>>
    OBVIOUS
  <2>4. QED
    BY <2>1, <2>2, <2>3
<1>15. CredentialsFit(tr) <=> "version" \notin broken /\ "community" \notin broken /\ "v3" \notin broken
  <2> HIDE DEF broken
  <2>1. validateV3Credentials(tr.v3) => tr.v3 # <<>>
    BY DEF validateV3Credentials
  <2>2. QED
    BY <1>4, <1>5, <1>6, <2>1 DEF CredentialsFit
<1>16. ValidTarget(tr) <=>
         /\ ~BlankName(tr.target) /\ Number(tr.port) \in 0..MaxPort /\ CredentialsFit(tr)
         /\ Number(tr.timeoutMS) >= 0 /\ Number(tr.retries) >= 0 /\ ~badOperations
  <2> DEFINE good ==
        /\ Len(tr.operations) \in 1..MaxOperationsPerTarget
        /\ \A j \in DOMAIN tr.operations :
             /\ tr.version = "1" => tr.operations[j].type # "getbulk"
             /\ validateOperation(tr.operations[j])
  <2>1. good <=> ~badOperations
    BY Zenon
  <2>2. ValidTarget(tr) <=>
          /\ ~BlankName(tr.target) /\ Number(tr.port) \in 0..MaxPort /\ CredentialsFit(tr)
          /\ Number(tr.timeoutMS) >= 0 /\ Number(tr.retries) >= 0 /\ good
    BY Zenon DEF ValidTarget
  <2>3. QED
    <3> HIDE DEF good, badOperations
    <3> QED BY <2>1, <2>2
<1>17. broken = {} <=> /\ "target" \notin broken /\ "port" \notin broken /\ "version" \notin broken
                       /\ "community" \notin broken /\ "v3" \notin broken
                       /\ "timeout_ms" \notin broken /\ "retries" \notin broken
                       /\ "operations" \notin broken
  <2> HIDE DEF broken
  <2> QED BY <1>1 DEF TargetRules
<1>18. /\ ~BlankName(tr.target) <=> "target" \notin broken
       /\ Number(tr.port) \in 0..MaxPort <=> "port" \notin broken
       /\ Number(tr.timeoutMS) >= 0 <=> "timeout_ms" \notin broken
       /\ Number(tr.retries) >= 0 <=> "retries" \notin broken
       /\ ~badOperations <=> "operations" \notin broken
  <2> HIDE DEF broken, badOperations
  <2>1. ~BlankName(tr.target) <=> "target" \notin broken
    BY <1>2, <1>11
  <2>2. Number(tr.port) \in 0..MaxPort <=> "port" \notin broken
    BY <1>3, <1>12
  <2>3. Number(tr.timeoutMS) >= 0 <=> "timeout_ms" \notin broken
    BY <1>7, <1>13
  <2>4. Number(tr.retries) >= 0 <=> "retries" \notin broken
    BY <1>8, <1>14
  <2>5. ~badOperations <=> "operations" \notin broken
    BY <1>9
  <2>6. QED
    BY <2>1, <2>2, <2>3, <2>4, <2>5
<1>19. QED
  <2>1. ValidTarget(tr) <=> broken = {}
    <3> HIDE DEF broken, badOperations
    <3> QED BY Zenon, <1>15, <1>16, <1>17, <1>18
  <2>2. QED
    BY <2>1

(* A query is accepted exactly if it breaks no documented rule but by an   *)
(* explicit 0.                                                             *)
LEMMA AcceptedIfNotRefused ==
  ASSUME NEW q \in Seq(AnyTarget)
  PROVE  /\ ValidateQuery(q).ok <=> ~Refused(q)
         /\ ValidateQuery(q).ok => ValidateQuery(q).requests # <<>>
         /\ DOMAIN ValidateQuery(q).requests = DOMAIN q
         /\ Len(ValidateQuery(q).requests) = Len(q)
         /\ \A i \in DOMAIN q : ValidateQuery(q).requests[i] = Resolve(q[i])
<1>1. ValidateQuery(q).ok <=> /\ Len(q) \in 1..MaxTargetsPerQuery
                              /\ \A i \in DOMAIN q : ValidTarget(q[i])
  BY DEF ValidateQuery
<1>2. \A i \in DOMAIN q :
        ValidTarget(q[i]) <=> BrokenRules(q[i]) \ TakenAsAbsent(q[i]) = {}
  BY ChecksAreTheRules
<1>3. /\ ValidateQuery(q).requests = [i \in 1..Len(q) |-> Resolve(q[i])]
      /\ DOMAIN q = 1..Len(q) /\ Len(q) \in Nat
  BY DEF ValidateQuery
<1>4. Len(ValidateQuery(q).requests) = Len(q)
  BY <1>3
<1>5. ValidateQuery(q).ok <=> ~Refused(q)
  BY <1>1, <1>2 DEF Refused
<1>6. Len(q) \in 1..MaxTargetsPerQuery => Len(q) # 0
  <2>1. MaxTargetsPerQuery \in Nat
    BY LimitAssumption
  <2>2. QED
    BY <1>3, <2>1
<1>7. ValidateQuery(q).ok => ValidateQuery(q).requests # <<>>
  BY <1>1, <1>4, <1>6
<1>8. QED
  BY <1>3, <1>4, <1>5, <1>7
-----------------------------------------------------------------------------
(* The conditions of the status table, one by one.                         *)
Codes == {401, 404, 405, 413, 415, 400}
LEMMA ConditionsListed ==
  /\ \A c \in Conditions : c \in Codes
  /\ 401 \in Conditions <=> Protected /\ ~Authenticated
  /\ 404 \in Conditions <=> input.path = "/"
  /\ 405 \in Conditions <=> \/ QueryPath /\ input.method # "POST"
                            \/ ~QueryPath /\ input.path # "/" /\ input.method # "GET"
  /\ 415 \in Conditions <=> QueryPath /\ input.contentType # "application/json"
  /\ 413 \in Conditions <=> QueryPath /\ "too large" \in {input.first, input.rest}
  /\ 400 \in Conditions <=> \/ QueryPath /\ (input.first = "malformed" \/ input.rest # "nothing")
                            \/ QueryPath /\ Refused(input.query)
<1>1. \A c \in Conditions : c \in Codes
  <2> DEFINE Holds(c) ==
        CASE c = 401 -> Protected /\ ~Authenticated
          [] c = 404 -> input.path = "/"
          [] c = 405 -> input.path # "/" /\ input.method # (IF QueryPath THEN "POST" ELSE "GET")
          [] c = 415 -> QueryPath /\ input.contentType # "application/json"
          [] c = 413 -> QueryPath /\ "too large" \in {input.first, input.rest}
          [] c = 400 -> \/ QueryPath /\ (input.first = "malformed" \/ input.rest # "nothing")
                        \/ QueryPath /\ Refused(input.query)
  <2>1. Conditions = {c \in Codes : Holds(c)}
    BY Zenon DEF Conditions, Codes
  <2>2. QED
    <3> HIDE DEF Holds
    <3> QED BY <2>1
<1>2. 401 \in Conditions <=> Protected /\ ~Authenticated
  BY DEF Conditions
<1>3. 404 \in Conditions <=> input.path = "/"
  BY DEF Conditions
<1>4. 405 \in Conditions <=> \/ QueryPath /\ input.method # "POST"
                             \/ ~QueryPath /\ input.path # "/" /\ input.method # "GET"
  <2>1. 405 \in Conditions <=>
          input.path # "/" /\ input.method # (IF QueryPath THEN "POST" ELSE "GET")
    BY DEF Conditions
  <2>2. CASE QueryPath
    <3>1. input.path # "/"
      BY <2>2 DEF QueryPath
    <3>2. QED
      BY <2>1, <2>2, <3>1
  <2>3. CASE ~QueryPath
    BY <2>1, <2>3
  <2>4. QED
    BY <2>2, <2>3
<1>5. 415 \in Conditions <=> QueryPath /\ input.contentType # "application/json"
  BY DEF Conditions
<1>6. 413 \in Conditions <=> QueryPath /\ "too large" \in {input.first, input.rest}
  BY DEF Conditions
<1>7. 400 \in Conditions <=>
        \/ QueryPath /\ (input.first = "malformed" \/ input.rest # "nothing")
        \/ QueryPath /\ Refused(input.query)
  BY DEF Conditions
<1>8. QED
  BY <1>1, <1>2, <1>3, <1>4, <1>5, <1>6, <1>7

(* The request of the state and what Handler made of it.                   *)
LEMMA ServedAnswer ==
  ASSUME HandledInv, Served
  PROVE  /\ response.status = StatusOf(input)
         /\ response.challenge <=> (Protected /\ ~Authenticated)
         /\ response.requestID = <<IF input.requestID = "id" THEN "id" ELSE GeneratedID>>
         /\ Executes(input) => /\ response.executed = ValidateQuery(input.query).requests
                               /\ response.recorded
         /\ ~Executes(input) => response.executed = <<>> /\ ~response.recorded
<1>1. response = Handler(input) /\ input \in Inputs
  BY DEF HandledInv, Served
<1>2. /\ Guarded(input) <=> Protected
      /\ Known(input) <=> Authenticated
  BY DEF Guarded, Protected, Known, Authenticated
<1>3. PICK r : r = input
  OBVIOUS
<1>4. /\ Handler(r).requestID
           = <<IF validRequestID(r.requestID) THEN r.requestID ELSE GeneratedID>>
      /\ Handler(r).status = StatusOf(r)
      /\ Executes(r) => Working(Handler(r), ValidateQuery(r.query).requests)
      /\ Guarded(r) /\ ~Known(r) => Challenging(Handler(r))
      /\ ~Executes(r) /\ ~(Guarded(r) /\ ~Known(r)) => Idle(Handler(r), StatusOf(r))
  BY <1>1, <1>3, InputsTyped, HandlerAnswer
<1>5. validRequestID(r.requestID) <=> r.requestID = "id"
  BY <1>1, <1>3, InputsTyped DEF validRequestID
<1>6. Executes(r) => ~(Guarded(r) /\ ~Known(r))
  BY DEF Executes
<1>7. QED
  BY <1>1, <1>2, <1>3, <1>4, <1>5, <1>6 DEF Working, Challenging, Idle

(* Executing is what a query without a condition gets.                     *)
LEMMA ExecutesIffNoCondition ==
  ASSUME HandledInv
  PROVE  /\ Executes(input) <=> QueryPath /\ Conditions = {}
         /\ IF Conditions = {} THEN StatusOf(input) = 200 ELSE StatusOf(input) \in Conditions
<1>1. PICK r : r = input
  OBVIOUS
<1>2. /\ r.path \in Paths /\ r.first \in Bodies /\ r.query \in Seq(AnyTarget)
      /\ r.method \in {"GET", "POST"} /\ r.rest \in {"nothing", "value", "too large"}
  BY <1>1, InputsTyped DEF HandledInv
<1>3. ValidateQuery(r.query).ok <=> ~Refused(r.query)
  BY <1>2, AcceptedIfNotRefused
<1>4. /\ Guarded(r) <=> Protected
      /\ Known(r) <=> Authenticated
  BY <1>1 DEF Guarded, Protected, Known, Authenticated
<1>5. Conditions = {} <=> /\ 401 \notin Conditions /\ 404 \notin Conditions /\ 405 \notin Conditions
                          /\ 413 \notin Conditions /\ 415 \notin Conditions /\ 400 \notin Conditions
  <2>1. \A c \in Conditions : c \in Codes
    BY ConditionsListed
  <2>2. QED
    BY <2>1 DEF Codes
<1>6. /\ 401 \in Conditions <=> Guarded(r) /\ ~Known(r)
      /\ 404 \in Conditions <=> r.path = "/"
      /\ 405 \in Conditions <=> \/ r.path = "/api/v1/query" /\ r.method # "POST"
                                \/ r.path \notin {"/", "/api/v1/query"} /\ r.method # "GET"
      /\ 415 \in Conditions <=> r.path = "/api/v1/query" /\ r.contentType # "application/json"
      /\ 413 \in Conditions <=> r.path = "/api/v1/query" /\ "too large" \in {r.first, r.rest}
      /\ 400 \in Conditions <=> /\ r.path = "/api/v1/query"
                                /\ \/ r.first = "malformed" \/ r.rest # "nothing"
                                   \/ ~ValidateQuery(r.query).ok
  <2>1. QueryPath <=> r.path = "/api/v1/query"
    BY <1>1 DEF QueryPath
  <2>2. 401 \in Conditions <=> Guarded(r) /\ ~Known(r)
    BY <1>4, ConditionsListed
  <2>3. 404 \in Conditions <=> r.path = "/"
    BY <1>1, ConditionsListed
  <2>4. 405 \in Conditions <=> \/ r.path = "/api/v1/query" /\ r.method # "POST"
                               \/ r.path \notin {"/", "/api/v1/query"} /\ r.method # "GET"
    <3>1. 405 \in Conditions <=> \/ QueryPath /\ input.method # "POST"
                                 \/ ~QueryPath /\ input.path # "/" /\ input.method # "GET"
      BY ConditionsListed
    <3>2. QED
      BY <1>1, <2>1, <3>1
  <2>5. 415 \in Conditions <=> r.path = "/api/v1/query" /\ r.contentType # "application/json"
    BY <1>1, <2>1, ConditionsListed
  <2>6. 413 \in Conditions <=> r.path = "/api/v1/query" /\ "too large" \in {r.first, r.rest}
    BY <1>1, <2>1, ConditionsListed
  <2>7. 400 \in Conditions <=> /\ r.path = "/api/v1/query"
                               /\ \/ r.first = "malformed" \/ r.rest # "nothing"
                                  \/ ~ValidateQuery(r.query).ok
    BY <1>1, <1>3, <2>1, ConditionsListed
  <2>8. QED
    BY <2>2, <2>3, <2>4, <2>5, <2>6, <2>7
<1>7. /\ Executes(r) <=> r.path = "/api/v1/query" /\ Conditions = {}
      /\ IF Conditions = {} THEN StatusOf(r) = 200 ELSE StatusOf(r) \in Conditions
  <2>1. CASE r.path = "/"
    <3>1. StatusOf(r) = 404 /\ 404 \in Conditions /\ ~Executes(r)
      BY <1>6, <2>1 DEF StatusOf, Executes
    <3>2. QED
      BY <2>1, <3>1
  <2>2. CASE r.path \in {"/healthz", "/metrics"}
    <3>1. StatusOf(r) = (IF r.method = "GET" THEN 200 ELSE 405) /\ ~Executes(r) /\ ~Guarded(r)
      BY <2>2 DEF StatusOf, Executes, Guarded
    <3>2. Conditions = {} <=> 405 \notin Conditions
      <4>1. 401 \notin Conditions /\ 404 \notin Conditions
        BY <1>6, <2>2, <3>1
      <4>2. 413 \notin Conditions /\ 415 \notin Conditions /\ 400 \notin Conditions
        BY <1>6, <2>2
      <4>3. QED
        BY <1>5, <4>1, <4>2
    <3>3. 405 \in Conditions <=> r.method # "GET"
      <4>1. r.path # "/" /\ r.path # "/api/v1/query"
        BY <2>2
      <4>2. QED
        BY <1>6, <4>1
    <3>4. QED
      BY <2>2, <3>1, <3>2, <3>3
  <2>3. CASE r.path = "/version"
    <3>1. /\ StatusOf(r) = (IF ~Known(r) THEN 401 ELSE IF r.method = "GET" THEN 200 ELSE 405)
          /\ ~Executes(r) /\ Guarded(r)
      BY <2>3 DEF StatusOf, Executes, Guarded
    <3>2. Conditions = {} <=> Known(r) /\ r.method = "GET"
      BY <1>5, <1>6, <2>3, <3>1
    <3>3. /\ 405 \in Conditions <=> r.method # "GET"
          /\ 401 \in Conditions <=> ~Known(r)
      BY <1>6, <2>3, <3>1
    <3>4. QED
      BY <2>3, <3>1, <3>2, <3>3
  <2>4. CASE r.path = "/api/v1/query"
    <3>1. /\ StatusOf(r) = (IF ~Known(r) THEN 401 ELSE QueryStatus(r)) /\ Guarded(r)
          /\ Executes(r) <=> Known(r) /\ Accepts(r)
      BY <2>4 DEF StatusOf, Executes, Guarded
    <3>2. /\ 401 \in Conditions <=> ~Known(r)
          /\ 404 \notin Conditions
          /\ 405 \in Conditions <=> r.method # "POST"
          /\ 415 \in Conditions <=> r.contentType # "application/json"
          /\ 413 \in Conditions <=> "too large" \in {r.first, r.rest}
          /\ 400 \in Conditions <=> \/ r.first = "malformed" \/ r.rest # "nothing"
                                    \/ ~ValidateQuery(r.query).ok
      <4>1. (401 \in Conditions <=> ~Known(r)) /\ 404 \notin Conditions
        BY <1>6, <2>4, <3>1
      <4>2. /\ 405 \in Conditions <=> r.method # "POST"
            /\ 415 \in Conditions <=> r.contentType # "application/json"
        BY <1>6, <2>4
      <4>3. 413 \in Conditions <=> "too large" \in {r.first, r.rest}
        BY <1>6, <2>4
      <4>4. 400 \in Conditions <=> \/ r.first = "malformed" \/ r.rest # "nothing"
                                  \/ ~ValidateQuery(r.query).ok
        BY <1>6, <2>4
      <4>5. QED
        BY <4>1, <4>2, <4>3, <4>4
    <3>3. Conditions = {} <=> Known(r) /\ Accepts(r)
      <4> DEFINE BadBody == \/ r.first \in {"malformed", "too large"} \/ r.rest # "nothing"
                            \/ ~ValidateQuery(r.query).ok
      <4>1. Accepts(r) <=> /\ r.method = "POST" /\ r.contentType = "application/json" /\ ~BadBody
        BY <1>2 DEF Accepts, Bodies
      <4>2. 413 \in Conditions \/ 400 \in Conditions <=> BadBody
        BY <3>2
      <4>3. Conditions = {} <=> /\ 401 \notin Conditions /\ 405 \notin Conditions
                                /\ 415 \notin Conditions
                                /\ ~(413 \in Conditions \/ 400 \in Conditions)
        <5>1. 404 \notin Conditions
          BY <3>2
        <5>2. QED
          BY <1>5, <5>1
      <4>4. /\ 401 \in Conditions <=> ~Known(r)
            /\ 405 \in Conditions <=> r.method # "POST"
            /\ 415 \in Conditions <=> r.contentType # "application/json"
        BY <3>2
      <4>5. QED
        <5> HIDE DEF BadBody
        <5> QED BY <4>1, <4>2, <4>3, <4>4
    <3>4. ~Accepts(r) => QueryStatus(r) \in Conditions
      <4>1. ASSUME r.method = "POST", r.contentType = "application/json", r.first # "too large",
                   ~Accepts(r)
            PROVE  QueryStatus(r) = 400 /\ 400 \in Conditions
        <5>1. r.first = "malformed" \/ r.rest # "nothing" \/ ~ValidateQuery(r.query).ok
          BY <1>2, <4>1 DEF Accepts, Bodies
        <5>2. QueryStatus(r) = 400
          BY <4>1, <5>1 DEF QueryStatus
        <5>3. 400 \in Conditions
          BY <3>2, <5>1
        <5>4. QED
          BY <5>2, <5>3
      <4>2. CASE r.method # "POST"
        <5>1. QueryStatus(r) = 405
          BY <4>2 DEF QueryStatus
        <5>2. 405 \in Conditions
          BY <3>2, <4>2
        <5>3. QED
          BY <5>1, <5>2
      <4>3. CASE r.method = "POST" /\ r.contentType # "application/json"
        <5>1. QueryStatus(r) = 415
          BY <4>3 DEF QueryStatus
        <5>2. 415 \in Conditions
          BY <3>2, <4>3
        <5>3. QED
          BY <5>1, <5>2
      <4>4. CASE r.method = "POST" /\ r.contentType = "application/json" /\ r.first = "too large"
        <5>1. QueryStatus(r) = 413
          BY <4>4 DEF QueryStatus
        <5>2. 413 \in Conditions
          BY <3>2, <4>4
        <5>3. QED
          BY <5>1, <5>2
      <4>5. QED
        BY <4>1, <4>2, <4>3, <4>4
    <3>5. Accepts(r) => QueryStatus(r) = 200
      BY DEF Accepts, QueryStatus
    <3>6. CASE ~Known(r)
      <4>1. StatusOf(r) = 401 /\ 401 \in Conditions /\ ~Executes(r)
        <5>1. StatusOf(r) = 401 /\ ~Executes(r)
          BY <3>1, <3>6
        <5>2. 401 \in Conditions
          BY <3>2, <3>6
        <5>3. QED
          BY <5>1, <5>2
      <4>2. QED
        BY <2>4, <4>1
    <3>7. CASE Known(r) /\ Accepts(r)
      BY <2>4, <3>1, <3>3, <3>5, <3>7
    <3>8. CASE Known(r) /\ ~Accepts(r)
      BY <2>4, <3>1, <3>3, <3>4, <3>8
    <3>9. QED
      BY <3>6, <3>7, <3>8
  <2>5. QED
    BY <1>2, <2>1, <2>2, <2>3, <2>4 DEF Paths
<1>8. QED
  BY <1>1, <1>7 DEF QueryPath

(* The status of every response is one that its request deserves, for any  *)
(* limits: no check hides another one's verdict.                           *)
THEOREM StatusesFit == ServerSpec => []StatusFitsRequest
<1>1. HandledInv => StatusFitsRequest
  <2> SUFFICES ASSUME HandledInv, Served PROVE StatusFitsRequest
    BY DEF StatusFitsRequest
  <2>1. response.status = StatusOf(input) /\ (response.challenge <=> (Protected /\ ~Authenticated))
        /\ response.requestID = <<IF input.requestID = "id" THEN "id" ELSE GeneratedID>>
    BY ServedAnswer
  <2>2. IF Conditions = {} THEN StatusOf(input) = 200 ELSE StatusOf(input) \in Conditions
    BY ExecutesIffNoCondition
  <2>3. StatusOf(input) = 401 <=> Protected /\ ~Authenticated
    <3>1. PICK r : r = input
      OBVIOUS
    <3>2. (Guarded(r) <=> Protected) /\ (Known(r) <=> Authenticated)
      BY <3>1 DEF Guarded, Protected, Known, Authenticated
    <3>3. StatusOf(r) = 401 <=> Guarded(r) /\ ~Known(r)
      BY DEF StatusOf, QueryStatus, Guarded
    <3>4. QED
      BY <3>1, <3>2, <3>3
  <2>4. QED
    BY <2>1, <2>2, <2>3 DEF StatusFitsRequest
<1>2. QED
  BY <1>1, HandledAlways, PTL

(* Devices are asked for all targets of an acceptable query, and for no    *)
(* other request.                                                          *)
THEOREM WorkOnlyForAcceptable == ServerSpec => []WorkIffAcceptable
<1>1. HandledInv => WorkIffAcceptable
  <2> SUFFICES ASSUME HandledInv, Served PROVE WorkIffAcceptable
    BY DEF WorkIffAcceptable
  <2>1. Executes(input) <=> QueryPath /\ Conditions = {}
    BY ExecutesIffNoCondition
  <2>2. PICK q : q = input.query /\ q \in Seq(AnyTarget)
    BY InputsTyped DEF HandledInv
  <2>3. Executes(input) => ValidateQuery(q).ok
    BY <2>2 DEF Executes, Accepts
  <2>4. Executes(input) => /\ response.executed = ValidateQuery(q).requests
                           /\ response.executed # <<>> /\ Len(response.executed) = Len(q)
    BY <2>2, <2>3, ServedAnswer, AcceptedIfNotRefused
  <2>5. (Executes(input) => response.recorded)
        /\ (~Executes(input) => response.executed = <<>> /\ ~response.recorded)
    BY ServedAnswer
  <2>6. QED
    BY <2>1, <2>2, <2>4, <2>5 DEF WorkIffAcceptable
<1>2. QED
  BY <1>1, HandledAlways, PTL
-----------------------------------------------------------------------------
(* What the executor gets for a target that passed the checks: its         *)
(* settings with the defaults filled in, in the form gosnmp takes them.    *)
LEMMA ResolvedFields ==
  ASSUME NEW tr \in AnyTarget
  PROVE  /\ Resolve(tr).port = IF tr.port \in {<<>>, <<0>>} THEN <<161>> ELSE tr.port
         /\ Resolve(tr).version = IF tr.version = "" THEN "2c" ELSE tr.version
         /\ Resolve(tr).community = tr.community /\ Resolve(tr).v3 = tr.v3
         /\ Resolve(tr).retries = Default(tr.retries, DefaultSNMPRetries)
         /\ Resolve(tr).timeoutMS = IF tr.timeoutMS \in {<<>>, <<0>>}
                                    THEN <<DefaultSNMPTimeout \div Millisecond>> ELSE tr.timeoutMS
         /\ Resolve(tr).operations
              = [j \in DOMAIN tr.operations |-> ResolveOperation(tr.operations[j])]
BY DEF Resolve, AnyTarget

(* What newGoSNMPClient makes of a resolved target, field by field.        *)
LEMMA ClientFields ==
  ASSUME NEW r
  PROVE  LET c == newGoSNMPClient(r)
         IN  /\ c.port = r.port[1] % (MaxPort + 1) /\ c.retries = r.retries[1]
             /\ c.timeout = Duration(r.timeoutMS[1])
             /\ c.version = IF r.version \in {"1", "3"} THEN r.version ELSE "2c"
             /\ c.community = IF r.version = "3" THEN <<>> ELSE <<r.community>>
             /\ r.version = "3" => /\ c.flags = <<v3MsgFlags(r.v3[1].securityLevel)>>
                                   /\ c.security = <<SecurityParameters(r.v3[1])>>
BY DEF newGoSNMPClient

(* A port survives the conversion to 16 bits, and a count of retries is    *)
(* the one asked for or the default.                                       *)
LEMMA NumbersSurvive ==
  ASSUME NEW tr \in AnyTarget, ValidTarget(tr)
  PROVE  LET c == newGoSNMPClient(Resolve(tr))
         IN  /\ PortKept(Number(tr.port), c.port) /\ c.port > 0
             /\ RetriesKept(tr.retries, c.retries) /\ c.retries >= 0
<1> DEFINE r == Resolve(tr)
           c == newGoSNMPClient(r)
<1>1. /\ tr.port \in Ports /\ tr.retries \in RetryCounts
      /\ Number(tr.port) \in 0..MaxPort /\ Number(tr.retries) >= 0
  BY DEF AnyTarget, ValidTarget
<1>2. \A m, n \in Int : (<<m>> = <<n>> => m = n) /\ Number(<<n>>) = n /\ <<n>> # <<>>
  BY DEF Number
<1>3. PICK n \in 1..MaxPort : r.port = <<n>> /\ PortKept(Number(tr.port), n)
  <2>1. r.port = IF tr.port \in {<<>>, <<0>>} THEN <<161>> ELSE tr.port
    BY ResolvedFields
  <2>2. tr.port # <<-1>> /\ tr.port # <<MaxPort + 1>>
    <3>1. Number(<<-1>>) = -1 /\ Number(<<MaxPort + 1>>) = MaxPort + 1
      BY <1>2, PortRange
    <3>2. QED
      BY <1>1, <3>1, PortRange
  <2>3. tr.port \in {<<>>, <<0>>, <<1>>, <<MaxPort>>}
    BY <1>1, <2>2 DEF Ports
  <2>4. 161 \in 1..MaxPort /\ 1 \in 1..MaxPort /\ MaxPort \in 1..MaxPort
    BY SMT DEF MaxPort
  <2>5. CASE tr.port \in {<<>>, <<0>>}
    <3>1. Number(tr.port) = 0
      BY <2>5 DEF Number
    <3>2. r.port = <<161>>
      <4> HIDE DEF r
      <4> QED BY <2>1, <2>5
    <3>3. QED
      <4> HIDE DEF r
      <4> QED BY <2>4, <3>1, <3>2 DEF PortKept
  <2>6. CASE tr.port \notin {<<>>, <<0>>}
    <3>1. PICK n \in 1..MaxPort : tr.port = <<n>>
      BY <2>3, <2>4, <2>6
    <3>2. Number(tr.port) = n /\ n # 0
      BY <1>2, <3>1, PortRange
    <3>3. r.port = <<n>>
      <4> HIDE DEF r
      <4> QED BY <2>1, <2>6, <3>1
    <3>4. QED
      <4> HIDE DEF r
      <4> QED BY <3>1, <3>2, <3>3 DEF PortKept
  <2>7. QED
    BY <2>5, <2>6
<1>4. \A m \in 1..MaxPort : m % (MaxPort + 1) = m /\ m > 0
  <2>1. ASSUME NEW k \in Nat, NEW m \in 1..k PROVE m % (k + 1) = m /\ m > 0
    BY SMT
  <2>2. QED
    BY <2>1, PortRange
<1>5. c.port = n
  <2>1. c.port = r.port[1] % (MaxPort + 1)
    BY ClientFields
  <2>2. r.port[1] = n
    <3> HIDE DEF r
    <3> QED BY <1>3
  <2>3. QED
    <3> HIDE DEF r, c
    <3> QED BY <1>4, <2>1, <2>2
<1>6. RetriesKept(tr.retries, c.retries) /\ c.retries >= 0
  <2>1. c.retries = r.retries[1] /\ r.retries = Default(tr.retries, DefaultSNMPRetries)
    BY ClientFields, ResolvedFields
  <2>2. DefaultSNMPRetries >= 0
    BY LimitAssumption
  <2>3. tr.retries # <<-1>>
    <3>1. Number(<<-1>>) = -1
      BY <1>2
    <3>2. QED
      BY <1>1, <3>1
  <2>4. tr.retries \in {<<>>, <<0>>, <<2>>}
    BY <1>1, <2>3 DEF RetryCounts
  <2>5. r.retries = IF tr.retries = <<>> THEN <<DefaultSNMPRetries>> ELSE tr.retries
    <3> HIDE DEF r
    <3> QED BY <2>1 DEF Default
  <2>6. c.retries = IF tr.retries = <<>> THEN DefaultSNMPRetries ELSE tr.retries[1]
    <3> HIDE DEF r, c
    <3> QED BY <2>1, <2>5
  <2>7. c.retries >= 0
    <3> HIDE DEF r, c
    <3> QED BY <2>2, <2>4, <2>6
  <2>8. QED
    BY <2>6, <2>7 DEF RetriesKept
<1>7. QED
  <2> HIDE DEF r, c
  <2>1. /\ PortKept(Number(tr.port), c.port) /\ c.port > 0
        /\ RetriesKept(tr.retries, c.retries) /\ c.retries >= 0
    BY <1>3, <1>4, <1>5, <1>6
  <2>2. QED
    BY <2>1 DEF r, c

(* A number of milliseconds that a Duration holds is converted as it is;   *)
(* cutting the default down to milliseconds loses less than one.           *)
LEMMA DurationExact ==
  ASSUME NEW ms \in Nat, ms * Millisecond < Half
  PROVE  Duration(ms) = ms * Millisecond
<1>1. ASSUME NEW h \in Nat \ {0}, NEW x \in Nat, x < h
      PROVE  ((x + h) % (2 * h)) - h = x
  <2>1. \A b \in Nat \ {0} : \A a \in 0 .. b - 1 : a % b = a
    BY SMT
  <2>2. 2 * h \in Nat \ {0} /\ x + h \in 0 .. 2 * h - 1
    BY <1>1
  <2>3. QED
    BY <2>1, <2>2
<1>2. ms * Millisecond \in Nat /\ Half \in Nat \ {0}
  BY LimitAssumption
<1>3. QED
  BY <1>1, <1>2 DEF Duration

(* The remainder of a division is less than the divisor.                   *)
LEMMA CutToMilliseconds ==
  ASSUME NEW d \in Nat, NEW m \in Nat \ {0}
  PROVE  /\ d \div m \in Nat /\ (d \div m) * m \in Nat
         /\ d - (d \div m) * m \in 0 .. m - 1
BY SMT

(* The timeout the client gets is the one asked for, as far as a Duration  *)
(* goes, or the configured default cut down to milliseconds.               *)
LEMMA TimeoutSurvives ==
  ASSUME NEW tr \in AnyTarget, ValidTarget(tr)
  PROVE  TimeoutKept(Number(tr.timeoutMS), newGoSNMPClient(Resolve(tr)).timeout)
<1> DEFINE r == Resolve(tr)
           cut == DefaultSNMPTimeout \div Millisecond
<1>1. /\ newGoSNMPClient(r).timeout = Duration(r.timeoutMS[1])
      /\ r.timeoutMS = IF tr.timeoutMS \in {<<>>, <<0>>} THEN <<cut>> ELSE tr.timeoutMS
  BY ClientFields, ResolvedFields
<1>2. tr.timeoutMS \in Timeouts /\ Number(tr.timeoutMS) >= 0
  BY DEF AnyTarget, ValidTarget
<1>3. CASE tr.timeoutMS \in {<<>>, <<0>>}
  <2>1. Number(tr.timeoutMS) = 0
    BY <1>3 DEF Number
  <2>2. newGoSNMPClient(r).timeout = Duration(cut)
    <3> HIDE DEF r, cut
    <3> QED BY <1>1, <1>3
  <2>3. /\ cut \in Nat /\ cut * Millisecond \in Nat
        /\ DefaultSNMPTimeout - cut * Millisecond \in 0 .. Millisecond - 1
    <3>1. DefaultSNMPTimeout \in Nat /\ Millisecond \in Nat \ {0}
      BY LimitAssumption
    <3>2. QED
      BY <3>1, CutToMilliseconds
  <2>4. cut * Millisecond < Half
    <3> DEFINE kept == cut * Millisecond
    <3>1. kept \in Nat /\ DefaultSNMPTimeout - kept \in 0 .. Millisecond - 1
      BY <2>3
    <3>2. DefaultSNMPTimeout \in 1 .. Half - 1 /\ Half \in Nat /\ Millisecond \in Nat
      BY LimitAssumption
    <3>3. QED
      <4> HIDE DEF kept
      <4>1. kept < Half
        BY <3>1, <3>2
      <4>2. QED
        BY <4>1 DEF kept
  <2>5. Duration(cut) = cut * Millisecond
    <3> HIDE DEF cut
    <3> QED BY <2>3, <2>4, DurationExact
  <2>6. QED
    <3> HIDE DEF r, cut
    <3>1. DefaultSNMPTimeout - newGoSNMPClient(r).timeout \in 0 .. Millisecond - 1
      BY <2>2, <2>3, <2>5
    <3>2. QED
      BY <2>1, <3>1 DEF TimeoutKept, r
<1>4. CASE tr.timeoutMS \notin {<<>>, <<0>>}
  <2>1. tr.timeoutMS \in {<<5>>, <<20>>}
    <3>1. \A n \in Int : Number(<<n>>) = n
      BY DEF Number
    <3>2. tr.timeoutMS # <<-1>>
      <4>1. Number(<<-1>>) = -1
        BY <3>1
      <4>2. QED
        BY <1>2, <4>1
    <3>3. QED
      BY <1>2, <1>4, <3>2 DEF Timeouts
  <2>2. PICK n \in {5, 20} : tr.timeoutMS = <<n>>
    BY <2>1
  <2>3. Number(tr.timeoutMS) = n /\ n \in Nat /\ n # 0
    BY <2>2 DEF Number
  <2>4. newGoSNMPClient(r).timeout = Duration(n)
    <3> HIDE DEF r, cut
    <3> QED BY <1>1, <1>4, <2>2
  <2>5. n * Millisecond < Half => Duration(n) = n * Millisecond
    BY <2>3, DurationExact
  <2>6. QED
    <3> HIDE DEF r
    <3>1. TimeoutKept(n, newGoSNMPClient(r).timeout)
      BY <2>3, <2>4, <2>5 DEF TimeoutKept
    <3>2. QED
      BY <2>3, <3>1 DEF r
<1>5. QED
  BY <1>3, <1>4

(* The client speaks the version that was asked for, with that version's   *)
(* credentials.                                                            *)
LEMMA VersionsSurvive ==
  ASSUME NEW tr \in AnyTarget, ValidTarget(tr)
  PROVE  LET r == Resolve(tr) c == newGoSNMPClient(r)
         IN  /\ c.version = r.version /\ (c.version = "3" <=> c.community = <<>>)
             /\ c.version = "1" <=> tr.version = "1"
             /\ tr.version = "3" <=> r.version = "3"
<1> DEFINE r == Resolve(tr)
           c == newGoSNMPClient(r)
<1>1. tr.version \in {"", "1", "2c", "3"}
  BY DEF ValidTarget, CredentialsFit
<1>2. r.version = IF tr.version = "" THEN "2c" ELSE tr.version
  BY ResolvedFields
<1>3. /\ c.version = IF r.version \in {"1", "3"} THEN r.version ELSE "2c"
      /\ c.community = IF r.version = "3" THEN <<>> ELSE <<r.community>>
  BY ClientFields
<1>4. \A x : <<x>> # <<>>
  OBVIOUS
<1>5. QED
  <2> HIDE DEF r, c
  <2>1. r.version \in {"1", "2c", "3"} /\ (tr.version = "1" <=> r.version = "1")
        /\ (tr.version = "3" <=> r.version = "3")
    BY <1>1, <1>2
  <2>2. c.version = r.version
    BY <1>3, <2>1
  <2>3. c.version = "3" <=> c.community = <<>>
    BY <1>3, <1>4, <2>2
  <2>4. QED
    BY <2>1, <2>2, <2>3 DEF r, c

(* An operation that passed its check has canonical OIDs within the limit, *)
(* and a bulk request that moves on.                                       *)
LEMMA OperationsResolved ==
  ASSUME NEW o \in AnyOperation, validateOperation(o)
  PROVE  LET op == ResolveOperation(o)
         IN  /\ op.type = o.type
             /\ Len(OIDsOf(op)) \in 1..MaxOIDsPerOperation
             /\ \A k \in DOMAIN OIDsOf(op) : OIDsOf(op)[k].dotted
             /\ op.type = "getbulk" => Number(op.maxRepetitions) > 0
<1> DEFINE op == ResolveOperation(o)
<1>1. /\ op.type = o.type /\ op.oids = DotAll(o.oids)
      /\ op.rootOID = IF o.type = "walk" THEN OID!NormalizeOID(o.rootOID) ELSE o.rootOID
      /\ op.maxRepetitions
           = IF o.type = "getbulk" THEN Default(o.maxRepetitions, 10) ELSE o.maxRepetitions
  BY DEF ResolveOperation, AnyOperation
<1>2. \A oid \in Names : OID!NormalizeOID(oid).dotted
  BY Zenon DEF OID!NormalizeOID, Names
<1>3. MaxOIDsPerOperation \in Nat \ {0}
  BY LimitAssumption
<1>4. o.oids \in Seq(Names) /\ o.rootOID \in Names /\ o.maxRepetitions \in {<<>>, <<0>>, <<2>>}
  BY DEF AnyOperation
<1>5. CASE o.type = "walk"
  <2>1. OIDsOf(op) = <<OID!NormalizeOID(o.rootOID)>>
    <3> HIDE DEF op
    <3> QED BY <1>1, <1>5 DEF OIDsOf
  <2>2. Len(OIDsOf(op)) \in 1..MaxOIDsPerOperation
    <3> HIDE DEF op
    <3> QED BY <1>3, <2>1
  <2>3. \A k \in DOMAIN OIDsOf(op) : OIDsOf(op)[k].dotted
    <3> HIDE DEF op
    <3> QED BY <1>2, <1>4, <2>1
  <2>4. QED
    BY <1>1, <1>5, <2>2, <2>3
<1>6. CASE o.type # "walk"
  <2>1. OIDsOf(op) = DotAll(o.oids)
    <3> HIDE DEF op
    <3> QED BY <1>1, <1>6 DEF OIDsOf
  <2>2. o.oids # <<>> /\ Len(o.oids) <= MaxOIDsPerOperation
        /\ (o.type = "getbulk" => o.maxRepetitions # <<0>>)
    BY <1>6 DEF validateOperation, validateOIDs
  <2>3. Len(OIDsOf(op)) \in 1..MaxOIDsPerOperation /\ DOMAIN OIDsOf(op) = DOMAIN o.oids
    <3>1. DotAll(o.oids) = [i \in 1..Len(o.oids) |-> OID!NormalizeOID(o.oids[i])]
      BY <1>4 DEF DotAll
    <3>2. Len(DotAll(o.oids)) = Len(o.oids) /\ Len(o.oids) \in Nat /\ Len(o.oids) # 0
      BY <1>4, <2>2, <3>1
    <3>3. DOMAIN DotAll(o.oids) = DOMAIN o.oids
      BY DEF DotAll
    <3>4. QED
      <4> HIDE DEF op
      <4> QED BY <1>3, <2>1, <2>2, <3>2, <3>3
  <2>4. \A k \in DOMAIN OIDsOf(op) : OIDsOf(op)[k].dotted
    <3>1. ASSUME NEW k \in DOMAIN o.oids PROVE DotAll(o.oids)[k].dotted
      <4>1. o.oids[k] \in Names
        BY <1>4
      <4>2. DotAll(o.oids)[k] = OID!NormalizeOID(o.oids[k])
        BY DEF DotAll
      <4>3. QED
        BY Zenon, <1>2, <4>1, <4>2
    <3>2. QED
      <4> HIDE DEF op
      <4> QED BY Zenon, <2>1, <2>3, <3>1
  <2>5. o.type = "getbulk" => Number(op.maxRepetitions) > 0
    <3> SUFFICES ASSUME o.type = "getbulk" PROVE Number(op.maxRepetitions) > 0
      OBVIOUS
    <3>1. op.maxRepetitions = Default(o.maxRepetitions, 10)
      BY <1>1
    <3>2. o.maxRepetitions \in {<<>>, <<2>>}
      BY <1>4, <2>2
    <3>3. Default(o.maxRepetitions, 10) \in {<<10>>, <<2>>}
      BY <3>2 DEF Default
    <3>4. Number(<<10>>) = 10 /\ Number(<<2>>) = 2
      BY DEF Number
    <3>5. QED
      <4> HIDE DEF op
      <4> QED BY <3>1, <3>3, <3>4
  <2>6. QED
    BY <1>1, <2>3, <2>4, <2>5
<1>7. QED
  BY <1>5, <1>6

(* The targets of a response: those of the query, checked and resolved.    *)
LEMMA ExecutedTargets ==
  ASSUME HandledInv, NEW i \in DOMAIN response.executed
  PROVE  \E tr \in AnyTarget : /\ tr = input.query[i] /\ ValidTarget(tr)
                               /\ response.executed[i] = Resolve(tr)
<1>1. response # NoResponse /\ response.executed # <<>>
  <2>1. NoResponse.executed = <<>>
    BY Answers DEF Idle
  <2>2. QED
    BY <2>1
<1>2. Executes(input) /\ response.executed = ValidateQuery(input.query).requests
  BY <1>1, ServedAnswer DEF Served
<1>3. PICK q : q = input.query /\ q \in Seq(AnyTarget)
  BY InputsTyped DEF HandledInv
<1>4. ValidateQuery(q).ok
  BY <1>2, <1>3 DEF Executes, Accepts
<1>5. i \in DOMAIN q /\ response.executed[i] = Resolve(q[i])
  BY <1>2, <1>3, AcceptedIfNotRefused
<1>6. ValidTarget(q[i])
  BY <1>4, <1>5 DEF ValidateQuery
<1>7. q[i] \in AnyTarget
  BY <1>3, <1>5
<1>8. QED
  BY <1>3, <1>5, <1>6, <1>7

(* No target reaches the executor that it has no answer for, for any       *)
(* limits and defaults that Config.Validate lets pass.                     *)
THEOREM ClientsAlwaysCanExecute == ServerSpec => []ClientsCanExecute
<1>1. HandledInv => ClientsCanExecute
  <2> SUFFICES ASSUME HandledInv, NEW i \in DOMAIN response.executed
               PROVE  LET c == Client(i) r == response.executed[i] asked == input.query[i]
                      IN  /\ PortKept(Number(asked.port), c.port) /\ c.port > 0
                          /\ RetriesKept(asked.retries, c.retries) /\ c.retries >= 0
                          /\ TimeoutKept(Number(asked.timeoutMS), c.timeout)
                          /\ c.version = r.version
                          /\ c.version = "3" <=> c.community = <<>>
                          /\ r.operations # <<>>
                          /\ \A j \in DOMAIN r.operations :
                               LET op == r.operations[j]
                               IN  /\ Len(OIDsOf(op)) \in 1..MaxOIDsPerOperation
                                   /\ \A k \in DOMAIN OIDsOf(op) : OIDsOf(op)[k].dotted
                                   /\ op.type = "getbulk" =>
                                        Number(op.maxRepetitions) > 0 /\ c.version # "1"
    BY DEF ClientsCanExecute
  <2>1. PICK tr \in AnyTarget : /\ tr = input.query[i] /\ ValidTarget(tr)
                                /\ response.executed[i] = Resolve(tr)
    BY ExecutedTargets
  <2> DEFINE r == Resolve(tr)
             c == newGoSNMPClient(r)
  <2>2. response.executed[i] = r /\ Client(i) = c
    BY <2>1 DEF Client
  <2>3. /\ PortKept(Number(input.query[i].port), c.port) /\ c.port > 0
        /\ RetriesKept(input.query[i].retries, c.retries) /\ c.retries >= 0
    BY <2>1, NumbersSurvive
  <2>4. /\ c.version = r.version /\ (c.version = "3" <=> c.community = <<>>)
        /\ c.version = "1" <=> tr.version = "1"
    BY <2>1, VersionsSurvive
  <2>5. /\ tr.operations \in Seq(AnyOperation) /\ Len(tr.operations) \in 1..MaxOperationsPerTarget
        /\ \A j \in DOMAIN tr.operations :
             /\ tr.version = "1" => tr.operations[j].type # "getbulk"
             /\ validateOperation(tr.operations[j])
    BY <2>1 DEF AnyTarget, ValidTarget
  <2>6. /\ r.operations = [j \in DOMAIN tr.operations |-> ResolveOperation(tr.operations[j])]
        /\ DOMAIN r.operations = DOMAIN tr.operations
    BY ResolvedFields
  <2>7. r.operations # <<>>
    <3>1. Len(tr.operations) # 0
      <4>1. MaxOperationsPerTarget \in Nat
        BY LimitAssumption
      <4>2. QED
        BY <2>5, <4>1
    <3>2. 1 \in DOMAIN tr.operations
      BY <2>5, <3>1
    <3>3. QED
      <4> HIDE DEF r
      <4> QED BY <2>6, <3>2
  <2>8. ASSUME NEW j \in DOMAIN r.operations
        PROVE  LET op == r.operations[j]
               IN  /\ Len(OIDsOf(op)) \in 1..MaxOIDsPerOperation
                   /\ \A k \in DOMAIN OIDsOf(op) : OIDsOf(op)[k].dotted
                   /\ op.type = "getbulk" => Number(op.maxRepetitions) > 0 /\ c.version # "1"
    <3>1. PICK o \in AnyOperation : /\ o = tr.operations[j] /\ validateOperation(o)
                                    /\ tr.version = "1" => o.type # "getbulk"
                                    /\ r.operations[j] = ResolveOperation(o)
      <4> HIDE DEF r
      <4>1. j \in DOMAIN tr.operations /\ r.operations[j] = ResolveOperation(tr.operations[j])
        BY <2>6
      <4>2. tr.operations[j] \in AnyOperation
        BY <2>5, <4>1
      <4>3. QED
        BY <2>5, <4>1, <4>2
    <3>2. LET op == ResolveOperation(o)
          IN  /\ op.type = o.type
              /\ Len(OIDsOf(op)) \in 1..MaxOIDsPerOperation
              /\ \A k \in DOMAIN OIDsOf(op) : OIDsOf(op)[k].dotted
              /\ op.type = "getbulk" => Number(op.maxRepetitions) > 0
      BY <3>1, OperationsResolved
    <3>3. PICK op : op = r.operations[j]
      OBVIOUS
    <3>4. QED
      <4> HIDE DEF r, c
      <4> QED BY <2>4, <3>1, <3>2, <3>3
  <2>9. TimeoutKept(Number(input.query[i].timeoutMS), c.timeout)
    BY <2>1, TimeoutSurvives
  <2>10. QED
    <3> HIDE DEF r, c
    <3> QED BY <2>2, <2>3, <2>4, <2>7, <2>8, <2>9
<1>2. QED
  BY <1>1, HandledAlways, PTL

(* Every session is as strong as its query asks, whatever the credentials. *)
THEOREM SessionsKeepTheirLevel == ServerSpec => []SessionsNotWeakened
<1>1. HandledInv => SessionsNotWeakened
  <2> SUFFICES ASSUME HandledInv, NEW i \in DOMAIN response.executed, input.query[i].version = "3"
               PROVE  LET v3 == input.query[i].v3[1]
                      IN  /\ NotWeakened(v3, Client(i).security[1])
                          /\ Client(i).flags
                               = <<CASE v3.securityLevel = "noAuthNoPriv" -> "NoAuthNoPriv"
                                     [] v3.securityLevel = "authNoPriv" -> "AuthNoPriv"
                                     [] v3.securityLevel = "authPriv" -> "AuthPriv">>
    BY DEF SessionsNotWeakened
  <2>1. PICK tr \in AnyTarget : /\ tr = input.query[i] /\ ValidTarget(tr)
                                /\ response.executed[i] = Resolve(tr)
    BY ExecutedTargets
  <2>2. PICK v3 : v3 = tr.v3[1] /\ validateV3Credentials(<<v3>>)
    <3>1. validateV3Credentials(tr.v3) /\ tr.v3 # <<>>
      BY <2>1 DEF ValidTarget, CredentialsFit, validateV3Credentials
    <3>2. PICK c \in Credentials : tr.v3 = <<c>>
      BY <3>1 DEF AnyTarget, MaybeV3
    <3>3. QED
      BY <3>1, <3>2
  <2>3. Resolve(tr).version = "3" /\ Resolve(tr).v3 = tr.v3
    BY <2>1, ResolvedFields
  <2>4. /\ Client(i).security[1] = SecurityParameters(v3)
        /\ Client(i).flags = <<v3MsgFlags(v3.securityLevel)>>
    <3>1. PICK r : r = Resolve(tr)
      OBVIOUS
    <3>2. r = response.executed[i] /\ r.version = "3" /\ r.v3[1] = v3
      BY <2>1, <2>2, <2>3, <3>1
    <3>3. /\ newGoSNMPClient(r).flags = <<v3MsgFlags(v3.securityLevel)>>
          /\ newGoSNMPClient(r).security = <<SecurityParameters(v3)>>
      BY <3>2, ClientFields
    <3>4. QED
      BY <3>2, <3>3 DEF Client
  <2>5. NotWeakened(v3, SecurityParameters(v3))
        /\ v3.securityLevel \in {"noAuthNoPriv", "authNoPriv", "authPriv"}
    BY <2>2, SessionsKeepProtection
  <2>6. v3MsgFlags(v3.securityLevel)
          = CASE v3.securityLevel = "noAuthNoPriv" -> "NoAuthNoPriv"
              [] v3.securityLevel = "authNoPriv" -> "AuthNoPriv"
              [] v3.securityLevel = "authPriv" -> "AuthPriv"
    BY <2>5 DEF v3MsgFlags
  <2>7. QED
    BY <2>1, <2>2, <2>4, <2>5, <2>6
<1>2. QED
  BY <1>1, HandledAlways, PTL
=============================================================================
