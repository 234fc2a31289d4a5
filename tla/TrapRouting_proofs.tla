------------------------- MODULE TrapRouting_proofs -------------------------
(***************************************************************************)
(* What sorting a route file once and taking the first hit amounts to, for *)
(* route files of every length, and what becomes of a trap between the     *)
(* reader's buffer and the webhook, for every set of packets.              *)
(*                                                                         *)
(* The order the code hands to sort.SliceStable is shown to be total, so   *)
(* that the number of elements before an element is a bijection: its place *)
(* in the sorted table.                                                    *)
(***************************************************************************)
EXTENDS MCTrapRouter, FiniteSetTheorems, TLAPS

(* A finite, non-empty set of numbers has a least and a greatest element.  *)
LEMMA LeastElement ==
  ASSUME NEW S \in SUBSET Nat, S # {}
  PROVE  Min(S) \in S /\ \A n \in S : Min(S) <= n
<1>1. PICK m \in S : \A n \in S : <<n, m>> \notin OpToRel(<, Nat)
  BY WFMin, NatLessThanWellFounded, Zenon
<1>2. \A n \in S : ~(n < m)
  BY <1>1, Zenon DEF OpToRel
<1>3. \A n \in S : m <= n
  BY <1>2
<1>4. QED
  BY <1>3 DEF Min

(* And a set of numbers up to k has a greatest element, the one that is    *)
(* least counted from k.                                                   *)
LEMMA GreatestElement ==
  ASSUME NEW k \in Nat, NEW S \in SUBSET (1..k), S # {}
  PROVE  Max(S) \in S /\ \A n \in S : Max(S) >= n
<1> DEFINE T == {k - n : n \in S}
<1>1. T \in SUBSET Nat /\ T # {}
  <2>1. \A n \in S : n \in 1..k
    OBVIOUS
  <2>2. \A n \in 1..k : k - n \in Nat
    OBVIOUS
  <2>3. PICK n \in S : TRUE
    OBVIOUS
  <2>4. k - n \in T
    OBVIOUS
  <2>5. QED
    BY <2>1, <2>2, <2>4
<1>2. PICK t \in T : \A n \in T : <<n, t>> \notin OpToRel(<, Nat)
  <2> HIDE DEF T
  <2> QED BY <1>1, WFMin, NatLessThanWellFounded, Zenon
<1>3. \A n \in T : ~(n < t)
  <2> HIDE DEF T
  <2> QED BY <1>1, <1>2, Zenon DEF OpToRel
<1>4. PICK m \in S : t = k - m
  OBVIOUS
<1>5. \A n \in S : m >= n
  BY <1>3, <1>4
<1>6. QED
  BY <1>5 DEF Max
-----------------------------------------------------------------------------
(* A sequence of routes as far as sorting looks at it.                     *)
Sortable(routes, n) ==
  n \in Nat /\ DOMAIN routes = 1..n /\ \A i \in 1..n : prefixBits(routes[i]) \in Nat

(* The elements that come before one, and its place.                       *)
Before(routes, i) == {j \in DOMAIN routes : Precedes(routes, j, i)}
Place(routes, i) == 1 + Cardinality(Before(routes, i))

(* Of two routes exactly one comes first, and the order is transitive: the *)
(* comparison of LoadTrapRouter is one sort.SliceStable may be used with.  *)
LEMMA PrecedesIsTotalOrder ==
  ASSUME NEW routes, NEW n, Sortable(routes, n)
  PROVE  /\ \A i \in 1..n : ~Precedes(routes, i, i)
         /\ \A i, j \in 1..n : i # j => Precedes(routes, i, j) \/ Precedes(routes, j, i)
         /\ \A i, j \in 1..n : Precedes(routes, i, j) => ~Precedes(routes, j, i)
         /\ \A i, j, k \in 1..n :
              Precedes(routes, i, j) /\ Precedes(routes, j, k) => Precedes(routes, i, k)
BY DEF Sortable, Precedes, Less

(* An element's place is a number between 1 and the length of the table,   *)
(* and the order of places is that of the elements.                        *)
LEMMA PlaceIsMonotone ==
  ASSUME NEW routes, NEW n, Sortable(routes, n)
  PROVE  /\ \A i \in 1..n : Place(routes, i) \in 1..n
         /\ \A i, j \in 1..n :
              Precedes(routes, i, j) => Place(routes, i) < Place(routes, j)
<1>1. IsFiniteSet(1..n) /\ Cardinality(1..n) = n
  BY FS_Interval DEF Sortable
<1>2. ASSUME NEW i \in 1..n
      PROVE  /\ Before(routes, i) \in SUBSET (1..n) /\ IsFiniteSet(Before(routes, i))
             /\ Cardinality(Before(routes, i)) \in Nat
             /\ i \notin Before(routes, i)
             /\ IsFiniteSet(Before(routes, i) \cup {i})
             /\ Cardinality(Before(routes, i) \cup {i}) = Place(routes, i)
  <2>1. Before(routes, i) \in SUBSET (1..n) /\ i \notin Before(routes, i)
    BY PrecedesIsTotalOrder DEF Before, Sortable
  <2>2. IsFiniteSet(Before(routes, i)) /\ Cardinality(Before(routes, i)) \in Nat
    BY <1>1, <2>1, FS_Subset, FS_CardinalityType
  <2>3. /\ IsFiniteSet(Before(routes, i) \cup {i})
        /\ Cardinality(Before(routes, i) \cup {i}) = Cardinality(Before(routes, i)) + 1
    BY <2>1, <2>2, FS_AddElement
  <2>4. QED
    BY <2>1, <2>2, <2>3 DEF Place
<1>3. ASSUME NEW i \in 1..n
      PROVE  Place(routes, i) \in 1..n
  <2>1. (Before(routes, i) \cup {i}) \in SUBSET (1..n)
    BY <1>2
  <2>2. Place(routes, i) <= n
    BY <1>1, <1>2, <2>1, FS_Subset
  <2>3. Place(routes, i) = 1 + Cardinality(Before(routes, i)) /\ n \in Nat
    BY DEF Place, Sortable
  <2>4. Cardinality(Before(routes, i)) \in Nat
    BY <1>2
  <2>5. QED
    BY <2>2, <2>3, <2>4
<1>4. ASSUME NEW i \in 1..n, NEW j \in 1..n, Precedes(routes, i, j)
      PROVE  Place(routes, i) < Place(routes, j)
  <2>1. Before(routes, i) \cup {i} \in SUBSET Before(routes, j)
    BY <1>4, PrecedesIsTotalOrder DEF Before, Sortable
  <2>2. /\ IsFiniteSet(Before(routes, j)) /\ Cardinality(Before(routes, j)) \in Nat
        /\ Cardinality(Before(routes, i) \cup {i}) = Place(routes, i)
        /\ Place(routes, i) \in Nat
    <3>1. Place(routes, i) \in 1..n
      BY <1>3
    <3>2. Place(routes, i) \in Nat
      BY <3>1
    <3>3. QED
      BY <1>2, <3>2
  <2>3. Place(routes, i) <= Cardinality(Before(routes, j))
    BY <2>1, <2>2, FS_Subset
  <2>4. Place(routes, j) = 1 + Cardinality(Before(routes, j))
    BY DEF Place
  <2>5. QED
    BY <2>2, <2>3, <2>4
<1>5. QED
  BY <1>3, <1>4

(* What SliceStable does: "from" says which element of the file ends at a  *)
(* place of the table.  Every element ends at one, and the table is in     *)
(* order.                                                                  *)
From(routes) ==
  [k \in DOMAIN routes |-> CHOOSE i \in DOMAIN routes : Place(routes, i) = k]

(* Each element of the file has one place in the table, and the table has  *)
(* no other; of two elements the one that precedes has the smaller place.  *)
LEMMA StableSort ==
  ASSUME NEW routes, NEW n, Sortable(routes, n)
  PROVE  /\ DOMAIN SliceStable(routes) = 1..n
         /\ From(routes) \in [1..n -> 1..n]
         /\ \A k \in 1..n : SliceStable(routes)[k] = routes[From(routes)[k]]
         /\ \A i \in 1..n : From(routes)[Place(routes, i)] = i
         /\ \A k \in 1..n : Place(routes, From(routes)[k]) = k
         /\ \A k, l \in 1..n :
              k < l => Precedes(routes, From(routes)[k], From(routes)[l])
<1> DEFINE place == [i \in 1..n |-> Place(routes, i)]
<1>1. DOMAIN routes = 1..n /\ n \in Nat
  BY DEF Sortable
<1>2. \A i, j \in 1..n : Place(routes, i) = Place(routes, j) => i = j
  BY <1>1, PlaceIsMonotone, PrecedesIsTotalOrder
<1>3. place \in Injection(1..n, 1..n)
  BY <1>2, PlaceIsMonotone DEF Injection, IsInjective
<1>4. place \in Surjection(1..n, 1..n)
  <2> HIDE DEF place
  <2>1. IsFiniteSet(1..n)
    BY <1>1, FS_Interval
  <2>2. QED
    BY <1>3, <2>1, FS_Injection
<1>5. \A k \in 1..n : \E i \in 1..n : Place(routes, i) = k
  BY <1>4 DEF Surjection
<1>6. \A k \in 1..n : From(routes)[k] \in 1..n /\ Place(routes, From(routes)[k]) = k
  BY <1>1, <1>5 DEF From
<1>7. \A i \in 1..n : From(routes)[Place(routes, i)] = i
  BY <1>2, <1>6, PlaceIsMonotone
<1>8. DOMAIN From(routes) = 1..n /\ From(routes) \in [1..n -> 1..n]
  BY <1>1, <1>6 DEF From
<1>9. /\ DOMAIN SliceStable(routes) = 1..n
      /\ \A k \in 1..n : SliceStable(routes)[k] = routes[From(routes)[k]]
  BY <1>1 DEF SliceStable, From, Place, Before
<1>10. ASSUME NEW k \in 1..n, NEW l \in 1..n, k < l
       PROVE  Precedes(routes, From(routes)[k], From(routes)[l])
  <2>1. From(routes)[k] # From(routes)[l]
    BY <1>6, <1>10
  <2>2. ~Precedes(routes, From(routes)[l], From(routes)[k])
    BY <1>6, <1>10, PlaceIsMonotone
  <2>3. QED
    BY <1>6, <2>1, <2>2, PrecedesIsTotalOrder
<1>11. QED
  BY <1>6, <1>7, <1>8, <1>9, <1>10
-----------------------------------------------------------------------------
(* The routes a file may hold, good and bad, of any prefix and any OID     *)
(* (the provers do not know that a literal is a STRING).                   *)
Arcs == STRING \cup {"none", "malformed", "linkDown"}
AnyCIDR == [form : Forms \cup {"v4", "none"}, prefix : Seq({0, 1})]
AnyOID == [arcs : Arcs, dotted : BOOLEAN]
AnyRoute == [cidr : AnyCIDR, oid : AnyOID, target : HTTPTargets \cup {"ops", NoTarget}]
AnyFile(f, n) == n \in Nat /\ f \in [1..n -> AnyRoute]
Normalized(f) == [i \in DOMAIN f |-> NormalizeRoute(f[i])]

(* Normalising a route only puts the dot before its trap OID.              *)
LEMMA NormalizedRoute ==
  ASSUME NEW r \in AnyRoute
  PROVE  /\ NormalizeRoute(r).cidr = r.cidr /\ NormalizeRoute(r).target = r.target
         /\ NormalizeRoute(r).oid = NoOID <=> r.oid = NoOID
         /\ r.oid # NoOID => NormalizeRoute(r).oid = [arcs |-> r.oid.arcs, dotted |-> TRUE]
         /\ NormalizeRoute(r) \in AnyRoute
         /\ ValidRoute(r) => ValidRoute(NormalizeRoute(r))
         /\ prefixBits(NormalizeRoute(r)) = prefixBits(r) /\ prefixBits(r) \in Nat
         /\ r.cidr.form # "mapped" => prefixBits(r) = NetworkBits(r.cidr)
<1> DEFINE o == IF r.oid = NoOID THEN r.oid ELSE NormalizeOID(r.oid)
<1>1. r.oid \in AnyOID
  BY DEF AnyRoute
<1>2. NormalizeOID(r.oid) = [arcs |-> r.oid.arcs, dotted |-> TRUE]
  <2> DEFINE q == r.oid
  <2>1. q \in AnyOID
    BY <1>1
  <2>2. NormalizeOID(q) \in [arcs : Arcs, dotted : {TRUE}] /\ NormalizeOID(q).arcs = q.arcs
    <3> HIDE DEF q
    <3> QED BY <2>1 DEF NormalizeOID, AnyOID
  <2>3. NormalizeOID(q) = [arcs |-> q.arcs, dotted |-> TRUE]
    BY <2>2
  <2>4. QED
    BY <2>3
<1>3. o \in AnyOID
  <2>1. CASE r.oid = NoOID
    BY <1>1, <2>1
  <2>2. CASE r.oid # NoOID
    BY <1>1, <1>2, <2>2 DEF AnyOID
  <2>3. QED
    BY <2>1, <2>2
<1>4. NormalizeRoute(r) = [r EXCEPT !.oid = o]
  BY DEF NormalizeRoute
<1>5. /\ NormalizeRoute(r).cidr = r.cidr /\ NormalizeRoute(r).target = r.target
      /\ NormalizeRoute(r).oid = o /\ NormalizeRoute(r) \in AnyRoute
  <2> HIDE DEF o
  <2> QED BY <1>3, <1>4 DEF AnyRoute
<1>6. prefixBits(NormalizeRoute(r)) = prefixBits(r)
  BY <1>5 DEF prefixBits
<1>7. Len(r.cidr.prefix) \in Nat
  BY DEF AnyRoute, AnyCIDR
<1>8. /\ prefixBits(r) \in Nat
      /\ r.cidr.form # "mapped" => prefixBits(r) = NetworkBits(r.cidr)
  <2>1. CASE r.cidr.form = "mapped"
    BY <1>7, <2>1 DEF prefixBits, MappedBits
  <2>2. CASE r.cidr.form # "mapped"
    BY <1>7, <2>2 DEF prefixBits, NetworkBits
  <2>3. QED
    BY <2>1, <2>2
<1>9. ValidRoute(r) => ValidRoute(NormalizeRoute(r))
  BY <1>2, <1>5 DEF ValidRoute, validOID, NoOID
<1>10. NormalizeRoute(r).oid = NoOID <=> r.oid = NoOID
  <2>1. [arcs |-> r.oid.arcs, dotted |-> TRUE] # NoOID
    BY DEF NoOID
  <2>2. QED
    BY <1>2, <1>5, <2>1
<1>11. QED
  BY <1>2, <1>5, <1>6, <1>8, <1>9, <1>10

(* A file that is loaded is sorted whole.                                  *)
LEMMA LoadedFile ==
  ASSUME NEW f, NEW n, AnyFile(f, n), NEW d, LoadTrapRouter(f, d).ok
  PROVE  /\ \A i \in 1..n : ValidRoute(f[i]) /\ Normalized(f)[i] = NormalizeRoute(f[i])
         /\ LoadTrapRouter(f, d).routes = SliceStable(Normalized(f))
         /\ LoadTrapRouter(f, d).defaultTarget = d
         /\ Sortable(Normalized(f), n)
<1>1. \A i \in 1..n : Normalized(f)[i] = NormalizeRoute(f[i])
  BY DEF Normalized, AnyFile
<1>2. \A i \in 1..n : prefixBits(NormalizeRoute(f[i])) \in Nat
  BY NormalizedRoute DEF AnyFile
<1>3. Sortable(Normalized(f), n)
  BY <1>1, <1>2 DEF Sortable, AnyFile, Normalized
<1>4. QED
  BY <1>1, <1>3 DEF LoadTrapRouter, Normalized, AnyFile

(* The OIDs a trap can have: none, or one written with its leading dot.    *)
TrapOIDForm(oid) ==
  \/ oid = NoOID
  \/ oid.arcs # "none" /\ oid = [arcs |-> oid.arcs, dotted |-> TRUE]

(* A normalised route covers a trap exactly if the route as written        *)
(* contains its sender and names no OID or the trap's, dotted or not.      *)
LEMMA CoversAsWritten ==
  ASSUME NEW r \in AnyRoute, ValidRoute(r), NEW ip, NEW oid, TrapOIDForm(oid)
  PROVE  Covers(NormalizeRoute(r), ip, oid)
           <=> NetContains(r.cidr, ip) /\ r.oid.arcs \in {"none", oid.arcs}
<1> DEFINE w == NormalizeRoute(r)
<1>1. w.cidr = r.cidr
  BY NormalizedRoute
<1>2. w.oid = NoOID \/ w.oid = oid <=> r.oid.arcs \in {"none", oid.arcs}
  <2>1. CASE r.oid = NoOID
    <3>1. w.oid = NoOID
      BY <2>1, NormalizedRoute
    <3>2. r.oid.arcs = "none"
      BY <2>1 DEF NoOID
    <3>3. QED
      BY <3>1, <3>2
  <2>2. CASE r.oid # NoOID
    <3>1. r.oid.arcs # "none"
      BY <2>2 DEF ValidRoute, validOID
    <3>2. w.oid = [arcs |-> r.oid.arcs, dotted |-> TRUE]
      BY <2>2, NormalizedRoute
    <3>3. w.oid # NoOID
      BY <3>2 DEF NoOID
    <3>4. w.oid = oid <=> r.oid.arcs = oid.arcs
      BY <3>1, <3>2 DEF TrapOIDForm, NoOID
    <3>5. QED
      BY <3>1, <3>3, <3>4
  <2>3. QED
    BY <2>1, <2>2
<1>3. QED
  BY <1>1, <1>2 DEF Covers

(* Match takes the hit that stands first in the table.                     *)
LEMMA MatchTakesFirst ==
  ASSUME NEW table, NEW n \in Nat, DOMAIN table.routes = 1..n, NEW ip, NEW oid
  PROVE  \/ /\ \A k \in 1..n : ~Covers(table.routes[k], ip, oid)
            /\ Match(table, ip, oid) = IF table.defaultTarget # NoTarget
                                       THEN RoutedBy(table.defaultTarget, NoCIDR)
                                       ELSE NotRouted
         \/ \E k \in 1..n :
              /\ Covers(table.routes[k], ip, oid)
              /\ \A l \in 1..n : Covers(table.routes[l], ip, oid) => k <= l
              /\ Match(table, ip, oid) = RoutedBy(table.routes[k].target, table.routes[k].cidr)
<1> DEFINE hits == {k \in DOMAIN table.routes : Covers(table.routes[k], ip, oid)}
           k == CHOOSE i \in hits : \A j \in hits : i <= j
<1>1. CASE hits = {}
  BY <1>1 DEF Match
<1>2. CASE hits # {}
  <2>1. hits \in SUBSET Nat
    OBVIOUS
  <2>2. k = Min(hits)
    BY DEF Min
  <2>3. k \in hits /\ \A j \in hits : k <= j
    <3> HIDE DEF hits, k
    <3> QED BY <1>2, <2>1, <2>2, LeastElement
  <2>4. Match(table, ip, oid) = RoutedBy(table.routes[k].target, table.routes[k].cidr)
    BY <1>2 DEF Match
  <2>5. QED
    <3> HIDE DEF k
    <3> QED BY <2>3, <2>4
<1>3. QED
  BY <1>1, <1>2

(* A route that comes before another in the sorted table beats it in the   *)
(* file as it was written.                                                 *)
LEMMA PrecedesBeats ==
  ASSUME NEW n, AnyFile(file, n), NEW i \in 1..n, NEW j \in 1..n,
         file[i].cidr.form # "mapped", file[j].cidr.form # "mapped",
         Precedes(Normalized(file), i, j)
  PROVE  Beats(i, j)
<1> DEFINE p == Normalized(file)[i]
           q == Normalized(file)[j]
<1>1. file[i] \in AnyRoute /\ file[j] \in AnyRoute
      /\ p = NormalizeRoute(file[i]) /\ q = NormalizeRoute(file[j])
  BY DEF AnyFile, Normalized
<1>2. /\ prefixBits(p) = NetworkBits(file[i].cidr) /\ prefixBits(q) = NetworkBits(file[j].cidr)
      /\ prefixBits(p) \in Nat /\ prefixBits(q) \in Nat
  BY <1>1, NormalizedRoute
<1>3. (p.oid = NoOID <=> file[i].oid = NoOID) /\ (q.oid = NoOID <=> file[j].oid = NoOID)
  BY <1>1, NormalizedRoute
<1>4. Less(p, q) \/ (~Less(q, p) /\ i < j)
  BY DEF Precedes
<1>5. QED
  <2> HIDE DEF p, q
  <2> QED BY <1>2, <1>3, <1>4 DEF Less, Beats

(* Loading and lookup as the module's steps do them.                       *)
Looked ==
  /\ router.ok => router = LoadTrapRouter(file, defaultTarget)
  /\ query.asked =>
       router.ok /\ TrapOIDForm(query.oid) /\ query.hit = Match(router, query.ip, query.oid)

(* Sorting once and taking the first hit selects the route the file puts   *)
(* first, whatever the length of the file and of its prefixes, as long as  *)
(* no IPv4 network is written in its IPv4-mapped form.                     *)
LEMMA FirstHitIsBest ==
  ASSUME NEW n, AnyFile(file, n), Looked,
         \A i \in 1..n : file[i].cidr.form # "mapped"
  PROVE  LongestPrefixWins
<1> SUFFICES ASSUME query.asked
             PROVE  LET hits == {i \in DOMAIN file : Applies(i)}
                    IN  IF hits = {}
                        THEN query.hit = IF defaultTarget = NoTarget THEN NotRouted
                                         ELSE RoutedBy(defaultTarget, NoCIDR)
                        ELSE \E i \in hits :
                               /\ \A j \in hits \ {i} : Beats(i, j)
                               /\ query.hit = RoutedBy(file[i].target, file[i].cidr)
  BY DEF LongestPrefixWins
<1> DEFINE w == Normalized(file)
           from == From(w)
<1>1. /\ n \in Nat /\ DOMAIN file = 1..n /\ \A i \in 1..n : file[i] \in AnyRoute
      /\ TrapOIDForm(query.oid) /\ query.hit = Match(router, query.ip, query.oid)
  BY DEF AnyFile, Looked
<1>2. LoadTrapRouter(file, defaultTarget).ok /\ router = LoadTrapRouter(file, defaultTarget)
  BY DEF Looked
<1>3. /\ router.routes = SliceStable(w) /\ router.defaultTarget = defaultTarget
      /\ Sortable(w, n)
      /\ \A i \in 1..n : ValidRoute(file[i]) /\ w[i] = NormalizeRoute(file[i])
  BY <1>2, LoadedFile
<1>4. /\ DOMAIN router.routes = 1..n /\ from \in [1..n -> 1..n]
      /\ \A k \in 1..n : router.routes[k] = w[from[k]]
      /\ \A i \in 1..n : from[Place(w, i)] = i /\ Place(w, i) \in 1..n
      /\ \A k, l \in 1..n : k < l => Precedes(w, from[k], from[l])
  <2> HIDE DEF w
  <2> QED BY <1>3, StableSort, PlaceIsMonotone
<1>5. ASSUME NEW k \in 1..n
      PROVE  /\ from[k] \in 1..n
             /\ router.routes[k] = NormalizeRoute(file[from[k]])
             /\ Covers(router.routes[k], query.ip, query.oid) <=> Applies(from[k])
             /\ router.routes[k].target = file[from[k]].target
             /\ router.routes[k].cidr = file[from[k]].cidr
  <2>1. PICK i \in 1..n : i = from[k]
    BY <1>4
  <2>2. router.routes[k] = NormalizeRoute(file[i])
    BY <1>3, <1>4, <2>1
  <2>3. Covers(NormalizeRoute(file[i]), query.ip, query.oid) <=> Applies(i)
    BY <1>1, <1>3, CoversAsWritten DEF Applies
  <2>4. NormalizeRoute(file[i]).cidr = file[i].cidr /\ NormalizeRoute(file[i]).target = file[i].target
    BY <1>1, NormalizedRoute
  <2>5. QED
    BY <2>1, <2>2, <2>3, <2>4
<1>6. CASE \A k \in 1..n : ~Covers(router.routes[k], query.ip, query.oid)
  <2>1. {i \in DOMAIN file : Applies(i)} = {}
    BY <1>1, <1>4, <1>5, <1>6
  <2>2. Match(router, query.ip, query.oid) = IF router.defaultTarget # NoTarget
                                             THEN RoutedBy(router.defaultTarget, NoCIDR)
                                             ELSE NotRouted
    BY <1>1, <1>4, <1>6, MatchTakesFirst
  <2>3. QED
    BY <1>1, <1>3, <2>1, <2>2
<1>7. CASE \E k \in 1..n :
             /\ Covers(router.routes[k], query.ip, query.oid)
             /\ \A l \in 1..n : Covers(router.routes[l], query.ip, query.oid) => k <= l
             /\ Match(router, query.ip, query.oid)
                  = RoutedBy(router.routes[k].target, router.routes[k].cidr)
  <2>1. PICK k \in 1..n :
             /\ Covers(router.routes[k], query.ip, query.oid)
             /\ \A l \in 1..n : Covers(router.routes[l], query.ip, query.oid) => k <= l
             /\ Match(router, query.ip, query.oid)
                  = RoutedBy(router.routes[k].target, router.routes[k].cidr)
    BY <1>7
  <2>2. PICK i \in 1..n : i = from[k]
    BY <1>4
  <2>3. Applies(i) /\ query.hit = RoutedBy(file[i].target, file[i].cidr)
    BY <1>1, <1>5, <2>1, <2>2
  <2>4. ASSUME NEW j \in 1..n, Applies(j), j # i
        PROVE  Beats(i, j)
    <3>1. PICK l \in 1..n : l = Place(w, j) /\ from[l] = j
      BY <1>4
    <3>2. Covers(router.routes[l], query.ip, query.oid)
      BY <1>5, <2>4, <3>1
    <3>3. k < l
      BY <1>1, <2>1, <2>2, <2>4, <3>1, <3>2
    <3>4. Precedes(w, i, j)
      BY <1>4, <2>2, <3>1, <3>3
    <3>5. QED
      BY <3>4, PrecedesBeats
  <2>5. QED
    BY <1>1, <2>3, <2>4
<1>8. \/ \A k \in 1..n : ~Covers(router.routes[k], query.ip, query.oid)
      \/ \E k \in 1..n :
           /\ Covers(router.routes[k], query.ip, query.oid)
           /\ \A l \in 1..n : Covers(router.routes[l], query.ip, query.oid) => k <= l
           /\ Match(router, query.ip, query.oid)
                = RoutedBy(router.routes[k].target, router.routes[k].cidr)
  <2>1. PICK table, ip, oid : table = router /\ ip = query.ip /\ oid = query.oid
    OBVIOUS
  <2>2. n \in Nat /\ DOMAIN table.routes = 1..n
    BY <1>1, <1>4, <2>1
  <2>3. \/ /\ \A k \in 1..n : ~Covers(table.routes[k], ip, oid)
           /\ Match(table, ip, oid) = IF table.defaultTarget # NoTarget
                                      THEN RoutedBy(table.defaultTarget, NoCIDR)
                                      ELSE NotRouted
        \/ \E k \in 1..n :
             /\ Covers(table.routes[k], ip, oid)
             /\ \A l \in 1..n : Covers(table.routes[l], ip, oid) => k <= l
             /\ Match(table, ip, oid) = RoutedBy(table.routes[k].target, table.routes[k].cidr)
    BY <2>2, MatchTakesFirst
  <2>4. QED
    BY <2>1, <2>3
<1>9. QED
  BY <1>6, <1>7, <1>8

(* None of the bad routes is one LoadTrapRouter lets through.              *)
LEMMA BadRoutesAreInvalid ==
  ASSUME NEW r \in BadRoutes
  PROVE  ~ValidRoute(r)
<1>1. NoCIDR.form \notin {"v4", "v6", "mapped"}
  BY DEF NoCIDR
<1>2. ~validOID([arcs |-> "malformed", dotted |-> FALSE])
  BY DEF validOID
<1>3. [arcs |-> "malformed", dotted |-> FALSE] # NoOID
  BY DEF NoOID
<1>4. \/ r.cidr = NoCIDR
      \/ r.oid = [arcs |-> "malformed", dotted |-> FALSE]
      \/ r.target = NoTarget
  <2> DEFINE v4 == [form |-> "v4", prefix |-> <<0>>]
             malformed == [arcs |-> "malformed", dotted |-> FALSE]
  <2>1. \/ r = [cidr |-> NoCIDR, oid |-> NoOID, target |-> "ops"]
        \/ r = [cidr |-> v4, oid |-> malformed, target |-> "ops"]
        \/ r = [cidr |-> v4, oid |-> NoOID, target |-> NoTarget]
    BY Zenon DEF BadRoutes
  <2>2. r.cidr = NoCIDR \/ r.oid = malformed \/ r.target = NoTarget
    <3> HIDE DEF v4, malformed
    <3> QED BY <2>1
  <2>3. QED
    BY <2>2
<1>5. QED
  BY <1>1, <1>2, <1>3, <1>4, NoTargetAssumption DEF ValidRoute, validateHTTPURL

(* Loading a file sorts every valid route once and nothing else: the place *)
(* of a route is a bijection.                                              *)
LEMMA LoadKeepsEveryRoute ==
  ASSUME NEW n, AnyFile(file, n), Looked
  PROVE  WholeFileOrNothing
<1> SUFFICES ASSUME router.ok
             PROVE  /\ \A i \in DOMAIN file : file[i] \notin BadRoutes
                    /\ DOMAIN router.routes = DOMAIN file
                    /\ \A i \in DOMAIN router.routes :
                         /\ ValidRoute(router.routes[i])
                         /\ router.routes[i].oid = NoOID \/ router.routes[i].oid.dotted
                    /\ \A r \in GoodRoutes :
                         Cardinality({i \in DOMAIN file :
                                        NormalizeRoute(file[i]) = NormalizeRoute(r)})
                           = Cardinality({i \in DOMAIN router.routes :
                                            router.routes[i] = NormalizeRoute(r)})
  BY DEF WholeFileOrNothing
<1> DEFINE w == Normalized(file)
           from == From(w)
<1>1. n \in Nat /\ DOMAIN file = 1..n /\ \A i \in 1..n : file[i] \in AnyRoute
  BY DEF AnyFile
<1>2. LoadTrapRouter(file, defaultTarget).ok /\ router = LoadTrapRouter(file, defaultTarget)
  BY DEF Looked
<1>3. /\ router.routes = SliceStable(w) /\ Sortable(w, n)
      /\ \A i \in 1..n : ValidRoute(file[i]) /\ w[i] = NormalizeRoute(file[i])
  BY <1>2, LoadedFile
<1>4. /\ DOMAIN router.routes = 1..n /\ from \in [1..n -> 1..n]
      /\ \A k \in 1..n : router.routes[k] = w[from[k]] /\ Place(w, from[k]) = k
      /\ \A i \in 1..n : from[Place(w, i)] = i /\ Place(w, i) \in 1..n
  <2> HIDE DEF w
  <2> QED BY <1>3, StableSort, PlaceIsMonotone
<1>5. \A k \in 1..n : router.routes[k] = NormalizeRoute(file[from[k]])
  BY <1>3, <1>4
<1>6. ASSUME NEW k \in 1..n
      PROVE  /\ ValidRoute(router.routes[k])
             /\ router.routes[k].oid = NoOID \/ router.routes[k].oid.dotted
  <2>1. PICK i \in 1..n : i = from[k] /\ router.routes[k] = NormalizeRoute(file[i])
    BY <1>4, <1>5
  <2>2. ValidRoute(NormalizeRoute(file[i]))
    BY <1>1, <1>3, NormalizedRoute
  <2>3. \/ NormalizeRoute(file[i]).oid = NoOID
        \/ NormalizeRoute(file[i]).oid = [arcs |-> file[i].oid.arcs, dotted |-> TRUE]
    BY <1>1, NormalizedRoute
  <2>4. QED
    BY <2>1, <2>2, <2>3
<1>7. ASSUME NEW x
      PROVE  Cardinality({i \in DOMAIN file : NormalizeRoute(file[i]) = x})
               = Cardinality({k \in DOMAIN router.routes : router.routes[k] = x})
  <2> DEFINE S == {i \in 1..n : NormalizeRoute(file[i]) = x}
             T == {k \in 1..n : router.routes[k] = x}
             g == [k \in T |-> from[k]]
  <2>1. g \in Bijection(T, S)
    <3>1. g \in [T -> S]
      BY <1>4, <1>5
    <3>2. \A k, l \in T : g[k] = g[l] => k = l
      BY <1>4
    <3>3. ASSUME NEW i \in S
          PROVE  \E k \in T : g[k] = i
      <4>1. PICK k \in 1..n : k = Place(w, i) /\ from[k] = i
        BY <1>4
      <4>2. k \in T
        BY <1>5, <4>1
      <4>3. QED
        BY <4>1, <4>2
    <3>4. QED
      <4> HIDE DEF g, T, S
      <4> QED BY <3>1, <3>2, <3>3 DEF Bijection, Injection, Surjection, IsInjective
  <2>2. IsFiniteSet(T)
    <3>1. IsFiniteSet(1..n)
      BY <1>1, FS_Interval
    <3>2. T \in SUBSET (1..n)
      OBVIOUS
    <3>3. QED
      <4> HIDE DEF T
      <4> QED BY <3>1, <3>2, FS_Subset
  <2>3. Cardinality(S) = Cardinality(T)
    <3> HIDE DEF S, T, g
    <3> QED BY <2>1, <2>2, FS_Bijection DEF ExistsBijection
  <2>4. QED
    BY <1>1, <1>4, <2>3
<1>8. \A i \in DOMAIN file : file[i] \notin BadRoutes
  BY <1>1, <1>3, BadRoutesAreInvalid
<1>9. QED
  BY <1>1, <1>4, <1>6, <1>7, <1>8
-----------------------------------------------------------------------------
(* The job readLoop makes of a packet and a table, and the jobs of all     *)
(* packets the table routes.                                               *)
MatchOf(table, p) == Match(table, Decoded[p].source, extractTrapOID(Decoded[p]))
JobOf(table, p) ==
  [packet |-> p, target |-> MatchOf(table, p).target,
   payload |-> buildTrapPayload(Decoded[p], MatchOf(table, p).cidr)]
JobsOf(table) == {JobOf(table, p) : p \in {q \in TrapPackets : MatchOf(table, q).ok}}

(* Converting a varbind keeps its name and data, copies the bytes of a     *)
(* slice and leaves any other value alone.                                 *)
LEMMA Converted ==
  ASSUME NEW p \in TrapPackets, NEW i \in DOMAIN Decoded[p].varbinds
  PROVE  LET got == Decoded[p].varbinds[i]
         IN  /\ NormalizeOID(got.name) = got.name
             /\ convertSinglePDU(got).name = got.name
             /\ convertSinglePDU(got).value.data = got.value.data
             /\ convertSinglePDU(got).value.kind # "slice"
             /\ got.value.kind # "slice" => convertSinglePDU(got).value = got.value
<1> DEFINE got == Decoded[p].varbinds[i]
<1>1. got.name = Dotted(got.name.arcs) /\ got.value = [kind |-> got.value.kind, data |-> got.value.data]
  BY DecodedAssumption
<1>2. PICK arcs, kind, data : got.name = Dotted(arcs) /\ got.value = [kind |-> kind, data |-> data]
  BY <1>1
<1>3. NormalizeOID(Dotted(arcs)) = Dotted(arcs)
  <2>1. Dotted(arcs) \in [arcs : {arcs}, dotted : {TRUE}] /\ Dotted(arcs).arcs = arcs
    BY DEF Dotted
  <2> DEFINE q == Dotted(arcs)
  <2>2. NormalizeOID(q) \in [arcs : {arcs}, dotted : {TRUE}]
    <3> HIDE DEF q
    <3> QED BY <2>1 DEF NormalizeOID, q
  <2>3. NormalizeOID(q) = [arcs |-> arcs, dotted |-> TRUE]
    BY <2>2
  <2>4. QED
    BY <2>3 DEF Dotted
<1>4. [[kind |-> kind, data |-> data] EXCEPT !.kind = "text"] = [kind |-> "text", data |-> data]
  OBVIOUS
<1>5. QED
  <2> HIDE DEF got
  <2>1. /\ NormalizeOID(got.name) = got.name
        /\ convertSinglePDU(got).name = got.name
        /\ convertSinglePDU(got).value.data = got.value.data
        /\ convertSinglePDU(got).value.kind # "slice"
        /\ got.value.kind # "slice" => convertSinglePDU(got).value = got.value
    BY <1>2, <1>3, <1>4 DEF convertSinglePDU
  <2>2. QED
    BY <2>1 DEF got

(* So the varbinds of a payload are those of the packet, and encoding it   *)
(* finds no slice whose bytes it would read from the buffer.               *)
LEMMA PayloadVarbinds ==
  ASSUME NEW p \in TrapPackets, NEW cidr
  PROVE  LET sent == buildTrapPayload(Decoded[p], cidr).varbinds
         IN  /\ sent = [i \in DOMAIN Decoded[p].varbinds |-> convertSinglePDU(Decoded[p].varbinds[i])]
             /\ \A i \in DOMAIN Decoded[p].varbinds :
                  sent[i] = convertSinglePDU(Decoded[p].varbinds[i])
             /\ \A i \in DOMAIN sent : sent[i].value.kind # "slice"
BY Converted DEF buildTrapPayload

(* Encoding a payload shows it as it was built, whatever is in the buffer. *)
LEMMA EncodedAsBuilt ==
  ASSUME NEW p \in TrapPackets, NEW cidr
  PROVE  Encode(buildTrapPayload(Decoded[p], cidr)) = buildTrapPayload(Decoded[p], cidr)
<1> DEFINE payload == buildTrapPayload(Decoded[p], cidr)
           sent == payload.varbinds
<1>1. \A i \in DOMAIN sent : sent[i].value.kind # "slice"
  BY PayloadVarbinds
<1>2. sent = [i \in DOMAIN sent |-> sent[i]]
  <2>1. sent = [i \in DOMAIN Decoded[p].varbinds |-> convertSinglePDU(Decoded[p].varbinds[i])]
    BY PayloadVarbinds
  <2>2. QED
    <3> HIDE DEF sent, payload
    <3> QED BY <2>1
<1>3. payload = [source |-> payload.source, cidr |-> payload.cidr, version |-> payload.version,
                 varbinds |-> sent, trapOID |-> payload.trapOID, uptime |-> payload.uptime]
  BY DEF buildTrapPayload
<1>4. [i \in DOMAIN sent |-> IF sent[i].value.kind # "slice" THEN sent[i]
                             ELSE [sent[i] EXCEPT !.value = [kind |-> "text", data |-> Dotted(buffer)]]]
        = sent
  <2> HIDE DEF sent
  <2> QED BY <1>1, <1>2
<1>5. [payload EXCEPT !.varbinds = sent] = payload
  <2> HIDE DEF payload
  <2> QED BY <1>3
<1>6. QED
  BY <1>4, <1>5 DEF Encode

(* So a worker posts a job with the payload it was queued with.            *)
LEMMA PostedAsQueued ==
  ASSUME NEW job \in JobsOf(router)
  PROVE  [job EXCEPT !.payload = Encode(@)] = job
<1>1. PICK p \in TrapPackets : job = JobOf(router, p)
  BY DEF JobsOf
<1>2. Encode(job.payload) = job.payload
  BY <1>1, EncodedAsBuilt DEF JobOf
<1>3. job = [packet |-> job.packet, target |-> job.target, payload |-> job.payload]
  BY <1>1 DEF JobOf
<1>4. QED
  BY <1>2, <1>3

(* What Match returns says whether there is a target.                      *)
LEMMA MatchIsRoutedBy ==
  ASSUME NEW table, NEW ip, NEW oid, Match(table, ip, oid).ok
  PROVE  RoutedBy(Match(table, ip, oid).target, Match(table, ip, oid).cidr) = Match(table, ip, oid)
BY DEF Match, RoutedBy, NotRouted

(* A well-formed trap is reported with the trap OID it was routed by, and  *)
(* has none exactly if it does not say what happened.                      *)
LEMMA OneTrapOID ==
  ASSUME NEW p \in TrapPackets, WellFormed(p), NEW cidr
  PROVE  /\ buildTrapPayload(Decoded[p], cidr).trapOID = extractTrapOID(Decoded[p])
         /\ extractTrapOID(Decoded[p]) = NoOID <=> Unidentified(p)
<1> DEFINE packet == Decoded[p]
           varbinds == packet.varbinds
           sent == [i \in DOMAIN varbinds |-> convertSinglePDU(varbinds[i])]
           told == buildTrapPayload(packet, cidr).trapOID
           last == LastNamed(sent, snmpTrapOID, NoUptime)
<1>1. /\ DOMAIN sent = DOMAIN varbinds
      /\ \A i \in DOMAIN varbinds :
           /\ NormalizeOID(varbinds[i].name) = varbinds[i].name
           /\ sent[i].name = varbinds[i].name
           /\ varbinds[i].value.kind # "slice" => sent[i].value = varbinds[i].value
  BY Converted
<1>2. /\ {i \in DOMAIN varbinds : NormalizeOID(varbinds[i].name) = snmpTrapOID} = Named(packet)
      /\ {i \in DOMAIN sent : sent[i].name = snmpTrapOID} = Named(packet)
  BY <1>1 DEF Named
<1>3. DOMAIN varbinds = 1..Len(varbinds) /\ Len(varbinds) \in Nat
  BY DecodedAssumption
<1>4. told = IF packet.version = "1" /\ ~(\E i \in DOMAIN sent : sent[i].name = snmpTrapOID)
             THEN v1TrapOID(packet) ELSE normalizeTrapOIDValue(last)
  BY DEF buildTrapPayload
<1>5. CASE packet.version = "1"
  <2>1. Named(packet) = {}
    BY <1>5 DEF WellFormed
  <2>2. told = v1TrapOID(packet) /\ extractTrapOID(packet) = v1TrapOID(packet)
    <3>1. extractTrapOID(packet) = v1TrapOID(packet)
      BY <1>5 DEF extractTrapOID
    <3>2. ~(\E i \in DOMAIN sent : sent[i].name = snmpTrapOID)
      BY <1>2, <2>1
    <3>3. QED
      <4> HIDE DEF sent, told
      <4> QED BY <1>4, <1>5, <3>1, <3>2
  <2>3. v1TrapOID(packet) = NoOID <=> Unidentified(p)
    <3>1. \A arcs : Dotted(arcs) # NoOID
      BY DEF Dotted, NoOID
    <3>2. CASE packet.generic \in 0..5
      <4>1. v1TrapOID(packet) = Dotted(StandardTraps[packet.generic + 1])
        BY <3>2 DEF v1TrapOID
      <4>2. packet.generic \in 0..6 /\ packet.generic # 6
        BY <3>2
      <4>3. QED
        BY <1>5, <3>1, <4>1, <4>2 DEF Unidentified
    <3>3. CASE packet.generic = 6 /\ validOID(packet.enterprise)
      <4>1. v1TrapOID(packet) = Dotted(SpecificTrap(packet.enterprise.arcs, packet.specific))
        BY <3>3 DEF v1TrapOID
      <4>2. packet.generic \in 0..6
        BY <3>3
      <4>3. QED
        BY <1>5, <3>1, <3>3, <4>1, <4>2 DEF Unidentified
    <3>4. CASE packet.generic \notin 0..5 /\ ~(packet.generic = 6 /\ validOID(packet.enterprise))
      <4>1. v1TrapOID(packet) = NoOID
        BY <3>4 DEF v1TrapOID
      <4>2. packet.generic \notin 0..6 \/ packet.generic = 6
        BY <3>4
      <4>3. QED
        BY <1>5, <3>4, <4>1, <4>2 DEF Unidentified
    <3>5. QED
      BY <3>2, <3>3, <3>4
  <2>4. QED
    BY <2>2, <2>3
<1>6. CASE packet.version # "1" /\ Named(packet) = {}
  <2>1. extractTrapOID(packet) = NoOID
    BY <1>2, <1>6 DEF extractTrapOID
  <2>2. last = NoUptime
    <3> HIDE DEF sent
    <3> QED BY <1>2, <1>6 DEF LastNamed
  <2>3. told = normalizeTrapOIDValue(NoUptime)
    <3> HIDE DEF sent, last, told
    <3> QED BY <1>4, <1>6, <2>2
  <2>4. normalizeTrapOIDValue(NoUptime) = NoOID
    BY DEF normalizeTrapOIDValue, NoUptime
  <2>5. Unidentified(p)
    BY <1>6 DEF Unidentified
  <2>6. QED
    BY <2>1, <2>3, <2>4, <2>5
<1>7. CASE packet.version # "1" /\ Named(packet) # {}
  <2>1. PICK i \in Named(packet) :
          /\ Named(packet) = {i} /\ varbinds[i].value.kind = "oid" /\ validOID(varbinds[i].value.data)
    BY <1>7 DEF WellFormed
  <2>2. i \in 1..Len(varbinds) /\ i \in Nat
    BY <1>3 DEF Named
  <2>3. Min({i}) = i /\ Max({i}) = i
    <3>1. {i} \in SUBSET Nat /\ {i} \in SUBSET (1..Len(varbinds)) /\ {i} # {}
      BY <2>2
    <3>2. Min({i}) \in {i}
      BY <3>1, LeastElement
    <3>3. Max({i}) \in {i}
      BY <1>3, <3>1, GreatestElement
    <3>4. QED
      BY <3>2, <3>3
  <2>4. extractTrapOID(packet) = normalizeTrapOIDValue(varbinds[i].value)
    BY <1>2, <1>7, <2>1, <2>3 DEF extractTrapOID
  <2>5. last = varbinds[i].value
    <3>1. last = sent[i].value
      <4> HIDE DEF sent
      <4> QED BY <1>2, <2>1, <2>3 DEF LastNamed
    <3>2. sent[i].value = varbinds[i].value
      BY <1>1, <1>3, <2>1, <2>2
    <3>3. QED
      BY <3>1, <3>2
  <2>6. told = normalizeTrapOIDValue(varbinds[i].value)
    <3> HIDE DEF sent, last, told
    <3> QED BY <1>4, <1>7, <2>5
  <2>7. normalizeTrapOIDValue(varbinds[i].value) = NormalizeOID(varbinds[i].value.data)
    BY <2>1 DEF normalizeTrapOIDValue
  <2>8. ASSUME NEW oid, validOID(oid) PROVE NormalizeOID(oid) # NoOID
    BY <2>8 DEF validOID, NormalizeOID, NoOID
  <2>9. ~Unidentified(p)
    BY <1>7 DEF Unidentified
  <2>10. QED
    BY <2>1, <2>4, <2>6, <2>7, <2>8, <2>9
<1>8. QED
  BY <1>5, <1>6, <1>7
(* The OID in a varbind of the packet, as it came or converted, is one the *)
(* packet claims, or none.                                                 *)
LEMMA ValueIsClaimed ==
  ASSUME NEW p \in TrapPackets, NEW i \in Named(Decoded[p])
  PROVE  LET vb == Decoded[p].varbinds[i]
         IN  /\ normalizeTrapOIDValue(vb.value) \in NamedClaims(Decoded[p]) \cup {NoOID}
             /\ normalizeTrapOIDValue(convertSinglePDU(vb).value)
                  \in NamedClaims(Decoded[p]) \cup {NoOID}
<1> DEFINE packet == Decoded[p]
           vb == packet.varbinds[i]
<1>1. i \in DOMAIN packet.varbinds
  BY DEF Named
<1>2. \A value : \/ normalizeTrapOIDValue(value) = NoOID
                \/ /\ value.kind \in {"oid", "text"} /\ validOID(value.data)
                   /\ normalizeTrapOIDValue(value) = NormalizeOID(value.data)
  BY DEF normalizeTrapOIDValue
<1>3. vb.value.kind \in {"oid", "text", "slice"} /\ validOID(vb.value.data)
        => NormalizeOID(vb.value.data) \in NamedClaims(packet)
  <2>1. i \in Named(packet)
    OBVIOUS
  <2>2. QED
    <3> HIDE DEF packet
    <3> QED BY <2>1 DEF NamedClaims
<1> DEFINE converted == convertSinglePDU(vb).value
<1>4. /\ converted.data = vb.value.data
      /\ vb.value.kind # "slice" => converted = vb.value
  BY <1>1, Converted
<1>5. /\ normalizeTrapOIDValue(vb.value) \in NamedClaims(packet) \cup {NoOID}
      /\ normalizeTrapOIDValue(converted) \in NamedClaims(packet) \cup {NoOID}
  <2> HIDE DEF vb, converted, packet
  <2>1. normalizeTrapOIDValue(vb.value) \in NamedClaims(packet) \cup {NoOID}
    BY <1>2, <1>3
  <2>2. CASE vb.value.kind # "slice"
    BY <1>4, <2>1, <2>2
  <2>3. CASE vb.value.kind = "slice"
    BY <1>2, <1>3, <1>4, <2>3
  <2>4. QED
    BY <2>1, <2>2, <2>3
<1>6. QED
  BY <1>5

(* Whatever the varbinds of a packet, its payload reports a trap OID the   *)
(* packet claims, or none, and so does extractTrapOID, from the native     *)
(* fields of a v1 trap and from the varbinds of any other.                 *)
LEMMA ClaimedTrapOIDs ==
  ASSUME NEW p \in TrapPackets, NEW cidr
  PROVE  LET packet == Decoded[p]
         IN  /\ buildTrapPayload(packet, cidr).trapOID
                  \in NamedClaims(packet) \cup NativeClaims(packet) \cup {NoOID}
             /\ extractTrapOID(packet)
                  \in (IF packet.version = "1" THEN NativeClaims(packet)
                       ELSE NamedClaims(packet) \cup {NoOID})
<1> DEFINE packet == Decoded[p]
           varbinds == packet.varbinds
           sent == [i \in DOMAIN varbinds |-> convertSinglePDU(varbinds[i])]
           told == buildTrapPayload(packet, cidr).trapOID
           last == LastNamed(sent, snmpTrapOID, NoUptime)
<1>1. /\ DOMAIN sent = DOMAIN varbinds
      /\ \A i \in DOMAIN varbinds :
           NormalizeOID(varbinds[i].name) = varbinds[i].name /\ sent[i].name = varbinds[i].name
  BY Converted
<1>2. /\ {i \in DOMAIN varbinds : NormalizeOID(varbinds[i].name) = snmpTrapOID} = Named(packet)
      /\ {i \in DOMAIN sent : sent[i].name = snmpTrapOID} = Named(packet)
  BY <1>1 DEF Named
<1>3. Named(packet) \in SUBSET (1..Len(varbinds)) /\ Len(varbinds) \in Nat
  BY DecodedAssumption DEF Named
<1>4. told = IF packet.version = "1" /\ ~(\E i \in DOMAIN sent : sent[i].name = snmpTrapOID)
             THEN v1TrapOID(packet) ELSE normalizeTrapOIDValue(last)
  BY DEF buildTrapPayload
<1>5. normalizeTrapOIDValue(last) \in NamedClaims(packet) \cup {NoOID}
  <2>1. CASE Named(packet) = {}
    <3>1. last = NoUptime
      <4> HIDE DEF sent
      <4> QED BY <1>2, <2>1 DEF LastNamed
    <3>2. normalizeTrapOIDValue(NoUptime) = NoOID
      BY DEF normalizeTrapOIDValue, NoUptime
    <3>3. QED
      BY <3>1, <3>2
  <2>2. CASE Named(packet) # {}
    <3>1. PICK i \in Named(packet) : i = Max(Named(packet))
      BY <1>3, <2>2, GreatestElement
    <3>2. last = sent[i].value /\ i \in DOMAIN varbinds
      <4> HIDE DEF sent
      <4> QED BY <1>2, <2>2, <3>1 DEF LastNamed, Named
    <3>3. normalizeTrapOIDValue(convertSinglePDU(varbinds[i]).value)
            \in NamedClaims(packet) \cup {NoOID}
      BY ValueIsClaimed
    <3>4. QED
      BY <3>2, <3>3
  <2>3. QED
    BY <2>1, <2>2
<1>6. told \in NamedClaims(packet) \cup NativeClaims(packet) \cup {NoOID}
  <2> HIDE DEF told, last, sent, packet
  <2> QED BY <1>4, <1>5 DEF NativeClaims
<1>7. CASE packet.version = "1"
  <2>1. extractTrapOID(packet) = v1TrapOID(packet)
    BY <1>7 DEF extractTrapOID
  <2>2. QED
    BY <1>6, <1>7, <2>1 DEF NativeClaims
<1>8. CASE packet.version # "1" /\ Named(packet) = {}
  <2>1. extractTrapOID(packet) = NoOID
    BY <1>2, <1>8 DEF extractTrapOID
  <2>2. QED
    BY <1>6, <1>8, <2>1
<1>9. CASE packet.version # "1" /\ Named(packet) # {}
  <2>1. PICK i \in Named(packet) : i = Min(Named(packet))
    <3>1. Named(packet) \in SUBSET Nat
      BY <1>3
    <3>2. QED
      BY <1>9, <3>1, LeastElement
  <2>2. extractTrapOID(packet) = normalizeTrapOIDValue(varbinds[i].value)
    BY <1>2, <1>9, <2>1 DEF extractTrapOID
  <2>3. normalizeTrapOIDValue(varbinds[i].value) \in NamedClaims(packet) \cup {NoOID}
    BY ValueIsClaimed
  <2>4. QED
    BY <1>6, <1>9, <2>2, <2>3
<1>10. QED
  BY <1>7, <1>8, <1>9
-----------------------------------------------------------------------------
(* The inductive invariant: the table is that of the file, a lookup is one *)
(* of that table, and every job, waiting or posted, is the one its packet  *)
(* and the table give.                                                     *)
RoutingInv ==
  /\ \E n : AnyFile(file, n)
  /\ Looked
  /\ ~router.ok => jobs = <<>> /\ posted = <<>>
  /\ jobs \in Seq(JobsOf(router))
  /\ posted # <<>> => posted[1] \in JobsOf(router)

(* The files the runs start with are files of decoded routes, and nothing  *)
(* was looked up or queued.                                                *)
LEMMA RoutingInit == Init => RoutingInv
<1> SUFFICES ASSUME Init PROVE RoutingInv
  OBVIOUS
<1>1. \E n : AnyFile(file, n)
  <2>1. (GoodRoutes \cup BadRoutes) \in SUBSET AnyRoute
    <3>1. \A cidr \in CIDRs : cidr \in AnyCIDR
      <4>1. <<>> \in Seq({0, 1}) /\ <<0>> \in Seq({0, 1}) /\ <<0, 1>> \in Seq({0, 1})
        OBVIOUS
      <4>2. QED
        BY <4>1 DEF CIDRs, AnyCIDR
    <3>2. \A oid \in OIDs : oid \in AnyOID
      <4>1. NoOID \in AnyOID
        BY Zenon DEF AnyOID, Arcs, NoOID
      <4>2. Linkdown(FALSE) \in AnyOID
        BY Zenon DEF AnyOID, Arcs, Linkdown
      <4>3. QED
        BY <4>1, <4>2 DEF OIDs
    <3>3. \A r \in GoodRoutes : r \in AnyRoute
      BY <3>1, <3>2 DEF GoodRoutes, AnyRoute
    <3>4. \A r \in BadRoutes : r \in AnyRoute
      <4>1. NoCIDR \in AnyCIDR
        <5>1. <<>> \in Seq({0, 1}) /\ "none" \in Forms \cup {"v4", "none"}
          OBVIOUS
        <5>2. QED
          BY <5>1 DEF AnyCIDR, NoCIDR
      <4>2. [form |-> "v4", prefix |-> <<0>>] \in AnyCIDR
        <5>1. <<0>> \in Seq({0, 1}) /\ "v4" \in Forms \cup {"v4", "none"}
          OBVIOUS
        <5>2. QED
          BY <5>1 DEF AnyCIDR
      <4>3. NoOID \in AnyOID
        BY Zenon DEF AnyOID, Arcs, NoOID
      <4>4. [arcs |-> "malformed", dotted |-> FALSE] \in AnyOID
        BY Zenon DEF AnyOID, Arcs
      <4>5. \A cidr \in AnyCIDR, oid \in AnyOID, target \in {"ops", NoTarget} :
              [cidr |-> cidr, oid |-> oid, target |-> target] \in AnyRoute
        BY DEF AnyRoute
      <4>6. QED
        <5>1. \A cidr, oid : oid \in AnyOID /\ cidr \in AnyCIDR =>
                /\ [cidr |-> cidr, oid |-> oid, target |-> "ops"] \in AnyRoute
                /\ [cidr |-> cidr, oid |-> oid, target |-> NoTarget] \in AnyRoute
          BY <4>5
        <5>2. QED
          BY <4>1, <4>2, <4>3, <4>4, <5>1, Zenon DEF BadRoutes
    <3>5. QED
      BY <3>3, <3>4
  <2>2. PICK n \in 0..MaxRoutes : file \in [1..n -> GoodRoutes \cup BadRoutes]
    BY DEF Init, Files, BoundedSeq, SeqOf
  <2>3. n \in Nat
    BY <2>2, MaxRoutesAssumption
  <2>4. QED
    BY <2>1, <2>2, <2>3 DEF AnyFile
<1>2. QED
  BY <1>1 DEF Init, RoutingInv, Looked, NotLoaded, NoQuery

(* Load, Lookup, Receive and Post keep it.                                 *)
LEMMA RoutingStep == RoutingInv /\ [Next]_vars => RoutingInv'
<1> SUFFICES ASSUME RoutingInv, [Next]_vars PROVE RoutingInv'
  OBVIOUS
<1>1. CASE UNCHANGED vars
  BY <1>1 DEF RoutingInv, Looked, AnyFile, vars
<1>2. CASE Load
  <2>1. router.ok = FALSE /\ jobs = <<>> /\ posted = <<>> /\ ~query.asked
    BY <1>2 DEF Load, NotLoaded, RoutingInv, Looked
  <2>2. QED
    BY <1>2, <2>1 DEF Load, RoutingInv, Looked, AnyFile
<1>3. CASE Lookup
  <2>1. PICK ip \in Sources, oid \in TrapOIDs :
          query' = [asked |-> TRUE, ip |-> ip, oid |-> oid, hit |-> Match(router, ip, oid)]
    BY <1>3 DEF Lookup
  <2>2. TrapOIDForm(oid)
    <3>1. CASE oid = NoOID
      BY <3>1, Zenon DEF TrapOIDForm
    <3>2. CASE oid = Linkdown(TRUE)
      BY <3>2 DEF TrapOIDForm, Linkdown
    <3>3. CASE oid = [arcs |-> "linkUp", dotted |-> TRUE]
      BY <3>3 DEF TrapOIDForm
    <3>4. QED
      BY <3>1, <3>2, <3>3 DEF TrapOIDs
  <2>3. Looked'
    BY <1>3, <2>1, <2>2 DEF Lookup, Looked, RoutingInv, TrapOIDForm
  <2>4. QED
    BY <1>3, <2>3 DEF Lookup, RoutingInv, AnyFile
<1>4. CASE Receiving
  <2>1. router' = router /\ file' = file /\ router.ok /\ Looked' /\ (\E n : AnyFile(file, n))'
    BY <1>4 DEF Receiving, RoutingInv, Looked, Traffic, Post, Receive, AnyFile
  <2>2. /\ jobs' \in Seq(JobsOf(router))
        /\ posted' # <<>> => posted'[1] \in JobsOf(router)
    <3>1. CASE Post
      <4>1. Head(jobs) \in JobsOf(router) /\ Tail(jobs) \in Seq(JobsOf(router))
        BY <3>1 DEF Post, RoutingInv
      <4>2. posted' = <<Head(jobs)>>
        BY <3>1, <4>1, PostedAsQueued DEF Post
      <4>3. QED
        BY <3>1, <4>1, <4>2 DEF Post
    <3>2. ASSUME NEW p \in TrapPackets, Receive(p)
          PROVE  jobs' \in Seq(JobsOf(router)) /\ posted' = posted
      <4>1. jobs' = IF MatchOf(router, p).ok THEN Append(jobs, JobOf(router, p)) ELSE jobs
        BY <3>2 DEF Receive, MatchOf, JobOf
      <4>2. MatchOf(router, p).ok => JobOf(router, p) \in JobsOf(router)
        BY DEF JobsOf
      <4>3. posted' = posted /\ jobs \in Seq(JobsOf(router))
        BY <3>2 DEF Receive, RoutingInv
      <4>4. QED
        BY <4>1, <4>2, <4>3
    <3>3. QED
      BY <1>4, <3>1, <3>2 DEF Receiving, Traffic, RoutingInv
  <2>3. QED
    BY <2>1, <2>2 DEF RoutingInv
<1>5. QED
  BY <1>1, <1>2, <1>3, <1>4 DEF Next

(* It holds throughout.                                                    *)
LEMMA RoutingAlways == Spec => []RoutingInv
BY RoutingInit, RoutingStep, PTL DEF Spec

(* Whatever the route file, LoadTrapRouter refuses it if one of its routes *)
(* is bad, and otherwise sorts all of them, each dotted and as often as    *)
(* the file has it.                                                        *)
THEOREM FilesLoadWhole == Spec => []WholeFileOrNothing
<1>1. RoutingInv => WholeFileOrNothing
  BY LoadKeepsEveryRoute DEF RoutingInv
<1>2. QED
  BY <1>1, RoutingAlways, PTL

(* Match selects the longest prefix, then a route for the trap OID, then   *)
(* the first in the file: for files in which no IPv4 network is written in *)
(* its IPv4-mapped form, whose prefix length counts 96 bits more.          *)
THEOREM LongestPrefixAlwaysWins ==
  ASSUME "mapped" \notin Forms
  PROVE  Spec => []LongestPrefixWins
<1>1. RoutingInv => LongestPrefixWins
  <2> SUFFICES ASSUME RoutingInv PROVE LongestPrefixWins
    OBVIOUS
  <2>1. PICK n : AnyFile(file, n)
    BY DEF RoutingInv
  <2>2. \A i \in 1..n : file[i].cidr.form # "mapped"
    BY <2>1 DEF AnyFile, AnyRoute, AnyCIDR
  <2>3. QED
    BY <2>1, <2>2, FirstHitIsBest DEF RoutingInv
<1>2. QED
  BY <1>1, RoutingAlways, PTL

(* What a webhook gets is what the packet held, however many packets came  *)
(* into the reader's buffer while the job waited in the channel.           *)
THEOREM PostsShowTheirPacket == Spec => []PostedAsReceived
<1>1. RoutingInv => PostedAsReceived
  <2> SUFFICES ASSUME RoutingInv, posted # <<>> PROVE PostedAsReceived
    BY DEF PostedAsReceived
  <2>1. PICK p \in TrapPackets : posted[1] = JobOf(router, p)
    BY DEF RoutingInv, JobsOf
  <2>2. posted[1].packet = p
        /\ posted[1].payload = buildTrapPayload(Decoded[p], MatchOf(router, p).cidr)
    BY <2>1 DEF JobOf
  <2>3. ASSUME NEW i \in DOMAIN Decoded[p].varbinds
        PROVE  LET sent == posted[1].payload.varbinds[i] got == Decoded[p].varbinds[i]
               IN  sent.name = got.name /\ sent.value.data = got.value.data
    <3>1. buildTrapPayload(Decoded[p], MatchOf(router, p).cidr).varbinds[i]
            = convertSinglePDU(Decoded[p].varbinds[i])
      <4>1. PICK cidr : cidr = MatchOf(router, p).cidr
        OBVIOUS
      <4>2. buildTrapPayload(Decoded[p], cidr).varbinds[i] = convertSinglePDU(Decoded[p].varbinds[i])
        BY PayloadVarbinds
      <4>3. QED
        BY <4>1, <4>2
    <3>2. QED
      BY <2>2, <3>1, Converted
  <2>4. QED
    BY <2>2, <2>3 DEF PostedAsReceived
<1>2. QED
  BY <1>1, RoutingAlways, PTL

(* In any table and for any packet: the webhook a well-formed trap goes to *)
(* is the one the routes give for what its payload says, and the trap OIDs *)
(* any other is routed by and reported with are ones it claims, or none.   *)
THEOREM ReportsAgreeWithRoutes == Spec => []ReportedAsRouted
<1>1. RoutingInv => ReportedAsRouted
  <2> SUFFICES ASSUME RoutingInv, posted # <<>> PROVE ReportedAsRouted
    BY DEF ReportedAsRouted
  <2>1. PICK p \in TrapPackets : MatchOf(router, p).ok /\ posted[1] = JobOf(router, p)
    BY DEF RoutingInv, JobsOf
  <2> DEFINE match == MatchOf(router, p)
             told == buildTrapPayload(Decoded[p], match.cidr)
             RoutedAs(oid) == RoutedBy(match.target, told.cidr) = Match(router, told.source, oid)
  <2>2. posted[1].packet = p /\ posted[1].payload = told /\ posted[1].target = match.target
    BY <2>1 DEF JobOf
  <2>3. told.cidr = match.cidr /\ told.source = Decoded[p].source
    BY DEF buildTrapPayload
  <2>4. RoutedAs(extractTrapOID(Decoded[p]))
    <3>1. RoutedBy(match.target, match.cidr) = match
      BY <2>1, MatchIsRoutedBy DEF MatchOf
    <3>2. match = Match(router, told.source, extractTrapOID(Decoded[p]))
      BY <2>3 DEF MatchOf
    <3>3. QED
      <4> HIDE DEF told, match
      <4> QED BY <2>3, <3>1, <3>2
  <2>5. WellFormed(p) => RoutedAs(told.trapOID) /\ (told.trapOID = NoOID <=> Unidentified(p))
    <3>1. WellFormed(p) => /\ told.trapOID = extractTrapOID(Decoded[p])
                           /\ told.trapOID = NoOID <=> Unidentified(p)
      BY OneTrapOID
    <3>2. QED
      <4> HIDE DEF told, match
      <4> QED BY <2>4, <3>1
  <2>6. /\ told.trapOID \in NamedClaims(Decoded[p]) \cup NativeClaims(Decoded[p]) \cup {NoOID}
        /\ \E oid \in (IF Decoded[p].version = "1" THEN NativeClaims(Decoded[p])
                       ELSE NamedClaims(Decoded[p]) \cup {NoOID}) : RoutedAs(oid)
    <3>1. told.trapOID \in NamedClaims(Decoded[p]) \cup NativeClaims(Decoded[p]) \cup {NoOID}
      BY ClaimedTrapOIDs
    <3>2. extractTrapOID(Decoded[p])
            \in (IF Decoded[p].version = "1" THEN NativeClaims(Decoded[p])
                 ELSE NamedClaims(Decoded[p]) \cup {NoOID})
      BY ClaimedTrapOIDs
    <3>3. QED
      <4> HIDE DEF RoutedAs, told
      <4> QED BY <2>4, <3>1, <3>2
  <2>7. QED
    <3> HIDE DEF told, match
    <3> QED BY <2>2, <2>5, <2>6 DEF ReportedAsRouted
<1>2. QED
  BY <1>1, RoutingAlways, PTL
=============================================================================
