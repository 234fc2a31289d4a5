----------------------------- MODULE TrapRouter -----------------------------
(***************************************************************************)
(* The trap routing table of internal/gateway/traps.go: how a route file   *)
(* is validated, normalised and sorted when the service starts, and how a  *)
(* trap's source address and trap OID select one route afterwards.  Pure   *)
(* operators: the table never changes after start-up.                      *)
(*                                                                         *)
(*   address   [family |-> "v4" | "v6", bits |-> sequence over {0,1}]      *)
(*   CIDR      [form |-> "v4" | "v6" | "mapped" | ..., prefix |-> bits]    *)
(*             "mapped" is an IPv4 network written as ::ffff:a.b.c.d/n     *)
(*             with n >= 96, its prefix the n - 96 bits of the IPv4 part;  *)
(*             any other form stands for text net.ParseCIDR refuses        *)
(*   OID       [arcs |-> name, dotted |-> has a leading dot]               *)
(*   route     [cidr, oid, target]                                         *)
(***************************************************************************)
EXTENDS Naturals, FiniteSets, SequencesExt

CONSTANTS HTTPTargets,   \* target URLs validateHTTPURL accepts
          NoTarget       \* the empty target URL
ASSUME NoTargetAssumption == NoTarget \notin HTTPTargets

NoOID  == [arcs |-> "none", dotted |-> FALSE]     \* the empty string
NoCIDR == [form |-> "none", prefix |-> <<>>]      \* label of the default target

validOID(oid) == oid.arcs \notin {"none", "malformed"}

NormalizeOID(oid) == [oid EXCEPT !.dotted = TRUE]

NormalizeRoute(route) ==
  [route EXCEPT !.oid = IF @ = NoOID THEN @ ELSE NormalizeOID(@)]

validateHTTPURL(url) == url \in HTTPTargets

ValidRoute(route) ==
  /\ route.cidr.form \in {"v4", "v6", "mapped"}
  /\ validateHTTPURL(route.target)
  /\ route.oid = NoOID \/ validOID(route.oid)

(* network.Mask.Size(): a mapped network counts the 96 bits before it. *)
MappedBits == 96
prefixBits(route) ==
  Len(route.cidr.prefix) + (IF route.cidr.form = "mapped" THEN MappedBits ELSE 0)

(* The comparison handed to sort.SliceStable. *)
Less_PrefixOnly(r1, r2) ==        \* mutant: trap OIDs do not order routes
  prefixBits(r1) > prefixBits(r2)

Less(r1, r2) ==
  IF prefixBits(r1) = prefixBits(r2)
  THEN r1.oid # NoOID /\ r2.oid = NoOID
  ELSE prefixBits(r1) > prefixBits(r2)

(* A stable sort: element i moves behind exactly the elements that precede *)
(* it, those that are less and those that are equal and stood before it.   *)
Precedes(routes, i, j) ==
  \/ Less(routes[i], routes[j])
  \/ ~Less(routes[j], routes[i]) /\ i < j

SliceStable(routes) ==
  LET Rank(i) == 1 + Cardinality({j \in DOMAIN routes : Precedes(routes, j, i)})
  IN  [k \in DOMAIN routes |-> routes[CHOOSE i \in DOMAIN routes : Rank(i) = k]]

LoadTrapRouter_SkipBad(file, defaultTarget) ==   \* mutant: a bad route is passed over
  LET good == SelectSeq(file, ValidRoute)
  IN  [ok            |-> defaultTarget = NoTarget \/ validateHTTPURL(defaultTarget),
       routes        |-> SliceStable([i \in DOMAIN good |-> NormalizeRoute(good[i])]),
       defaultTarget |-> defaultTarget]

(* LoadTrapRouter returns an error (ok = FALSE) or a usable router. *)
LoadTrapRouter(file, defaultTarget) ==
  LET ok == /\ defaultTarget = NoTarget \/ validateHTTPURL(defaultTarget)
            /\ \A i \in DOMAIN file : ValidRoute(file[i])
  IN  [ok            |-> ok,
       routes        |-> IF ok
                         THEN SliceStable([i \in DOMAIN file |-> NormalizeRoute(file[i])])
                         ELSE <<>>,
       defaultTarget |-> defaultTarget]

(* net.IPNet.Contains: a mapped network contains IPv4 addresses only. *)
NetContains(cidr, ip) ==
  /\ ip.family = "v4" <=> cidr.form \in {"v4", "mapped"}
  /\ IsPrefix(cidr.prefix, ip.bits)

Covers(route, ip, trapOID) ==
  /\ NetContains(route.cidr, ip)
  /\ route.oid = NoOID \/ route.oid = trapOID

NotRouted == [ok |-> FALSE, target |-> NoTarget, cidr |-> NoCIDR]
RoutedBy(target, cidr) == [ok |-> TRUE, target |-> target, cidr |-> cidr]

(* TrapRouter.Match: the first covering route in table order. *)
Match(router, ip, trapOID) ==
  LET hits  == {i \in DOMAIN router.routes : Covers(router.routes[i], ip, trapOID)}
      first == router.routes[CHOOSE i \in hits : \A j \in hits : i <= j]
  IN  IF hits # {} THEN RoutedBy(first.target, first.cidr)
      ELSE IF router.defaultTarget # NoTarget
           THEN RoutedBy(router.defaultTarget, NoCIDR)
           ELSE NotRouted
=============================================================================
