---------------------------- MODULE MCTrapRouter ----------------------------
(***************************************************************************)
(* Bounded checking of TrapRouter: every route file of at most MaxRoutes   *)
(* routes over a small address space is loaded, then looked up; with one   *)
(* of them loaded, traps of every kind the reader tells apart come in, two *)
(* of them on their way to a worker.                                       *)
(***************************************************************************)
EXTENDS TrapPayload

CONSTANTS MaxRoutes,    \* bound on the length of a route file
          Forms         \* forms of CIDR the route files may contain
ASSUME MaxRoutesAssumption == MaxRoutes \in Nat \ {0}

Linkdown(dotted) == [arcs |-> "linkDown", dotted |-> dotted]
OIDs == {NoOID, Linkdown(FALSE)}
CIDRs == [form : Forms, prefix : {<<>>, <<0>>, <<0, 1>>}]

GoodRoutes == [cidr : CIDRs, oid : OIDs, target : HTTPTargets]
BadRoutes ==
  LET cidr == [form |-> "v4", prefix |-> <<0>>]
  IN  {[cidr |-> NoCIDR, oid |-> NoOID, target |-> "ops"],
       [cidr |-> cidr, oid |-> [arcs |-> "malformed", dotted |-> FALSE], target |-> "ops"],
       [cidr |-> cidr, oid |-> NoOID, target |-> NoTarget]}
Files == BoundedSeq(GoodRoutes \cup BadRoutes, MaxRoutes)

Sources == [family : {"v4"}, bits : {<<0, 0>>, <<0, 1>>, <<1, 1>>}]
           \cup [family : {"v6"}, bits : {<<0, 1>>, <<1, 1>>}]
TrapOIDs == {NoOID, Linkdown(TRUE), [arcs |-> "linkUp", dotted |-> TRUE]}

(* Traps. *)
MCSpecificTrap(enterprise, specific) == "enterprise.0.1"

Uptime(n) == [name |-> sysUpTime, value |-> [kind |-> "ticks", data |-> n]]
TrapOID(arcs) == [name |-> snmpTrapOID, value |-> [kind |-> "oid", data |-> Dotted(arcs)]]
Text(packet) == [name |-> Dotted("ifDescr"), value |-> [kind |-> "slice", data |-> Dotted(packet)]]

Packet(name, version, generic, varbinds) ==
  [source |-> [family |-> "v4", bits |-> <<0, 1>>],
   version |-> version, generic |-> generic, specific |-> 1,
   enterprise |-> IF name = "badEnterprise" THEN [arcs |-> "malformed", dotted |-> TRUE]
                  ELSE [arcs |-> "enterprise", dotted |-> name = "dotted"],
   timestamp |-> [kind |-> "ticks", data |-> 7], varbinds |-> Append(varbinds, Text(name))]

MCPackets == {"v2", "abroad", "bare", "twice", "bytes", "v1", "dotted", "badEnterprise",
              "v1odd", "v1named"}
MCDecoded ==
  [p \in MCPackets |->
     CASE p = "v2"    -> Packet(p, "2c", 0, <<Uptime(1), TrapOID("linkDown")>>)
       [] p = "abroad" -> [Packet(p, "3", 0, <<TrapOID("linkUp")>>)
                             EXCEPT !.source = [family |-> "v6", bits |-> <<0, 1>>]]
       [] p = "bare"  -> Packet(p, "3", 0, <<>>)
       [] p = "twice" -> Packet(p, "2c", 0, <<TrapOID("linkDown"), TrapOID("linkUp")>>)
       [] p = "bytes" -> Packet(p, "2c", 0, <<[Text("linkUp") EXCEPT !.name = snmpTrapOID]>>)
       [] p = "v1"    -> Packet(p, "1", 2, <<>>)
       [] p \in {"dotted", "badEnterprise"} -> Packet(p, "1", 6, <<>>)
       [] p = "v1odd" -> Packet(p, "1", 9, <<>>)
       [] p = "v1named" -> Packet(p, "1", 2, <<Uptime(3), TrapOID("linkUp")>>)]

(* The route file the traps meet: link-down traps of one network, the rest *)
(* of it, and nothing for IPv6 senders.                                    *)
Route(oid, target) ==
  [cidr |-> [form |-> "v4", prefix |-> <<0>>], oid |-> oid, target |-> target]
TrafficFile == <<Route(NoOID, "noc"), Route(Linkdown(FALSE), "ops")>>

VARIABLES file, defaultTarget, query
vars == <<file, defaultTarget, router, query, buffer, jobs, posted>>

NotLoaded == [ok |-> FALSE, routes |-> <<>>, defaultTarget |-> NoTarget]
NoQuery == [asked |-> FALSE]

Init ==
  /\ file \in Files
  /\ defaultTarget \in {NoTarget, "ops"}
  /\ router = NotLoaded
  /\ query = NoQuery
  /\ buffer = "nothing" /\ jobs = <<>> /\ posted = <<>>

Load ==
  /\ router = NotLoaded
  /\ router' = LoadTrapRouter(file, defaultTarget)
  /\ UNCHANGED <<file, defaultTarget, query, buffer, jobs, posted>>

Lookup ==
  /\ router.ok
  /\ \E ip \in Sources, oid \in TrapOIDs :
       query' = [asked |-> TRUE, ip |-> ip, oid |-> oid, hit |-> Match(router, ip, oid)]
  /\ UNCHANGED <<file, defaultTarget, router, buffer, jobs, posted>>

Receiving ==
  /\ router.ok /\ file = TrafficFile /\ query = NoQuery
  /\ Traffic
  /\ UNCHANGED <<file, defaultTarget, query>>

Next == Load \/ (jobs = <<>> /\ posted = <<>> /\ Lookup) \/ Receiving
Spec == Init /\ [][Next]_vars
-----------------------------------------------------------------------------
(* The number of address bits a network fixes, whatever way it is written. *)
NetworkBits(cidr) == Len(cidr.prefix)

(* The routes of the file, as written, that apply to the query. *)
Applies(i) ==
  /\ NetContains(file[i].cidr, query.ip)
  /\ file[i].oid.arcs \in {"none", query.oid.arcs}

(* Route i of the file beats route j. *)
Beats(i, j) ==
  LET bi == NetworkBits(file[i].cidr)
      bj == NetworkBits(file[j].cidr)
  IN  \/ bi > bj
      \/ bi = bj /\ file[i].oid # NoOID /\ file[j].oid = NoOID
      \/ bi = bj /\ (file[i].oid = NoOID) = (file[j].oid = NoOID) /\ i < j

(* A trap goes to the most specific network of the route file that         *)
(* contains its sender; among routes of one network a route for its trap   *)
(* OID, with or without a leading dot in the file, beats a generic route;  *)
(* among equals the first in the file; the default target only when no     *)
(* route applies.  This is what sorting once and taking the first hit in   *)
(* LoadTrapRouter and Match must amount to.                                *)
LongestPrefixWins ==
  query.asked =>
    LET hits == {i \in DOMAIN file : Applies(i)}
    IN  IF hits = {}
        THEN query.hit = IF defaultTarget = NoTarget THEN NotRouted
                         ELSE RoutedBy(defaultTarget, NoCIDR)
        ELSE \E i \in hits :
               /\ \A j \in hits \ {i} : Beats(i, j)
               /\ query.hit = RoutedBy(file[i].target, file[i].cidr)

(* SPEC.md:344, "Matching uses longest-prefix wins so a more specific CIDR  *)
(* overrides a broader CIDR": no applicable route of the file is more      *)
(* specific than the one Match took, however the networks are written.     *)
MoreSpecificOverridesBroader ==
  query.asked =>
    \A i \in DOMAIN file :
      Applies(i) => NetworkBits(file[i].cidr) <= NetworkBits(query.hit.cidr)

(* A file with one bad route (an invalid CIDR, trap OID or target URL, on  *)
(* any line) is refused as a whole: a table is only ever built from files  *)
(* without any, and holds every route of its file, as often as the file    *)
(* has it, with the trap OID in the dotted form packets are matched by.    *)
WholeFileOrNothing ==
  router.ok =>
    /\ \A i \in DOMAIN file : file[i] \notin BadRoutes
    /\ DOMAIN router.routes = DOMAIN file
    /\ \A i \in DOMAIN router.routes :
         /\ ValidRoute(router.routes[i])
         /\ router.routes[i].oid = NoOID \/ router.routes[i].oid.dotted
    /\ \A r \in GoodRoutes :
         Cardinality({i \in DOMAIN file : NormalizeRoute(file[i]) = NormalizeRoute(r)})
           = Cardinality({i \in DOMAIN router.routes : router.routes[i] = NormalizeRoute(r)})

(* What is posted is what was received: no varbind shows the bytes of a    *)
(* packet that arrived while the job was waiting in the channel.           *)
PostedAsReceived ==
  posted # <<>> =>
    LET job == posted[1]
    IN  \A i \in DOMAIN Decoded[job.packet].varbinds :
          LET sent == job.payload.varbinds[i] got == Decoded[job.packet].varbinds[i]
          IN  sent.name = got.name /\ sent.value.data = got.value.data

(* A trap is well formed if a v2 trap names its OID at most once, as a    *)
(* valid OID, and a v1 trap does not.                                      *)
Named(packet) == {i \in DOMAIN packet.varbinds : packet.varbinds[i].name = snmpTrapOID}
WellFormed(p) ==
  LET packet == Decoded[p]
  IN  IF packet.version = "1" THEN Named(packet) = {}
      ELSE \A i \in Named(packet) :
             LET value == packet.varbinds[i].value
             IN  Named(packet) = {i} /\ value.kind = "oid" /\ validOID(value.data)

(* It says nothing of what happened if it is a v2 trap without the varbind *)
(* or a v1 trap of an unknown kind or without a valid enterprise.          *)
Unidentified(p) ==
  LET packet == Decoded[p]
  IN  IF packet.version # "1" THEN Named(packet) = {}
      ELSE \/ packet.generic \notin 0..6
           \/ packet.generic = 6 /\ ~validOID(packet.enterprise)

(* The trap OIDs a packet claims: those of the varbinds that name one, as  *)
(* text or bytes, too, and that of the native fields of a v1 trap.         *)
NamedClaims(packet) ==
  {NormalizeOID(packet.varbinds[i].value.data) :
     i \in {j \in Named(packet) : LET value == packet.varbinds[j].value
                                  IN  /\ value.kind \in {"oid", "text", "slice"}
                                      /\ validOID(value.data)}}
NativeClaims(packet) == IF packet.version = "1" THEN {v1TrapOID(packet)} ELSE {}

(* The webhook that gets a well-formed trap is the one its routes give for *)
(* the sender, trap OID and network the payload reports: extractTrapOID    *)
(* and buildTrapPayload, which read the varbinds separately, agree, and    *)
(* the payload has no trap OID exactly if the trap has none.  Any other    *)
(* trap may be reported with another trap OID than it was routed by        *)
(* (buildTrapPayload takes the last varbind, extractTrapOID the native     *)
(* fields or the first), but either is one the packet claims, or none: a   *)
(* v1 trap is always routed by its native fields, and no OID is made up.   *)
ReportedAsRouted ==
  posted # <<>> =>
    LET job == posted[1] told == job.payload packet == Decoded[job.packet]
        RoutedAs(oid) == RoutedBy(job.target, told.cidr) = Match(router, told.source, oid)
    IN  /\ WellFormed(job.packet) =>
             /\ RoutedAs(told.trapOID)
             /\ told.trapOID = NoOID <=> Unidentified(job.packet)
        /\ told.trapOID \in NamedClaims(packet) \cup NativeClaims(packet) \cup {NoOID}
        /\ \E oid \in (IF packet.version = "1" THEN NativeClaims(packet)
                       ELSE NamedClaims(packet) \cup {NoOID}) : RoutedAs(oid)
=============================================================================
