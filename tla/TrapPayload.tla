----------------------------- MODULE TrapPayload -----------------------------
(***************************************************************************)
(* What internal/gateway/traps.go makes of a decoded trap: the trap OID it *)
(* is routed by (extractTrapOID), the payload (buildTrapPayload,           *)
(* convertSinglePDU of executor.go), and the way of both from the reader's *)
(* buffer through the channel to a worker that encodes the payload.        *)
(*                                                                         *)
(*   packet  [source, version, generic, enterprise, specific, timestamp,   *)
(*           varbinds]                                                     *)
(*   varbind [name |-> OID, value |-> [kind, data]]; data is an OID for    *)
(*           the kinds "oid" and "text", a number otherwise.  A value of   *)
(*           kind "slice" is a []byte inside the reader's buffer.          *)
(***************************************************************************)
EXTENDS TrapRouter

CONSTANT SpecificTrap(_, _)      \* arcs of <enterprise>.0.<specific trap>

Dotted(arcs) == [arcs |-> arcs, dotted |-> TRUE]
snmpTrapOID == Dotted("snmpTrapOID")
sysUpTime == Dotted("sysUpTime")
NoUptime == [kind |-> "none", data |-> 0]

StandardTraps ==       \* .1.3.6.1.6.3.1.1.5.1 to 6
  <<"coldStart", "warmStart", "linkDown", "linkUp", "authenticationFailure", "egpNeighborLoss">>

v1TrapOID(packet) ==
  CASE packet.generic \in 0..5 -> Dotted(StandardTraps[packet.generic + 1])
    [] packet.generic = 6 /\ validOID(packet.enterprise) ->
         Dotted(SpecificTrap(packet.enterprise.arcs, packet.specific))
    [] OTHER -> NoOID

normalizeTrapOIDValue(value) ==
  IF value.kind \in {"oid", "text"} /\ validOID(value.data)
  THEN NormalizeOID(value.data) ELSE NoOID

extractTrapOID(packet) ==
  LET named == {i \in DOMAIN packet.varbinds :
                  NormalizeOID(packet.varbinds[i].name) = snmpTrapOID}
  IN  CASE packet.version = "1" -> v1TrapOID(packet)
        [] packet.version # "1" /\ named # {} ->
             normalizeTrapOIDValue(packet.varbinds[Min(named)].value)
        [] OTHER -> NoOID

(* A byte slice becomes a string: its bytes are copied. *)
convertSinglePDU_Alias(vb) == [vb EXCEPT !.name = NormalizeOID(@)]     \* mutant
convertSinglePDU(vb) ==
  [name |-> NormalizeOID(vb.name),
   value |-> IF vb.value.kind = "slice" THEN [vb.value EXCEPT !.kind = "text"] ELSE vb.value]

(* The last varbind of a name wins, over the native fields, too. *)
LastNamed(varbinds, name, none) ==
  LET named == {i \in DOMAIN varbinds : varbinds[i].name = name}
  IN  IF named = {} THEN none ELSE varbinds[Max(named)].value

buildTrapPayload_NoV1(packet, cidr) ==        \* mutant: native fields are not looked at
  LET varbinds == [i \in DOMAIN packet.varbinds |-> convertSinglePDU(packet.varbinds[i])]
  IN  [source |-> packet.source, cidr |-> cidr, version |-> packet.version,
       varbinds |-> varbinds,
       trapOID |-> normalizeTrapOIDValue(LastNamed(varbinds, snmpTrapOID, NoUptime)),
       uptime |-> LastNamed(varbinds, sysUpTime, NoUptime)]
buildTrapPayload(packet, cidr) ==
  LET varbinds == [i \in DOMAIN packet.varbinds |-> convertSinglePDU(packet.varbinds[i])]
      v1 == packet.version = "1"
      named == \E i \in DOMAIN varbinds : varbinds[i].name = snmpTrapOID
  IN  [source |-> packet.source, cidr |-> cidr, version |-> packet.version,
       varbinds |-> varbinds,
       trapOID |-> IF v1 /\ ~named THEN v1TrapOID(packet)
                   ELSE normalizeTrapOIDValue(LastNamed(varbinds, snmpTrapOID, NoUptime)),
       uptime |-> LastNamed(varbinds, sysUpTime, IF v1 THEN packet.timestamp ELSE NoUptime)]
-----------------------------------------------------------------------------
CONSTANTS TrapPackets,  \* names of the packets that can arrive
          Decoded,      \* what the decoder makes of each
          QueueSize     \* room in the channel
ASSUME QueueAssumption == QueueSize \in Nat \ {0}

(* Varbinds come in a sequence; gosnmp writes their names with a leading   *)
(* dot.                                                                    *)
ASSUME DecodedAssumption ==
  \A p \in TrapPackets :
    LET varbinds == Decoded[p].varbinds
    IN  /\ Len(varbinds) \in Nat /\ DOMAIN varbinds = 1..Len(varbinds)
        /\ \A i \in DOMAIN varbinds :
             LET vb == varbinds[i]
             IN  /\ vb = [name |-> vb.name, value |-> vb.value]
                 /\ vb.name = Dotted(vb.name.arcs)
                 /\ vb.value = [kind |-> vb.value.kind, data |-> vb.value.data]

VARIABLES router,       \* what LoadTrapRouter returned at the start
          buffer,       \* the packet whose bytes are in the reader's buffer
          jobs,         \* the channel
          posted        \* the latest job that was posted, as its body was encoded

(* A turn of readLoop: the buffer is overwritten, the trap routed and the  *)
(* payload built.                                                          *)
Receive(p) ==
  LET packet == Decoded[p]
      match == Match(router, packet.source, extractTrapOID(packet))
      job == [packet |-> p, target |-> match.target,
              payload |-> buildTrapPayload(packet, match.cidr)]
  IN  /\ Len(jobs) < QueueSize
      /\ buffer' = p
      /\ jobs' = IF match.ok THEN Append(jobs, job) ELSE jobs
      /\ UNCHANGED <<router, posted>>

(* A slice that is still one shows what the buffer holds when it is read. *)
Encode(payload) ==
  [payload EXCEPT !.varbinds =
     [i \in DOMAIN @ |-> IF @[i].value.kind # "slice" THEN @[i]
                         ELSE [@[i] EXCEPT !.value = [kind |-> "text", data |-> Dotted(buffer)]]]]

(* A worker takes a job and encodes it. *)
Post ==
  /\ jobs # <<>>
  /\ posted' = <<[Head(jobs) EXCEPT !.payload = Encode(@)]>>
  /\ jobs' = Tail(jobs)
  /\ UNCHANGED <<router, buffer>>

Traffic == Post \/ \E p \in TrapPackets : Receive(p)
=============================================================================
