---------------------------- MODULE MCTrapService ----------------------------
(***************************************************************************)
(* Small instances of TrapService.  The route file sends linkDown traps of *)
(* 01/2 to "ops" and everything else of 0/1 to "noc"; senders in 1/1 have  *)
(* no route.                                                               *)
(***************************************************************************)
EXTENDS TrapService

V4(bits) == [form |-> "v4", prefix |-> bits]
LinkDown == [arcs |-> "linkDown", dotted |-> TRUE]
MCRouteFile ==
  <<[cidr |-> V4(<<0>>), oid |-> NoOID, target |-> "noc"],
    [cidr |-> V4(<<0, 1>>), oid |-> NormalizeOID(LinkDown), target |-> "ops"]>>

Trap == [decodes |-> TRUE, version |-> "2c", pdu |-> "SNMPv2Trap", community |-> "public",
         source |-> [family |-> "v4", bits |-> <<0, 1>>], trapOID |-> LinkDown,
         encodes |-> TRUE]

MCDatagram ==
  [p \in {"trap", "inform", "v1trap", "nan", "lost", "foreign", "noise"} |->
     CASE p = "trap"    -> Trap
       [] p = "inform"  -> [Trap EXCEPT !.version = "3", !.pdu = "InformRequest",
                                        !.source.bits = <<0, 0>>]
       [] p = "v1trap"  -> [Trap EXCEPT !.version = "1", !.pdu = "Trap"]
       [] p = "nan"     -> [Trap EXCEPT !.encodes = FALSE]
       [] p = "lost"    -> [Trap EXCEPT !.pdu = "InformRequest", !.source.bits = <<1, 1>>]
       [] p = "foreign" -> [Trap EXCEPT !.pdu = "InformRequest", !.community = "private"]
       [] p = "noise"   -> [Trap EXCEPT !.decodes = FALSE]]

WorkerSymmetry == Permutations(Workers)     \* safety runs only
=============================================================================
