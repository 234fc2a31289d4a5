--------------------------- MODULE QueryValidation ---------------------------
(***************************************************************************)
(* From the JSON of a query to the SNMP clients that execute it:           *)
(* internal/gateway/validation.go, which checks a request and fills in its *)
(* defaults, and newGoSNMPClient of executor.go.                           *)
(*                                                                         *)
(* A field that may be absent is <<>> or <<value>>.  Decoded into an int   *)
(* of Go an absent number is 0; pointers keep the difference.              *)
(***************************************************************************)
EXTENDS Integers, Sequences, V3Credentials

CONSTANTS MaxTargetsPerQuery, MaxOperationsPerTarget, MaxOIDsPerOperation,
          DefaultSNMPTimeout, DefaultSNMPRetries,
          Millisecond,    \* units of a time.Duration in a millisecond
          Half            \* a Duration is an integer in -Half .. Half - 1

(* What Config.Validate leaves of them. *)
ASSUME LimitAssumption ==
  /\ {MaxTargetsPerQuery, MaxOperationsPerTarget, MaxOIDsPerOperation} \in SUBSET (Nat \ {0})
  /\ Half \in Nat \ {0} /\ Millisecond \in Nat \ {0}
  /\ DefaultSNMPTimeout \in 1 .. Half - 1 /\ DefaultSNMPRetries \in Nat

OID == INSTANCE TrapRouter WITH HTTPTargets <- {}, NoTarget <- "unset"
NoOID == OID!NoOID
DotAll(oids) == [i \in DOMAIN oids |-> OID!NormalizeOID(oids[i])]

MaxPort == 65535       \* ports are checked against it and become a uint16
Number(field) == IF field = <<>> THEN 0 ELSE field[1]
Default(field, value) == IF field = <<>> THEN <<value>> ELSE field
-----------------------------------------------------------------------------
validateOIDs_NoLimit(oids) ==       \* mutant: as many OIDs as the client likes
  oids # <<>> /\ \A i \in DOMAIN oids : OID!validOID(oids[i])
validateOIDs(oids) ==
  /\ oids # <<>> /\ Len(oids) <= MaxOIDsPerOperation
  /\ \A i \in DOMAIN oids : OID!validOID(oids[i])

validateOperation(op) ==
  \/ /\ op.type \in {"get", "getnext"} /\ validateOIDs(op.oids)
     /\ op.rootOID = NoOID /\ op.nonRepeaters = <<>> /\ op.maxRepetitions = <<>>
  \/ /\ op.type = "getbulk" /\ validateOIDs(op.oids)
     /\ op.rootOID = NoOID /\ op.maxRepetitions # <<0>>
  \/ /\ op.type = "walk" /\ OID!validOID(op.rootOID)
     /\ op.oids = <<>> /\ op.nonRepeaters = <<>> /\ op.maxRepetitions = <<>>

ResolveOperation(op) ==
  [op EXCEPT !.oids = DotAll(@),
             !.rootOID = IF op.type = "walk" THEN OID!NormalizeOID(@) ELSE @,
             !.maxRepetitions = IF op.type = "getbulk" THEN Default(@, 10) ELSE @]

Resolve(tr) ==
  [tr EXCEPT !.port = IF @ \in {<<>>, <<0>>} THEN <<161>> ELSE @,
             !.version = IF @ = "" THEN "2c" ELSE @,
             !.timeoutMS = IF @ \in {<<>>, <<0>>}
                           THEN <<DefaultSNMPTimeout \div Millisecond>> ELSE @,
             !.retries = Default(@, DefaultSNMPRetries),
             !.operations = [j \in DOMAIN @ |-> ResolveOperation(@[j])]]

CredentialsFit(tr) ==
  \/ tr.version \in {"", "1", "2c"} /\ tr.community # "" /\ tr.v3 = <<>>
  \/ tr.version = "3" /\ tr.community = "" /\ validateV3Credentials(tr.v3)

ValidTarget(tr) ==
  /\ ~BlankName(tr.target) /\ Number(tr.port) \in 0..MaxPort
  /\ CredentialsFit(tr)
  /\ Number(tr.timeoutMS) >= 0 /\ Number(tr.retries) >= 0
  /\ Len(tr.operations) \in 1..MaxOperationsPerTarget
  /\ \A j \in DOMAIN tr.operations :
       /\ tr.version = "1" => tr.operations[j].type # "getbulk"
       /\ validateOperation(tr.operations[j])

ValidateQuery(requests) ==
  [ok |-> /\ Len(requests) \in 1..MaxTargetsPerQuery
          /\ \A i \in DOMAIN requests : ValidTarget(requests[i]),
   requests |-> [i \in DOMAIN requests |-> Resolve(requests[i])]]
-----------------------------------------------------------------------------
Duration_NoUnit(ms) == ms       \* mutant: time.Duration(ms), nanoseconds
(* time.Duration(ms) * time.Millisecond in two's complement. *)
Duration(ms) == ((ms * Millisecond + Half) % (2 * Half)) - Half

newGoSNMPClient(tr) ==
  [target |-> tr.target, port |-> tr.port[1] % (MaxPort + 1), timeout |-> Duration(tr.timeoutMS[1]),
   retries |-> tr.retries[1], version |-> IF tr.version \in {"1", "3"} THEN tr.version ELSE "2c",
   community |-> IF tr.version = "3" THEN <<>> ELSE <<tr.community>>,
   flags     |-> IF tr.version = "3" THEN <<v3MsgFlags(tr.v3[1].securityLevel)>> ELSE <<>>,
   security  |-> IF tr.version = "3" THEN <<SecurityParameters(tr.v3[1])>> ELSE <<>>]

=============================================================================
