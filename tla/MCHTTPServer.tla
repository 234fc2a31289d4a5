---------------------------- MODULE MCHTTPServer ----------------------------
(***************************************************************************)
(* The HTTP server with small limits: every request that differs from a    *)
(* good query in any of the ways the handlers look at, every query of a    *)
(* family in which the settings of one target, its credentials, one        *)
(* operation or the number of targets and operations take every value, and *)
(* scrapes of /metrics while others are counted.                           *)
(***************************************************************************)
EXTENDS QueryPipeline, Metrics

MCBasicAuth == <<"user", "pass">>

Plain(name) == [arcs |-> name, dotted |-> FALSE]
Dotted(name) == [arcs |-> name, dotted |-> TRUE]

GetOp == [type |-> "get", oids |-> <<Plain("sysUpTime")>>, rootOID |-> NoOID,
        nonRepeaters |-> <<>>, maxRepetitions |-> <<>>]
Target == [target |-> "switch", port |-> <<>>, version |-> "", community |-> "public",
           v3 |-> <<>>, timeoutMS |-> <<>>, retries |-> <<>>, operations |-> <<GetOp>>]
V3 == [username |-> "op", securityLevel |-> "authPriv", authProtocol |-> "sha",
       authPassphrase |-> "x", privProtocol |-> "aes", privPassphrase |-> "y"]

Devices == {"switch", " "}
Ports == {<<>>, <<0>>, <<-1>>, <<1>>, <<MaxPort>>, <<MaxPort + 1>>}
Versions == {"", "1", "2c", "3", "v2"}
Communities == {"", "public"}
Timeouts == {<<>>, <<0>>, <<-1>>, <<5>>, <<20>>}
RetryCounts == {<<>>, <<0>>, <<-1>>, <<2>>}
Targets ==
  [target : Devices, port : Ports, version : Versions, community : Communities,
   v3 : {<<>>, <<V3>>}, timeoutMS : Timeouts, retries : RetryCounts, operations : {<<GetOp>>}]

Credentials ==
  [username : {"op", " "}, securityLevel : {"noAuthNoPriv", "authNoPriv", "authPriv", ""},
   authProtocol : AuthProtocols \cup {"", "MD5"}, authPassphrase : {"", "x"},
   privProtocol : PrivProtocols \cup {"", "3des"}, privPassphrase : {"", "y"}]

OIDLists == {<<>>, <<Plain("a")>>, <<Dotted("a"), Plain("b")>>,
             <<Plain("a"), Plain("malformed")>>, <<Plain("a"), Plain("b"), Plain("c")>>}
Operations ==
  [type : {"get", "getnext", "getbulk", "walk", "set"}, oids : OIDLists,
   rootOID : {NoOID, Plain("a"), Dotted("a"), Plain("malformed")},
   nonRepeaters : {<<>>, <<0>>}, maxRepetitions : {<<>>, <<0>>, <<2>>}]

WithV3(c) == [Target EXCEPT !.version = "3", !.community = "", !.v3 = <<c>>]
WithOperation(v, op) == [Target EXCEPT !.version = v, !.operations = <<GetOp, op>>]
WithSet == [Target EXCEPT !.operations = <<GetOp, [GetOp EXCEPT !.type = "set"]>>]
Sized(n, m) == [i \in 1..n |-> [Target EXCEPT !.operations = [j \in 1..m |-> GetOp]]]
SingleTargets ==
  Targets \cup {WithV3(c) : c \in Credentials}
  \cup {WithOperation("1", op) : op \in Operations}
  \cup {WithOperation("2c", op) : op \in Operations}
Queries ==
  {<<tr>> : tr \in SingleTargets}
  \cup {Sized(n, m) : n \in 0..3, m \in 0..3}
  \cup {<<Target, WithSet>>}

Good == [method |-> "POST", path |-> "/api/v1/query", credentials |-> <<BasicAuth>>,
         requestID |-> "id", contentType |-> "application/json", first |-> "query",
         rest |-> "nothing", query |-> <<Target>>, encodes |-> TRUE]
Scrape == [Good EXCEPT !.method = "GET", !.path = "/metrics"]

Inputs ==
  [method : {"GET", "POST"},
   path : {"/healthz", "/metrics", "/version", "/api/v1/query", "/"},
   credentials : {<<>>, <<BasicAuth>>, <<<<"user", "guess">>>>, <<<<"guess", "pass">>>>},
   requestID : {"", "id", "longer than 128"},
   contentType : {"application/json", "text/plain"},
   first : {"query", "malformed", "too large"}, rest : {"nothing", "value", "too large"},
   query : {<<Target>>, <<Target, [Target EXCEPT !.community = ""]>>, <<>>},
   encodes : BOOLEAN]
  \cup {[Good EXCEPT !.query = q] : q \in Queries}

VARIABLES input, response
serverVars == <<input, response, vars>>

ServerInit == input \in Inputs /\ response = NoResponse /\ Init
Serve ==
  /\ response = NoResponse /\ response' = Handler(input)
  /\ UNCHANGED <<input, vars>>
(* The metrics handler at work; it may be asked again. *)
Expose == input = Scrape /\ response # NoResponse /\ Next /\ UNCHANGED <<input, response>>

ServerNext == Serve \/ Expose
ServerSpec == ServerInit /\ [][ServerNext]_serverVars

Served == response # NoResponse
Client(i) == newGoSNMPClient(response.executed[i])
-----------------------------------------------------------------------------
Authenticated == input.credentials = <<BasicAuth>>
Protected == input.path \in {"/version", "/api/v1/query"}
QueryPath == input.path = "/api/v1/query"

(* SPEC.md 6.7 and its tables, as they are written there.  A type has the  *)
(* fields it requires and none that does not apply to it; OIDs are numeric. *)
Numeric(oid) == oid.arcs \notin {"none", "malformed"}

BrokenOperation(version, op) ==
  \/ op.type \notin {"get", "getnext", "getbulk", "walk"}
  \/ (op.oids = <<>>) <=> (op.type # "walk")
  \/ (op.rootOID = NoOID) <=> (op.type = "walk")
  \/ op.type # "getbulk" /\ (op.nonRepeaters # <<>> \/ op.maxRepetitions # <<>>)
  \/ op.type = "getbulk" /\ (version = "1" \/ op.maxRepetitions = <<0>>)
  \/ Len(op.oids) > MaxOIDsPerOperation
  \/ \E k \in DOMAIN op.oids : ~Numeric(op.oids[k])
  \/ op.rootOID # NoOID /\ ~Numeric(op.rootOID)

(* The fields of a security level are required at it; that they must not   *)
(* be given below it, and that a name of blanks is none, is what the code  *)
(* adds to the table.                                                      *)
BrokenCredentials(c) ==
  LET authentic == c.securityLevel \in {"authNoPriv", "authPriv"}
      private == c.securityLevel = "authPriv"
  IN  \/ c.username \in {"", " "}
      \/ c.securityLevel \notin {"noAuthNoPriv", "authNoPriv", "authPriv"}
      \/ c.authProtocol = "" <=> authentic
      \/ c.authPassphrase = "" <=> authentic
      \/ c.privProtocol = "" <=> private
      \/ c.privPassphrase = "" <=> private
      \/ c.authProtocol \notin {"", "md5", "sha", "sha224", "sha256", "sha384", "sha512"}
      \/ c.privProtocol \notin {"", "des", "aes", "aes192", "aes256", "aes192c", "aes256c"}

(* The rules a target breaks; a name of blanks is none here, too.          *)
BrokenRules(tr) ==
  {rule \in {"target", "port", "version", "community", "v3", "timeout_ms", "retries",
             "operations"} :
     CASE rule = "target"     -> tr.target # "switch"
       [] rule = "port"       -> tr.port # <<>> /\ ~(1 <= tr.port[1] /\ tr.port[1] <= 65535)
       [] rule = "version"    -> tr.version \notin {"", "1", "2c", "3"}
       [] rule = "community"  -> (tr.version = "3") = (tr.community # "")
       [] rule = "v3"         -> \/ (tr.version = "3") = (tr.v3 = <<>>)
                                 \/ tr.v3 # <<>> /\ BrokenCredentials(tr.v3[1])
       [] rule = "timeout_ms" -> tr.timeoutMS # <<>> /\ tr.timeoutMS[1] <= 0
       [] rule = "retries"    -> tr.retries # <<>> /\ tr.retries[1] < 0
       [] rule = "operations" ->
            \/ Len(tr.operations) \notin 1..MaxOperationsPerTarget
            \/ \E j \in DOMAIN tr.operations : BrokenOperation(tr.version, tr.operations[j])}

(* The rules an explicit 0 breaks and the code does not see broken: port   *)
(* and timeout_ms are decoded into an int, in which an absent number is 0, *)
(* too, so "port": 0 asks port 161 and "timeout_ms": 0 takes the default   *)
(* (validation.go:23 and :54, against SPEC.md:183 and :187).               *)
TakenAsAbsent(tr) ==
  {rule \in {"port", "timeout_ms"} :
     CASE rule = "port"       -> tr.port = <<0>>
       [] rule = "timeout_ms" -> tr.timeoutMS = <<0>>}

Refused(targets) ==
  \/ Len(targets) \notin 1..MaxTargetsPerQuery
  \/ \E i \in DOMAIN targets : BrokenRules(targets[i]) \ TakenAsAbsent(targets[i]) # {}

(* SPEC.md 6.3: the conditions of the status table that hold. *)
Conditions ==
  {c \in {401, 404, 405, 413, 415, 400} :
     CASE c = 401 -> Protected /\ ~Authenticated
       [] c = 404 -> input.path = "/"
       [] c = 405 -> input.path # "/" /\ input.method # (IF QueryPath THEN "POST" ELSE "GET")
       [] c = 415 -> QueryPath /\ input.contentType # "application/json"
       [] c = 413 -> QueryPath /\ "too large" \in {input.first, input.rest}
       [] c = 400 -> \/ QueryPath /\ (input.first = "malformed" \/ input.rest # "nothing")
                     \/ QueryPath /\ Refused(input.query)}

(* A response has the status of a condition that holds, and 200 exactly    *)
(* when none does: no check is passed over by another one's return, and a  *)
(* query is refused exactly for breaking a documented rule, with the one   *)
(* exception that an explicit port or timeout_ms of 0 breaks its rule and  *)
(* is served like an absent one (TakenAsAbsent).  Errors of any handler    *)
(* name their request, by at most 128 bytes of the client's.               *)
StatusFitsRequest ==
  Served =>
    /\ IF Conditions = {} THEN response.status = 200 ELSE response.status \in Conditions
    /\ response.status = 401 <=> response.challenge
    /\ response.requestID = <<IF input.requestID = "id" THEN "id" ELSE GeneratedID>>

(* Devices are asked exactly for queries that break no rule but by an      *)
(* explicit 0, by clients that know the password, and for all targets of a *)
(* query or none; what was asked is what the statistics count.             *)
WorkIffAcceptable ==
  Served =>
    /\ response.executed # <<>> <=> (QueryPath /\ Conditions = {})
    /\ response.executed # <<>> => Len(response.executed) = Len(input.query)
    /\ response.recorded <=> response.executed # <<>>

OIDsOf(op) == IF op.type = "walk" THEN <<op.rootOID>> ELSE op.oids

(* The timeout a client of gosnmp gets: the one asked for to the unit, up  *)
(* to the longest a Duration holds, and the configured one but for the     *)
(* fraction of a millisecond that Milliseconds() cuts off, so that a       *)
(* default below a millisecond is none.  A longer timeout_ms wraps, into a *)
(* negative Duration as well (executor.go:61, against SPEC.md:187).        *)
TimeoutKept(asked, timeout) ==
  IF asked = 0 THEN DefaultSNMPTimeout - timeout \in 0 .. Millisecond - 1
  ELSE asked * Millisecond < Half => timeout = asked * Millisecond

(* A port a client gets is the one asked for, or the standard one of SNMP; *)
(* its retries are those asked for, or those configured.                   *)
PortKept(asked, port) == port = IF asked = 0 THEN 161 ELSE asked
RetriesKept(asked, retries) ==
  retries = IF asked = <<>> THEN DefaultSNMPRetries ELSE asked[1]

(* The executor never meets a target it has no answer for: the conversions *)
(* to gosnmp keep port, retries, version and, as far as a Duration goes,   *)
(* the timeout, a client has the credentials of its version and no other,  *)
(* every pointer the executor follows is set and every OID has its         *)
(* canonical form and is within the limits.                                *)
ClientsCanExecute ==
  \A i \in DOMAIN response.executed :
    LET c == Client(i) r == response.executed[i] asked == input.query[i]
    IN  /\ PortKept(Number(asked.port), c.port) /\ c.port > 0
        /\ RetriesKept(asked.retries, c.retries) /\ c.retries >= 0
        /\ TimeoutKept(Number(asked.timeoutMS), c.timeout)
        /\ c.version = r.version
        /\ c.version = "3" <=> c.community = <<>>
        /\ r.operations # <<>>
        /\ \A j \in DOMAIN r.operations :
             LET op == r.operations[j]
             IN  /\ Len(OIDsOf(op)) \in 1..MaxOIDsPerOperation
                 /\ \A k \in DOMAIN OIDsOf(op) : OIDsOf(op)[k].dotted
                 /\ op.type = "getbulk" => Number(op.maxRepetitions) > 0 /\ c.version # "1"

(* No session is weaker than asked for: authentication and privacy are     *)
(* used exactly at the levels that promise them, with a passphrase, and    *)
(* different protocols stay different.                                     *)
SessionsNotWeakened ==
  \A i \in DOMAIN response.executed :
    input.query[i].version = "3" =>
      /\ NotWeakened(input.query[i].v3[1], Client(i).security[1])
      /\ Client(i).flags = <<CASE input.query[i].v3[1].securityLevel = "noAuthNoPriv" -> "NoAuthNoPriv"
                               [] input.query[i].v3[1].securityLevel = "authNoPriv" -> "AuthNoPriv"
                               [] input.query[i].v3[1].securityLevel = "authPriv" -> "AuthPriv">>
=============================================================================
