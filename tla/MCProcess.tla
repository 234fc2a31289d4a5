------------------------------ MODULE MCProcess ------------------------------
(***************************************************************************)
(* Starts of the process with a usual environment in which one setting, or *)
(* two settings that LoadConfig looks at together, are given in every way, *)
(* or with traps enabled and a users file in which one user takes every    *)
(* form; afterwards two traps, two requests and a signal.                  *)
(***************************************************************************)
EXTENDS Process, SequencesExt

RawValues(s) ==
  CASE s \in Bools -> {<<"true">>, <<"false">>, <<"junk">>}
    [] s \in Durations -> {<<"-1s">>, <<"0">>, <<"1s">>, <<"1">>}
    [] s \in Ints -> {<<"-1">>, <<"0">>, <<"1">>, <<"junk">>}
    [] s \in Lists -> {<<" ">>, <<"a">>, <<" a ", "", "b">>}
    [] s = "ListenAddress" -> {<<":8443">>, <<":8080">>, <<"host:1", "">>, <<" ">>}
    [] s = "LogLevel" -> {<<"warn">>, <<"INFO">>}
    [] OTHER -> {<<"a">>, <<"b">>, <<" ">>}

Groups == {{s} : s \in Settings}
          \cup {{"TLSEnabled", "ListenAddress"}, {"TrapEnabled", "TrapListenAddress"},
                {"BasicAuthUsername", "BasicAuthPassword"}}

UsualEnv == [s \in Settings |-> IF s \in {"BasicAuthUsername", "BasicAuthPassword"}
                                THEN <<"secret">> ELSE Empty]
NoFlags == [s \in Settings |-> Absent]

Vary(base, group, given) == [s \in Settings |-> IF s \in group THEN given[s] ELSE base[s]]
Givings(group) == [group -> UNION {RawValues(s) : s \in group} \cup {Empty, Absent}]


V3 == [username |-> "op", securityLevel |-> "authPriv", authProtocol |-> "sha",
       authPassphrase |-> "x", privProtocol |-> "aes", privPassphrase |-> "y"]
Credentials ==
  [username : {"nms", " "}, securityLevel : {"noAuthNoPriv", "authNoPriv", "authPriv", ""},
   authProtocol : AuthProtocols \cup {"", "MD5"}, authPassphrase : {"", "x"},
   privProtocol : PrivProtocols \cup {"", "3des"}, privPassphrase : {"", "y"}]
UsersFiles == {<<>>} \cup {<<V3, c>> : c \in Credentials}

TrapEnv == [UsualEnv EXCEPT !["TrapEnabled"] = <<"true">>, !["TrapDefaultTargetURL"] = <<"a">>,
                            !["TrapV3UsersFile"] = <<"b">>]

ConfigStarts(group) ==
  {[env |-> Vary(UsualEnv, group, e), flags |-> Vary(NoFlags, group, f), users |-> <<>>] :
     e \in {e \in Givings(group) : \A s \in group : e[s] \in RawValues(s) \cup {Empty}},
     f \in {f \in Givings(group) : \A s \in group : f[s] \in RawValues(s) \cup {Empty, Absent}}}
MCStarts ==
  UNION {ConfigStarts(group) : group \in Groups}
  \cup {[env |-> TrapEnv, flags |-> NoFlags, users |-> users] : users \in UsersFiles}
-----------------------------------------------------------------------------
(* The text an operator set a setting to: a flag beats a variable, and a   *)
(* variable the default.                                                   *)
Chosen(s) ==
  IF inputs.flags[s] # Absent THEN inputs.flags[s]
  ELSE IF inputs.env[s] # Empty THEN inputs.env[s] ELSE DefaultConfig[s]

(* The parts of a text that are not blank, without their spaces.           *)
Hosts(text) == {TrimSpace(text[i]) : i \in DOMAIN text} \ {""}

(* A configuration that LoadConfig accepts follows the documented          *)
(* precedence in every setting: nothing given is lost on the way through   *)
(* the flag set, not even the parts of a list.  Only the default listen    *)
(* address, given or not, may turn into the one without TLS.               *)
FlagsThenEnvThenDefaults ==
  pc = "ensureTLS" =>
    \A s \in Settings :
      CASE s \in Lists -> ToSet(cfg[s]) = Hosts(Chosen(s))
        [] s = "ListenAddress" -> \/ cfg[s] = Chosen(s)
                                  \/ Chosen(s) = <<":8443">> /\ cfg[s] = <<":8080">>
        [] OTHER -> cfg[s] = Chosen(s)

(* What the rest of the program takes for granted of a configuration that  *)
(* was accepted: places for targets and workers, room in the queue and the *)
(* packet buffer, a ticker that accepts its interval, timeouts that let a  *)
(* try happen, no access without a password.  TrapService and              *)
(* QueryExecution assume it of their constants.                            *)
Positive(s) == cfg[s] \in {<<"1">>, <<"1s">>}
AcceptedConfigsServe ==
  pc = "ensureTLS" =>
    /\ \A s \in {"MaxParallelTargets", "MaxVarbindsPerOperation", "TrapForwardWorkers",
                 "TrapForwardQueueSize", "TrapMaxPacketBytes", "TrapForwardTimeout",
                 "DefaultSNMPTimeout", "ShutdownTimeout", "RequestBodyLimitBytes"} : Positive(s)
    /\ \A s \in {"DefaultSNMPRetries", "TrapForwardRetries", "RequestStatsInterval"} :
         Positive(s) \/ cfg[s] = <<"0">>
    /\ \A s \in {"BasicAuthUsername", "BasicAuthPassword"} : ~Blank(Chosen(s))

(* A process that goes on past NewTrapService decodes the traps of every   *)
(* user of its users file, each with the protection the file asks for, and *)
(* of nobody else.                                                         *)
TrapUsersKept ==
  pc = "notify" /\ inputs.users # <<>> =>
    LET table == newTrapDecoder(inputs.users).table
    IN  /\ \A i \in DOMAIN inputs.users :
             \E security \in table : /\ security.user = inputs.users[i].username
                                     /\ NotWeakened(inputs.users[i], security)
        /\ \A security \in table :
             \E i \in DOMAIN inputs.users : security.user = inputs.users[i].username
=============================================================================
