------------------------------- MODULE Config -------------------------------
(***************************************************************************)
(* LoadConfig of internal/gateway/config.go: built-in defaults, then the   *)
(* environment, then command-line flags, then Validate.                    *)
(*                                                                         *)
(* A text is the sequence of its parts between commas, <<"">> the empty    *)
(* text, and a list setting holds its trimmed parts, so that every value   *)
(* of every setting is a sequence of strings.                              *)
(***************************************************************************)
EXTENDS Integers, Sequences

Bools     == {"TLSEnabled", "LogDebugRequests", "TrapEnabled"}
Durations == {"DefaultSNMPTimeout", "RequestStatsInterval", "ReadHeaderTimeout",
              "ReadTimeout", "WriteTimeout", "IdleTimeout", "ShutdownTimeout",
              "TrapForwardTimeout"}
Ints      == {"DefaultSNMPRetries", "MaxParallelTargets", "MaxTargetsPerQuery",
              "MaxOperationsPerTarget", "MaxOIDsPerOperation", "MaxVarbindsPerOperation",
              "RequestBodyLimitBytes", "TrapForwardRetries", "TrapForwardQueueSize",
              "TrapForwardWorkers", "TrapMaxPacketBytes"}
Lists     == {"TLSHosts", "LogDebugTargets", "TrapAllowedCommunities"}
Texts     == {"ListenAddress", "TLSCertPath", "TLSKeyPath", "BasicAuthUsername",
              "BasicAuthPassword", "LogLevel", "TrapListenAddress", "TrapV3UsersFile",
              "TrapRoutesFile", "TrapDefaultTargetURL", "TrapForwardAuthHeader"}
Settings  == Bools \cup Durations \cup Ints \cup Lists \cup Texts

Empty == <<"">>
Absent == <<>>      \* a flag that is not on the command line

(* Of a number the sign is kept, of other defaults that they are there. *)
DefaultConfig ==
  [s \in Settings |->
     CASE s = "TLSEnabled" -> <<"true">>
       [] s \in Bools \ {"TLSEnabled"} -> <<"false">>
       [] s \in Durations -> <<"1s">>
       [] s \in Ints -> <<"1">>
       [] s = "TLSHosts" -> <<"localhost", "127.0.0.1">>
       [] s \in Lists \ {"TLSHosts"} -> <<>>
       [] s = "ListenAddress" -> <<":8443">>
       [] s = "TrapListenAddress" -> <<":9162">>
       [] s = "LogLevel" -> <<"info">>
       [] s \in {"TLSCertPath", "TLSKeyPath"} -> <<"path">>
       [] OTHER -> Empty]
-----------------------------------------------------------------------------
TrimSpace(part) == CASE part = " " -> "" [] part = " a " -> "a" [] OTHER -> part
Blank(text) == text \in {Empty, <<" ">>}

splitCSV(text) ==
  LET out[n \in 0 .. Len(text)] ==
        IF n = 0 THEN <<>>
        ELSE IF TrimSpace(text[n]) = "" THEN out[n - 1]
        ELSE Append(out[n - 1], TrimSpace(text[n]))
  IN  out[Len(text)]
Join(list) == IF list = <<>> THEN Empty ELSE list       \* strings.Join(list, ",")

(* strconv and time.ParseDuration; a duration other than 0 needs a unit. *)
Parses(s, text) ==
  /\ s \in Bools => text \in {<<"true">>, <<"false">>}
  /\ s \in Durations => text \in {<<"-1s">>, <<"0">>, <<"1s">>}
  /\ s \in Ints => text \in {<<"-1">>, <<"0">>, <<"1">>}

DefaultPort(cfg) ==
  IF cfg["TLSEnabled"] = <<"false">> /\ cfg["ListenAddress"] = <<":8443">>
  THEN [cfg EXCEPT !["ListenAddress"] = <<":8080">>] ELSE cfg

(* An empty variable counts as unset. *)
applyEnv(env) ==
  DefaultPort([s \in Settings |->
                 IF env[s] = Empty THEN DefaultConfig[s]
                 ELSE IF s \in Lists THEN splitCSV(env[s]) ELSE env[s]])

(* Every flag's default is what the environment left; lists go through     *)
(* their text form.                                                        *)
FlagDefault_NoJoin(cfg, s) == IF s \in Lists THEN Empty ELSE cfg[s]     \* mutant
FlagDefault(cfg, s) == IF s \in Lists THEN Join(cfg[s]) ELSE cfg[s]

applyFlags(cfg, flags) ==
  LET text(s) == IF flags[s] = Absent THEN FlagDefault(cfg, s) ELSE flags[s]
  IN  DefaultPort([s \in Settings |->
                     IF s \in Lists THEN splitCSV(text(s)) ELSE text(s)])

MayBeZero == {"DefaultSNMPRetries", "RequestStatsInterval", "TrapForwardRetries"}
Checked_Forgotten == (Durations \cup Ints) \ {"TrapForwardWorkers"}     \* mutant
Checked == Durations \cup Ints

Validate(cfg) ==
  /\ ~Blank(cfg["ListenAddress"])
  /\ ~Blank(cfg["BasicAuthUsername"]) /\ ~Blank(cfg["BasicAuthPassword"])
  /\ \A s \in Checked : /\ cfg[s] \notin {<<"-1">>, <<"-1s">>}
                        /\ cfg[s] = <<"0">> => s \in MayBeZero
  /\ cfg["TrapEnabled"] = <<"true">> => ~Blank(cfg["TrapListenAddress"])
  /\ cfg["LogLevel"] \in {<<"debug">>, <<"info">>, <<"warn">>, <<"error">>}

LoadConfig(env, flags) ==
  LET cfg == applyFlags(applyEnv(env), flags)
  IN  [cfg |-> cfg,
       ok  |-> /\ \A s \in Settings : /\ env[s] # Empty => Parses(s, env[s])
                                      /\ flags[s] # Absent => Parses(s, flags[s])
               /\ Validate(cfg)]
=============================================================================
