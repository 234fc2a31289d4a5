------------------------------- MODULE Process -------------------------------
(***************************************************************************)
(* A run of the program from its command line, environment and trap users  *)
(* file on: ProcessLifecycle with the outcomes of its start-up steps that  *)
(* depend on those inputs decided by Config and V3Credentials.             *)
(***************************************************************************)
EXTENDS ProcessLifecycle, Config, V3Credentials

CONSTANT Starts         \* what a process can be started with

VARIABLE inputs         \* [env, flags, users]: variables, command line, users file
processVars == <<inputs, vars>>

(* Once the start-up is over nothing of it is looked at again. *)
Forgotten == [env |-> <<>>, flags |-> <<>>, users |-> <<>>]
Reading == {"loadConfig", "ensureTLS", "newTraps", "notify"}

Loaded(start) == LoadConfig(start.env, start.flags)

(* Settings are given as texts, and there are users only of a users file   *)
(* that is configured.                                                     *)
ASSUME StartsAssumption ==
  \A start \in Starts :
    /\ \A s \in Settings : {start.env[s], start.flags[s]} \subseteq Seq(STRING)
    /\ start.users # <<>> => Loaded(start).cfg["TrapV3UsersFile"] # Empty

cfg == Loaded(inputs).cfg

(* NewTrapService.  The routes file may be refused, too, and a users file  *)
(* that cannot be read has no users.                                       *)
MayServeTraps(start) ==
  LET c == Loaded(start).cfg
  IN  /\ c["TrapEnabled"] = <<"true">> =>
           c["TrapRoutesFile"] # Empty \/ c["TrapDefaultTargetURL"] # Empty
      /\ c["TrapV3UsersFile"] # Empty => newTrapDecoder(start.users).ok

ProcessInit ==
  /\ Init
  /\ inputs \in Starts
  /\ trapEnabled = (cfg["TrapEnabled"] = <<"true">>)

(* What the inputs allow a step of the start-up to do. *)
Decides ==
  /\ pc = "loadConfig" /\ pc' = "ensureTLS" => Loaded(inputs).ok
  /\ pc = "loadConfig" /\ exitCode' = "1" => ~Loaded(inputs).ok
  /\ pc = "ensureTLS" /\ exitCode' = "1" => cfg["TLSEnabled"] = <<"true">>
  /\ pc = "newTraps" /\ pc' = "notify" => MayServeTraps(inputs)
  /\ inputs' = IF pc' \in Reading THEN inputs ELSE Forgotten

ProcessNext == Next /\ Decides
ProcessSpec == ProcessInit /\ [][ProcessNext]_processVars

(* The fairness of ProcessLifecycle's FairSpec. *)
ProcessFairSpec ==
  /\ ProcessSpec
  /\ WF_processVars(MainStep /\ Decides) /\ WF_processVars(DeadlinePasses /\ Decides)
  /\ SF_processVars(PollWait /\ pc' = "exited" /\ Decides)
  /\ \A p \in Packets : WF_processVars(Settle(p) /\ Decides)
=============================================================================
