-------------------------- MODULE ProcessLifecycle --------------------------
(***************************************************************************)
(* main of cmd/snmp-proxy/main.go from start to exit, composed with the    *)
(* HTTP server it runs in a goroutine and with what the trap service       *)
(* promises (TrapDelivery, which TrapService implements).                  *)
(***************************************************************************)
EXTENDS Naturals

CONSTANTS Packets,      \* traps that can arrive
          Requests      \* HTTP requests that can arrive

VARIABLES pc,           \* where main stands
          exitCode,     \* "none" while it runs; "killed" by a signal nobody handles
          signaled,     \* SIGINT or SIGTERM was sent
          deadline,     \* shutdownCtx has expired
          trapEnabled,  \* the setting
          http,         \* the goroutine of the HTTP server
          request,      \* per request: "new", "running" or "done"
          closeErr,     \* traps.Close saw the expired deadline
          status, phase, answered      \* of the trap service

Traps == INSTANCE TrapDelivery

trapVars == <<status, phase, answered>>
mainVars == <<pc, exitCode, signaled, deadline, trapEnabled, closeErr>>
vars == <<mainVars, http, request, trapVars>>

Startup == {"loadConfig", "ensureTLS", "newTraps", "notify", "startTraps"}
ShuttingDown == {"shutdownHTTP", "pollWait", "closeTraps"}
Alive == pc # "exited"

Init ==
  /\ pc = "loadConfig" /\ exitCode = "none"
  /\ signaled = FALSE /\ deadline = FALSE /\ closeErr = FALSE
  /\ trapEnabled \in BOOLEAN
  /\ http = "off" /\ request = [r \in Requests |-> "new"]
  /\ Traps!Init
-----------------------------------------------------------------------------
Goto(place) == pc' = place /\ UNCHANGED exitCode
Exit(code) == pc' = "exited" /\ exitCode' = code

(* Every step but notify can fail, and main exits at once.  Traps that are *)
(* not enabled are not started.                                            *)
StartStep ==
  /\ \/ pc = "loadConfig" /\ Goto("ensureTLS")
     \/ pc = "ensureTLS" /\ Goto("newTraps")
     \/ pc = "newTraps" /\ Goto("notify")
     \/ pc = "notify" /\ Goto("startTraps")
     \/ pc = "startTraps" /\ Goto("serve")
     \/ pc \in {"loadConfig", "ensureTLS", "newTraps"} /\ Exit("1")
     \/ pc = "startTraps" /\ trapEnabled /\ Exit("1")
  /\ UNCHANGED <<signaled, deadline, trapEnabled, closeErr, http, request, trapVars>>

(* Until signal.NotifyContext a signal kills the process; from then on it  *)
(* is remembered in ctx, and later ones are swallowed.                     *)
Signal ==
  /\ Alive /\ ~signaled /\ signaled' = TRUE
  /\ IF pc \in {"loadConfig", "ensureTLS", "newTraps", "notify"}
     THEN Exit("killed") ELSE UNCHANGED <<pc, exitCode>>
  /\ UNCHANGED <<deadline, trapEnabled, closeErr, http, request, trapVars>>

(* The select of main; when both cases are ready either runs.  Shutdown    *)
(* closes the listener, or makes a goroutine that is late refuse to open.  *)
BeginShutdown ==
  /\ pc = "serve" /\ signaled
  /\ Goto("shutdownHTTP")
  /\ http' = IF http = "failed" THEN http ELSE "closed"
  /\ UNCHANGED <<signaled, deadline, trapEnabled, closeErr, request, trapVars>>

ListenerFailed ==
  /\ pc = "serve" /\ http = "failed"
  /\ Exit("1")
  /\ UNCHANGED <<signaled, deadline, trapEnabled, closeErr, http, request, trapVars>>

Idle_Unchecked == TRUE          \* mutant: Shutdown is started but not waited for
Idle == \A r \in Requests : request[r] # "running"

Expired_Never == FALSE          \* mutant: Shutdown with a context without deadline
Expired == deadline

(* ShutdownHTTP: polls until no connection is active or the context ends. *)
Poll ==
  /\ pc = "shutdownHTTP"
  /\ \/ /\ Idle /\ Goto("closeTraps")
        /\ IF trapEnabled THEN Traps!Stop ELSE UNCHANGED trapVars
     \/ ~Idle /\ Goto("pollWait") /\ UNCHANGED trapVars
  /\ UNCHANGED <<signaled, deadline, trapEnabled, closeErr, http, request>>

PollWait ==
  /\ pc = "pollWait"
  /\ Goto("shutdownHTTP") \/ (Expired /\ Exit("1"))
  /\ UNCHANGED <<signaled, deadline, trapEnabled, closeErr, http, request, trapVars>>

(* traps.Close with the rest of the same deadline. *)
CloseExpires ==
  /\ pc = "closeTraps" /\ trapEnabled /\ deadline
  /\ Traps!Expire /\ closeErr' = TRUE
  /\ UNCHANGED <<pc, exitCode, signaled, deadline, trapEnabled, http, request>>

CodeOf_Ignored(err) == "0"      \* mutant: the error of Close is only logged
CodeOf(err) == IF err THEN "1" ELSE "0"

CloseReturns ==
  /\ pc = "closeTraps"
  /\ \/ trapEnabled /\ Traps!Stopped /\ Exit(CodeOf(closeErr)) /\ UNCHANGED closeErr
     \/ /\ ~trapEnabled /\ UNCHANGED trapVars
        /\ closeErr' \in {FALSE, deadline} /\ Exit(CodeOf(closeErr'))
  /\ UNCHANGED <<signaled, deadline, trapEnabled, http, request>>

MainStep ==
  StartStep \/ BeginShutdown \/ ListenerFailed \/ Poll \/ PollWait \/ CloseReturns
-----------------------------------------------------------------------------
(* What runs beside main. *)

DeadlinePasses ==
  /\ pc \in ShuttingDown /\ ~deadline /\ deadline' = TRUE
  /\ UNCHANGED <<pc, exitCode, signaled, trapEnabled, closeErr, http, request, trapVars>>

ListenAndServe ==
  /\ pc = "serve"
  /\ \/ http = "off" /\ http' \in {"up", "failed"}
     \/ http = "up" /\ http' = "failed"
  /\ UNCHANGED <<mainVars, request, trapVars>>

(* Requests on connections that were accepted go on after the listener is  *)
(* closed; how long one takes is up to the devices it asks.                *)
Serve(r) ==
  /\ Alive
  /\ \/ http = "up" /\ request[r] = "new" /\ request' = [request EXCEPT ![r] = "running"]
     \/ request[r] = "running" /\ request' = [request EXCEPT ![r] = "done"]
  /\ UNCHANGED <<mainVars, http, trapVars>>

TrapStep(p) ==
  /\ trapEnabled /\ pc \in {"serve"} \cup ShuttingDown
  /\ Traps!Receive(p) \/ Traps!Decide(p) \/ Traps!Finish(p) \/ Traps!Answer(p)
  /\ UNCHANGED <<mainVars, http, request>>

Next ==
  \/ MainStep \/ CloseExpires \/ Signal \/ DeadlinePasses \/ ListenAndServe
  \/ \E r \in Requests : Serve(r)
  \/ \E p \in Packets : TrapStep(p)

Spec == Init /\ [][Next]_vars

Settle(p) == TrapStep(p) /\ (Traps!Decide(p) \/ Traps!Finish(p))

(* main runs, time passes and the trap service keeps its promise to settle *)
(* what it has accepted; nothing says that a request ever ends.            *)
(* PollWait is fair towards its timeout: an expired context wins sooner or *)
(* later.                                                                  *)
FairSpec ==
  /\ Spec
  /\ WF_vars(MainStep) /\ WF_vars(DeadlinePasses)
  /\ SF_vars(PollWait /\ pc' = "exited")
  /\ \A p \in Packets : WF_vars(Settle(p))
-----------------------------------------------------------------------------
(* The state has the expected shape, and the trap service is told to stop  *)
(* only when no request is left.                                           *)
TypeOK ==
  /\ pc \in Startup \cup {"serve", "exited"} \cup ShuttingDown
  /\ exitCode \in {"none", "0", "1", "killed"} /\ (exitCode = "none" <=> Alive)
  /\ {signaled, deadline, trapEnabled, closeErr} \subseteq BOOLEAN
  /\ http \in {"off", "up", "failed", "closed"}
  /\ request \in [Requests -> {"new", "running", "done"}]
  /\ Traps!TypeOK
  /\ phase # "serving" => \A r \in Requests : request[r] # "running"

WorkLost ==
  \/ \E r \in Requests : request[r] = "running"
  \/ \E p \in Packets : status[p] \in Traps!Open \cup {"abandoned"}

(* The process never drops a request it had begun or a trap it had         *)
(* received for a signal alone: that takes a failed listener or a shutdown *)
(* timeout that ran out, and whoever started the process is told by its    *)
(* exit code.  An exit code 0 means that all work was answered or settled. *)
LossIsReported ==
  ~Alive /\ WorkLost => (http = "failed" \/ deadline) /\ exitCode # "0"

(* However long requests take, a process that was asked to stop is gone in *)
(* the end.                                                                *)
ShutdownEnds == signaled ~> ~Alive

(* SPEC.md:460: "Graceful shutdown stops accepting new HTTP connections    *)
(* and trap packets".  It must hold at least while the HTTP requests end.  *)
StopsAcceptingTraps ==
  [][(pc = "pollWait") => \A p \in Packets : ~Traps!Receive(p)]_vars
=============================================================================
