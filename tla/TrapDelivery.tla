---------------------------- MODULE TrapDelivery ----------------------------
(***************************************************************************)
(* What the trap service promises, without its channel, its workers and    *)
(* its counters: a trap that was received is refused or accepted, an       *)
(* accepted trap ends in exactly one way, an inform is answered after it   *)
(* was accepted, and shutdown ends in a state where no trap is open.       *)
(* Traps are abandoned only once the shutdown deadline has cut it short.   *)
(***************************************************************************)
EXTENDS Naturals

CONSTANT Packets

VARIABLES status,    \* per packet: how far it has come
          phase,     \* of the service
          answered   \* the packets whose sender was answered

vars == <<status, phase, answered>>

Open == {"received", "accepted"}
Closed == {"refused", "delivered", "failed", "abandoned"}
Unrefused == {"accepted", "delivered", "failed", "abandoned"}

TypeOK ==
  /\ status \in [Packets -> {"new"} \cup Open \cup Closed]
  /\ phase \in {"serving", "stopping", "expired", "stopped"}
  /\ answered \in SUBSET Packets

Init ==
  /\ status = [p \in Packets |-> "new"]
  /\ phase = "serving"
  /\ answered = {}

Move(p, from, to) ==
  /\ status[p] = from
  /\ status' = [status EXCEPT ![p] = to]
  /\ UNCHANGED <<phase, answered>>

Receive(p) == phase = "serving" /\ Move(p, "new", "received")

(* The service makes up its mind; it does so even when it is stopping. *)
Decide(p) ==
  /\ phase # "stopped"
  /\ Move(p, "received", "refused") \/ Move(p, "received", "accepted")

Finish(p) ==
  /\ phase # "stopped"
  /\ \/ Move(p, "accepted", "delivered")
     \/ Move(p, "accepted", "failed")
     \/ phase = "expired" /\ Move(p, "accepted", "abandoned")

Answer(p) ==
  /\ phase # "stopped" /\ status[p] \in Unrefused /\ p \notin answered
  /\ answered' = answered \cup {p}
  /\ UNCHANGED <<status, phase>>

Stop == phase = "serving" /\ phase' = "stopping" /\ UNCHANGED <<status, answered>>
Expire == phase = "stopping" /\ phase' = "expired" /\ UNCHANGED <<status, answered>>

Stopped ==
  /\ phase \in {"stopping", "expired"}
  /\ \A p \in Packets : status[p] \notin Open
  /\ phase' = "stopped"
  /\ UNCHANGED <<status, answered>>

Next ==
  \/ \E p \in Packets : Receive(p) \/ Decide(p) \/ Finish(p) \/ Answer(p)
  \/ Stop \/ Expire \/ Stopped

(* Every trap is decided on and finished, and a shutdown ends. *)
Fairness ==
  /\ \A p \in Packets : WF_vars(Decide(p)) /\ WF_vars(Finish(p))
  /\ WF_vars(Stopped)

Safety == Init /\ [][Next]_vars
Spec == Safety /\ Fairness
=============================================================================
