----------------------------- MODULE TLSMaterial -----------------------------
(***************************************************************************)
(* The certificate pair of internal/gateway/tls.go: several processes that *)
(* share the two configured paths are started again and again, and each    *)
(* uses the pair it finds or creates one.  A process may be killed, or an  *)
(* operation of it may fail, between any two system calls; what it wrote   *)
(* so far stays.                                                           *)
(*                                                                         *)
(* A file is "absent", "broken" (nothing can be loaded from it: just       *)
(* created, half written, a directory, not a certificate) or "whole" and   *)
(* then belongs to a key pair.                                             *)
(***************************************************************************)
EXTENDS Naturals, FiniteSets

CONSTANTS Processes,
          Pairs,        \* the key pairs rsa.GenerateKey can come up with
          MaxFaults     \* bound on the faults of one behaviour

ASSUME PairAssumption == IsFiniteSet(Processes) /\ Pairs # {} /\ MaxFaults \in Nat

VARIABLES cert, key,    \* the two files
          pc,           \* where each process stands
          seen,         \* per process: os.Stat found the certificate
          pair,         \* per process: the pair it generated or serves
          faults        \* number of faults so far

vars == <<cert, key, pc, seen, pair, faults>>

File == [state : {"absent", "broken", "whole"}, pair : Pairs]
Present(file) == file.state # "absent"

(* tls.LoadX509KeyPair succeeds. *)
Usable == cert.state = "whole" /\ key.state = "whole" /\ cert.pair = key.pair
InOrder == Usable \/ (~Present(cert) /\ ~Present(key))

Generating == {"generate", "createCert", "writeCert", "createKey", "writeKey"}
Writing == {"writeCert", "createKey", "writeKey"}

(* Files an operator left in disorder count as a fault. *)
Init ==
  /\ cert \in File /\ key \in File
  /\ faults \in {n \in 0..1 : n <= MaxFaults /\ (n = 0 => InOrder)}
  /\ pc = [p \in Processes |-> "down"]
  /\ seen = [p \in Processes |-> FALSE]
  /\ pair \in {[p \in Processes |-> q] : q \in Pairs}
-----------------------------------------------------------------------------
Goto(p, place) == pc' = [pc EXCEPT ![p] = place]
Exit(p) == Goto(p, "down")       \* os.Exit(1), or main never gets that far

StatCert(p) ==      \* a start of the process, too
  /\ pc[p] = "down"
  /\ seen' = [seen EXCEPT ![p] = Present(cert)]
  /\ Goto(p, "statKey")
  /\ UNCHANGED <<cert, key, pair, faults>>

StatKey_Regenerate(p) ==               \* mutant: an existing pair is not used
  /\ pc[p] = "statKey"
  /\ \/ seen[p] = Present(key) /\ Goto(p, "generate")
     \/ seen[p] # Present(key) /\ Exit(p)
  /\ UNCHANGED <<cert, key, seen, pair, faults>>
StatKey(p) ==
  /\ pc[p] = "statKey"
  /\ \/ seen[p] /\ Present(key) /\ Goto(p, "load")
     \/ ~seen[p] /\ ~Present(key) /\ Goto(p, "generate")
     \/ seen[p] # Present(key) /\ Exit(p)
  /\ UNCHANGED <<cert, key, seen, pair, faults>>

(* The check of an existing pair.  Both files are read in one step: once   *)
(* the key exists nobody writes the certificate.                           *)
Load(p) ==
  /\ pc[p] = "load"
  /\ IF Usable THEN Goto(p, "ready") ELSE Exit(p)
  /\ UNCHANGED <<cert, key, seen, pair, faults>>

Fresh(q) ==
  /\ \A file \in {cert, key} : Present(file) => file.pair # q
  /\ \A r \in Processes : pc[r] \in Generating => pair[r] # q

GenerateKey(p) ==
  /\ pc[p] = "generate"
  /\ \E q \in Pairs : Fresh(q) /\ pair' = [pair EXCEPT ![p] = q]
  /\ Goto(p, "createCert")
  /\ UNCHANGED <<cert, key, seen, faults>>

MayCreate_Truncate(file) == TRUE       \* mutant: O_TRUNC in place of O_EXCL
MayCreate(file) == ~Present(file)

CreateCert_KeepExisting(p) ==          \* mutant: the certificate of another is kept
  /\ pc[p] = "createCert"
  /\ IF MayCreate(cert)
     THEN cert' = [state |-> "broken", pair |-> pair[p]] /\ Goto(p, "writeCert")
     ELSE Goto(p, "createKey") /\ UNCHANGED cert
  /\ UNCHANGED <<key, seen, pair, faults>>
CreateCert(p) ==
  /\ pc[p] = "createCert"
  /\ IF MayCreate(cert)
     THEN cert' = [state |-> "broken", pair |-> pair[p]] /\ Goto(p, "writeCert")
     ELSE Exit(p) /\ UNCHANGED cert
  /\ UNCHANGED <<key, seen, pair, faults>>

WriteCert(p) ==
  /\ pc[p] = "writeCert"
  /\ cert' = [cert EXCEPT !.state = "whole"]
  /\ Goto(p, "createKey")
  /\ UNCHANGED <<key, seen, pair, faults>>

CreateKey(p) ==
  /\ pc[p] = "createKey"
  /\ IF MayCreate(key)
     THEN key' = [state |-> "broken", pair |-> pair[p]] /\ Goto(p, "writeKey")
     ELSE Exit(p) /\ UNCHANGED key
  /\ UNCHANGED <<cert, seen, pair, faults>>

WriteKey(p) ==
  /\ pc[p] = "writeKey"
  /\ key' = [key EXCEPT !.state = "whole"]
  /\ Goto(p, "ready")
  /\ UNCHANGED <<cert, seen, pair, faults>>

(* ListenAndServeTLS reads the files once more. *)
Listen(p) ==
  /\ pc[p] = "ready"
  /\ IF Usable THEN Goto(p, "serving") /\ pair' = [pair EXCEPT ![p] = cert.pair]
               ELSE Exit(p) /\ UNCHANGED pair
  /\ UNCHANGED <<cert, key, seen, faults>>
-----------------------------------------------------------------------------
(* A process is killed, or a system call of it fails. *)
Fault(p) ==
  /\ pc[p] # "down" /\ faults < MaxFaults
  /\ faults' = faults + 1
  /\ Exit(p)
  /\ UNCHANGED <<cert, key, seen, pair>>

(* Nothing in the code repairs damaged files.  The operator may, while no  *)
(* process runs.                                                           *)
OperatorCleans ==
  /\ ~InOrder /\ \A p \in Processes : pc[p] = "down"
  /\ cert' = [cert EXCEPT !.state = "absent"]
  /\ key' = [key EXCEPT !.state = "absent"]
  /\ UNCHANGED <<pc, seen, pair, faults>>

Step(p) ==
  \/ StatCert(p) \/ StatKey(p) \/ Load(p) \/ GenerateKey(p) \/ CreateCert(p)
  \/ WriteCert(p) \/ CreateKey(p) \/ WriteKey(p) \/ Listen(p)

Next == (\E p \in Processes : Step(p) \/ Fault(p)) \/ OperatorCleans

Spec == Init /\ [][Next]_vars

(* Processes run and are restarted; nothing makes the operator act. *)
FairSpec == Spec /\ \A p \in Processes : WF_vars(Step(p))
-----------------------------------------------------------------------------
(* The state has the expected shape; O_EXCL hands the descriptors of the    *)
(* pair to one process at a time.                                          *)
TypeOK ==
  /\ cert \in File /\ key \in File
  /\ pc \in [Processes -> {"down", "statKey", "load", "ready", "serving"} \cup Generating]
  /\ seen \in [Processes -> BOOLEAN]
  /\ pair \in [Processes -> Pairs]
  /\ faults \in 0..MaxFaults
  /\ \A p, r \in Processes : {pc[p], pc[r]} \subseteq Writing => p = r

(* A process that got past EnsureTLSMaterial finds a pair it can load when *)
(* it starts to listen, and whoever listens presents the pair that is on   *)
(* disk: no other start, however slow, has written over it or mixed two    *)
(* pairs.                                                                  *)
EnsuredPairLoads ==
  \A p \in Processes :
    /\ pc[p] \in {"ready", "serving"} => Usable
    /\ pc[p] = "serving" => pair[p] = cert.pair

Damaged == ~InOrder /\ \A p \in Processes : pc[p] \notin Writing

(* Races of starting processes alone never leave a damaged pair behind:    *)
(* that takes a fault of the process that writes, or an operator.          *)
DamageHasCause == faults = 0 => ~Damaged

(* Once the files stay undamaged every process ends up serving: a start    *)
(* that lost the race for the new pair, or met it half written, succeeds   *)
(* when it is repeated.                                                    *)
RestartsSucceed ==
  <>[]~Damaged => \A p \in Processes : <>[](pc[p] = "serving")
=============================================================================
