-------------------------- MODULE TLSMaterial_proofs --------------------------
(***************************************************************************)
(* Theorems about TLSMaterial, for any processes, key pairs and number of  *)
(* faults: what O_EXCL buys EnsureTLSMaterial.                             *)
(***************************************************************************)
EXTENDS TLSMaterial, TLAPS

Absent(file) == file.state = "absent"

(* How far the one process that writes has come, read off the files.       *)
Progress ==
  \A p \in Processes :
    /\ pc[p] \in {"generate", "createCert"} => (Absent(cert) => Absent(key))
    /\ pc[p] \in Writing => cert.pair = pair[p]
    /\ pc[p] = "writeCert" => cert.state = "broken" /\ Absent(key)
    /\ pc[p] = "createKey" => cert.state = "whole" /\ Absent(key)
    /\ pc[p] = "writeKey" => /\ cert.state = "whole"
                             /\ key.state = "broken" /\ key.pair = pair[p]

(* The same as DamageHasCause, with the writer named.                      *)
Cause == faults = 0 => InOrder \/ \E p \in Processes : pc[p] \in Writing

(* The inductive invariant. *)
IInv == TypeOK /\ Progress /\ EnsuredPairLoads /\ Cause

USE DEF File, Writing, Generating

(* The initial states satisfy it.                                          *)
LEMMA InitEstablishes == Init => IInv
  BY PairAssumption DEF Init, IInv, TypeOK, Progress, EnsuredPairLoads, Cause, InOrder, Usable,
     Present, Absent
-----------------------------------------------------------------------------
(* Steps that leave the files alone.                                       *)
LEMMA LookKeepsIInv ==
  ASSUME IInv, NEW p \in Processes,
         StatCert(p) \/ StatKey(p) \/ Load(p) \/ GenerateKey(p) \/ Listen(p) \/ Fault(p)
  PROVE  IInv'
<1>1. CASE StatCert(p)
  BY <1>1 DEF IInv, TypeOK, Progress, EnsuredPairLoads, Cause, InOrder, Usable, Present, Absent,
     StatCert, Goto
<1>2. CASE StatKey(p)
  BY <1>2 DEF IInv, TypeOK, Progress, EnsuredPairLoads, Cause, InOrder, Usable, Present, Absent,
     StatKey, Goto, Exit
<1>3. CASE Load(p)
  BY <1>3 DEF IInv, TypeOK, Progress, EnsuredPairLoads, Cause, InOrder, Usable, Present, Absent,
     Load, Goto, Exit
<1>4. CASE GenerateKey(p)
  BY <1>4 DEF IInv, TypeOK, Progress, EnsuredPairLoads, Cause, InOrder, Usable, Present, Absent,
     GenerateKey, Goto
<1>5. CASE Listen(p)
  BY <1>5 DEF IInv, TypeOK, Progress, EnsuredPairLoads, Cause, InOrder, Usable, Present, Absent,
     Listen, Goto, Exit
<1>6. CASE Fault(p)
  BY <1>6, PairAssumption DEF IInv, TypeOK, Progress, EnsuredPairLoads, Cause, InOrder, Usable,
     Present, Absent, Fault, Goto, Exit
<1> QED
  BY <1>1, <1>2, <1>3, <1>4, <1>5, <1>6
-----------------------------------------------------------------------------
(* Steps that write.  MayCreate is what keeps the writer alone: whoever    *)
(* finds the certificate absent finds the key absent, and no one else has  *)
(* begun; so the writer never meets a key it did not create.               *)
LEMMA WriteKeepsIInv ==
  ASSUME IInv, NEW p \in Processes,
         CreateCert(p) \/ WriteCert(p) \/ CreateKey(p) \/ WriteKey(p)
  PROVE  IInv'
<1>1. CASE CreateCert(p)
  BY <1>1 DEF IInv, TypeOK, Progress, EnsuredPairLoads, Cause, InOrder, Usable, Present, Absent,
     CreateCert, MayCreate, Goto, Exit
<1>2. CASE WriteCert(p)
  BY <1>2 DEF IInv, TypeOK, Progress, EnsuredPairLoads, Cause, InOrder, Usable, Present, Absent,
     WriteCert, Goto
<1>3. CASE CreateKey(p)
  BY <1>3 DEF IInv, TypeOK, Progress, EnsuredPairLoads, Cause, InOrder, Usable, Present, Absent,
     CreateKey, MayCreate, Goto, Exit
<1>4. CASE WriteKey(p)
  BY <1>4 DEF IInv, TypeOK, Progress, EnsuredPairLoads, Cause, InOrder, Usable, Present, Absent,
     WriteKey, Goto
<1> QED
  BY <1>1, <1>2, <1>3, <1>4

(* Every step keeps the invariant.                                         *)
LEMMA NextKeepsIInv == IInv /\ [Next]_vars => IInv'
<1> SUFFICES ASSUME IInv, [Next]_vars PROVE IInv'
  OBVIOUS
<1>1. CASE OperatorCleans
  BY <1>1 DEF IInv, TypeOK, Progress, EnsuredPairLoads, Cause, InOrder, Usable, Present, Absent,
     OperatorCleans
<1>2. ASSUME NEW p \in Processes, Step(p) PROVE IInv'
  BY <1>2, LookKeepsIInv, WriteKeepsIInv DEF Step
<1>3. ASSUME NEW p \in Processes, Fault(p) PROVE IInv'
  BY <1>3, LookKeepsIInv
<1>4. CASE UNCHANGED vars
  BY <1>4 DEF IInv, TypeOK, Progress, EnsuredPairLoads, Cause, InOrder, Usable, Present, Absent, vars
<1> QED
  BY <1>1, <1>2, <1>3, <1>4 DEF Next
-----------------------------------------------------------------------------
(* The inductive invariant holds in every reachable state.                 *)
THEOREM SpecIInv == Spec => []IInv
  BY InitEstablishes, NextKeepsIInv, PTL DEF Spec

(* The state keeps its shape, and at most one process at a time holds the  *)
(* descriptors of the pair.                                                *)
THEOREM SpecTypeOK == Spec => []TypeOK
<1>1. IInv => TypeOK
  BY DEF IInv
<1> QED
  BY <1>1, SpecIInv, PTL

(* A process that got past EnsureTLSMaterial finds a pair it can load, and *)
(* whoever listens presents the pair on disk.                              *)
THEOREM SpecEnsuredPairLoads == Spec => []EnsuredPairLoads
<1>1. IInv => EnsuredPairLoads
  BY DEF IInv
<1> QED
  BY <1>1, SpecIInv, PTL

(* Without a fault no number of racing starts leaves a damaged pair.       *)
THEOREM SpecDamageHasCause == Spec => []DamageHasCause
<1>1. IInv => DamageHasCause
  BY DEF IInv, Cause, DamageHasCause, Damaged
<1> QED
  BY <1>1, SpecIInv, PTL
=============================================================================
