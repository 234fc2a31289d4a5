---------------------------- MODULE Process_proofs ----------------------------
(***************************************************************************)
(* Theorems about a run of the program, for any sets of traps, requests    *)
(* and starts: a shutdown loses no work without a cause that its exit code *)
(* tells, and a start-up goes on only with a configuration and trap users  *)
(* the rest of the program can rely on.                                    *)
(***************************************************************************)
EXTENDS MCProcess, V3Credentials_proofs, FiniteSetTheorems

(* ProcessLifecycle first, where a start-up may fail at every step.        *)

(* Nothing has begun before main serves.                                   *)
StartupUntouched ==
  pc \in Startup =>
    /\ http = "off"
    /\ request = [r \in Requests |-> "new"]
    /\ status = [p \in Packets |-> "new"]

(* A trap service that is not enabled never moves.                         *)
TrapsOff == ~trapEnabled => phase = "serving" /\ status = [p \in Packets |-> "new"]

(* Once main shuts down no request begins, and traps.Close is called when  *)
(* none is left.                                                           *)
ShutdownOrder ==
  /\ pc \in ShuttingDown => http \in {"failed", "closed"}
  /\ pc = "closeTraps" => /\ \A r \in Requests : request[r] # "running"
                          /\ trapEnabled => phase \in {"stopping", "expired"}
  /\ phase # "serving" => pc \in {"closeTraps", "exited"}

(* Traps are abandoned only by a Close that met the expired deadline.      *)
AbandonedByExpiry ==
  /\ closeErr => deadline
  /\ phase = "expired" => closeErr
  /\ \A p \in Packets : status[p] = "abandoned" => closeErr

(* The inductive invariant.                                                *)
IInv ==
  TypeOK /\ StartupUntouched /\ TrapsOff /\ ShutdownOrder /\ AbandonedByExpiry /\ LossIsReported

USE DEF Startup, ShuttingDown, Alive, Traps!Open, Traps!Closed

(* The initial states satisfy it.                                          *)
LEMMA InitEstablishes == Init => IInv
  BY DEF Init, Traps!Init, IInv, TypeOK, Traps!TypeOK, StartupUntouched, TrapsOff, ShutdownOrder,
     AbandonedByExpiry, LossIsReported, WorkLost
-----------------------------------------------------------------------------
(* The steps of main.                                                      *)
LEMMA MainKeepsIInv ==
  ASSUME IInv, MainStep
  PROVE  IInv'
<1> USE DEF IInv, TypeOK, Traps!TypeOK, StartupUntouched, TrapsOff, ShutdownOrder,
    AbandonedByExpiry, LossIsReported, WorkLost, Goto, Exit, trapVars
<1>1. CASE StartStep
  BY <1>1 DEF StartStep
<1>2. CASE BeginShutdown
  BY <1>2 DEF BeginShutdown
<1>3. CASE ListenerFailed
  BY <1>3 DEF ListenerFailed
<1>4. CASE Poll
  BY <1>4 DEF Poll, Idle, Traps!Stop
<1>5. CASE PollWait
  BY <1>5 DEF PollWait, Expired
<1>6. CASE CloseReturns
  <2>1. CASE trapEnabled
    BY <1>6, <2>1 DEF CloseReturns, CodeOf, Traps!Stopped
  <2>2. CASE ~trapEnabled
    <3>1. closeErr' \in {FALSE, deadline} /\ exitCode' \in {"0", "1"} /\ pc' = "exited"
      BY <1>6, <2>2 DEF CloseReturns, CodeOf
    <3>2. closeErr' \in BOOLEAN /\ (closeErr' => deadline)
      <4>1. deadline \in BOOLEAN
        OBVIOUS
      <4> HIDE DEF IInv
      <4>2. CASE closeErr' = FALSE
        BY <4>2
      <4>3. CASE closeErr' = deadline
        BY <4>1, <4>3
      <4> QED
        BY <3>1, <4>2, <4>3
    <3>3. /\ UNCHANGED <<signaled, deadline, trapEnabled, http, request, status, phase, answered>>
          /\ pc = "closeTraps"
      BY <1>6, <2>2 DEF CloseReturns
    <3>4. ~WorkLost'
      BY <2>2, <3>3
    <3> QED
      BY <2>2, <3>1, <3>2, <3>3, <3>4
  <2> QED
    BY <2>1, <2>2
<1> QED
  BY <1>1, <1>2, <1>3, <1>4, <1>5, <1>6 DEF MainStep
-----------------------------------------------------------------------------
(* What runs beside main.                                                  *)
LEMMA OthersKeepIInv ==
  ASSUME IInv, CloseExpires \/ Signal \/ DeadlinePasses \/ ListenAndServe
  PROVE  IInv'
<1> USE DEF IInv, TypeOK, Traps!TypeOK, StartupUntouched, TrapsOff, ShutdownOrder,
    AbandonedByExpiry, LossIsReported, WorkLost, Exit, trapVars, mainVars
<1>1. CASE CloseExpires
  BY <1>1 DEF CloseExpires, Traps!Expire
<1>2. CASE Signal
  BY <1>2 DEF Signal
<1>3. CASE DeadlinePasses
  BY <1>3 DEF DeadlinePasses
<1>4. CASE ListenAndServe
  BY <1>4 DEF ListenAndServe
<1> QED
  BY <1>1, <1>2, <1>3, <1>4

(* A request begins only while the listener is up, hence not in a          *)
(* shutdown.                                                               *)
LEMMA ServeKeepsIInv ==
  ASSUME IInv, NEW r \in Requests, Serve(r)
  PROVE  IInv'
  BY DEF IInv, TypeOK, Traps!TypeOK, StartupUntouched, TrapsOff, ShutdownOrder,
     AbandonedByExpiry, LossIsReported, WorkLost, Serve, trapVars, mainVars

(* A trap moves only while the service runs, and is abandoned only after   *)
(* Close met the deadline.                                                 *)
LEMMA TrapStepKeepsIInv ==
  ASSUME IInv, NEW p \in Packets, TrapStep(p)
  PROVE  IInv'
<1> USE DEF IInv, TypeOK, Traps!TypeOK, StartupUntouched, TrapsOff, ShutdownOrder,
    AbandonedByExpiry, LossIsReported, WorkLost, TrapStep, mainVars
<1>1. CASE Traps!Receive(p)
  BY <1>1 DEF Traps!Receive, Traps!Move
<1>2. CASE Traps!Decide(p)
  BY <1>2 DEF Traps!Decide, Traps!Move
<1>3. CASE Traps!Finish(p)
  BY <1>3 DEF Traps!Finish, Traps!Move
<1>4. CASE Traps!Answer(p)
  BY <1>4 DEF Traps!Answer, Traps!Unrefused
<1> QED
  BY <1>1, <1>2, <1>3, <1>4 DEF TrapStep

(* Every step keeps the invariant.                                         *)
LEMMA NextKeepsIInv == IInv /\ [Next]_vars => IInv'
<1> SUFFICES ASSUME IInv, [Next]_vars PROVE IInv'
  OBVIOUS
<1>1. CASE UNCHANGED vars
  BY <1>1 DEF vars, mainVars, trapVars, IInv, TypeOK, Traps!TypeOK, StartupUntouched, TrapsOff,
     ShutdownOrder, AbandonedByExpiry, LossIsReported, WorkLost
<1>2. CASE Next
  BY <1>2, MainKeepsIInv, OthersKeepIInv, ServeKeepsIInv, TrapStepKeepsIInv DEF Next
<1> QED
  BY <1>1, <1>2
-----------------------------------------------------------------------------
(* The inductive invariant holds in every reachable state.                 *)
THEOREM SpecIInv == Spec => []IInv
  BY InitEstablishes, NextKeepsIInv, PTL DEF Spec

(* The state keeps its shape, and traps.Close is not called before the     *)
(* last request has ended.                                                 *)
THEOREM SpecTypeOK == Spec => []TypeOK
<1>1. IInv => TypeOK
  BY DEF IInv
<1> QED
  BY <1>1, SpecIInv, PTL

(* However many requests and traps there are, a process that ends with     *)
(* work undone had its listener fail or its shutdown timeout run out, and  *)
(* does not exit with 0.                                                   *)
THEOREM SpecLossIsReported == Spec => []LossIsReported
<1>1. IInv => LossIsReported
  BY DEF IInv
<1> QED
  BY <1>1, SpecIInv, PTL
-----------------------------------------------------------------------------
(* Now with the inputs that decide the start-up.                           *)

(* Deciding the start-up by its inputs only removes behaviours.            *)
THEOREM ProcessImplementsLifecycle == ProcessSpec => Spec
<1>1. ProcessInit => Init
  BY DEF ProcessInit
<1>2. [ProcessNext]_processVars => [Next]_vars
  BY DEF ProcessNext, processVars
<1> QED
  BY <1>1, <1>2, PTL DEF ProcessSpec, Spec

(* Whatever it is started with, a process does not lose work without a     *)
(* cause and does not hide it when it does.                                *)
THEOREM ProcessLossIsReported == ProcessSpec => []LossIsReported
  BY ProcessImplementsLifecycle, SpecLossIsReported, PTL
-----------------------------------------------------------------------------
(* The recursion of splitCSV over the first k parts of a text.             *)
Splits(text, k, f) ==
  f = [n \in 0..k |-> IF n = 0 THEN <<>>
                      ELSE IF TrimSpace(text[n]) = "" THEN f[n - 1]
                      ELSE Append(f[n - 1], TrimSpace(text[n]))]

(* Induction, by the first number that is an exception.                    *)
LEMMA LeastNumber ==
  ASSUME NEW S \in SUBSET Nat, S # {}
  PROVE  \E m \in S : \A n \in S : m <= n
<1>1. PICK m \in S : \A n \in S : <<n, m>> \notin OpToRel(<, Nat)
  BY WFMin, NatLessThanWellFounded, Zenon
<1>2. \A n \in S : ~(n < m)
  BY <1>1, Zenon DEF OpToRel
<1>3. \A n \in S : m <= n
  BY <1>2
<1>4. QED
  BY <1>3

(* The recursion defines a function.                                       *)
LEMMA SplitsExist ==
  ASSUME NEW text, NEW k \in Nat
  PROVE  \E f : Splits(text, k, f)
<1> DEFINE bad == {m \in Nat : ~\E f : Splits(text, m, f)}
<1>1. SUFFICES ASSUME bad # {} PROVE FALSE
  OBVIOUS
<1>2. PICK m \in bad : \A n \in bad : m <= n
  <2>1. bad \in SUBSET Nat
    OBVIOUS
  <2>2. QED
    <3> HIDE DEF bad
    <3> QED BY <1>1, <2>1, LeastNumber
<1>3. CASE m = 0
  <2> DEFINE g == [n \in 0..0 |-> <<>>]
  <2>1. /\ g = [n \in 0..0 |-> g[n]]
        /\ \A n \in 0..0 : n = 0 /\ g[n] = <<>>
    OBVIOUS
  <2>2. Splits(text, 0, g)
    <3> HIDE DEF g
    <3> QED BY <2>1 DEF Splits
  <2>3. QED
    BY <1>3, <2>2
<1>4. CASE m # 0
  <2>1. m \in Nat /\ m - 1 \in Nat /\ ~(m <= m - 1)
    BY <1>4
  <2>2. PICK f : Splits(text, m - 1, f)
    BY <1>2, <2>1
  <2> DEFINE last == IF TrimSpace(text[m]) = "" THEN f[m - 1]
                     ELSE Append(f[m - 1], TrimSpace(text[m]))
             g == [n \in 0..m |-> IF n = m THEN last ELSE f[n]]
  <2>3. \A n \in 0 .. m - 1 :
          f[n] = IF n = 0 THEN <<>>
                 ELSE IF TrimSpace(text[n]) = "" THEN f[n - 1]
                 ELSE Append(f[n - 1], TrimSpace(text[n]))
    BY <2>2 DEF Splits
  <2>4. ASSUME NEW n \in 0..m
        PROVE  g[n] = IF n = 0 THEN <<>>
                      ELSE IF TrimSpace(text[n]) = "" THEN g[n - 1]
                      ELSE Append(g[n - 1], TrimSpace(text[n]))
    <3>1. CASE n = m
      <4>1. g[n] = last /\ g[n - 1] = f[m - 1] /\ n # 0
        <5> HIDE DEF last
        <5> QED BY <2>1, <3>1, <1>4
      <4>2. QED
        <5> HIDE DEF g
        <5> QED BY <3>1, <4>1
    <3>2. CASE n # m
      <4>1. n \in 0 .. m - 1 /\ g[n] = f[n] /\ (n # 0 => g[n - 1] = f[n - 1])
        <5> HIDE DEF last
        <5> QED BY <2>1, <3>2
      <4>2. QED
        <5> HIDE DEF g
        <5> QED BY <2>3, <4>1
    <3>3. QED
      BY <3>1, <3>2
  <2>5. Splits(text, m, g)
    <3>1. g = [n \in 0..m |-> g[n]]
      OBVIOUS
    <3>2. QED
      <4> HIDE DEF g
      <4> QED BY <2>4, <3>1 DEF Splits
  <2>6. QED
    BY <2>5
<1>5. QED
  BY <1>3, <1>4

(* An interval that grows, and a sequence that does.                       *)
LEMMA OneMore ==
  ASSUME NEW m \in Nat
  PROVE  1 .. m + 1 = (1..m) \cup {m + 1}
OBVIOUS

(* What is in a sequence with one more element.                            *)
LEMMA AppendPart ==
  ASSUME NEW S, NEW s \in Seq(S), NEW x \in S
  PROVE  Append(s, x) \in Seq(S) /\ ToSet(Append(s, x)) = ToSet(s) \cup {x}
<1>1. PICK n \in Nat : n = Len(s)
  OBVIOUS
<1>2. PICK a : a = Append(s, x)
  OBVIOUS
<1>3. a \in Seq(S) /\ DOMAIN s = 1..n /\ DOMAIN a = 1 .. n + 1
  BY <1>1, <1>2
<1>4. (\A i \in 1..n : a[i] = s[i]) /\ a[n + 1] = x
  BY <1>1, <1>2
<1>5. ToSet(a) = {a[i] : i \in (1..n) \cup {n + 1}}
  BY <1>3, OneMore DEF ToSet
<1>6. ToSet(s) = {s[i] : i \in 1..n}
  BY <1>3 DEF ToSet
<1>7. QED
  BY <1>2, <1>3, <1>4, <1>5, <1>6

(* What it has collected are the parts so far that are not blank.          *)
LEMMA SplitsParts ==
  ASSUME NEW text, NEW k \in Nat, NEW f, Splits(text, k, f)
  PROVE  /\ f[k] \in Seq({TrimSpace(text[i]) : i \in 1..k})
         /\ ToSet(f[k]) = {TrimSpace(text[i]) : i \in 1..k} \ {""}
<1> DEFINE T == {TrimSpace(text[i]) : i \in 1..k}
           Parts(n) == {TrimSpace(text[i]) : i \in 1..n} \ {""}
           Good(n) == f[n] \in Seq(T) /\ ToSet(f[n]) = Parts(n)
           bad == {n \in 0..k : ~Good(n)}
<1>1. Good(0)
  <2>1. f[0] = <<>>
    <3>1. 0 \in 0..k
      OBVIOUS
    <3>2. QED
      BY <3>1 DEF Splits
  <2>2. <<>> \in Seq(T) /\ ToSet(<<>>) = {}
    <3> HIDE DEF T
    <3> QED BY DEF ToSet
  <2>3. Parts(0) = {}
    OBVIOUS
  <2>4. QED
    <3> HIDE DEF T, Parts
    <3> QED BY <2>1, <2>2, <2>3
<1>2. ASSUME NEW m \in 0..k, m + 1 \in 0..k, Good(m) PROVE Good(m + 1)
  <2>1. m \in Nat /\ m + 1 \in 1..k /\ m + 1 # 0 /\ (m + 1) - 1 = m
    <3> HIDE DEF Good, T
    <3> QED BY <1>2
  <2>2. PICK x : x = TrimSpace(text[m + 1]) /\ x \in T
    BY <2>1
  <2>3. f[m + 1] = IF x = "" THEN f[m] ELSE Append(f[m], x)
    BY <1>2, <2>1, <2>2 DEF Splits
  <2>4. {TrimSpace(text[i]) : i \in 1 .. m + 1} = {TrimSpace(text[i]) : i \in 1..m} \cup {x}
    BY <2>1, <2>2, OneMore
  <2>5. Parts(m + 1) = Parts(m) \cup ({x} \ {""})
    BY <2>4
  <2>6. CASE x = ""
    <3> HIDE DEF T, Parts
    <3> QED BY <1>2, <2>3, <2>5, <2>6
  <2>7. CASE x # ""
    <3>1. Append(f[m], x) \in Seq(T) /\ ToSet(Append(f[m], x)) = ToSet(f[m]) \cup {x}
      <4> HIDE DEF T, Parts
      <4> QED BY <1>2, <2>2, AppendPart
    <3>2. QED
      <4> HIDE DEF T, Parts
      <4> QED BY <1>2, <2>3, <2>5, <2>7, <3>1
  <2>8. QED
    BY <2>6, <2>7
<1>3. bad = {}
  <2>1. (\A n \in bad : n \in 0..k /\ ~Good(n)) /\ (\A n \in 0..k : n \notin bad => Good(n))
    <3> HIDE DEF Good
    <3> QED OBVIOUS
  <2>2. SUFFICES ASSUME bad # {} PROVE FALSE
    OBVIOUS
  <2>3. PICK m \in bad : \A n \in bad : m <= n
    <3> HIDE DEF bad, Good
    <3> QED BY <2>1, <2>2, LeastNumber
  <2>4. m \in 0..k /\ ~Good(m) /\ m # 0
    <3> HIDE DEF bad, Good
    <3> QED BY <1>1, <2>1
  <2>5. PICK l \in 0..k : l + 1 = m /\ ~(m <= l)
    <3>1. m - 1 \in 0..k /\ (m - 1) + 1 = m /\ ~(m <= m - 1)
      <4> HIDE DEF bad, Good
      <4> QED BY <2>4
    <3>2. QED
      BY <3>1
  <2>6. Good(l)
    <3> HIDE DEF bad, Good
    <3> QED BY <2>1, <2>3, <2>5
  <2>7. QED
    <3> HIDE DEF bad, Good
    <3> QED BY <1>2, <2>4, <2>5, <2>6
<1>4. Good(k)
  <2>1. k \in 0..k
    <3> HIDE DEF bad, Good
    <3> QED OBVIOUS
  <2>2. \A n \in 0..k : n \notin bad => Good(n)
    <3> HIDE DEF Good
    <3> QED OBVIOUS
  <2>3. QED
    <3> HIDE DEF bad, Good
    <3> QED BY <1>3, <2>1, <2>2
<1>5. QED
  BY <1>4

(* splitCSV keeps the parts of a text, trimmed, and drops the blank ones.  *)
LEMMA SplitIsTheParts ==
  ASSUME NEW text, Len(text) \in Nat, DOMAIN text = 1..Len(text)
  PROVE  /\ splitCSV(text) \in Seq({TrimSpace(text[i]) : i \in DOMAIN text})
         /\ ToSet(splitCSV(text)) = {TrimSpace(text[i]) : i \in DOMAIN text} \ {""}
<1>1. PICK f : Splits(text, Len(text), f) /\ splitCSV(text) = f[Len(text)]
  <2>1. \E g : Splits(text, Len(text), g)
    BY SplitsExist
  <2> DEFINE g == CHOOSE g : Splits(text, Len(text), g)
  <2>2. Splits(text, Len(text), g)
    BY <2>1
  <2>3. splitCSV(text) = g[Len(text)]
    BY DEF splitCSV, Splits
  <2>4. QED
    BY <2>2, <2>3
<1>2. PICK k \in Nat : k = Len(text) /\ DOMAIN text = 1..k
  OBVIOUS
<1>3. Splits(text, k, f) /\ splitCSV(text) = f[k]
  BY <1>1, <1>2
<1>4. /\ f[k] \in Seq({TrimSpace(text[i]) : i \in 1..k})
      /\ ToSet(f[k]) = {TrimSpace(text[i]) : i \in 1..k} \ {""}
  BY <1>3, SplitsParts
<1>5. QED
  BY <1>2, <1>3, <1>4
(* Trimming twice is trimming once.                                        *)
LEMMA TrimmedOnce == \A part : TrimSpace(TrimSpace(part)) = TrimSpace(part)
BY DEF TrimSpace

(* The sequence of one part. *)
LEMMA OneElement == \A x : DOMAIN <<x>> = {1} /\ <<x>>[1] = x
OBVIOUS

(* A list that goes through its text form is the same list.                *)
LEMMA ListsSurviveFlags ==
  ASSUME NEW list, Len(list) \in Nat, DOMAIN list = 1..Len(list)
  PROVE  ToSet(splitCSV(Join(list))) = Hosts(list)
<1>1. CASE list = <<>>
  <2>1. Join(list) = <<"">> /\ Len(<<"">>) = 1 /\ DOMAIN <<"">> = 1..Len(<<"">>)
    BY <1>1 DEF Join, Empty
  <2>2. ToSet(splitCSV(<<"">>)) = {TrimSpace(<<"">>[i]) : i \in DOMAIN <<"">>} \ {""}
    BY <2>1, SplitIsTheParts
  <2>3. \A i \in DOMAIN <<"">> : TrimSpace(<<"">>[i]) = ""
    <3>1. TrimSpace("") = ""
      BY DEF TrimSpace
    <3>2. DOMAIN <<"">> = {1} /\ <<"">>[1] = ""
      BY Zenon, OneElement
    <3>3. QED
      BY <3>1, <3>2
  <2>4. Hosts(list) = {}
    BY <1>1 DEF Hosts
  <2>5. QED
    BY <2>1, <2>2, <2>3, <2>4
<1>2. CASE list # <<>>
  <2>1. Join(list) = list
    BY <1>2 DEF Join
  <2>2. QED
    BY <2>1, SplitIsTheParts DEF Hosts
<1>3. QED
  BY <1>1, <1>2

(* So is one that was read from a text before.                             *)
LEMMA ListsSurviveTwice ==
  ASSUME NEW text, Len(text) \in Nat, DOMAIN text = 1..Len(text)
  PROVE  ToSet(splitCSV(Join(splitCSV(text)))) = Hosts(text)
<1>1. PICK list : list = splitCSV(text)
  OBVIOUS
<1>2. /\ list \in Seq({TrimSpace(text[i]) : i \in DOMAIN text})
      /\ ToSet(list) = Hosts(text)
  BY <1>1, SplitIsTheParts DEF Hosts
<1>3. Len(list) \in Nat /\ DOMAIN list = 1..Len(list)
  BY <1>2
<1>4. \A part \in ToSet(list) : TrimSpace(part) = part /\ part # ""
  <2>1. ASSUME NEW part \in Hosts(text) PROVE TrimSpace(part) = part /\ part # ""
    BY TrimmedOnce DEF Hosts
  <2>2. QED
    BY <1>2, <2>1
<1>5. Hosts(list) = ToSet(list)
  BY <1>4 DEF Hosts, ToSet
<1>6. QED
  BY <1>1, <1>2, <1>3, <1>5, ListsSurviveFlags
-----------------------------------------------------------------------------
(* What LoadConfig makes of the settings that are not lists, whatever the  *)
(* process is started with: the default port touches the listen address    *)
(* only.                                                                   *)
LEMMA DefaultPortKeeps ==
  ASSUME NEW c, "ListenAddress" \in DOMAIN c
  PROVE  /\ \A s \in DOMAIN c : s # "ListenAddress" => DefaultPort(c)[s] = c[s]
         /\ \/ DefaultPort(c)["ListenAddress"] = c["ListenAddress"]
            \/ /\ c["ListenAddress"] = <<":8443">>
               /\ DefaultPort(c)["ListenAddress"] = <<":8080">>
BY DEF DefaultPort

(* So each of them is what its flag, else its variable, else its default   *)
(* says.                                                                   *)
LEMMA ScalarsChosen ==
  \A s \in Settings \ Lists :
    \/ cfg[s] = Chosen(s)
    \/ s = "ListenAddress" /\ Chosen(s) = <<":8443">> /\ cfg[s] = <<":8080">>
<1> DEFINE env == inputs.env
           flags == inputs.flags
           given == [s \in Settings |->
                       IF env[s] = Empty THEN DefaultConfig[s]
                       ELSE IF s \in Lists THEN splitCSV(env[s]) ELSE env[s]]
           first == applyEnv(env)
           text(s) == IF flags[s] = Absent THEN FlagDefault(first, s) ELSE flags[s]
           joined == [s \in Settings |-> IF s \in Lists THEN splitCSV(text(s)) ELSE text(s)]
<1>1. first = DefaultPort(given) /\ cfg = DefaultPort(joined)
  BY DEF applyEnv, cfg, Loaded, LoadConfig, applyFlags
<1>2. /\ DOMAIN given = Settings /\ DOMAIN joined = Settings
      /\ "ListenAddress" \in Settings \ Lists
  BY DEF Settings, Texts, Lists
<1>3. ASSUME NEW s \in Settings \ Lists
      PROVE  /\ given[s] = IF env[s] = Empty THEN DefaultConfig[s] ELSE env[s]
             /\ joined[s] = IF flags[s] = Absent THEN first[s] ELSE flags[s]
  BY DEF FlagDefault
<1>4. ASSUME NEW s \in Settings \ Lists
      PROVE  Chosen(s) = IF flags[s] # Absent THEN flags[s] ELSE given[s]
  BY <1>3 DEF Chosen
<1>5. ASSUME NEW s \in Settings \ Lists, s # "ListenAddress" PROVE cfg[s] = Chosen(s)
  <2>1. first[s] = given[s] /\ cfg[s] = joined[s]
    <3> HIDE DEF first, given, joined
    <3> QED BY <1>1, <1>2, <1>5, DefaultPortKeeps
  <2>2. QED
    <3> HIDE DEF first, given, joined, flags
    <3> QED BY <1>3, <1>4, <2>1
<1>6. ASSUME NEW s, s = "ListenAddress"
      PROVE  \/ cfg[s] = Chosen(s)
             \/ Chosen(s) = <<":8443">> /\ cfg[s] = <<":8080">>
  <2>1. /\ (first[s] = given[s]) \/ (given[s] = <<":8443">> /\ first[s] = <<":8080">>)
        /\ (cfg[s] = joined[s]) \/ (joined[s] = <<":8443">> /\ cfg[s] = <<":8080">>)
    <3> HIDE DEF first, given, joined
    <3> QED BY <1>1, <1>2, <1>6, DefaultPortKeeps
  <2>2. s \in Settings \ Lists
    BY <1>2, <1>6
  <2>3. <<":8443">> # <<":8080">>
    OBVIOUS
  <2>4. QED
    <3> HIDE DEF first, given, joined, flags
    <3>1. /\ joined[s] = IF flags[s] = Absent THEN first[s] ELSE flags[s]
          /\ Chosen(s) = IF flags[s] # Absent THEN flags[s] ELSE given[s]
      BY <1>3, <1>4, <2>2
    <3>2. CASE flags[s] = Absent
      BY <2>1, <2>3, <3>1, <3>2
    <3>3. CASE flags[s] # Absent
      BY <2>1, <3>1, <3>3
    <3>4. QED
      BY <3>2, <3>3
<1>7. QED
  <2> HIDE DEF first, given, joined, flags
  <2> QED BY <1>5, <1>6

(* A number or duration of an accepted configuration has passed its parser *)
(* and the range check, wherever it was given.                             *)
LEMMA NumbersInRange ==
  ASSUME Loaded(inputs).ok, NEW s \in Durations \cup Ints
  PROVE  Positive(s) \/ (cfg[s] = <<"0">> /\ s \in MayBeZero)
<1>1. s \in Settings \ Lists /\ s # "ListenAddress"
  BY DEF Settings, Durations, Ints, Lists
<1>2. cfg[s] = Chosen(s)
  BY <1>1, ScalarsChosen
<1>3. /\ inputs.env[s] # Empty => Parses(s, inputs.env[s])
      /\ inputs.flags[s] # Absent => Parses(s, inputs.flags[s])
      /\ Validate(cfg)
  BY <1>1 DEF Loaded, LoadConfig, cfg
<1>4. DefaultConfig[s] \in {<<"1">>, <<"1s">>}
  BY <1>1 DEF DefaultConfig, Durations, Ints, Bools
<1>5. \A text : Parses(s, text) => text \in {<<"-1s">>, <<"0">>, <<"1s">>, <<"-1">>, <<"1">>}
  BY DEF Parses
<1>6. cfg[s] \in {<<"-1s">>, <<"0">>, <<"1s">>, <<"-1">>, <<"1">>}
  BY <1>2, <1>3, <1>4, <1>5 DEF Chosen
<1>7. cfg[s] \notin {<<"-1">>, <<"-1s">>} /\ (cfg[s] = <<"0">> => s \in MayBeZero)
  BY <1>3 DEF Validate, Checked
<1>8. QED
  BY <1>6, <1>7 DEF Positive

(* What a start-up has been decided by when main reaches a place.          *)
StartInv ==
  /\ pc \in Reading => inputs \in Starts
  /\ pc = "ensureTLS" => Loaded(inputs).ok
  /\ pc = "notify" => MayServeTraps(inputs)

(* main comes to these places from the one before, and only the reading of *)
(* the inputs lets it.                                                     *)
LEMMA PlacesInOrder ==
  ASSUME Next
  PROVE  /\ pc' \in Reading => pc \in Reading
         /\ pc' = "ensureTLS" => pc \in {"loadConfig", "ensureTLS"}
         /\ pc' = "notify" => pc \in {"newTraps", "notify"}
<1>1. CASE StartStep
  BY <1>1 DEF StartStep, Goto, Exit, Reading
<1>2. CASE BeginShutdown \/ ListenerFailed \/ Poll \/ PollWait \/ CloseReturns
  BY <1>2 DEF BeginShutdown, ListenerFailed, Poll, PollWait, CloseReturns, Goto, Exit, Reading
<1>3. CASE Signal
  BY <1>3 DEF Signal, Exit, Reading
<1>4. CASE \/ CloseExpires \/ DeadlinePasses \/ ListenAndServe
           \/ \E r \in Requests : Serve(r)
           \/ \E p \in Packets : TrapStep(p)
  <2>1. pc' = pc
    BY <1>4 DEF CloseExpires, DeadlinePasses, ListenAndServe, Serve, TrapStep, mainVars
  <2>2. QED
    BY <2>1
<1>5. QED
  BY <1>1, <1>2, <1>3, <1>4 DEF Next, MainStep

(* main gets past LoadConfig only with a configuration that loads, and     *)
(* past NewTrapService only with one that can serve traps.                 *)
THEOREM StartInvariant == ProcessSpec => []StartInv
<1>1. ProcessInit => StartInv
  BY DEF ProcessInit, Init, StartInv
<1>2. StartInv /\ [ProcessNext]_processVars => StartInv'
  <2> SUFFICES ASSUME StartInv, [ProcessNext]_processVars PROVE StartInv'
    OBVIOUS
  <2>1. CASE UNCHANGED processVars
    BY <2>1 DEF StartInv, processVars, vars, mainVars, Loaded, LoadConfig, MayServeTraps
  <2>2. CASE ProcessNext
    <3>1. Next /\ Decides
      BY <2>2 DEF ProcessNext
    <3>2. pc' \in Reading => inputs' = inputs
      BY <3>1 DEF Decides
    <3>3. pc' \in Reading => inputs' \in Starts
      BY <3>1, <3>2, PlacesInOrder DEF StartInv
    <3>4. pc' = "ensureTLS" => Loaded(inputs').ok
      BY <3>1, <3>2, PlacesInOrder DEF StartInv, Decides, Reading
    <3>5. pc' = "notify" => MayServeTraps(inputs')
      BY <3>1, <3>2, PlacesInOrder DEF StartInv, Decides, Reading
    <3>6. QED
      BY <3>3, <3>4, <3>5 DEF StartInv
  <2>3. QED
    BY <2>1, <2>2
<1>3. QED
  BY <1>1, <1>2, PTL DEF ProcessSpec

(* A configuration that main goes on with is one the program can serve     *)
(* with, whatever was in the environment and on the command line.          *)
THEOREM StartsWithServiceableConfig == ProcessSpec => []AcceptedConfigsServe
<1>1. StartInv => AcceptedConfigsServe
  <2> SUFFICES ASSUME Loaded(inputs).ok PROVE AcceptedConfigsServe
    BY DEF StartInv, AcceptedConfigsServe
  <2>1. ASSUME NEW s \in {"MaxParallelTargets", "MaxVarbindsPerOperation", "TrapForwardWorkers",
                          "TrapForwardQueueSize", "TrapMaxPacketBytes", "TrapForwardTimeout",
                          "DefaultSNMPTimeout", "ShutdownTimeout", "RequestBodyLimitBytes"}
        PROVE  Positive(s)
    <3>1. s \in Durations \cup Ints /\ s \notin MayBeZero
      BY DEF Durations, Ints, MayBeZero
    <3>2. QED
      BY <3>1, NumbersInRange
  <2>2. ASSUME NEW s \in {"DefaultSNMPRetries", "TrapForwardRetries", "RequestStatsInterval"}
        PROVE  Positive(s) \/ cfg[s] = <<"0">>
    <3>1. s \in Durations \cup Ints
      BY DEF Durations, Ints
    <3>2. QED
      BY <3>1, NumbersInRange
  <2>3. ASSUME NEW s \in {"BasicAuthUsername", "BasicAuthPassword"} PROVE ~Blank(Chosen(s))
    <3>1. s \in Settings \ Lists /\ s # "ListenAddress"
      BY DEF Settings, Texts, Lists
    <3>2. ~Blank(cfg[s])
      BY DEF Loaded, LoadConfig, Validate, cfg
    <3>3. QED
      BY <3>1, <3>2, ScalarsChosen
  <2>4. QED
    BY <2>1, <2>2, <2>3 DEF AcceptedConfigsServe
<1>2. QED
  BY <1>1, StartInvariant, PTL

(* The decoder knows every user of the file, as well protected as the file *)
(* asks, and nobody else: for any users files.                             *)
THEOREM EveryTrapUserKept == ProcessSpec => []TrapUsersKept
<1>1. StartInv => TrapUsersKept
  <2> SUFFICES ASSUME inputs \in Starts, MayServeTraps(inputs), inputs.users # <<>>
               PROVE  TrapUsersKept
    BY DEF StartInv, TrapUsersKept, Reading
  <2>1. PICK users : users = inputs.users
    OBVIOUS
  <2>2. newTrapDecoder(users).ok
    BY <2>1, StartsAssumption DEF MayServeTraps
  <2>3. /\ newTrapDecoder(users).table = {SecurityParameters(users[i]) : i \in DOMAIN users}
        /\ \A i \in DOMAIN users : validateV3Credentials(<<users[i]>>)
    BY <2>2 DEF newTrapDecoder
  <2>4. ASSUME NEW c PROVE SecurityParameters(c).user = c.username
    BY DEF SecurityParameters
  <2>5. ASSUME NEW i \in DOMAIN users
        PROVE  \E security \in newTrapDecoder(users).table :
                 /\ security.user = users[i].username
                 /\ NotWeakened(users[i], security)
    <3>1. NotWeakened(users[i], SecurityParameters(users[i]))
      BY <2>3, SessionsKeepProtection
    <3>2. SecurityParameters(users[i]) \in newTrapDecoder(users).table
      BY <2>3
    <3>3. QED
      BY <2>4, <3>1, <3>2
  <2>6. ASSUME NEW security \in newTrapDecoder(users).table
        PROVE  \E i \in DOMAIN users : security.user = users[i].username
    BY <2>3, <2>4
  <2>7. QED
    BY <2>1, <2>5, <2>6 DEF TrapUsersKept
<1>2. QED
  BY <1>1, StartInvariant, PTL
(* A list setting ends up with the parts of the text it was given by,      *)
(* however often it went through its text form.                            *)
LEMMA ListsChosen ==
  ASSUME inputs \in Starts, NEW s \in Lists
  PROVE  ToSet(cfg[s]) = Hosts(Chosen(s))
<1> DEFINE env == inputs.env
           flags == inputs.flags
           given == [t \in Settings |->
                       IF env[t] = Empty THEN DefaultConfig[t]
                       ELSE IF t \in Lists THEN splitCSV(env[t]) ELSE env[t]]
           first == applyEnv(env)
           text(t) == IF flags[t] = Absent THEN FlagDefault(first, t) ELSE flags[t]
           joined == [t \in Settings |-> IF t \in Lists THEN splitCSV(text(t)) ELSE text(t)]
<1>1. first = DefaultPort(given) /\ cfg = DefaultPort(joined)
  BY DEF applyEnv, cfg, Loaded, LoadConfig, applyFlags
<1>2. /\ DOMAIN given = Settings /\ DOMAIN joined = Settings /\ "ListenAddress" \in Settings
      /\ s \in Settings /\ s # "ListenAddress"
  BY DEF Settings, Texts, Lists
<1>3. first[s] = given[s] /\ cfg[s] = joined[s]
  <2> HIDE DEF first, given, joined
  <2> QED BY <1>1, <1>2, DefaultPortKeeps
<1>4. /\ given[s] = IF env[s] = Empty THEN DefaultConfig[s] ELSE splitCSV(env[s])
      /\ joined[s] = splitCSV(IF flags[s] = Absent THEN Join(first[s]) ELSE flags[s])
  <2>1. joined[s] = splitCSV(text(s))
    <3> HIDE DEF first, given, text
    <3> QED BY <1>2
  <2>2. FlagDefault(first, s) = Join(first[s])
    BY DEF FlagDefault
  <2>3. given[s] = IF env[s] = Empty THEN DefaultConfig[s] ELSE splitCSV(env[s])
    BY <1>2
  <2>4. QED
    BY <2>1, <2>2, <2>3
<1>5. Chosen(s) = IF flags[s] # Absent THEN flags[s]
                  ELSE IF env[s] # Empty THEN env[s] ELSE DefaultConfig[s]
  BY DEF Chosen
<1>6. \A t \in Seq(STRING) : Len(t) \in Nat /\ DOMAIN t = 1..Len(t)
  OBVIOUS
<1>7. env[s] \in Seq(STRING) /\ flags[s] \in Seq(STRING)
  BY <1>2, StartsAssumption
<1>8. Len(DefaultConfig[s]) \in Nat /\ DOMAIN DefaultConfig[s] = 1..Len(DefaultConfig[s])
  <2>1. DefaultConfig[s] \in {<<>>, <<"localhost", "127.0.0.1">>}
    BY <1>2 DEF DefaultConfig, Lists, Bools, Durations, Ints
  <2>2. QED
    BY <2>1
<1>9. CASE flags[s] # Absent
  <2>1. cfg[s] = splitCSV(flags[s]) /\ Chosen(s) = flags[s]
    <3> HIDE DEF first, given, joined, flags, env
    <3> QED BY <1>3, <1>4, <1>5, <1>9
  <2>2. Len(flags[s]) \in Nat /\ DOMAIN flags[s] = 1..Len(flags[s])
    BY <1>6, <1>7
  <2>3. ToSet(splitCSV(flags[s])) = Hosts(flags[s])
    BY <2>2, SplitIsTheParts DEF Hosts
  <2>4. QED
    BY <2>1, <2>3
<1>10. CASE flags[s] = Absent /\ env[s] # Empty
  <2>1. cfg[s] = splitCSV(Join(splitCSV(env[s]))) /\ Chosen(s) = env[s]
    <3> HIDE DEF first, given, joined, flags, env
    <3> QED BY <1>3, <1>4, <1>5, <1>10
  <2>2. Len(env[s]) \in Nat /\ DOMAIN env[s] = 1..Len(env[s])
    BY <1>6, <1>7
  <2>3. QED
    BY <2>1, <2>2, ListsSurviveTwice
<1>11. CASE flags[s] = Absent /\ env[s] = Empty
  <2>1. cfg[s] = splitCSV(Join(DefaultConfig[s])) /\ Chosen(s) = DefaultConfig[s]
    <3> HIDE DEF first, given, joined, flags, env
    <3> QED BY <1>3, <1>4, <1>5, <1>11
  <2>2. QED
    BY <1>8, <2>1, ListsSurviveFlags
<1>12. QED
  BY <1>9, <1>10, <1>11

(* Nothing given on the command line or in the environment is lost or      *)
(* overruled on its way into an accepted configuration: for any texts,     *)
(* with lists of any length.                                               *)
THEOREM PrecedenceKept == ProcessSpec => []FlagsThenEnvThenDefaults
<1>1. StartInv => FlagsThenEnvThenDefaults
  <2> SUFFICES ASSUME inputs \in Starts, NEW s \in Settings
               PROVE  CASE s \in Lists -> ToSet(cfg[s]) = Hosts(Chosen(s))
                        [] s = "ListenAddress" ->
                             \/ cfg[s] = Chosen(s)
                             \/ Chosen(s) = <<":8443">> /\ cfg[s] = <<":8080">>
                        [] OTHER -> cfg[s] = Chosen(s)
    BY DEF StartInv, FlagsThenEnvThenDefaults, Reading
  <2>1. CASE s \in Lists
    <3>1. s # "ListenAddress"
      BY <2>1 DEF Lists
    <3>2. QED
      BY <2>1, <3>1, ListsChosen
  <2>2. CASE s \notin Lists
    BY <2>2, ScalarsChosen
  <2>3. QED
    BY <2>1, <2>2
<1>2. QED
  BY <1>1, StartInvariant, PTL
=============================================================================
