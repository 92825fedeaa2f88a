--------------------------- MODULE ServiceProofs ----------------------------
(***************************************************************************)
(* Proof that a serving process uses all of its configuration file or none *)
(* of it, for any number of crashes and edits and either kind of shell.    *)
(***************************************************************************)
EXTENDS Service, TLAPS

\* The list of checks.
LEMMA ChecksList ==
    /\ Len(Checks) = 7 /\ DOMAIN Checks = 1 .. 7
    /\ \A i \in 1 .. 7 : Checks[i] \in Members
    /\ \A m \in Members : \E i \in 1 .. 7 : Checks[i] = m
    /\ \A i, j \in 1 .. 7 : Checks[i] = Checks[j] => i = j
    /\ Settings \subseteq Members
<1>1. Len(Checks) = 7 /\ DOMAIN Checks = 1 .. 7
  BY DEF Checks
<1>2. /\ \A i \in 1 .. 7 : Checks[i] \in Members
      /\ \A m \in Members : \E i \in 1 .. 7 : Checks[i] = m
  BY <1>1 DEF Members
<1>3. \A i, j \in 1 .. 7 : Checks[i] = Checks[j] => i = j
  BY DEF Checks
<1>4. Settings \subseteq Members
  <2>1. /\ Checks[2] = "port" /\ Checks[3] = "rootDirectory"
        /\ Checks[4] = "sockBufferSize" /\ Checks[6] = "default" /\ Checks[7] = "rules"
    BY DEF Checks
  <2>2. 2 \in 1 .. 7 /\ 3 \in 1 .. 7 /\ 4 \in 1 .. 7 /\ 6 \in 1 .. 7 /\ 7 \in 1 .. 7
    OBVIOUS
  <2> QED
    BY <1>2, <2>1, <2>2 DEF Settings
<1> QED
  BY <1>1, <1>2, <1>3, <1>4

LEMMA InitInvariant == Init => IInv
<1> SUFFICES ASSUME Init
             PROVE  IInv
  OBVIOUS
<1>1. disk \in Documents
  <2>1. PICK p \in BOOLEAN, m \in Members, v \in Findings :
          disk = [parses |-> p, members |-> [AllGood EXCEPT ![m] = v]]
    BY DEF Init
  <2>2. [AllGood EXCEPT ![m] = v] \in [Members -> Findings]
    BY DEF AllGood, Findings
  <2> QED
    BY <2>1, <2>2 DEF Documents
<1>2. document \in Documents
  BY DEF Init, Documents, AllGood, Findings
<1>3. TypeOK
  BY <1>1, <1>2, ChecksList, BoundsAssumption DEF Init, TypeOK, Unset
<1> QED
  BY <1>3 DEF Init, IInv, TakenSoFar, FailedForAReason, WholeFileOrDefaults

\* The daemon and the events leave the reading of the file alone, or end it.
LEMMA OtherSteps ==
    ASSUME IInv, DaemonStep \/ Crash \/ SignalHandler \/ Edit
    PROVE  IInv'
<1> USE DEF IInv
<1>1. CASE StartServer
  BY <1>1 DEF StartServer, TypeOK, Unset, TakenSoFar, FailedForAReason,
              WholeFileOrDefaults
<1>2. CASE DaemonEnds \/ DaemonRestarts
  BY <1>2 DEF DaemonEnds, DaemonRestarts, configuration, TypeOK, TakenSoFar,
              FailedForAReason, WholeFileOrDefaults, Valid
<1>3. CASE Crash \/ SignalHandler
  BY <1>3, BoundsAssumption DEF Crash, SignalHandler, configuration, TypeOK,
              TakenSoFar, FailedForAReason, WholeFileOrDefaults
<1>4. CASE Edit
  <2>1. disk' \in Documents
    <3>1. disk \in Documents
      BY DEF TypeOK
    <3>2. ASSUME NEW p \in BOOLEAN, disk' = [disk EXCEPT !.parses = p]
          PROVE  disk' \in Documents
      BY <3>1, <3>2 DEF Documents
    <3>3. ASSUME NEW m \in Members, NEW v \in Findings,
                 disk' = [disk EXCEPT !.members[m] = v]
          PROVE  disk' \in Documents
      BY <3>1, <3>3 DEF Documents
    <3> QED
      BY <1>4, <3>2, <3>3 DEF Edit
  <2> QED
    BY <1>4, <2>1, BoundsAssumption DEF Edit, configuration, TypeOK, TakenSoFar,
              FailedForAReason, WholeFileOrDefaults, Valid
<1> QED
  BY <1>1, <1>2, <1>3, <1>4 DEF DaemonStep

\* Each check keeps what has been taken in step with what has been found good.
LEMMA ReadSteps ==
    ASSUME IInv, ReadConfig
    PROVE  IInv'
<1> USE DEF IInv
<1>0. next \in 1 .. 7 /\ Len(Checks) = 7 /\ DOMAIN Checks = 1 .. 7
  BY ChecksList DEF TypeOK
<1>1. CASE ParseFile
  <2>1. TypeOK'
    BY <1>0, <1>1 DEF ParseFile, TypeOK
  <2> QED
    BY <1>1, <2>1 DEF ParseFile, TypeOK, Documents, TakenSoFar, FailedForAReason,
                      WholeFileOrDefaults, Valid
<1>2. CASE CheckPasses
  <2>1. settings' \in [Settings -> {"unset", "default", "file"}]
    BY <1>2 DEF CheckPasses, Take, TypeOK
  <2>2. TypeOK'
    BY <1>0, <1>2, <2>1 DEF CheckPasses, TypeOK
  <2>3. document.parses /\ UNCHANGED document /\ settings' = Take
    BY <1>2 DEF CheckPasses, TakenSoFar
  <2>4. \A i \in 1 .. next :
          /\ document.members[Checks[i]] = "good"
          /\ Checks[i] \in Settings => settings'[Checks[i]] = "file"
    <3>1. document.members[Checks[next]] = "good"
      BY <1>2 DEF CheckPasses, Found, Member
    <3>2. Checks[next] \in Settings => settings'[Checks[next]] = "file"
      BY <2>3 DEF Take, Member, TypeOK
    <3>3. ASSUME NEW i \in 1 .. next - 1
          PROVE  /\ document.members[Checks[i]] = "good"
                 /\ Checks[i] \in Settings => settings'[Checks[i]] = "file"
      <4>1. /\ document.members[Checks[i]] = "good"
            /\ Checks[i] \in Settings => settings[Checks[i]] = "file"
        BY <1>2 DEF CheckPasses, TakenSoFar
      <4> QED
        BY <2>3, <4>1 DEF Take, Member, TypeOK
    <3> QED
      BY <1>0, <3>1, <3>2, <3>3
  <2>5. CASE next = Len(Checks)
    <3>1. server' = "serve"
      BY <1>2, <2>5 DEF CheckPasses
    <3>2. \A m \in Members : document.members[m] = "good"
      BY <1>0, <2>4, <2>5, ChecksList
    <3>3. document.members = AllGood
      BY <3>2 DEF AllGood, TypeOK, Documents
    <3>4. \A s \in Settings : settings'[s] = "file"
      BY <1>0, <2>4, <2>5, ChecksList
    <3>5. settings' = [s \in Settings |-> "file"]
      BY <2>1, <3>4
    <3> QED
      BY <2>2, <2>3, <3>1, <3>3, <3>5 DEF TakenSoFar, FailedForAReason,
         WholeFileOrDefaults, Valid
  <2>6. CASE next # Len(Checks)
    <3>1. server' = "read" /\ next' = next + 1
      BY <1>2, <2>6 DEF CheckPasses
    <3>2. next' - 1 = next
      BY <1>0, <3>1
    <3> QED
      BY <2>2, <2>3, <2>4, <3>1, <3>2 DEF TakenSoFar, FailedForAReason,
         WholeFileOrDefaults
  <2> QED
    BY <2>5, <2>6
<1>3. CASE CheckFails
  <2>1. TypeOK'
    BY <1>3 DEF CheckFails, TypeOK, Take
  <2>2. ~Valid(document)
    BY <1>0, <1>3, ChecksList DEF CheckFails, Found, Member, Valid, AllGood
  <2> QED
    BY <1>3, <2>1, <2>2 DEF CheckFails, TakenSoFar, FailedForAReason,
       WholeFileOrDefaults, Valid
<1>4. CASE CheckAborts
  BY <1>4 DEF CheckAborts, configuration, TypeOK, TakenSoFar, FailedForAReason,
     WholeFileOrDefaults
<1>5. CASE UseDefaults
  <2>1. TypeOK' /\ ~Valid(document)
    BY <1>5 DEF UseDefaults, TypeOK, Defaults, FailedForAReason
  <2> QED
    BY <1>5, <2>1 DEF UseDefaults, Defaults, TakenSoFar, FailedForAReason,
       WholeFileOrDefaults, Valid
<1> QED
  BY <1>1, <1>2, <1>3, <1>4, <1>5 DEF ReadConfig

\* The invariant of the service holds in every reachable state.
THEOREM ServiceInvariance == Spec => []IInv
<1>1. IInv /\ [Next]_vars => IInv'
  <2>1. ASSUME IInv, Next
        PROVE  IInv'
    BY <2>1, OtherSteps, ReadSteps DEF Next
  <2>2. ASSUME IInv, UNCHANGED vars
        PROVE  IInv'
    BY <2>2 DEF vars, configuration, IInv, TypeOK, TakenSoFar, FailedForAReason,
       WholeFileOrDefaults, Valid
  <2> QED
    BY <2>1, <2>2
<1> QED
  BY <1>1, InitInvariant, PTL DEF Spec

\* A serving process never runs on a mixture of its file and the defaults
\* (config.cpp:119-188).
THEOREM ServesWholeFileOrDefaults == Spec => []WholeFileOrDefaults
<1>1. IInv => WholeFileOrDefaults
  BY DEF IInv
<1> QED
  BY <1>1, ServiceInvariance, PTL
=============================================================================
