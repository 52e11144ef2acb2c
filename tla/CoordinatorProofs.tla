------------------------- MODULE CoordinatorProofs -------------------------
(***************************************************************************)
(* Proofs about the real-server coordination loop, for every MaxTries and *)
(* MaxFlips: the variables keep their types, and the worker runs exactly  *)
(* when blockForever's lastMasterStatus records a failed dial.             *)
(***************************************************************************)
EXTENDS Coordinator, TLAPS

(* A decision sets tries to 1, which is in 1..MaxTries.                    *)
LEMMA DecideType ==
    ASSUME NEW m \in BOOLEAN, Decide(m)
    PROVE  lastMasterStatus' \in BOOLEAN /\ tries' \in 1..MaxTries
BY MaxTriesAssumption DEF Decide

(* Every step keeps the variables in their types.                          *)
THEOREM TypeCorrect == Spec => []TypeOK
<1>1. Init => TypeOK
  <2> SUFFICES ASSUME Init PROVE TypeOK
    OBVIOUS
  <2>1. tries \in 1..MaxTries /\ downRun \in 0..MaxTries /\ flips \in 0..MaxFlips
    BY MaxTriesAssumption, MaxFlipsAssumption DEF Init
  <2>2. QED
    BY <2>1, Zenon DEF Init, TypeOK
<1>2. TypeOK /\ [Next]_vars => TypeOK'
  <2> SUFFICES ASSUME TypeOK, [Next]_vars PROVE TypeOK'
    OBVIOUS
  <2>1. CASE Director
    <3>1. CASE DirectorBoot \/ DirectorKill
      <4>1. flips' \in 0..MaxFlips
        BY <3>1, MaxFlipsAssumption DEF DirectorBoot, DirectorKill, TypeOK
      <4>2. QED
        BY <3>1, <4>1, Zenon DEF DirectorBoot, DirectorKill, TypeOK
    <3>2. CASE DirectorListen \/ DirectorStart \/ DirectorCancel
      BY <3>2, Zenon DEF DirectorListen, DirectorStart, DirectorCancel, TypeOK
    <3>3. QED
      BY <2>1, <3>1, <3>2 DEF Director
  <2>2. CASE WatchForMaster
    <3>1. probe' \in BOOLEAN
      BY <2>2 DEF WatchForMaster, ConnectToMaster, DirectorUp
    <3>2. QED
      BY <2>2, <3>1, Zenon DEF WatchForMaster, TypeOK
  <2>3. CASE Receive
    <3> DEFINE m == probe
    <3>1. m \in BOOLEAN /\ state = "loop"
      BY <2>3 DEF Receive, TypeOK
    <3>2. /\ downRun' \in 0..MaxTries
          /\ sent' \in BOOLEAN
          /\ UNCHANGED <<director, probe, flips>>
      <4>1. downRun' = IF m THEN 0 ELSE IF downRun < MaxTries THEN downRun + 1 ELSE downRun
        BY <2>3 DEF Receive
      <4>2. downRun' \in 0..MaxTries
        BY <4>1, <3>1, MaxTriesAssumption DEF TypeOK
      <4>3. QED
        BY <2>3, <4>2 DEF Receive
    <3>3. /\ tries' \in 1..MaxTries
          /\ lastMasterStatus' \in BOOLEAN
          /\ worker' \in {"running", "stopped"}
          /\ state' \in {"loop", "exited"}
      <4>1. CASE StopWorker(m)
        BY <4>1, <3>1, DecideType DEF StopWorker, Exit, TypeOK
      <4>2. CASE StartWorker(m)
        BY <4>2, <3>1, DecideType DEF StartWorker, Exit, TypeOK
      <4>3. CASE tries < MaxTries /\ CountFailure(m)
        BY <4>3, <3>1, MaxTriesAssumption DEF CountFailure, TypeOK
      <4>4. CASE Decide(m) /\ UNCHANGED <<worker, state>>
        BY <4>4, <3>1, DecideType DEF TypeOK
      <4>5. QED
        BY <2>3, <4>1, <4>2, <4>3, <4>4 DEF Receive
    <3>4. QED
      BY <3>2, <3>3, Zenon DEF TypeOK
  <2>4. CASE Cancel
    BY <2>4, Zenon DEF Cancel, TypeOK
  <2>5. CASE Setup
    BY <2>5, Zenon DEF Setup, TypeOK
  <2>6. CASE UNCHANGED vars
    BY <2>6, Zenon DEF vars, TypeOK
  <2>7. QED
    BY <2>1, <2>2, <2>3, <2>4, <2>5, <2>6 DEF Next
<1>3. QED
  BY <1>1, <1>2, PTL DEF Spec

(* RunningMatchesStatus is inductive given the types: it holds in RunE's  *)
(* setup, which leaves the worker alone; only a Start or a               *)
(* Stop moves the worker, and each moves lastMasterStatus with it; a       *)
(* counted failure moves neither.                                          *)
THEOREM StatusCorrect == Spec => []RunningMatchesStatus
<1>1. Init => RunningMatchesStatus
  BY DEF Init, RunningMatchesStatus
<1>2. TypeOK /\ RunningMatchesStatus /\ [Next]_vars => RunningMatchesStatus'
  <2> SUFFICES ASSUME TypeOK, RunningMatchesStatus, [Next]_vars, state' # "exited"
               PROVE  worker' = "running" <=> ~lastMasterStatus'
    BY DEF RunningMatchesStatus
  <2>1. CASE Director
    BY <2>1 DEF Director, DirectorBoot, DirectorListen, DirectorStart,
                DirectorCancel, DirectorKill, RunningMatchesStatus
  <2>2. CASE WatchForMaster
    BY <2>2 DEF WatchForMaster, RunningMatchesStatus
  <2>3. CASE Receive
    <3> DEFINE m == probe
    <3>0. state = "loop" /\ m \in BOOLEAN
      BY <2>3 DEF Receive, TypeOK
    <3>1. CASE m /\ StopWorker(m)
      <4>1. worker' = "stopped" /\ lastMasterStatus' = m
        BY <3>1 DEF StopWorker, Exit, Decide
      <4>2. QED
        BY <4>1, <3>0, <3>1
    <3>2. CASE ~m /\ StartWorker(m)
      <4>1. worker' = "running" /\ lastMasterStatus' = m
        BY <3>2 DEF StartWorker, Exit, Decide
      <4>2. QED
        BY <4>1, <3>0, <3>2
    <3>3. CASE CountFailure(m)
      BY <3>3, <3>0 DEF CountFailure, RunningMatchesStatus
    <3>4. CASE Decide(m) /\ UNCHANGED <<worker, state>> /\ m = lastMasterStatus
      BY <3>4, <3>0 DEF Decide, RunningMatchesStatus
    <3>5. QED
      BY <2>3, <3>1, <3>2, <3>3, <3>4 DEF Receive
  <2>4. CASE Cancel
    BY <2>4 DEF Cancel
  <2>5. CASE Setup
    BY <2>5 DEF Setup, RunningMatchesStatus
  <2>6. CASE UNCHANGED vars
    BY <2>6 DEF vars, RunningMatchesStatus
  <2>7. QED
    BY <2>1, <2>2, <2>3, <2>4, <2>5, <2>6 DEF Next
<1>3. QED
  BY <1>1, <1>2, TypeCorrect, PTL DEF Spec

=============================================================================
