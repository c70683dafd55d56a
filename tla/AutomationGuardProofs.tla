-------------------------- MODULE AutomationGuardProofs --------------------------
(***************************************************************************)
(* Theorems about AutomationGuard, for every set of deployments and every  *)
(* number of slots and faults.  A guard that runs has few failures on its  *)
(* record and a process about to place has observed safely (IInv): the     *)
(* report of an unsafe observation leaves no row with which a cycle could  *)
(* go on to place.                                                         *)
(***************************************************************************)
EXTENDS AutomationGuard, TLAPS

\* A row that runs has few failures, a row never enabled none.
Below(row) ==
    /\ row.state = "RUNNING" => row.failures < 3
    /\ row.state = "NONE" => row.failures = 0

IInv ==
    /\ GuardTypeOK
    /\ Below(guard)
    /\ pc = "PLACE" => safe

\* The updates the functions make, of the whole row or of a part of it.
LEMMA WholeRow ==
    ASSUME NEW row \in GuardRows, NEW w \in BOOLEAN, NEW n \in 0 .. 3, NEW s \in GuardStates,
           NEW c \in BOOLEAN
    PROVE  /\ [row EXCEPT !.state = s, !.failures = n, !.window = w, !.cooled = c] \in GuardRows
           /\ [row EXCEPT !.window = w, !.failures = n, !.state = s, !.cooled = c] \in GuardRows
           /\ [row EXCEPT !.state = s, !.failures = n, !.cooled = c] \in GuardRows
           /\ [row EXCEPT !.window = w, !.failures = n] \in GuardRows
  BY DEF GuardRows, FailureThreshold

LEMMA Values ==
    /\ TRUE \in BOOLEAN /\ FALSE \in BOOLEAN
    /\ {"RUNNING", "COOLDOWN", "MANUAL_RESET_REQUIRED"} \subseteq GuardStates
    /\ 0 \in 0 .. 3 /\ FailureThreshold \in 0 .. 3
  BY DEF GuardStates, FailureThreshold

\* The functions of the guard map rows to rows.
LEMMA FailedRow ==
    ASSUME NEW row \in GuardRows, NEW class, FailureThreshold = 3
    PROVE  /\ Failed(row, class) \in GuardRows
           /\ Below(row) => Below(Failed(row, class))
           /\ class \in Latching => Failed(row, class).state # "RUNNING"
           /\ Failed(row, class).set = row.set
<1> DEFINE count == IF row.window THEN row.failures + 1 ELSE 1
<1> DEFINE latched == [row EXCEPT !.state = "MANUAL_RESET_REQUIRED", !.failures = FailureThreshold,
                                  !.cooled = FALSE]
<1> DEFINE counted == [row EXCEPT !.window = TRUE, !.failures = count]
<1> DEFINE cooling == [row EXCEPT !.window = TRUE, !.failures = FailureThreshold,
                                  !.state = "COOLDOWN", !.cooled = FALSE]
<1>1. count \in 1 .. 4 BY DEF GuardRows
<1>2. CASE row.state = "NONE"
  <2>1. Failed(row, class) = row BY <1>2 DEF Failed
  <2>2. class \in Latching => row.state # "RUNNING" BY <1>2
  <2> QED BY <2>1, <2>2
<1>3. CASE row.state # "NONE" /\ class \in Latching
  <2>1. Failed(row, class) = latched BY <1>3 DEF Failed
  <2>2. latched \in GuardRows BY WholeRow, Values, Zenon
  <2>3. latched.state = "MANUAL_RESET_REQUIRED" /\ latched.set = row.set BY DEF GuardRows
  <2> QED BY <2>1, <2>2, <2>3 DEF Below
<1>4. CASE row.state # "NONE" /\ class \notin Latching /\ count < FailureThreshold
  <2>0. count \in 0 .. 3 BY <1>1, <1>4
  <2>1. Failed(row, class) = counted BY <1>4 DEF Failed
  <2>2. counted \in GuardRows BY <2>0, WholeRow, Values, Zenon
  <2>3. counted.failures = count /\ counted.state = row.state /\ counted.set = row.set
    BY DEF GuardRows
  <2> HIDE DEF count, counted
  <2> QED BY <2>1, <2>2, <2>3, <1>4 DEF Below
<1>5. CASE row.state # "NONE" /\ class \notin Latching /\ ~(count < FailureThreshold)
  <2>1. Failed(row, class) = cooling BY <1>5 DEF Failed
  <2>2. cooling \in GuardRows BY WholeRow, Values, Zenon
  <2>3. cooling.state = "COOLDOWN" /\ cooling.set = row.set BY DEF GuardRows
  <2> QED BY <2>1, <2>2, <2>3, <1>5 DEF Below
<1>6. QED BY <1>2, <1>3, <1>4, <1>5

LEMMA HealthyRow ==
    ASSUME NEW row \in GuardRows
    PROVE  /\ Healthy(row) \in GuardRows
           /\ Below(row) => Below(Healthy(row))
<1> DEFINE recovered == [row EXCEPT !.state = "RUNNING", !.failures = 0, !.window = FALSE,
                                    !.cooled = FALSE]
<1>1. recovered \in GuardRows BY WholeRow, Values, Zenon
<1>2. Below(recovered) BY DEF GuardRows, Below
<1>3. Healthy(row) = row \/ Healthy(row) = recovered BY DEF Healthy
<1> HIDE DEF recovered
<1>4. QED BY <1>1, <1>2, <1>3

LEMMA ReportedRow ==
    ASSUME IInv
    PROVE  /\ Reported \in GuardRows /\ Below(Reported)
           /\ Reported.state = "RUNNING" => safe
<1>1. guard \in GuardRows /\ Below(guard) /\ FailureThreshold = 3
  BY DEF IInv, GuardTypeOK, FailureThreshold
<1>2. Healthy(guard) \in GuardRows /\ Below(Healthy(guard))
  BY <1>1, HealthyRow
<1>3. CASE safe BY <1>2, <1>3 DEF Reported
<1>4. CASE ~safe
  BY <1>1, <1>2, <1>4, FailedRow DEF Reported, Latching
<1>5. QED BY <1>3, <1>4

LEMMA InitIInv == Init => IInv
<1> SUFFICES ASSUME Init PROVE IInv OBVIOUS
<1>1. guard \in GuardRows
  <2>1. ASSUME NEW b \in BOOLEAN
        PROVE  [state |-> "NONE", failures |-> 0, window |-> b, cooled |-> b, set |-> {}]
                 \in GuardRows
    BY DEF GuardRows, GuardStates, DeploymentSets, FailureThreshold
  <2> QED BY <2>1, Values DEF Init
<1>2. recon \in [ok : BOOLEAN, fresh : BOOLEAN]
  <2>1. ASSUME NEW b \in BOOLEAN
        PROVE  [ok |-> b, fresh |-> b] \in [ok : BOOLEAN, fresh : BOOLEAN]
    OBVIOUS
  <2> QED BY <2>1, Values DEF Init
<1>3. drift \in BOOLEAN /\ unsettled \in BOOLEAN /\ safe \in BOOLEAN BY Values DEF Init
<1>4. guard.state = "NONE" /\ guard.failures = 0 BY DEF Init
<1>5. slot \in [Deployments -> 0 .. MaxSlots] BY MaxSlotsAssumption DEF Init
<1>6. pc = "DOWN" /\ faults \in 0 .. MaxFaults BY MaxFaultsAssumption DEF Init
<1>7. QED
  BY <1>1, <1>2, <1>3, <1>4, <1>5, <1>6 DEF IInv, GuardTypeOK, Below

LEMMA OperatorSteps ==
    ASSUME IInv, Enable \/ Reset \/ \E d \in Deployments : Publish(d)
    PROVE  IInv'
<1> USE DEF IInv, GuardTypeOK
<1>1. CASE Enable
  <2>1. ActiveSet \in DeploymentSets BY MaxSlotsAssumption DEF ActiveSet, Active, DeploymentSets
  <2>2. guard' \in GuardRows BY <1>1, <2>1 DEF Enable, GuardRows, GuardStates
  <2>3. Below(guard') BY <1>1 DEF Enable, GuardRows, Below
  <2>4. QED BY <1>1, <2>2, <2>3 DEF Enable
<1>2. CASE Reset
  <2>1. guard' \in GuardRows BY <1>2, WholeRow, Values, Zenon DEF Reset
  <2>2. Below(guard') BY <1>2 DEF Reset, GuardRows, Below
  <2>3. QED BY <1>2, <2>1, <2>2 DEF Reset
<1>3. ASSUME NEW d \in Deployments, Publish(d) PROVE IInv'
  BY <1>3 DEF Publish
<1>4. QED BY <1>1, <1>2, <1>3

\* Whatever ends the report or the cycle, the row in the table stays a row, below the
\* threshold if it runs.
LEMMA FailureKeepsRow ==
    ASSUME NEW row \in GuardRows, NEW class, Below(row)
    PROVE  Failed(row, class) \in GuardRows /\ Below(Failed(row, class))
<1>1. FailureThreshold = 3 BY DEF FailureThreshold
<1>2. QED BY <1>1, FailedRow

LEMMA ProcessSteps ==
    ASSUME IInv, Start \/ Observe \/ Cycle \/ Place \/ PlaceRefused
    PROVE  IInv'
<1>0. /\ guard \in GuardRows /\ drift \in BOOLEAN
      /\ Below(guard)
  BY DEF IInv, GuardTypeOK
<1> USE DEF IInv, GuardTypeOK
<1>1. CASE Start
  <2>1. guard' \in GuardRows /\ Below(guard')
    <3>1. CASE UNCHANGED guard BY <1>0, <3>1
    <3>2. CASE guard' = [guard EXCEPT !.state = "RUNNING", !.failures = 0,
                                      !.window = FALSE, !.cooled = FALSE]
      <4>1. guard' \in GuardRows BY <1>0, <3>2, WholeRow, Values, Zenon
      <4>2. Below(guard') BY <1>0, <3>2 DEF GuardRows, Below
      <4> QED BY <4>1, <4>2
    <3> QED BY <1>1, <3>1, <3>2 DEF Start
  <2>2. recon' \in [ok : BOOLEAN, fresh : BOOLEAN] BY <1>0, <1>1 DEF Start, Observed
  <2>3. pc' \in {"DOWN", "OBSERVE"} \/ UNCHANGED pc BY <1>1 DEF Start
  <2>4. pc' = "PLACE" => FALSE BY <1>1 DEF Start
  <2>5. UNCHANGED <<slot, drift, unsettled, safe, faults>> BY <1>1 DEF Start
  <2> QED BY <2>1, <2>2, <2>3, <2>4, <2>5
<1>2. CASE Observe
  <2>1. recon' \in [ok : BOOLEAN, fresh : BOOLEAN] BY <1>0, <1>2 DEF Observe, Observed
  <2> QED BY <1>2, <2>1 DEF Observe
<1>3. CASE Cycle
  <2>1. guard' = Reported BY <1>3 DEF Cycle
  <2>2. guard' \in GuardRows /\ Below(guard') /\ (guard'.state = "RUNNING" => safe)
    BY <2>1, ReportedRow
  <2>3. pc' = "OBSERVE" \/ (pc' = "PLACE" /\ guard'.state = "RUNNING")
    BY <1>3, <2>1 DEF Cycle, OpeningAllowed
  <2>4. unsettled' \in BOOLEAN /\ UNCHANGED <<slot, recon, drift, safe, faults>>
    BY <1>3 DEF Cycle
  <2> QED BY <2>2, <2>3, <2>4
<1>4. CASE Place BY <1>4 DEF Place
<1>5. CASE PlaceRefused
  <2>1. guard' \in GuardRows /\ Below(guard')
    BY <1>0, <1>5, FailureKeepsRow DEF PlaceRefused
  <2>2. pc' = "DOWN" /\ UNCHANGED <<slot, recon, drift, unsettled, safe, faults>>
    BY <1>5 DEF PlaceRefused
  <2> QED BY <2>1, <2>2
<1>6. QED BY <1>1, <1>2, <1>3, <1>4, <1>5

LEMMA FaultSteps ==
    ASSUME IInv, (\E class \in Latching \cup Counting : Raise(class)) \/ Crash \/ Drift
    PROVE  IInv'
<1>0. /\ guard \in GuardRows
      /\ Below(guard)
  BY DEF IInv, GuardTypeOK
<1> USE DEF IInv, GuardTypeOK
<1>1. Fault => faults' \in 0 .. MaxFaults BY MaxFaultsAssumption DEF Fault
<1>2. ASSUME NEW class \in Latching \cup Counting, Raise(class) PROVE IInv'
  <2>1. PICK row \in {guard, Reported} : guard' = Failed(row, class)
    BY <1>2 DEF Raise, Left
  <2>2. row \in GuardRows /\ Below(row)
    BY <1>0, <2>1, ReportedRow
  <2>3. guard' \in GuardRows /\ Below(guard')
    BY <2>1, <2>2, FailureKeepsRow
  <2>4. pc' \in {"OBSERVE", "DOWN"} /\ Fault
        /\ UNCHANGED <<slot, recon, drift, unsettled, safe>>
    BY <1>2 DEF Raise
  <2> QED BY <1>1, <2>3, <2>4
<1>3. CASE Crash
  <2>1. guard' \in GuardRows /\ Below(guard')
    BY <1>0, <1>3, ReportedRow DEF Crash, Left
  <2>2. pc' = "DOWN" /\ Fault /\ UNCHANGED <<slot, recon, drift, unsettled, safe>>
    BY <1>3 DEF Crash
  <2> QED BY <1>1, <2>1, <2>2
<1>4. CASE Drift BY <1>1, <1>4 DEF Drift
<1>5. QED BY <1>2, <1>3, <1>4

LEMMA WorldSteps ==
    ASSUME IInv, DriftClears \/ RunAges \/ WindowCloses \/ CooldownPasses
    PROVE  IInv'
<1>0. guard \in GuardRows BY DEF IInv, GuardTypeOK
<1> USE DEF IInv, GuardTypeOK
<1>1. CASE DriftClears BY <1>1 DEF DriftClears
<1>2. CASE RunAges BY <1>2 DEF RunAges
<1>3. CASE WindowCloses
  <2>1. guard' \in GuardRows /\ Below(guard')
    BY <1>0, <1>3 DEF WindowCloses, GuardRows, Below
  <2> QED BY <1>3, <2>1 DEF WindowCloses
<1>4. CASE CooldownPasses
  <2>1. guard' \in GuardRows /\ Below(guard')
    BY <1>0, <1>4 DEF CooldownPasses, GuardRows, Below
  <2> QED BY <1>4, <2>1 DEF CooldownPasses
<1>5. QED BY <1>1, <1>2, <1>3, <1>4

\* IInv is inductive and holds of every reachable state.
LEMMA NextIInv == IInv /\ [Next]_vars => IInv'
<1> SUFFICES ASSUME IInv, [Next]_vars PROVE IInv' OBVIOUS
<1>1. CASE UNCHANGED vars
  BY <1>1 DEF vars, IInv, GuardTypeOK
<1>2. CASE Next BY <1>2, OperatorSteps, ProcessSteps, FaultSteps, WorldSteps DEF Next
<1>3. QED BY <1>1, <1>2

LEMMA Inductive == Spec => []IInv
<1>1. QED BY InitIInv, NextIInv, PTL DEF Spec

-----------------------------------------------------------------------------
\* The guard row, the slots, the gate and the process keep their types: the count of
\* failures never passes the threshold (okx_demo_automation_guard_states).
THEOREM TypeCorrect == Spec => []GuardTypeOK
<1>1. IInv => GuardTypeOK BY DEF IInv
<1>2. QED BY <1>1, Inductive, PTL

\* A guard that runs has fewer failures on its record than the threshold
\* (record_okx_demo_automation_failure, record_okx_demo_automation_health).
THEOREM RunsBelowThreshold == Spec => []RunningIsBelowThreshold
<1>1. IInv => RunningIsBelowThreshold
  BY DEF IInv, Below, RunningIsBelowThreshold, FailureThreshold
<1>2. QED BY <1>1, Inductive, PTL

\* Each opening follows a safe observation and is covered by an enabled, running guard:
\* that the observation was safe is not asked again when the order is placed, it follows
\* from the latch that an unsafe one leaves (prepare_place).
THEOREM OpeningsAuthorized == Spec => OpeningsAreAuthorized
<1>1. IInv /\ [Next]_vars =>
        [unsettled' /\ ~unsettled =>
            safe /\ recon.ok /\ guard.state = "RUNNING" /\ guard.set = ActiveSet]_vars
  <2> SUFFICES ASSUME IInv, [Next]_vars, unsettled', ~unsettled
               PROVE  safe /\ recon.ok /\ guard.state = "RUNNING" /\ guard.set = ActiveSet
    OBVIOUS
  <2>1. Place
    BY DEF Next, vars, Enable, Reset, Publish, Start, Observe, Cycle, PlaceRefused, Raise,
           Crash, Drift, DriftClears, RunAges, WindowCloses, CooldownPasses
  <2>2. QED BY <2>1 DEF Place, OpeningAllowed, Agrees, IInv
<1>2. QED BY <1>1, Inductive, PTL DEF Spec, OpeningsAreAuthorized
================================================================================
