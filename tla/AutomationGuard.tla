---------------------------- MODULE AutomationGuard ----------------------------
(***************************************************************************)
(* The runtime loop and the owner-mediated guard of continuous openings.   *)
(* The loop observes the account (a full REST reconciliation, committed),  *)
(* reports health or failure to the guard, and runs one cycle in the same  *)
(* transaction, which commits early, at its end, or not at all.  The guard *)
(* is the one row of okx_demo_automation_guard_states; its functions take  *)
(* an advisory lock, so each is atomic.                                    *)
(*                                                                         *)
(* A reconciliation is reduced to whether database and exchange agree.     *)
(* Exceptions come at any place the code lets through, in the classes of   *)
(* _automation_failure_class.                                              *)
(***************************************************************************)
EXTENDS Integers, FiniteSets

CONSTANTS
    Deployments,     \* strategy deployments that may be published
    MaxSlots,        \* ACTIVE deployments at a time (nine in the code)
    MaxFaults        \* bound on exceptions, crashes and disagreements

ASSUME MaxSlotsAssumption == MaxSlots \in Nat \ {0}
ASSUME MaxFaultsAssumption == MaxFaults \in Nat

GuardStates == {"NONE", "RUNNING", "COOLDOWN", "MANUAL_RESET_REQUIRED"}
Latching == {"RECONCILIATION", "DUPLICATE"}
Counting == {"SUBMISSION", "AUTHENTICATION", "RECONCILIATION_TRANSIENT"}
FailureThreshold == 3

VARIABLES
    slot,       \* [Deployments -> active_slot, 0 when not published]
    guard,      \* the guard row; set: what deployment_set_digest is the digest of
    recon,      \* the last reconciliation run and state
    drift,      \* database and exchange disagree
    unsettled,  \* an order write attempt is unresolved
    pc,         \* where the runtime process is
    safe,       \* what its last observation was
    faults

vars == <<slot, guard, recon, drift, unsettled, pc, safe, faults>>

DeploymentSets == SUBSET (Deployments \X (1 .. MaxSlots))
GuardRows == [state : GuardStates, failures : 0 .. FailureThreshold, window : BOOLEAN,
              cooled : BOOLEAN, set : DeploymentSets]

GuardTypeOK ==
    /\ slot \in [Deployments -> 0 .. MaxSlots]
    /\ guard \in GuardRows
    /\ recon \in [ok : BOOLEAN, fresh : BOOLEAN]
    /\ drift \in BOOLEAN /\ unsettled \in BOOLEAN /\ safe \in BOOLEAN
    /\ pc \in {"DOWN", "OBSERVE", "REPORT", "PLACE"}
    /\ faults \in 0 .. MaxFaults

Active == {d \in Deployments : slot[d] # 0}
ActiveSet == {<<d, slot[d]>> : d \in Active}
Agrees == recon.ok /\ recon.fresh
Fault == faults < MaxFaults /\ faults' = faults + 1

Init ==
    /\ slot = [d \in Deployments |-> 0]
    /\ guard = [state |-> "NONE", failures |-> 0, window |-> FALSE, cooled |-> FALSE, set |-> {}]
    /\ recon = [ok |-> FALSE, fresh |-> FALSE]
    /\ drift = FALSE /\ unsettled = FALSE
    /\ pc = "DOWN" /\ safe = FALSE
    /\ faults = 0

-----------------------------------------------------------------------------
(* The functions of the guard.                                             *)

\* Mutant: the deployments are not compared with the enabled ones.
OpeningAllowedAnySet(row) == row.state = "RUNNING" /\ Agrees /\ ~unsettled

\* okx_demo_continuous_opening_allowed.
OpeningAllowed(row) ==
    /\ row.state = "RUNNING"
    /\ row.set = ActiveSet
    /\ Agrees
    /\ ~unsettled

\* Mutant: the count is not capped.
FailedUncapped(row, class) ==
    LET count == IF row.window THEN row.failures + 1 ELSE 1 IN
    IF row.state = "NONE" THEN row
    ELSE IF class \in Latching
    THEN [row EXCEPT !.state = "MANUAL_RESET_REQUIRED", !.failures = FailureThreshold]
    ELSE [row EXCEPT !.window = TRUE, !.failures = count,
                     !.state = IF count < FailureThreshold THEN @ ELSE "COOLDOWN"]

\* record_okx_demo_automation_failure: the row after a failure of the class.
Failed(row, class) ==
    LET count == IF row.window THEN row.failures + 1 ELSE 1 IN
    IF row.state = "NONE" THEN row
    ELSE IF class \in Latching
    THEN [row EXCEPT !.state = "MANUAL_RESET_REQUIRED", !.failures = FailureThreshold,
                     !.cooled = FALSE]
    ELSE IF count < FailureThreshold
    THEN [row EXCEPT !.window = TRUE, !.failures = count]
    ELSE [row EXCEPT !.window = TRUE, !.failures = FailureThreshold,
                     !.state = "COOLDOWN", !.cooled = FALSE]

\* Mutant: the cooldown ends, the count of failures stays.
HealthyKeepsCount(row) ==
    IF row.state = "COOLDOWN" /\ row.cooled /\ Agrees /\ ~unsettled
    THEN [row EXCEPT !.state = "RUNNING", !.cooled = FALSE] ELSE row

\* Mutant: only a guard that is RUNNING profits from health.
HealthyRunning(row) == row

\* record_okx_demo_automation_health for the current run.
Healthy(row) ==
    IF row.state = "COOLDOWN" /\ row.cooled /\ Agrees /\ ~unsettled
    THEN [row EXCEPT !.state = "RUNNING", !.failures = 0, !.window = FALSE, !.cooled = FALSE]
    ELSE row

\* enable_okx_demo_continuous_automation: once, by an operator.
Enable ==
    /\ guard.state = "NONE"
    /\ Agrees /\ ~unsettled /\ Active # {}
    /\ guard' = [guard EXCEPT !.state = "RUNNING", !.set = ActiveSet]
    /\ UNCHANGED <<slot, recon, drift, unsettled, pc, safe, faults>>

\* reset_okx_demo_continuous_automation: an operator, after a latched failure.
Reset ==
    /\ guard.state = "MANUAL_RESET_REQUIRED"
    /\ recon.ok /\ ~unsettled
    /\ guard' = [guard EXCEPT !.state = "RUNNING", !.failures = 0, !.window = FALSE,
                              !.cooled = FALSE]
    /\ UNCHANGED <<slot, recon, drift, unsettled, pc, safe, faults>>

\* publish: the lowest free slot, under an advisory lock.
Publish(d) ==
    /\ d \notin Active
    /\ \E s \in 1 .. MaxSlots :
        /\ \A e \in Deployments : slot[e] # s
        /\ \A t \in 1 .. s - 1 : \E e \in Deployments : slot[e] = t
        /\ slot' = [slot EXCEPT ![d] = s]
    /\ UNCHANGED <<guard, recon, drift, unsettled, pc, safe, faults>>

-----------------------------------------------------------------------------
(* The runtime process.                                                    *)

\* A run is finalized and moves the gate.
Observed == recon' = [ok |-> ~drift, fresh |-> TRUE]

\* serve: an exact reconciliation comes first; health is reported with it.
Start ==
    /\ pc = "DOWN"
    /\ Observed
    /\ IF drift THEN UNCHANGED <<guard, pc>>
       ELSE /\ pc' = "OBSERVE"
            /\ guard' = IF guard.state = "COOLDOWN" /\ guard.cooled /\ ~unsettled
                        THEN [guard EXCEPT !.state = "RUNNING", !.failures = 0,
                                           !.window = FALSE, !.cooled = FALSE]
                        ELSE guard
    /\ UNCHANGED <<slot, drift, unsettled, safe, faults>>

\* observe, committed by _reconcile_transaction.
Observe ==
    /\ pc = "OBSERVE"
    /\ Observed
    /\ safe' = ~drift
    /\ pc' = "REPORT"
    /\ UNCHANGED <<slot, guard, drift, unsettled, faults>>

\* The row after record_health and, of an unsafe observation, record_failure.
Reported == IF safe THEN Healthy(guard) ELSE Failed(Healthy(guard), "RECONCILIATION")

\* run_cycle: the writer looks at what is unresolved, or a signal is evaluated and its
\* approval selected if the guard allows it (the manifest by itself never does).
Cycle ==
    /\ pc = "REPORT"
    /\ guard' = Reported
    /\ IF unsettled
       THEN pc' = "OBSERVE" /\ unsettled' \in BOOLEAN
       ELSE /\ pc' \in {"OBSERVE"} \cup (IF OpeningAllowed(Reported) THEN {"PLACE"} ELSE {})
            /\ UNCHANGED unsettled
    /\ UNCHANGED <<slot, recon, drift, safe, faults>>

\* prepare_place with claim_okx_demo_continuous_dispatch.
Place ==
    /\ pc = "PLACE"
    /\ OpeningAllowed(guard)
    /\ unsettled' = TRUE
    /\ pc' = "OBSERVE"
    /\ UNCHANGED <<slot, guard, recon, drift, safe, faults>>

\* The dispatch is refused, by the guard or by its limits of dispatches in time: a
\* write is blocked, which ends the process.
PlaceRefused ==
    /\ pc = "PLACE"
    /\ guard' = Failed(guard, "SUBMISSION")
    /\ pc' = "DOWN"
    /\ UNCHANGED <<slot, recon, drift, unsettled, safe, faults>>

\* What an exception or a crash leaves of the guard row: the report to the guard is
\* rolled back unless the cycle had committed it.
Left == {guard} \cup (IF pc = "REPORT" THEN {Reported} ELSE {})

\* An exception in observe or in the cycle is recorded as a failure of its class; one
\* class goes on, the others end the process.
Raise(class) ==
    /\ pc \in {"OBSERVE", "REPORT"}
    /\ Fault
    /\ \E row \in Left : guard' = Failed(row, class)
    /\ pc' = IF class = "RECONCILIATION_TRANSIENT" THEN "OBSERVE" ELSE "DOWN"
    /\ UNCHANGED <<slot, recon, drift, unsettled, safe>>

\* A crash, or an exception of no class.
Crash ==
    /\ pc # "DOWN"
    /\ Fault
    /\ guard' \in Left
    /\ pc' = "DOWN"
    /\ UNCHANGED <<slot, recon, drift, unsettled, safe>>

-----------------------------------------------------------------------------
(* The world.                                                              *)

Drift ==
    /\ ~drift
    /\ Fault
    /\ drift' = TRUE
    /\ UNCHANGED <<slot, guard, recon, unsettled, pc, safe>>

\* A recovery grant's order, or the operator, restores agreement.
DriftClears ==
    /\ drift
    /\ drift' = FALSE
    /\ UNCHANGED <<slot, guard, recon, unsettled, pc, safe, faults>>

\* Ninety seconds pass without a run; ten minutes since the first counted failure;
\* fifteen minutes of cooldown.
RunAges ==
    /\ recon.fresh
    /\ recon' = [recon EXCEPT !.fresh = FALSE]
    /\ UNCHANGED <<slot, guard, drift, unsettled, pc, safe, faults>>

WindowCloses ==
    /\ guard.window
    /\ guard' = [guard EXCEPT !.window = FALSE]
    /\ UNCHANGED <<slot, recon, drift, unsettled, pc, safe, faults>>

CooldownPasses ==
    /\ guard.state = "COOLDOWN" /\ ~guard.cooled
    /\ guard' = [guard EXCEPT !.cooled = TRUE]
    /\ UNCHANGED <<slot, recon, drift, unsettled, pc, safe, faults>>

Next ==
    \/ Enable \/ Reset
    \/ \E d \in Deployments : Publish(d)
    \/ Start \/ Observe \/ Cycle \/ Place \/ PlaceRefused
    \/ \E class \in Latching \cup Counting : Raise(class)
    \/ Crash
    \/ Drift \/ DriftClears
    \/ RunAges \/ WindowCloses \/ CooldownPasses

Spec == Init /\ [][Next]_vars

\* The supervisor restarts the service and the loop goes on; now and then the report
\* follows its run within ninety seconds and the cycle settles what was unresolved;
\* agreement returns and time passes.
Fairness ==
    /\ WF_vars(Start) /\ WF_vars(Observe) /\ WF_vars(Cycle)
    /\ WF_vars(Place \/ PlaceRefused)
    /\ SF_vars(Cycle /\ recon.fresh /\ ~unsettled')
    /\ WF_vars(DriftClears) /\ WF_vars(CooldownPasses)

FairSpec == Spec /\ Fairness

-----------------------------------------------------------------------------
(* Properties.                                                             *)

\* An opening is placed only after a safe observation of the same iteration, with
\* nothing unresolved, and for exactly the deployments an operator enabled, although
\* signal evaluation, publications and failures may come between (prepare_place).
OpeningsAreAuthorized ==
    [][unsettled' /\ ~unsettled =>
          safe /\ recon.ok /\ guard.state = "RUNNING" /\ guard.set = ActiveSet]_vars

\* While the guard runs, fewer failures than the threshold are on its record: health,
\* reset and the ten-minute window forget the failures before openings return.
RunningIsBelowThreshold == guard.state = "RUNNING" => guard.failures < FailureThreshold

\* A cooldown does not last for ever: it ends in a return to RUNNING, by health alone,
\* or in a latch (record_okx_demo_automation_health).
CooldownEnds == guard.state = "COOLDOWN" ~> guard.state # "COOLDOWN"

\* What MANUAL_LATCHED promises ('automatic_recovery' is false): only an operator's
\* reset ends MANUAL_RESET_REQUIRED.
LatchIsHeld ==
    [][guard.state = "MANUAL_RESET_REQUIRED" /\ guard'.state # guard.state => Reset]_vars
================================================================================
