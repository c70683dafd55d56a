---------------------------- MODULE SignalExecution ----------------------------
(***************************************************************************)
(* From a closed candle to one dispatched order: the durable queue of      *)
(* signal evaluations, the orchestrator that takes a leased evaluation     *)
(* through SIGNAL and RISK, the owner function that reserves the risk      *)
(* budget and the selection of an approved execution by the runtime cycle. *)
(* Each action is one transaction, or what it does before it first locks.  *)
(*                                                                         *)
(* A session keeps a row as it first loaded it until it commits, and the   *)
(* lock require_active_lease then takes refreshes nothing: the lease, the  *)
(* deployment and the chain a transaction tests are those of its first     *)
(* read, the stage rows those under the lock.  Its writes are by key, of   *)
(* the columns that differ from what was loaded.                           *)
(*                                                                         *)
(* A runtime may crash anywhere, or be paused until its successor holds    *)
(* the writer lease and then go on with what it had read.  Time is two     *)
(* facts per evaluation: its lease still runs, its signal bundle is fresh. *)
(* The order writer and the opening guard have modules of their own: here  *)
(* an attempt is open or done, and each question put to the guard may be   *)
(* answered either way.                                                    *)
(***************************************************************************)
EXTENDS Integers, FiniteSets

CONSTANTS
    Deployments,    \* the ACTIVE deployments the guard was enabled for
    MaxCandle,      \* bound on closed candles
    Runtimes,       \* runtime processes
    MaxPositions,   \* the policy's max_positions
    Exposures,      \* position counts an account snapshot may report
    MaxFaults       \* bound on crashes, takeovers from a paused runtime, late leases and
                    \* exceptions inside _fail_closed

ASSUME DeploymentsAssumption == Deployments # {}
ASSUME MaxCandleAssumption == MaxCandle \in Nat \ {0}
ASSUME MaxPositionsAssumption == MaxPositions \in Nat \ {0}
ASSUME ExposuresAssumption == Exposures \subseteq 0 .. MaxPositions
ASSUME MaxFaultsAssumption == MaxFaults \in Nat

Evals == Deployments \X (1 .. MaxCandle)

\* FAILED is left out: every test in the code treats it as it treats BLOCKED.
Ended == {"NO_ACTION", "ACTIONABLE", "BLOCKED"}
Decisions == {"NONE", "NO_ACTION", "ACTIONABLE"}
Processing == {"START", "CAPTURE", "CHECKPOINT", "NO_ACTION", "OPEN",
               "PREPARE_SIGNAL", "RECORD_SIGNAL", "COMPLETE_SIGNAL", "BOUNDARY",
               "PREPARE_RISK", "RISK", "COMPLETE_RISK", "COMPLETE"}
Failing == {"FAIL_STAGE", "FAIL_CHAIN", "FAIL_EVALUATION"}
Phases == {"DOWN", "IDLE", "ENQUEUE", "CLAIM", "OPENING", "PLACE"} \cup Processing \cup Failing

VARIABLES
    active,     \* ACTIVE deployments
    candle,     \* the latest closed candle
    eval,       \* signal_evaluations: status, fence, lease, checkpoint
    fresh,      \* evaluations whose trusted bundle (and all that expires with it) is unexpired
    chain,      \* EXECUTION full_chain_runs: status, stage, signal row, approval bound
    stage,      \* SIGNAL and RISK full_chain_stage_runs; fence: in the SIGNAL input
    approval,   \* the evaluation's trade intent and approved_executions row
    attempt,    \* its order write attempt
    budget,     \* risk_budgets.approved_positions
    holder,     \* the runtime that holds the writer lease
    rt,         \* the runtimes
    faults

queue == <<active, candle, eval, fresh>>
execution == <<chain, stage>>
risk == <<approval, budget>>
vars == <<queue, execution, risk, attempt, holder, rt, faults>>

EvalRows == [status : {"NONE", "PENDING", "LEASED"} \cup Ended, fence : 0 .. MaxFaults + 1,
             live : BOOLEAN, checkpoint : Decisions]
ChainStatuses == {"NONE", "APPROVED", "EXECUTING", "BLOCKED"}
ChainRows == [status : ChainStatuses, at : {"SIGNAL", "RISK", "EXECUTION"},
              signal : BOOLEAN, bound : BOOLEAN]
StageStatuses == {"NONE", "PREPARED", "SUCCESS", "BLOCKED"}
StageRows == [signal : StageStatuses, fence : 0 .. MaxFaults + 1, risk : StageStatuses]
\* seen: UNREAD, or the status the chain had ("NONE" too when it was not asked for) when
\* the transaction under way loaded its rows and found the lease its own.
RuntimeRows == [pc : Phases, e : Evals, fence : 0 .. MaxFaults + 1, late : BOOLEAN,
                clock : SUBSET Evals, todo : SUBSET Deployments, decision : Decisions,
                prepared : {"NONE", "SIGNAL", "RISK"}, open : BOOLEAN, mine : BOOLEAN,
                seen : ChainStatuses \cup {"UNREAD"}]

SignalTypeOK ==
    /\ active \in SUBSET Deployments
    /\ candle \in 0 .. MaxCandle
    /\ eval \in [Evals -> EvalRows]
    /\ fresh \in SUBSET Evals
    /\ chain \in [Evals -> ChainRows]
    /\ stage \in [Evals -> StageRows]
    /\ approval \in [Evals -> {"NONE", "ACTIVE", "REJECTED", "EXPIRED"}]
    /\ attempt \in [Evals -> {"NONE", "OPEN", "DONE"}]
    /\ budget \in Int
    /\ holder \in Runtimes
    /\ rt \in [Runtimes -> RuntimeRows]
    /\ faults \in 0 .. MaxFaults

Deployed(e) == e[1] \in active
Settled == \A e \in Evals : attempt[e] # "OPEN"

\* What the guard cannot allow: an unresolved row, a deployment set not the enabled one.
MayOpen == Settled /\ active = Deployments

Idle == [pc |-> "IDLE", e |-> CHOOSE e \in Evals : TRUE, fence |-> 0, late |-> FALSE,
         clock |-> {}, todo |-> {}, decision |-> "NONE", prepared |-> "NONE", open |-> FALSE,
         mine |-> FALSE, seen |-> "UNREAD"]

Init ==
    /\ active = Deployments
    /\ candle = 0
    /\ eval = [e \in Evals |-> [status |-> "NONE", fence |-> 0, live |-> FALSE,
                                checkpoint |-> "NONE"]]
    /\ fresh = {}
    /\ chain = [e \in Evals |-> [status |-> "NONE", at |-> "SIGNAL",
                                 signal |-> FALSE, bound |-> FALSE]]
    /\ stage = [e \in Evals |-> [signal |-> "NONE", fence |-> 0, risk |-> "NONE"]]
    /\ approval = [e \in Evals |-> "NONE"]
    /\ attempt = [e \in Evals |-> "NONE"]
    /\ budget = 0
    /\ holder \in Runtimes
    /\ rt = [r \in Runtimes |-> [Idle EXCEPT !.pc = IF r = holder THEN "IDLE" ELSE "DOWN"]]
    /\ faults = 0

At(r, pc) == rt[r].pc = pc
Goto(r, pc) == rt' = [rt EXCEPT ![r].pc = pc]

\* The cycle ends and forgets what it read; or the process ends.
EndCycle(r) == rt' = [rt EXCEPT ![r] = Idle]
GoDown(r) == rt' = [rt EXCEPT ![r] = [Idle EXCEPT !.pc = "DOWN"]]

\* _fail_closed begins.
Fail(r) == rt' = [rt EXCEPT ![r].pc = "FAIL_STAGE", ![r].decision = "NONE", ![r].clock = {},
                            ![r].seen = "UNREAD"]
Refuse(r) == Fail(r) /\ UNCHANGED <<queue, execution, risk>>

\* Mutant: the status of the row is all that is asked.
OwnsRowByStatus(r) ==
    eval[rt[r].e].status = "LEASED" /\ ~rt[r].late

\* A conditional update names the row, its token and its fence; require_active_lease
\* also wants the deployment.  Both compare the expiry with the last clock reading.
OwnsRow(r) ==
    LET e == rt[r].e IN
    /\ eval[e].status = "LEASED" /\ eval[e].fence = rt[r].fence
    /\ ~rt[r].late
Owns(r) == OwnsRow(r) /\ Deployed(rt[r].e)

ChainOpen == {"APPROVED", "EXECUTING"}
ChainActive(e) == chain[e].status \in ChainOpen

\* The thirty seconds of a runtime's lease are over, whatever became of its row.
Expired(r) ==
    LET e == rt[r].e IN
    ~(eval[e].fence = rt[r].fence /\ eval[e].live)

-----------------------------------------------------------------------------
(* The queue: a cycle enqueues the closed candle of every deployment it    *)
(* listed and claims the oldest evaluation, one lease at a time.           *)

\* run_cycle with nothing unresolved: the ACTIVE deployments and the time are read.
BeginCycle(r) ==
    /\ At(r, "IDLE") /\ holder = r
    /\ Settled
    /\ rt' = [rt EXCEPT ![r].pc = "ENQUEUE", ![r].todo = active,
                    ![r].clock = {e \in fresh : eval[e].checkpoint # "NONE"}]
    /\ UNCHANGED <<queue, execution, risk, attempt, holder, faults>>

\* enqueue_evaluation.  The session may still answer with the deployment it listed.
Enqueue(r) ==
    /\ At(r, "ENQUEUE")
    /\ \/ /\ rt[r].todo = {} \/ candle = 0
          /\ Goto(r, "CLAIM")
          /\ UNCHANGED eval
       \/ \E d \in rt[r].todo :
            /\ candle > 0
            /\ eval' = IF eval[<<d, candle>>].status = "NONE"
                       THEN [eval EXCEPT ![<<d, candle>>].status = "PENDING"] ELSE eval
            /\ rt' = [rt EXCEPT ![r].todo = @ \ {d}]
       \/ /\ rt[r].todo \ active # {} /\ candle > 0
          /\ GoDown(r)
          /\ UNCHANGED eval
    /\ UNCHANGED <<active, candle, fresh, execution, risk, attempt, holder, faults>>

\* Mutants: an expired lease consumes a fence of its own; or it is only returned when
\* its evaluation has no checkpoint.
ReclaimedFenced ==
    [e \in Evals |->
        IF eval[e].status = "LEASED" /\ ~eval[e].live /\ Deployed(e)
        THEN [eval[e] EXCEPT !.status = "PENDING", !.fence = @ + 1] ELSE eval[e]]
ReclaimedUnstarted ==
    [e \in Evals |->
        IF eval[e].status = "LEASED" /\ ~eval[e].live /\ Deployed(e)
                /\ eval[e].checkpoint = "NONE"
        THEN [eval[e] EXCEPT !.status = "PENDING"] ELSE eval[e]]

\* _expire_stale, the first statement of claim_next.
Reclaimed ==
    [e \in Evals |->
        IF eval[e].status = "LEASED" /\ ~eval[e].live /\ Deployed(e)
        THEN [eval[e] EXCEPT !.status = "PENDING"] ELSE eval[e]]

Leased == {e \in Evals : Reclaimed[e].status = "LEASED"}

\* claim_next: nothing while a lease is out, else the oldest pending evaluation.
Claim(r) ==
    LET pending == {e \in Evals : Reclaimed[e].status = "PENDING" /\ Deployed(e)} IN
    /\ At(r, "CLAIM")
    /\ \/ /\ Leased # {} \/ pending = {}
          /\ eval' = Reclaimed
          /\ rt' = [rt EXCEPT ![r].pc = "OPENING", ![r].clock = {}]
       \/ /\ Leased = {}
          /\ \E e \in pending :
                /\ \A f \in pending : e[2] <= f[2]
                /\ eval' = [Reclaimed EXCEPT ![e].status = "LEASED", ![e].live = TRUE,
                                             ![e].fence = @ + 1]
                /\ rt' = [rt EXCEPT ![r].pc = "START", ![r].e = e,
                                    ![r].fence = eval[e].fence + 1, ![r].clock = @ \cap {e}]
    /\ UNCHANGED <<active, candle, fresh, execution, risk, attempt, holder, faults>>

-----------------------------------------------------------------------------
(* process: the evaluation's terminal result, its checkpoint or a capture. *)

\* _terminal_replay, require_active_lease and _restore_checkpoint; nothing is committed.
Start(r) ==
    LET e == rt[r].e IN
    /\ At(r, "START")
    /\ IF eval[e].status \in Ended
       THEN EndCycle(r)
       ELSE IF ~Owns(r) \/ (eval[e].checkpoint # "NONE" /\ e \notin rt[r].clock)
       THEN Fail(r)
       ELSE IF eval[e].checkpoint = "NONE"
       THEN rt' = [rt EXCEPT ![r].pc = "CAPTURE", ![r].seen = "NONE"]
       ELSE IF eval[e].checkpoint = "NO_ACTION"
       THEN rt' = [rt EXCEPT ![r].pc = "NO_ACTION", ![r].decision = "NO_ACTION"]
       ELSE rt' = [rt EXCEPT ![r].pc = "OPEN", ![r].decision = "ACTIONABLE", ![r].seen = "NONE"]
    /\ UNCHANGED <<queue, execution, risk, attempt, holder, faults>>

\* capture_trusted_signal_bundle and the evaluator; the clock is read again, the rows are
\* not: the capture has a savepoint of its own.
Capture(r) ==
    /\ At(r, "CAPTURE")
    /\ \E decision \in Decisions \ {"NONE"} :
        rt' = [rt EXCEPT ![r].pc = "CHECKPOINT", ![r].decision = decision,
                         ![r].late = Expired(r)]
    /\ fresh' = fresh \cup {rt[r].e}
    /\ UNCHANGED <<active, candle, eval, execution, risk, attempt, holder, faults>>

\* checkpoint_leased: the lease and the empty checkpoint are those of Start.
Checkpoint(r) ==
    LET e == rt[r].e IN
    /\ At(r, "CHECKPOINT")
    /\ IF ~rt[r].late
       THEN /\ eval' = [eval EXCEPT ![e].checkpoint = rt[r].decision]
            /\ rt' = [rt EXCEPT ![r].pc = IF rt[r].decision = "NO_ACTION" THEN "NO_ACTION"
                                          ELSE "OPEN", ![r].seen = "UNREAD"]
            /\ UNCHANGED <<active, candle, fresh, execution, risk>>
       ELSE Refuse(r)
    /\ UNCHANGED <<attempt, holder, faults>>

\* complete(NO_ACTION).
CompleteNoAction(r) ==
    /\ At(r, "NO_ACTION")
    /\ IF OwnsRow(r)
       THEN /\ eval' = [eval EXCEPT ![rt[r].e].status = "NO_ACTION", ![rt[r].e].live = FALSE]
            /\ EndCycle(r)
            /\ UNCHANGED <<active, candle, fresh, execution, risk>>
       ELSE Refuse(r)
    /\ UNCHANGED <<attempt, holder, faults>>

-----------------------------------------------------------------------------
(* The EXECUTION chain, under the evaluation's lease.  A transaction reads *)
(* its rows, then locks the evaluation, tests what it read and writes.     *)

Reading == {"OPEN", "PREPARE_SIGNAL", "RECORD_SIGNAL", "COMPLETE_SIGNAL", "PREPARE_RISK",
            "COMPLETE_RISK"}

\* evaluation.id and chain.id, the arguments of the next call, load the rows the last
\* commit expired.  A lease that is lost by then stays so and nothing will be written.
Load(r) ==
    LET e == rt[r].e IN
    /\ rt[r].pc \in Reading /\ rt[r].seen = "UNREAD"
    /\ IF Owns(r)
       THEN rt' = [rt EXCEPT ![r].seen = IF At(r, "OPEN") THEN "NONE" ELSE chain[e].status]
       ELSE Fail(r)
    /\ UNCHANGED <<queue, execution, risk, attempt, holder, faults>>

Loaded(r) == rt[r].seen # "UNREAD"

\* Refused under the lock with no stage prepared: block_checkpoint_execution_chain
\* is the same transaction.
BlockedAtOnce(r, row) ==
    /\ chain' = IF row.seen \in ChainOpen THEN [chain EXCEPT ![row.e].status = "BLOCKED"] ELSE chain
    /\ rt' = [rt EXCEPT ![r] = [row EXCEPT !.pc = "FAIL_EVALUATION", !.decision = "NONE",
                                           !.clock = {}, !.seen = "UNREAD"]]
    /\ UNCHANGED stage

\* prepare_execution_stage(SIGNAL): its input holds the fencing sequence.  A stage that
\* is resumed is not committed: the transaction goes on.
SignalPrepared(r, row) ==
    LET e == row.e
        resumes == stage[e].signal \in {"PREPARED", "SUCCESS"} /\ stage[e].fence = row.fence IN
    IF row.seen \in ChainOpen /\ (stage[e].signal = "NONE" \/ resumes)
    THEN /\ rt' = [rt EXCEPT ![r] =
                     [row EXCEPT !.pc = "RECORD_SIGNAL", !.prepared = "SIGNAL", !.clock = {},
                                 !.seen = IF resumes THEN @ ELSE "UNREAD"]]
         /\ stage' = IF resumes THEN stage
                     ELSE [stage EXCEPT ![e].signal = "PREPARED", ![e].fence = row.fence]
         /\ chain' = IF resumes THEN chain ELSE [chain EXCEPT ![e].at = "SIGNAL"]
    ELSE BlockedAtOnce(r, row)

\* open_for_signal_evaluation and the test for a terminal chain.  A chain that exists is
\* not committed: renew_checkpoint_execution_authority, or the SIGNAL stage, is in the
\* same transaction.
OpenChain(r) ==
    LET e == rt[r].e
        row == [rt[r] EXCEPT !.open = TRUE, !.decision = "NONE", !.seen = chain[e].status]
        next == [row EXCEPT !.pc = "PREPARE_SIGNAL", !.clock = {}, !.seen = "UNREAD"] IN
    /\ At(r, "OPEN") /\ Loaded(r)
    /\ \/ /\ chain[e].status = "NONE"
          /\ chain' = [chain EXCEPT ![e].status = "APPROVED"]
          /\ rt' = [rt EXCEPT ![r] = next]
          /\ UNCHANGED stage
       \/ /\ ChainActive(e) /\ chain[e].signal /\ e \in rt[r].clock
          /\ rt' = [rt EXCEPT ![r] = next]
          /\ UNCHANGED execution
       \/ /\ ChainActive(e) /\ ~chain[e].signal
          /\ SignalPrepared(r, row)
       \/ /\ chain[e].status = "BLOCKED" \/ (ChainActive(e) /\ chain[e].signal /\ e \notin rt[r].clock)
          /\ BlockedAtOnce(r, row)
    /\ UNCHANGED <<queue, risk, attempt, holder, faults>>

PrepareSignal(r) ==
    /\ At(r, "PREPARE_SIGNAL") /\ Loaded(r)
    /\ SignalPrepared(r, rt[r])
    /\ UNCHANGED <<queue, risk, attempt, holder, faults>>

\* record_execution_signal; research evidence that drifted revokes the candidate.
RecordSignal(r) ==
    LET e == rt[r].e
        may == rt[r].seen \in ChainOpen /\ stage[e].signal \in {"PREPARED", "SUCCESS"} IN
    /\ At(r, "RECORD_SIGNAL") /\ Loaded(r)
    /\ \/ /\ may
          /\ chain' = [chain EXCEPT ![e].signal = TRUE]
          /\ rt' = [rt EXCEPT ![r].pc = "COMPLETE_SIGNAL",
                              ![r].seen = IF chain[e].signal THEN @ ELSE "UNREAD"]
       \/ /\ may
          /\ chain' = [chain EXCEPT ![e].status = "BLOCKED"]
          /\ Fail(r)
       \/ /\ ~may
          /\ Fail(r) /\ UNCHANGED chain
    /\ UNCHANGED <<queue, stage, risk, attempt, holder, faults>>

\* What a chain's status becomes: a column that had the value when loaded is not written.
Executing(r) == IF rt[r].seen = "EXECUTING" THEN chain[rt[r].e].status ELSE "EXECUTING"

\* complete_execution_stage(SIGNAL).
CompleteSignal(r) ==
    LET e == rt[r].e
        done == stage[e].signal = "SUCCESS" IN
    /\ At(r, "COMPLETE_SIGNAL") /\ Loaded(r)
    /\ IF rt[r].seen \in ChainOpen /\ stage[e].signal \in {"PREPARED", "SUCCESS"}
       THEN /\ rt' = [rt EXCEPT ![r].pc = "BOUNDARY", ![r].prepared = "NONE",
                                ![r].seen = IF done THEN @ ELSE "UNREAD"]
            /\ stage' = [stage EXCEPT ![e].signal = "SUCCESS"]
            /\ chain' = IF done THEN chain
                        ELSE [chain EXCEPT ![e].status = Executing(r), ![e].at = "RISK"]
       ELSE Fail(r) /\ UNCHANGED execution
    /\ UNCHANGED <<queue, risk, attempt, holder, faults>>

\* The second clock reading, _require_fresh_bundle and the renewal of the approval
\* to the shorter of lease and signal, which therefore expires with one of them.
Boundary(r) ==
    LET e == rt[r].e
        read == [rt EXCEPT ![r].late = Expired(r), ![r].seen = "UNREAD"] IN
    /\ At(r, "BOUNDARY")
    /\ rt' = IF e \in fresh /\ (Loaded(r) \/ Owns(r)) /\ ~Expired(r)
             THEN [read EXCEPT ![r].pc = "PREPARE_RISK"]
             ELSE [read EXCEPT ![r].pc = "FAIL_STAGE", ![r].decision = "NONE", ![r].clock = {}]
    /\ UNCHANGED <<queue, execution, risk, attempt, holder, faults>>

\* prepare_execution_stage(RISK); what it leaves open is rolled back.
PrepareRisk(r) ==
    LET e == rt[r].e IN
    /\ At(r, "PREPARE_RISK") /\ Loaded(r)
    /\ IF rt[r].seen \in ChainOpen /\ stage[e].signal = "SUCCESS"
            /\ stage[e].risk \in {"NONE", "PREPARED", "SUCCESS"}
       THEN /\ rt' = [rt EXCEPT ![r].pc = "RISK", ![r].prepared = "RISK", ![r].seen = "UNREAD"]
            /\ stage' = IF stage[e].risk = "NONE" THEN [stage EXCEPT ![e].risk = "PREPARED"]
                        ELSE stage
            /\ chain' = IF stage[e].risk = "NONE" THEN [chain EXCEPT ![e].at = "RISK"] ELSE chain
       ELSE BlockedAtOnce(r, rt[r])
    /\ UNCHANGED <<queue, risk, attempt, holder, faults>>

-----------------------------------------------------------------------------
(* The owner function and what follows it.                                 *)

\* What persist_okx_demo_natural_risk_chain wants of the rows, at its own time.
MayDecide(r) ==
    LET e == rt[r].e IN
    /\ chain[e].status = "EXECUTING" /\ chain[e].at = "RISK"
    /\ eval[e].status = "LEASED" /\ eval[e].fence = rt[r].fence /\ eval[e].live
    /\ e \in fresh
    /\ stage[e].signal = "SUCCESS" /\ stage[e].risk = "PREPARED"
    /\ Deployed(e)
    /\ MayOpen

\* Mutant: whether the approval was dispatched is not asked.
ReleasableDispatched ==
    {e \in Evals : /\ approval[e] = "ACTIVE" /\ e \notin fresh
                   /\ chain[e].status = "EXECUTING" /\ chain[e].at = "EXECUTION" /\ chain[e].bound}

\* release_unclaimed_expired_natural_approvals, apart from its grace of five seconds.
Releasable ==
    {e \in Evals : /\ approval[e] = "ACTIVE" /\ e \notin fresh
                   /\ chain[e].status = "EXECUTING" /\ chain[e].at = "EXECUTION" /\ chain[e].bound
                   /\ attempt[e] = "NONE"}

\* Mutant: only the account's positions count.
ProjectedFromAccount(positions, left) == positions + 1

\* The positions there would be: the account's or the reserved ones, and this one.
Projected(positions, left) == (IF positions > left THEN positions ELSE left) + 1

\* RiskChainService.evaluate and persist_okx_demo_natural_risk_chain.
Risk(r) ==
    LET e == rt[r].e IN
    /\ At(r, "RISK")
    /\ \/ /\ MayDecide(r)
          /\ \E gone \in SUBSET Releasable, positions \in Exposures, breach \in BOOLEAN :
                LET left == budget - Cardinality(gone)
                    projected == Projected(positions, left)
                    decision == IF approval[e] # "NONE" THEN approval[e]
                                ELSE IF breach \/ projected > MaxPositions THEN "REJECTED"
                                ELSE "ACTIVE" IN
                /\ approval' = [f \in Evals |-> IF f \in gone THEN "EXPIRED"
                                                ELSE IF f = e THEN decision ELSE approval[f]]
                /\ budget' = IF decision = "ACTIVE" /\ approval[e] = "NONE" THEN projected ELSE left
                /\ chain' = [f \in Evals |-> IF f \in gone
                                             THEN [chain[f] EXCEPT !.status = "BLOCKED"] ELSE chain[f]]
                /\ IF decision = "ACTIVE" THEN Goto(r, "COMPLETE_RISK") ELSE Fail(r)
       \/ Fail(r) /\ UNCHANGED <<risk, chain>>   \* any RAISE, the closed guard's too
    /\ UNCHANGED <<queue, stage, attempt, holder, faults>>

\* complete_execution_stage(RISK) binds the approval to the chain.
CompleteRisk(r) ==
    LET e == rt[r].e IN
    /\ At(r, "COMPLETE_RISK") /\ Loaded(r)
    /\ IF rt[r].seen \in ChainOpen /\ stage[e].risk \in {"PREPARED", "SUCCESS"}
       THEN /\ rt' = [rt EXCEPT ![r].pc = "COMPLETE", ![r].prepared = "NONE", ![r].seen = "UNREAD"]
            /\ stage' = [stage EXCEPT ![e].risk = "SUCCESS"]
            /\ chain' = IF stage[e].risk = "SUCCESS" THEN chain
                        ELSE [chain EXCEPT ![e].status = Executing(r), ![e].at = "EXECUTION",
                                           ![e].bound = TRUE]
       ELSE Fail(r) /\ UNCHANGED execution
    /\ UNCHANGED <<queue, risk, attempt, holder, faults>>

\* complete(ACTIONABLE).
Complete(r) ==
    LET e == rt[r].e IN
    /\ At(r, "COMPLETE")
    /\ IF OwnsRow(r)
       THEN /\ eval' = [eval EXCEPT ![e].status = "ACTIONABLE", ![e].live = FALSE]
            /\ rt' = [rt EXCEPT ![r] = [Idle EXCEPT !.pc = "OPENING", !.e = e, !.mine = TRUE]]
            /\ UNCHANGED <<active, candle, fresh, execution, risk>>
       ELSE Refuse(r)
    /\ UNCHANGED <<attempt, holder, faults>>

-----------------------------------------------------------------------------
(* _fail_closed: three transactions.  Nothing is loaded when one begins,   *)
(* so the lease it tests is the one it locks.                              *)

\* Anything else raised: the network, the database.  A statement that fails aborts its
\* transaction, and the first transaction of _fail_closed with it.
Raise(r) ==
    /\ rt[r].pc \in Processing
    /\ IF rt[r].open /\ Loaded(r)
       THEN rt' = [rt EXCEPT ![r].decision = "NONE", ![r].clock = {}, ![r].seen = "UNREAD",
                    ![r].pc = IF rt[r].prepared = "NONE" THEN "FAIL_EVALUATION" ELSE "FAIL_CHAIN"]
       ELSE Fail(r)
    /\ UNCHANGED <<queue, execution, risk, attempt, holder, faults>>

\* Whether fail_execution_stage finds its stage PREPARED, under the lease.
StageFails(r, name, status) ==
    /\ rt[r].open /\ Owns(r) /\ ChainActive(rt[r].e)
    /\ rt[r].prepared = name /\ status = "PREPARED"

\* fail_execution_stage.
FailStage(r) ==
    LET e == rt[r].e
        signal == StageFails(r, "SIGNAL", stage[e].signal)
        risks == StageFails(r, "RISK", stage[e].risk) IN
    /\ At(r, "FAIL_STAGE")
    /\ \/ /\ signal
          /\ stage' = [stage EXCEPT ![e].signal = "BLOCKED"]
          /\ chain' = [chain EXCEPT ![e].status = "BLOCKED"]
          /\ UNCHANGED faults
       \/ /\ risks
          /\ stage' = [stage EXCEPT ![e].risk = "BLOCKED"]
          /\ chain' = [chain EXCEPT ![e].status = "BLOCKED"]
          /\ UNCHANGED faults
       \/ /\ ~signal /\ ~risks
          /\ UNCHANGED <<execution, faults>>
       \/ /\ faults < MaxFaults /\ faults' = faults + 1   \* it raises
          /\ UNCHANGED execution
    /\ Goto(r, "FAIL_CHAIN")
    /\ UNCHANGED <<queue, risk, attempt, holder>>

\* block_checkpoint_execution_chain.
FailChain(r) ==
    LET e == rt[r].e
        blocks == rt[r].open /\ Owns(r) /\ ChainActive(e) IN
    /\ At(r, "FAIL_CHAIN")
    /\ \/ /\ chain' = IF blocks THEN [chain EXCEPT ![e].status = "BLOCKED"] ELSE chain
          /\ UNCHANGED faults
       \/ /\ faults < MaxFaults /\ faults' = faults + 1   \* it raises
          /\ UNCHANGED chain
    /\ Goto(r, "FAIL_EVALUATION")
    /\ UNCHANGED <<queue, stage, risk, attempt, holder>>

\* complete(BLOCKED or FAILED): the runtime survives only an evaluation it finds so.
FailEvaluation(r) ==
    LET e == rt[r].e IN
    /\ At(r, "FAIL_EVALUATION")
    /\ eval' = IF OwnsRow(r)
               THEN [eval EXCEPT ![e].status = "BLOCKED", ![e].live = FALSE]
               ELSE eval
    /\ IF eval'[e].status = "BLOCKED" THEN EndCycle(r) ELSE GoDown(r)
    /\ UNCHANGED <<active, candle, fresh, execution, risk, attempt, holder, faults>>

-----------------------------------------------------------------------------
(* The order of an approved execution.                                     *)

\* _next_unconsumed_approved_execution.
Claimable(e) ==
    /\ approval[e] = "ACTIVE" /\ e \in fresh
    /\ chain[e].status = "EXECUTING" /\ chain[e].at = "EXECUTION" /\ chain[e].bound
    /\ stage[e].risk = "SUCCESS"
    /\ eval[e].status = "ACTIONABLE"
    /\ attempt[e] = "NONE"

\* The end of run_cycle: a refusal is a transient failure, the process goes on.
Opening(r) ==
    LET pick == {e \in Evals : Claimable(e) /\ (rt[r].mine => e = rt[r].e)} IN
    /\ At(r, "OPENING")
    /\ \/ /\ MayOpen
          /\ \E e \in pick : rt' = [rt EXCEPT ![r] = [Idle EXCEPT !.pc = "PLACE", !.e = e]]
       \/ EndCycle(r)   \* the guard is closed or nothing is claimable
    /\ UNCHANGED <<queue, execution, risk, attempt, holder, faults>>

\* Mutant: what _next_unconsumed_approved_execution selected is trusted.
MayDispatchAsSelected(r) == attempt[rt[r].e] = "NONE"

\* prepare_place: approval, chain and guard are read again in the transaction
\* that makes the attempt durable (claim_okx_demo_continuous_dispatch).
MayDispatch(r) ==
    LET e == rt[r].e IN
    /\ holder = r
    /\ approval[e] = "ACTIVE" /\ e \in fresh
    /\ chain[e].status = "EXECUTING" /\ chain[e].at = "EXECUTION" /\ chain[e].bound
    /\ stage[e].risk = "SUCCESS"
    /\ attempt[e] = "NONE"
    /\ Deployed(e)
    /\ MayOpen

Place(r) ==
    /\ At(r, "PLACE")
    /\ \/ /\ MayDispatch(r)
          /\ attempt' = [attempt EXCEPT ![rt[r].e] = "OPEN"]
          /\ EndCycle(r)
       \/ GoDown(r) /\ UNCHANGED attempt   \* refused, its order rate exceeded too
    /\ UNCHANGED <<queue, execution, risk, holder, faults>>

\* The order writer resolves the attempt.
Resolve(e) ==
    /\ attempt[e] = "OPEN"
    /\ attempt' = [attempt EXCEPT ![e] = "DONE"]
    /\ UNCHANGED <<queue, execution, risk, holder, rt, faults>>

-----------------------------------------------------------------------------
(* Operators, time and failures.                                           *)

\* disable: the deployment and its open evaluations in one transaction.
Disable(d) ==
    /\ d \in active
    /\ active' = active \ {d}
    /\ eval' = [e \in Evals |-> IF e[1] = d /\ eval[e].status \in {"PENDING", "LEASED"}
                                THEN [eval[e] EXCEPT !.status = "BLOCKED"] ELSE eval[e]]
    /\ UNCHANGED <<candle, fresh, execution, risk, attempt, holder, rt, faults>>

CandleCloses ==
    /\ candle < MaxCandle
    /\ candle' = candle + 1
    /\ UNCHANGED <<active, eval, fresh, execution, risk, attempt, holder, rt, faults>>

\* Nobody asks about the bundle of an ended evaluation without an approval.
BundleExpires(e) ==
    /\ e \in fresh
    /\ eval[e].status \notin Ended \/ approval[e] = "ACTIVE"
    /\ fresh' = fresh \ {e}
    /\ UNCHANGED <<active, candle, eval, execution, risk, attempt, holder, rt, faults>>

Working(r, e) ==
    /\ rt[r].pc \in Processing \cup Failing
    /\ rt[r].e = e /\ rt[r].fence = eval[e].fence

\* The thirty seconds of a lease pass: a fault while its owner still works, unless that
\* was paused until another runtime took over.
LeaseExpires(e) ==
    /\ eval[e].live
    /\ eval' = [eval EXCEPT ![e].live = FALSE]
    /\ IF Working(holder, e)
       THEN faults < MaxFaults /\ faults' = faults + 1
       ELSE UNCHANGED faults
    /\ UNCHANGED <<active, candle, fresh, execution, risk, attempt, holder, rt>>

Crash(r) ==
    /\ faults < MaxFaults
    /\ ~At(r, "DOWN")
    /\ faults' = faults + 1
    /\ GoDown(r)
    /\ UNCHANGED <<queue, execution, risk, attempt, holder>>

\* A runtime starts once the writer lease is free: its holder is down, or paused.
Takeover(r) ==
    /\ At(r, "DOWN")
    /\ IF At(holder, "DOWN") THEN UNCHANGED faults
       ELSE faults < MaxFaults /\ faults' = faults + 1
    /\ holder' = r
    /\ EndCycle(r)
    /\ UNCHANGED <<queue, execution, risk, attempt>>

Process(r) ==
    \/ Start(r) \/ Capture(r) \/ Checkpoint(r) \/ CompleteNoAction(r)
    \/ Load(r) \/ OpenChain(r) \/ PrepareSignal(r) \/ RecordSignal(r) \/ CompleteSignal(r)
    \/ Boundary(r) \/ PrepareRisk(r) \/ Risk(r) \/ CompleteRisk(r) \/ Complete(r)
    \/ FailStage(r) \/ FailChain(r) \/ FailEvaluation(r)

Cycle(r) == BeginCycle(r) \/ Enqueue(r) \/ Claim(r) \/ Process(r) \/ Opening(r) \/ Place(r)

Next ==
    \/ \E r \in Runtimes : Cycle(r) \/ Raise(r) \/ Crash(r) \/ Takeover(r)
    \/ \E e \in Evals : Resolve(e) \/ BundleExpires(e) \/ LeaseExpires(e)
    \/ \E d \in Deployments : Disable(d)
    \/ CandleCloses

Spec == Init /\ [][Next]_vars

\* A live process takes its next step, a service that ended is started again, the
\* writer resolves its attempt, and time passes.
Fairness ==
    /\ \A r \in Runtimes : WF_vars(Cycle(r)) /\ WF_vars(Takeover(r))
    /\ \A e \in Evals : WF_vars(Resolve(e)) /\ WF_vars(LeaseExpires(e))

FairSpec == Spec /\ Fairness

-----------------------------------------------------------------------------
(* Properties.                                                             *)

\* Every order has its whole chain behind it: claim_okx_demo_continuous_dispatch is only
\* reached from an evaluation that ended ACTIONABLE, through both stages and an approval
\* that was not released, and none of it changes once it was, whatever a former owner
\* still writes (of the chain, it may still write that it is BLOCKED).
DispatchIsBacked ==
    \A e \in Evals : attempt[e] # "NONE" =>
        /\ eval[e].status = "ACTIONABLE"
        /\ stage[e].signal = "SUCCESS" /\ stage[e].risk = "SUCCESS"
        /\ chain[e].status \in {"EXECUTING", "BLOCKED"}
        /\ chain[e].at = "EXECUTION" /\ chain[e].signal /\ chain[e].bound
        /\ approval[e] = "ACTIVE"

\* Two runtimes, one of them paused since it selected its approval, never have two
\* unresolved orders between them (okx_demo_continuous_opening_allowed).
OneUnresolvedOrder ==
    \A e, f \in Evals : attempt[e] = "OPEN" /\ attempt[f] = "OPEN" => e = f

\* Concurrent decisions and releases of the owner function keep the budget no smaller
\* than the approvals that count on it, and no larger than the policy.
BudgetCoversApprovals ==
    /\ Cardinality({e \in Evals : approval[e] = "ACTIVE"}) <= budget
    /\ budget <= MaxPositions

\* r is at work on e, and the lease it works under has been ended, requeued or issued
\* again.
FormerOwner(r, e) ==
    /\ rt[r].pc \in Processing \cup Failing /\ rt[r].e = e
    /\ ~(eval[e].status = "LEASED" /\ eval[e].fence = rt[r].fence)

\* A former owner decides nothing any more.  Of what it had loaded when it lost its row
\* it may still commit one transaction; that leaves the queue's columns, the approvals,
\* the budget and the orders alone, and begins no stage another owner began, completes
\* none another owner prepared (require_active_lease, _expire_stale, disable).
FormerOwnersAreContained ==
    [][\A r \in Runtimes, e \in Evals :
          FormerOwner(r, e) /\ rt'[r] # rt[r] =>
              /\ eval'[e] = [eval[e] EXCEPT !.checkpoint = eval'[e].checkpoint]
              /\ UNCHANGED <<risk, attempt>>
              /\ stage'[e] # stage[e] =>
                    /\ stage'[e].fence = rt[r].fence
                    /\ stage[e].signal = "NONE" \/ stage[e].fence = rt[r].fence
              /\ Loaded(r)' => Loaded(r)
              /\ <<eval, chain, stage>>' # <<eval, chain, stage>> => Loaded(r) /\ ~Loaded(r)']_vars

\* An evaluation of a deployment that stays ACTIVE ends, whatever crashed or was
\* taken over: nothing stays PENDING or LEASED for ever and blocks claim_next.
EvaluationsEnd ==
    \A e \in Evals : eval[e].status \in {"PENDING", "LEASED"}
                     ~> (eval[e].status \in Ended \/ ~Deployed(e))
================================================================================
