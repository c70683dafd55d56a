-------------------------- MODULE ResearchWorkerProofs --------------------------
(***************************************************************************)
(* Proofs about the workers, for every number of processes, jobs, claims   *)
(* and faults.  Each step is first shown to be a step of the queue, which  *)
(* carries over what ResearchJobsProofs shows of it; the properties of the *)
(* chain, its checkpoints and the provider's calls come on top.  A worker  *)
(* writes the chain on what it has read before, so the invariants speak of *)
(* the open transactions as much as of the rows.                           *)
(***************************************************************************)
EXTENDS ResearchWorker, ResearchJobsProofs

-----------------------------------------------------------------------------
(* Types, and the job a worker acts for.                                   *)

\* The steps of a process that write no row.
Looks(w) ==
    \/ Audit(w) \/ RecoverStale(w) \/ Start(w) \/ Fence(w) \/ OpenChain(w)
    \/ PrepareGeneration(w) \/ CallRaises(w) \/ CallReturns(w) \/ Promote(w)
    \/ Validate(w) \/ Advance(w) \/ Terminalize(w) \/ HeartbeatLost(w) \/ Restart(w)

LEMMA LooksWriteNothing ==
  ASSUME NEW w \in Workers, Looks(w)
  PROVE  UNCHANGED <<jobsVars, chainVars, calls, faults>>
  BY DEF Looks, Audit, RecoverStale, Start, Fence, OpenChain, PrepareGeneration, CallRaises,
         CallReturns, Promote, Validate, Advance, Terminalize, HeartbeatLost, Restart

\* A worker that acts for a job knows which, and under which token; one whose
\* transaction has read something knows of which job.
Assigned ==
    \A w \in Workers :
        /\ worker[w].pc \in OwnerPhases \/ worker[w].tx.intent # "NONE" => worker[w].job \in Jobs
        /\ worker[w].pc \in OwnerPhases => worker[w].token \in Tokens

RowsOK ==
    /\ chain \in [Jobs -> ChainRows]
    /\ ckpt \in [Jobs -> [ChainStages -> CheckpointStatuses]]
    /\ deployed \in [Jobs -> BOOLEAN]
    /\ calls \in [Jobs -> Nat]
    /\ faults \in 0 .. MaxFaults

ProcessesOK == worker \in [Workers -> WorkerStates] /\ Assigned

TypeInv == TypeOK /\ RowsOK /\ ProcessesOK

LEMMA PhaseNames ==
  /\ OwnerPhases \subseteq Phases
  /\ {"down", "audit", "recover", "preclaim", "claim"} \subseteq Phases
  /\ {"down", "audit", "recover", "preclaim", "claim"} \cap OwnerPhases = {}
  BY DEF Phases, OwnerPhases

LEMMA ChainNames ==
  /\ TerminalStatuses \subseteq ChainStatuses
  /\ {"NONE", "RUNNING", "APPROVED", "STALE", "BLOCKED"} \subseteq ChainStatuses
  /\ {"NONE", "PREPARED", "SUCCESS", "BLOCKED", "STALE"} \subseteq CheckpointStatuses
  /\ TerminalStatuses \subseteq CheckpointStatuses
  BY DEF ChainStatuses, CheckpointStatuses, TerminalStatuses

LEMMA StageNamesOfChain ==
  /\ ResearchStages[1] = "GENERATION" /\ ResearchStages[2] = "BACKTEST"
  /\ ResearchStages[3] = "SCORING"
  /\ ChainStages = {"GENERATION", "BACKTEST", "SCORING", "CANDIDATE_APPROVAL"}
  /\ \A i \in 1 .. 3 : ResearchStages[i] \in ChainStages \ {"CANDIDATE_APPROVAL"}
  BY DEF ResearchStages, ChainStages

LEMMA NoTxType == NoTx \in Transactions /\ NoTx.intent = "NONE"
  BY ChainNames DEF NoTx, Transactions, Intents

\* What a process may become, one lemma per move.
LEMMA UnassignedType ==
  ASSUME NEW pc \in Phases
  PROVE  /\ Unassigned(pc) \in WorkerStates
         /\ Unassigned(pc).pc = pc /\ Unassigned(pc).tx.intent = "NONE"
  <1>1. NoVerdict \in Verdicts
    BY DEF NoVerdict, Verdicts, TerminalStatuses
  <1>2. QED
    BY <1>1, NoTxType DEF Unassigned, WorkerStates

LEMMA UnassignedKeeps ==
  ASSUME ProcessesOK, NEW w \in Workers, NEW pc \in Phases \ OwnerPhases,
         worker' = [worker EXCEPT ![w] = Unassigned(pc)]
  PROVE  ProcessesOK'
  <1>1. worker' \in [Workers -> WorkerStates]
    BY UnassignedType DEF ProcessesOK
  <1>2. Assigned'
    BY UnassignedType DEF ProcessesOK, Assigned
  <1>3. QED
    BY <1>1, <1>2 DEF ProcessesOK

\* A process whose new state is typed, and acts for a job only if it did before.
LEMMA SteppedKeeps ==
  ASSUME ProcessesOK, NEW w \in Workers, NEW state \in WorkerStates,
         worker' = [worker EXCEPT ![w] = state],
         state.pc \in OwnerPhases \/ state.tx.intent # "NONE" => state.job \in Jobs,
         state.pc \in OwnerPhases => state.token \in Tokens
  PROVE  ProcessesOK'
  <1>1. worker' \in [Workers -> WorkerStates]
    BY DEF ProcessesOK
  <1>2. Assigned'
    BY DEF ProcessesOK, Assigned
  <1>3. QED
    BY <1>1, <1>2 DEF ProcessesOK

LEMMA GotoIs ==
  ASSUME ProcessesOK, NEW w \in Workers, NEW pc, Goto(w, pc)
  PROVE  /\ worker' = [worker EXCEPT ![w] = [worker[w] EXCEPT !.pc = pc, !.tx = NoTx]]
         /\ worker'[w].pc = pc /\ worker'[w].job = worker[w].job
         /\ worker'[w].token = worker[w].token /\ worker'[w].tx = NoTx
         /\ \A v \in Workers : v # w => worker'[v] = worker[v]
  BY DEF ProcessesOK, WorkerStates, Goto

LEMMA GotoKeeps ==
  ASSUME ProcessesOK, NEW w \in Workers, NEW pc \in Phases,
         pc \in OwnerPhases => worker[w].pc \in OwnerPhases,
         Goto(w, pc)
  PROVE  ProcessesOK'
  <1> DEFINE state == [worker[w] EXCEPT !.pc = pc, !.tx = NoTx]
  <1>1. state \in WorkerStates
    BY NoTxType DEF ProcessesOK, WorkerStates
  <1>2. /\ state.pc = pc /\ state.job = worker[w].job /\ state.token = worker[w].token
        /\ state.tx.intent = "NONE"
    BY NoTxType DEF ProcessesOK, WorkerStates
  <1>3. worker' = [worker EXCEPT ![w] = state]
    BY GotoIs
  <1>4. QED
    BY <1>1, <1>2, <1>3, SteppedKeeps DEF ProcessesOK, Assigned

LEMMA SettleIs ==
  ASSUME ProcessesOK, NEW w \in Workers, NEW intent, NEW stage, NEW status,
         Settle(w, intent, stage, status)
  PROVE  /\ worker'[w].pc = worker[w].pc /\ worker'[w].job = worker[w].job
         /\ worker'[w].token = worker[w].token
         /\ worker'[w].tx = [intent |-> intent, stage |-> stage, chain |-> status]
         /\ worker'[w].tx.intent = intent /\ worker'[w].tx.stage = stage
         /\ worker'[w].tx.chain = status
         /\ \A v \in Workers : v # w => worker'[v] = worker[v]
  BY DEF ProcessesOK, WorkerStates, Settle

LEMMA SettleKeeps ==
  ASSUME ProcessesOK, NEW w \in Workers, worker[w].job \in Jobs, NEW intent \in Intents,
         NEW stage \in ChainStages \cup {"NONE"}, NEW status \in ChainStatuses,
         Settle(w, intent, stage, status)
  PROVE  ProcessesOK'
  <1> DEFINE tx == [intent |-> intent, stage |-> stage, chain |-> status]
             state == [worker[w] EXCEPT !.tx = tx]
  <1>1. tx \in Transactions
    BY DEF Transactions
  <1>2. /\ state \in WorkerStates
        /\ state.pc = worker[w].pc /\ state.job = worker[w].job /\ state.token = worker[w].token
    BY <1>1, Zenon DEF ProcessesOK, WorkerStates
  <1>3. worker' = [worker EXCEPT ![w] = state]
    BY DEF ProcessesOK, Settle
  <1>4. QED
    BY <1>2, <1>3, SteppedKeeps DEF ProcessesOK, Assigned

LEMMA DecideKeeps ==
  ASSUME ProcessesOK, NEW w \in Workers, worker[w].pc \in OwnerPhases,
         NEW status \in TerminalStatuses \ {"SUCCESS"}, NEW links \in BOOLEAN,
         NEW completed \in BOOLEAN, Decide(w, status, links, completed)
  PROVE  ProcessesOK'
  <1> DEFINE v == [status |-> status, links |-> links, completed |-> completed]
             state == [worker[w] EXCEPT !.pc = "terminate", !.tx = NoTx, !.verdict = v]
  <1>1. v \in Verdicts
    BY DEF Verdicts
  <1>2. "terminate" \in Phases
    BY DEF Phases
  <1>3. /\ state \in WorkerStates
        /\ state.job = worker[w].job /\ state.token = worker[w].token
    BY <1>1, <1>2, NoTxType, Zenon DEF ProcessesOK, WorkerStates
  <1>4. worker' = [worker EXCEPT ![w] = state]
    BY DEF ProcessesOK, Decide
  <1>5. QED
    BY <1>3, <1>4, SteppedKeeps DEF ProcessesOK, Assigned

\* The process ends its run, or ends.
LEMMA LeavingKeeps ==
  ASSUME ProcessesOK, NEW w \in Workers, Return(w) \/ Exit(w)
  PROVE  ProcessesOK'
  BY PhaseNames, UnassignedKeeps DEF Return, Exit

LEMMA ResultKnownType == \A j \in Jobs : ResultKnown(j) \in BOOLEAN /\ Real(j) \in BOOLEAN
  BY DEF ResultKnown, Real

-----------------------------------------------------------------------------
(* The workers implement the queue.                                        *)

\* What the recovery loop asks of the queue is one of three modes.
LEMMA RequeueModes == RecoveryModes \ {"BLOCK"} \subseteq RecoveryStages \ {"CANDIDATE_APPROVED"}
  BY DEF RecoveryModes, RecoveryStages

LEMMA CompleteIsOwnerStep ==
  ASSUME NEW j \in Jobs, NEW t \in Tokens, NEW status \in TerminalStatuses,
         NEW links \in BOOLEAN, NEW completed \in BOOLEAN,
         Complete(j, t, status, links, completed)
  PROVE  JobsNext
  <1>1. OwnerStep(j, t)
    BY DEF OwnerStep
  <1>2. QED
    BY <1>1 DEF JobsNext

LEMMA VerdictIs ==
  ASSUME TypeInv, NEW w \in Workers
  PROVE  /\ worker[w].verdict.status \in TerminalStatuses \ {"SUCCESS"}
         /\ worker[w].verdict.links \in BOOLEAN /\ worker[w].verdict.completed \in BOOLEAN
  <1>1. worker[w].verdict \in Verdicts
    BY DEF TypeInv, ProcessesOK, WorkerStates
  <1>2. QED
    BY <1>1 DEF Verdicts

\* A step of a worker process is one operation of the queue, or none.
LEMMA WorkerStepIsQueueStep ==
  ASSUME TypeInv, NEW w \in Workers, WorkerStep(w)
  PROVE  [JobsNext]_jobsVars
  <1>0. ASSUME worker[w].pc \in OwnerPhases
        PROVE  worker[w].job \in Jobs /\ worker[w].token \in Tokens
    BY <1>0 DEF TypeInv, ProcessesOK, Assigned
  <1>a. ASSUME worker[w].tx.intent # "NONE"
        PROVE  worker[w].job \in Jobs
    BY <1>a DEF TypeInv, ProcessesOK, Assigned
  <1>1. CASE Looks(w)
    BY <1>1, LooksWriteNothing
  <1>2. CASE Expire(w)
    BY <1>2, <1>a DEF Expire, Intends, JobsNext
  <1>3. CASE Requeue(w)
    <2>1. /\ worker[w].tx.intent \in RecoveryStages \ {"CANDIDATE_APPROVED"}
          /\ worker[w].job \in Jobs
      BY <1>3, <1>a, RequeueModes DEF Requeue, RecoveryModes
    <2>2. QED
      BY <1>3, <2>1 DEF Requeue, JobsNext, IdleStep
  <1>4. CASE QuarantineStale(w)
    BY <1>4, <1>a DEF QuarantineStale, Intends, JobsNext, IdleStep
  <1>5. CASE Claim(w)
    BY <1>5 DEF Claim, JobsNext
  <1>6. CASE InsertChain(w) \/ InsertCheckpoint(w) \/ CompleteCheckpoint(w) \/ CallProvider(w)
             \/ Signal(w)
    BY <1>6 DEF InsertChain, InsertCheckpoint, CompleteCheckpoint, CallProvider, Signal
  <1>7. CASE MarkAttempt(w)
    BY <1>7, <1>0 DEF MarkAttempt, At, OwnerPhases, JobsNext, OwnerStep
  <1>8. CASE Checkpoint(w)
    BY <1>8, <1>0 DEF Checkpoint, At, OwnerPhases, JobsNext, OwnerStep
  <1>9. CASE Approve(w)
    BY <1>9, <1>0 DEF Approve, At, OwnerPhases, JobsNext, OwnerStep
  <1>10. CASE Finish(w)
    <2>1. "SUCCESS" \in TerminalStatuses
      BY DEF TerminalStatuses
    <2>2. worker[w].job \in Jobs /\ worker[w].token \in Tokens
      BY <1>10, <1>0 DEF Finish, At, OwnerPhases
    <2>3. QED
      BY <1>10, <2>1, <2>2, CompleteIsOwnerStep DEF Finish
  <1>11. CASE Terminate(w)
    <2>1. worker[w].job \in Jobs /\ worker[w].token \in Tokens
      BY <1>11, <1>0 DEF Terminate, At, OwnerPhases
    <2>2. \/ UNCHANGED jobsVars
          \/ Complete(worker[w].job, worker[w].token, worker[w].verdict.status,
                      worker[w].verdict.links, worker[w].verdict.completed)
      BY <1>11 DEF Terminate
    <2>3. QED
      BY <2>1, <2>2, VerdictIs, CompleteIsOwnerStep
  <1>12. QED
    BY <1>1, <1>2, <1>3, <1>4, <1>5, <1>6, <1>7, <1>8, <1>9, <1>10, <1>11 DEF WorkerStep, Looks

LEMMA StepIsQueueStep ==
  ASSUME TypeInv, [Next]_vars
  PROVE  [JobsNext]_jobsVars
  <1>1. ASSUME NEW w \in Workers, HeartbeatLost(w) \/ Crash(w) \/ Restart(w)
        PROVE  UNCHANGED jobsVars
    BY <1>1 DEF HeartbeatLost, Crash, Restart
  <1>2. ASSUME NEW j \in Jobs, AbandonedLeaseLapses(j) \/ HeldLeaseLapses(j)
        PROVE  JobsNext
    BY <1>2 DEF AbandonedLeaseLapses, HeldLeaseLapses, JobsNext
  <1>3. CASE OperatorStep
    <2>1. CASE QueueRequest
      BY <2>1 DEF QueueRequest, JobsNext
    <2>2. ASSUME NEW j \in Jobs, CommitCancel(j) PROVE JobsNext
      BY <2>2 DEF CommitCancel, JobsNext
    <2>3. ASSUME NEW j \in Jobs, RetryStale(j) PROVE JobsNext
      <3>1. "VALIDATION_RETRY" \in RecoveryStages \ {"CANDIDATE_APPROVED"}
        BY DEF RecoveryStages
      <3>2. QED
        BY <2>3, <3>1 DEF RetryStale, JobsNext, IdleStep
    <2>4. ASSUME NEW j \in Jobs, RevokeApproval(j) PROVE UNCHANGED jobsVars
      BY <2>4 DEF RevokeApproval
    <2>5. QED
      BY <1>3, <2>1, <2>2, <2>3, <2>4 DEF OperatorStep
  <1>4. CASE UNCHANGED vars
    BY <1>4 DEF vars
  <1>5. QED
    BY <1>1, <1>2, <1>3, <1>4, WorkerStepIsQueueStep DEF Next

-----------------------------------------------------------------------------
(* Every column keeps its type, and every worker its job.                  *)

\* The writes on a chain and on its checkpoints, as the actions make them.
LEMMA ChainType ==
  ASSUME RowsOK, NEW j \in Jobs, NEW row \in ChainRows
  PROVE  [chain EXCEPT ![j] = row] \in [Jobs -> ChainRows]
  BY DEF RowsOK

LEMMA ChainStatusType ==
  ASSUME RowsOK, NEW j \in Jobs, NEW status \in ChainStatuses
  PROVE  [chain EXCEPT ![j].status = status] \in [Jobs -> ChainRows]
  BY DEF RowsOK, ChainRows

LEMMA ChainLateType ==
  ASSUME RowsOK, NEW j \in Jobs, NEW late \in BOOLEAN
  PROVE  [chain EXCEPT ![j].late = late] \in [Jobs -> ChainRows]
  BY DEF RowsOK, ChainRows

LEMMA CkptType ==
  ASSUME RowsOK, NEW j \in Jobs, NEW row \in [ChainStages -> CheckpointStatuses]
  PROVE  [ckpt EXCEPT ![j] = row] \in [Jobs -> [ChainStages -> CheckpointStatuses]]
  BY DEF RowsOK

LEMMA OneCkptType ==
  ASSUME RowsOK, NEW j \in Jobs, NEW s, NEW status \in CheckpointStatuses
  PROVE  [ckpt EXCEPT ![j][s] = status] \in [Jobs -> [ChainStages -> CheckpointStatuses]]
  <1>1. [ckpt[j] EXCEPT ![s] = status] \in [ChainStages -> CheckpointStatuses]
    BY DEF RowsOK
  <1>2. [ckpt EXCEPT ![j][s] = status] = [ckpt EXCEPT ![j] = [ckpt[j] EXCEPT ![s] = status]]
    BY DEF RowsOK
  <1>3. QED
    BY <1>1, <1>2, CkptType

\* What a closing transaction writes.
LEMMA ClosesIs ==
  ASSUME RowsOK, NEW j \in Jobs, NEW tx, NEW status, Closes(j, tx, status)
  PROVE  /\ chain'[j] = [chain[j] EXCEPT !.status = IF Active(tx.chain) THEN status ELSE @]
         /\ ckpt'[j] = [s \in ChainStages |-> IF s = tx.stage THEN status ELSE ckpt[j][s]]
         /\ \A i \in Jobs : i # j => chain'[i] = chain[i] /\ ckpt'[i] = ckpt[i]
  BY DEF RowsOK, Closes

LEMMA ClosesType ==
  ASSUME RowsOK, NEW j \in Jobs, NEW tx, NEW status \in TerminalStatuses, Closes(j, tx, status)
  PROVE  /\ chain' \in [Jobs -> ChainRows]
         /\ ckpt' \in [Jobs -> [ChainStages -> CheckpointStatuses]]
  <1>1. chain[j].status \in ChainStatuses /\ status \in ChainStatuses
    BY ChainNames DEF RowsOK, ChainRows
  <1>2. chain' \in [Jobs -> ChainRows]
    BY <1>1, ChainStatusType DEF Closes
  <1>3. [s \in ChainStages |-> IF s = tx.stage THEN status ELSE ckpt[j][s]]
          \in [ChainStages -> CheckpointStatuses]
    BY ChainNames DEF RowsOK
  <1>4. ckpt' = [ckpt EXCEPT ![j] =
                   [s \in ChainStages |-> IF s = tx.stage THEN status ELSE ckpt[j][s]]]
    BY DEF Closes, RowsOK
  <1>5. QED
    BY <1>2, <1>3, <1>4, CkptType

LEMMA LandedType == \A w \in Workers : TypeInv /\ worker[w].job \in Jobs => Landed(w) \in BOOLEAN
  BY DEF TypeInv, RowsOK, ChainRows, Landed, Owned

\* The rows that the writing steps of a process write.
LEMMA RowsTypeStep ==
  ASSUME TypeInv, NEW w \in Workers, WorkerStep(w), ~Looks(w)
  PROVE  RowsOK'
  <1> USE DEF TypeInv
  <1>0. worker[w].pc \in OwnerPhases \/ worker[w].tx.intent # "NONE" => worker[w].job \in Jobs
    BY DEF ProcessesOK, Assigned
  <1> DEFINE j == worker[w].job
  <1>1. CASE Expire(w)
    <2>1. j \in Jobs
      BY <1>0, <1>1 DEF Expire, Intends
    <2>2. "STALE" \in TerminalStatuses
      BY DEF TerminalStatuses
    <2>3. \/ UNCHANGED <<chain, ckpt>>
          \/ /\ chain' \in [Jobs -> ChainRows]
             /\ ckpt' \in [Jobs -> [ChainStages -> CheckpointStatuses]]
      BY <1>1, <2>1, <2>2, ClosesType DEF Expire
    <2>4. QED
      BY <1>1, <2>3 DEF Expire, RowsOK
  <1>2. CASE Requeue(w)
    <2>1. j \in Jobs
      BY <1>0, <1>2 DEF Requeue, RecoveryModes
    <2>2. UNCHANGED <<chain, ckpt>> \/ ChainResumes(w, "APPROVED") \/ ChainResumes(w, "RUNNING")
      BY <1>2 DEF Requeue
    <2>3. [s \in ChainStages |-> IF ckpt[j][s] = "STALE" THEN "PREPARED" ELSE ckpt[j][s]]
            \in [ChainStages -> CheckpointStatuses]
      BY <2>1, ChainNames DEF RowsOK
    <2>4. [ckpt EXCEPT ![j] = [s \in ChainStages |-> IF @[s] = "STALE" THEN "PREPARED" ELSE @[s]]]
            \in [Jobs -> [ChainStages -> CheckpointStatuses]]
      BY <2>1, <2>3 DEF RowsOK
    <2>5. ASSUME NEW read, NEW status \in {"APPROVED", "RUNNING"}
          PROVE  [chain EXCEPT ![j].status = IF read = status THEN @ ELSE status]
                   \in [Jobs -> ChainRows]
      <3>1. CASE read = status
        BY <2>1, <3>1 DEF RowsOK, ChainRows
      <3>2. CASE read # status
        BY <2>1, <3>2, ChainNames, ChainStatusType
      <3>3. QED
        BY <3>1, <3>2
    <2>6. ASSUME NEW status \in {"APPROVED", "RUNNING"}, ChainResumes(w, status)
          PROVE  /\ chain' \in [Jobs -> ChainRows]
                 /\ ckpt' \in [Jobs -> [ChainStages -> CheckpointStatuses]]
      BY <2>4, <2>5, <2>6 DEF ChainResumes, RowsOK
    <2>7. QED
      BY <1>2, <2>2, <2>6 DEF Requeue, RowsOK
  <1>3. CASE QuarantineStale(w)
    <2> DEFINE running == Active(worker[w].tx.chain)
    <2>1. j \in Jobs
      BY <1>0, <1>3 DEF QuarantineStale, Intends
    <2>2. \/ UNCHANGED <<chain, ckpt>>
          \/ /\ chain' = [chain EXCEPT ![j].status = IF running THEN "BLOCKED" ELSE @]
             /\ ckpt' = [ckpt EXCEPT ![j] = [s \in ChainStages |->
                          IF running /\ LatestOpen(j, s) THEN "BLOCKED" ELSE @[s]]]
      BY <1>3 DEF QuarantineStale
    <2>3. [s \in ChainStages |-> IF running /\ LatestOpen(j, s) THEN "BLOCKED" ELSE ckpt[j][s]]
            \in [ChainStages -> CheckpointStatuses]
      BY <2>1, ChainNames DEF RowsOK
    <2>4. [ckpt EXCEPT ![j] = [s \in ChainStages |->
              IF running /\ LatestOpen(j, s) THEN "BLOCKED" ELSE @[s]]]
            \in [Jobs -> [ChainStages -> CheckpointStatuses]]
      BY <2>1, <2>3 DEF RowsOK
    <2>5. (IF running THEN "BLOCKED" ELSE chain[j].status) \in ChainStatuses
      BY <2>1, ChainNames DEF RowsOK, ChainRows
    <2>6. [chain EXCEPT ![j].status = IF running THEN "BLOCKED" ELSE @] \in [Jobs -> ChainRows]
      BY <2>1, <2>5, ChainStatusType
    <2>7. QED
      BY <1>3, <2>2, <2>4, <2>6 DEF QuarantineStale, RowsOK
  <1>4. CASE Claim(w) \/ MarkAttempt(w) \/ Checkpoint(w) \/ Finish(w)
    BY <1>4 DEF Claim, MarkAttempt, Checkpoint, Finish, RowsOK, chainVars
  <1>5. CASE InsertChain(w)
    <2>1. j \in Jobs
      BY <1>0, <1>5 DEF InsertChain, Intends
    <2>2. Landed(w) \in BOOLEAN
      BY <2>1, LandedType
    <2>3. [chain[j] EXCEPT !.status = "RUNNING", !.late = Landed(w)] \in ChainRows
      BY <2>1, <2>2, ChainNames, Zenon DEF RowsOK, ChainRows
    <2>4. [chain EXCEPT ![j].status = "RUNNING", ![j].late = Landed(w)]
            = [chain EXCEPT ![j] = [chain[j] EXCEPT !.status = "RUNNING", !.late = Landed(w)]]
      BY <2>1 DEF RowsOK
    <2>5. chain' \in [Jobs -> ChainRows]
      BY <1>5, <2>1, <2>3, <2>4, ChainType DEF InsertChain, RowsOK
    <2>6. QED
      BY <1>5, <2>5 DEF InsertChain, RowsOK
  <1>6. CASE InsertCheckpoint(w) \/ CompleteCheckpoint(w)
    <2>1. j \in Jobs
      BY <1>0, <1>6 DEF InsertCheckpoint, CompleteCheckpoint, Intends
    <2>2. Landed(w) \in BOOLEAN
      BY <2>1, LandedType
    <2>3. \/ UNCHANGED <<chain, ckpt>>
          \/ /\ chain' = [chain EXCEPT ![j].late = Landed(w)]
             /\ \/ ckpt' = [ckpt EXCEPT ![j][worker[w].tx.stage] = "PREPARED"]
                \/ ckpt' = [ckpt EXCEPT ![j][worker[w].tx.stage] = "SUCCESS"]
      BY <1>6 DEF InsertCheckpoint, CompleteCheckpoint
    <2>4. chain' \in [Jobs -> ChainRows]
      BY <2>1, <2>2, <2>3, ChainLateType DEF RowsOK
    <2>5. ckpt' \in [Jobs -> [ChainStages -> CheckpointStatuses]]
      <3> DEFINE s == worker[w].tx.stage
      <3>1. [ckpt EXCEPT ![j][s] = "PREPARED"] \in [Jobs -> [ChainStages -> CheckpointStatuses]]
        BY <2>1, ChainNames, OneCkptType
      <3>2. [ckpt EXCEPT ![j][s] = "SUCCESS"] \in [Jobs -> [ChainStages -> CheckpointStatuses]]
        BY <2>1, ChainNames, OneCkptType
      <3>3. QED
        BY <2>3, <3>1, <3>2 DEF RowsOK
    <2>6. QED
      BY <1>6, <2>4, <2>5 DEF InsertCheckpoint, CompleteCheckpoint, RowsOK
  <1>7. CASE CallProvider(w)
    <2>1. j \in Jobs
      BY <1>0, <1>7 DEF CallProvider, At, OwnerPhases
    <2>2. calls' \in [Jobs -> Nat]
      BY <1>7, <2>1 DEF CallProvider, RowsOK
    <2>3. QED
      BY <1>7, <2>2 DEF CallProvider, RowsOK, chainVars
  <1>8. CASE Approve(w)
    <2>1. j \in Jobs
      BY <1>0, <1>8 DEF Approve, At, OwnerPhases
    <2>2. ckpt' \in [Jobs -> [ChainStages -> CheckpointStatuses]]
      <3>1. UNCHANGED ckpt \/ ckpt' = [ckpt EXCEPT ![j]["CANDIDATE_APPROVAL"] = "SUCCESS"]
        BY <1>8 DEF Approve
      <3>2. QED
        BY <2>1, <3>1, ChainNames, StageNamesOfChain, OneCkptType DEF RowsOK
    <2>3. chain' \in [Jobs -> ChainRows]
      <3>1. \/ UNCHANGED chain
            \/ chain' = [chain EXCEPT ![j].status = "APPROVED", ![j].approval = "APPROVED"]
        BY <1>8 DEF Approve
      <3>2. [chain[j] EXCEPT !.status = "APPROVED", !.approval = "APPROVED"] \in ChainRows
        BY <2>1, ChainNames, Zenon DEF RowsOK, ChainRows
      <3>3. [chain EXCEPT ![j].status = "APPROVED", ![j].approval = "APPROVED"]
              = [chain EXCEPT ![j] = [chain[j] EXCEPT !.status = "APPROVED", !.approval = "APPROVED"]]
        BY <2>1 DEF RowsOK
      <3>4. QED
        BY <2>1, <3>1, <3>2, <3>3, ChainType DEF RowsOK
    <2>4. QED
      BY <1>8, <2>2, <2>3 DEF Approve, RowsOK
  <1>9. CASE Signal(w)
    <2>1. j \in Jobs
      BY <1>0, <1>9 DEF Signal, At, OwnerPhases
    <2>2. deployed' \in [Jobs -> BOOLEAN]
      BY <1>9, <2>1 DEF Signal, RowsOK
    <2>3. QED
      BY <1>9, <2>2 DEF Signal, RowsOK
  <1>10. CASE Terminate(w)
    <2>1. j \in Jobs
      BY <1>0, <1>10 DEF Terminate, At, OwnerPhases
    <2>2. \/ UNCHANGED <<chain, ckpt>>
          \/ /\ chain' \in [Jobs -> ChainRows]
             /\ ckpt' \in [Jobs -> [ChainStages -> CheckpointStatuses]]
      BY <1>10, <2>1, VerdictIs, ClosesType DEF Terminate
    <2>3. QED
      BY <1>10, <2>2 DEF Terminate, RowsOK
  <1>11. QED
    BY <1>1, <1>2, <1>3, <1>4, <1>5, <1>6, <1>7, <1>8, <1>9, <1>10 DEF WorkerStep, Looks

\* The first checkpoint that has not succeeded exists.
LEMMA NextCheckpointIs ==
  ASSUME NEW j \in Jobs
  PROVE  LET i == NextCheckpoint(j) IN
         /\ i \in 1 .. 4
         /\ i = 4 \/ ckpt[j][ResearchStages[i]] # "SUCCESS"
         /\ \A k \in 1 .. 3 : k < i => ckpt[j][ResearchStages[k]] = "SUCCESS"
  <1>1. \E i \in 1 .. 4 :
          /\ i = 4 \/ ckpt[j][ResearchStages[i]] # "SUCCESS"
          /\ \A k \in 1 .. 3 : k < i => ckpt[j][ResearchStages[k]] = "SUCCESS"
    <2>1. CASE ckpt[j][ResearchStages[1]] # "SUCCESS"
      BY <2>1
    <2>2. CASE ckpt[j][ResearchStages[1]] = "SUCCESS" /\ ckpt[j][ResearchStages[2]] # "SUCCESS"
      BY <2>2
    <2>3. CASE /\ ckpt[j][ResearchStages[1]] = "SUCCESS"
               /\ ckpt[j][ResearchStages[2]] = "SUCCESS"
               /\ ckpt[j][ResearchStages[3]] # "SUCCESS"
      BY <2>3
    <2>4. CASE \A k \in 1 .. 3 : ckpt[j][ResearchStages[k]] = "SUCCESS"
      BY <2>4
    <2>5. QED
      BY <2>1, <2>2, <2>3, <2>4
  <1>2. QED
    BY <1>1 DEF NextCheckpoint

\* Every process keeps its type, and its job.
LEMMA ProcessTypeStep ==
  ASSUME TypeInv, NEW w \in Workers, WorkerStep(w)
  PROVE  ProcessesOK'
  <1> USE DEF TypeInv
  <1> DEFINE j == worker[w].job
  <1>a. /\ worker[w].pc \in OwnerPhases \/ worker[w].tx.intent # "NONE" => j \in Jobs
        /\ worker[w].pc \in OwnerPhases => worker[w].token \in Tokens
    BY DEF ProcessesOK, Assigned
  <1>b. \A i \in Jobs : ResultKnown(i) \in BOOLEAN /\ Real(i) \in BOOLEAN
    BY ResultKnownType
  <1> HIDE DEF j
  \* The ways a phase ends.
  <1>c. ASSUME NEW pc \in OwnerPhases, worker[w].pc \in OwnerPhases, Goto(w, pc) PROVE ProcessesOK'
    BY <1>c, PhaseNames, GotoKeeps
  <1>d. ASSUME NEW pc \in Phases \ OwnerPhases, Goto(w, pc) PROVE ProcessesOK'
    BY <1>d, PhaseNames, GotoKeeps
  <1>e. ASSUME NEW status \in {"BLOCKED", "FAILED", "STALE", "CANCELLED"}, NEW links \in BOOLEAN,
               NEW completed \in BOOLEAN, worker[w].pc \in OwnerPhases,
               Decide(w, status, links, completed)
        PROVE  ProcessesOK'
    <2>1. status \in TerminalStatuses \ {"SUCCESS"}
      BY DEF TerminalStatuses
    <2>2. QED
      BY <1>e, <2>1, DecideKeeps
  <1>f. ASSUME Return(w) \/ Exit(w) PROVE ProcessesOK'
    BY <1>f, LeavingKeeps
  <1>g. ASSUME NEW pc \in {"audit", "recover", "preclaim", "claim", "down"},
               worker' = [worker EXCEPT ![w] = Unassigned(pc)]
        PROVE  ProcessesOK'
    BY <1>g, PhaseNames, UnassignedKeeps
  <1>h. ASSUME NEW intent \in Intents, NEW stage \in ChainStages \cup {"NONE"},
               NEW status \in ChainStatuses, j \in Jobs, Settle(w, intent, stage, status)
        PROVE  ProcessesOK'
    BY <1>h, SettleKeeps DEF j
  <1>i. /\ {"FENCED", "OPEN", "INSERT", "COMPLETE", "CLOSE", "BLOCK"} \subseteq Intents
        /\ RecoveryModes \subseteq Intents
        /\ {"NONE", "GENERATION", "CANDIDATE_APPROVAL"} \subseteq ChainStages \cup {"NONE"}
        /\ "NONE" \in ChainStatuses
        /\ \A i \in Jobs : chain[i].status \in ChainStatuses
    BY ChainNames, StageNamesOfChain DEF Intents, RecoveryModes, RowsOK, ChainRows
  <1>j. AfterAudit(w) \in {"recover", "claim"}
    BY DEF AfterAudit
  <1>1. CASE Audit(w)
    <2>1. CASE Goto(w, AfterAudit(w))
      BY <1>d, <1>j, <2>1, PhaseNames
    <2>2. ASSUME NEW i \in Jobs, NEW s \in ChainStages \cup {"NONE"},
                 worker' = [worker EXCEPT ![w].job = i, ![w].token = job[i].token,
                    ![w].tx = [intent |-> "CLOSE", stage |-> s, chain |-> chain[i].status]]
          PROVE  ProcessesOK'
      <3> DEFINE tx == [intent |-> "CLOSE", stage |-> s, chain |-> chain[i].status]
                 state == [worker[w] EXCEPT !.job = i, !.token = job[i].token, !.tx = tx]
      <3>1. tx \in Transactions
        BY <1>i DEF Transactions
      <3>2. job[i].token \in Tokens \cup {None}
        BY DEF TypeOK, JobRows
      <3>3. state \in WorkerStates /\ state.pc = worker[w].pc /\ state.job = i
        BY <3>1, <3>2, Zenon DEF ProcessesOK, WorkerStates
      <3>4. worker' = [worker EXCEPT ![w] = state]
        BY <2>2 DEF ProcessesOK
      <3>5. worker[w].pc \notin OwnerPhases
        BY <1>1 DEF Audit, OwnerPhases
      <3>6. QED
        BY <3>3, <3>4, <3>5, SteppedKeeps
    <2>3. QED
      BY <1>1, <2>1, <2>2 DEF Audit
  <1>2. CASE RecoverStale(w)
    <2>1. CASE Goto(w, "preclaim")
      BY <1>d, <2>1, PhaseNames
    <2>2. ASSUME NEW i \in Jobs, NEW mode \in RecoveryModes,
                 worker' = [worker EXCEPT ![w].job = i,
                    ![w].tx = [intent |-> mode, stage |-> "NONE", chain |-> chain[i].status]]
          PROVE  ProcessesOK'
      <3> DEFINE tx == [intent |-> mode, stage |-> "NONE", chain |-> chain[i].status]
                 state == [worker[w] EXCEPT !.job = i, !.tx = tx]
      <3>1. tx \in Transactions
        BY <1>i DEF Transactions
      <3>2. state \in WorkerStates /\ state.pc = worker[w].pc /\ state.job = i
        BY <3>1, Zenon DEF ProcessesOK, WorkerStates
      <3>3. worker' = [worker EXCEPT ![w] = state]
        BY <2>2 DEF ProcessesOK
      <3>4. worker[w].pc \notin OwnerPhases
        BY <1>2 DEF RecoverStale, At, OwnerPhases
      <3>5. QED
        BY <3>2, <3>3, <3>4, SteppedKeeps
    <2>3. QED
      BY <1>2, <2>1, <2>2 DEF RecoverStale
  <1>3. CASE Expire(w)
    BY <1>3, <1>g, <1>j DEF Expire
  <1>4. CASE Requeue(w)
    <2>1. j \in Jobs
      BY <1>4, <1>a DEF Requeue, RecoveryModes
    <2>2. \/ worker' = [worker EXCEPT ![w] = Unassigned("preclaim")]
          \/ Settle(w, "BLOCK", "NONE", chain[j].status)
      BY <1>4 DEF Requeue, j
    <2>3. QED
      BY <1>g, <1>h, <1>i, <2>1, <2>2
  <1>5. CASE QuarantineStale(w)
    BY <1>5, <1>g DEF QuarantineStale
  <1>6. CASE Claim(w)
    <2>1. ASSUME NEW i \in Jobs, ClaimNext(i),
                 worker' = [worker EXCEPT ![w] =
                    [Unassigned("start") EXCEPT !.job = i, !.token = issued + 1]]
          PROVE  ProcessesOK'
      <3> DEFINE state == [Unassigned("start") EXCEPT !.job = i, !.token = issued + 1]
      <3>1. issued + 1 \in Tokens
        BY <2>1, MaxClaimsAssumption DEF TypeOK, ClaimNext, ClaimCandidate, Tokens
      <3>2. Unassigned("start") \in WorkerStates
        BY PhaseNames, UnassignedType DEF OwnerPhases
      <3>3. state \in WorkerStates /\ state.job = i /\ state.token = issued + 1
        BY <3>1, <3>2, Zenon DEF WorkerStates
      <3>4. QED
        BY <2>1, <3>1, <3>3, SteppedKeeps
    <2>2. QED
      BY <1>6, <2>1, <1>f DEF Claim
  <1>7. CASE Start(w)
    BY <1>7, <1>c, <1>e, <1>f DEF Start, At, OwnerPhases
  <1>8. CASE Fence(w)
    <2>1. j \in Jobs
      BY <1>8, <1>a DEF Fence, OwnerPhases
    <2>2. QED
      BY <1>8, <1>h, <1>i, <2>1 DEF Fence
  <1>9. CASE OpenChain(w)
    <2>1. j \in Jobs /\ worker[w].pc \in OwnerPhases
      BY <1>9, <1>a DEF OpenChain, At, OwnerPhases
    <2>2. ASSUME worker' = [worker EXCEPT ![w].pc = "prepare"] PROVE ProcessesOK'
      <3> DEFINE state == [worker[w] EXCEPT !.pc = "prepare"]
      <3>1. "prepare" \in Phases
        BY DEF Phases
      <3>2. state \in WorkerStates /\ state.job = j /\ state.token = worker[w].token
        BY <3>1, Zenon DEF ProcessesOK, WorkerStates, j
      <3>3. worker' = [worker EXCEPT ![w] = state]
        BY <2>2 DEF ProcessesOK
      <3>4. QED
        BY <1>a, <2>1, <3>2, <3>3, SteppedKeeps
    <2>3. \/ Exit(w) \/ Settle(w, "OPEN", "NONE", "NONE") \/ Goto(w, "prepare")
          \/ worker' = [worker EXCEPT ![w].pc = "prepare"]
      BY <1>9 DEF OpenChain
    <2>4. QED
      BY <1>c, <1>f, <1>h, <1>i, <2>1, <2>2, <2>3 DEF OwnerPhases
  <1>10. CASE InsertChain(w)
    BY <1>10, <1>c, <1>f DEF InsertChain, At, OwnerPhases
  <1>11. CASE PrepareGeneration(w)
    <2>1. j \in Jobs /\ worker[w].pc \in OwnerPhases
      BY <1>11, <1>a DEF PrepareGeneration, At, OwnerPhases
    <2>2. \/ Goto(w, "mark") \/ Goto(w, "call") \/ Decide(w, "BLOCKED", FALSE, FALSE) \/ Exit(w)
          \/ Settle(w, "INSERT", "GENERATION", "NONE")
      BY <1>11 DEF PrepareGeneration, Begun
    <2>3. QED
      BY <1>c, <1>e, <1>f, <1>h, <1>i, <2>1, <2>2 DEF OwnerPhases
  <1>12. CASE InsertCheckpoint(w)
    <2>1. j \in Jobs /\ worker[w].pc \in OwnerPhases
      BY <1>12, <1>a DEF InsertCheckpoint, OwnerPhases
    <2>2. Prepared(w) \in {"mark", "call", "promote", "approve"}
      BY <1>12 DEF InsertCheckpoint, Prepared, Begun, At
    <2>3. \/ Goto(w, Prepared(w)) \/ Decide(w, "BLOCKED", FALSE, ResultKnown(j)) \/ Exit(w)
          \/ Settle(w, "FENCED", "NONE", "NONE")
      BY <1>12 DEF InsertCheckpoint, j
    <2>4. ResultKnown(j) \in BOOLEAN
      BY <1>b, <2>1
    <2>5. QED
      BY <1>c, <1>e, <1>f, <1>h, <1>i, <2>1, <2>2, <2>3, <2>4 DEF OwnerPhases
  <1>13. CASE CompleteCheckpoint(w) \/ CallProvider(w)
    BY <1>13, <1>c DEF CompleteCheckpoint, CallProvider, At, OwnerPhases
  <1>14. CASE MarkAttempt(w)
    BY <1>14, <1>c, <1>f DEF MarkAttempt, At, OwnerPhases
  <1>15. CASE CallRaises(w) \/ CallReturns(w) \/ Checkpoint(w) \/ Validate(w) \/ Approve(w)
              \/ Signal(w) \/ Finish(w)
    <2>1. j \in Jobs /\ worker[w].pc \in OwnerPhases
      BY <1>15, <1>a DEF CallRaises, CallReturns, Checkpoint, Validate, Approve, Signal, Finish,
                         At, OwnerPhases
    <2>2. \/ Return(w) \/ Goto(w, "checkpoint") \/ Goto(w, "promote") \/ Goto(w, "advance")
          \/ Goto(w, "finish")
          \/ \E status \in {"BLOCKED", "FAILED", "STALE", "CANCELLED"}, links \in BOOLEAN,
                completed \in {FALSE, Real(j), ResultKnown(j)} : Decide(w, status, links, completed)
      <3>1. CASE CallRaises(w)
        BY <3>1 DEF CallRaises
      <3>2. CASE CallReturns(w)
        BY <3>2 DEF CallReturns, j
      <3>3. CASE Checkpoint(w) \/ Validate(w)
        BY <3>3 DEF Checkpoint, Validate, j
      <3>4. CASE Approve(w)
        BY <3>4 DEF Approve, j
      <3>5. CASE Signal(w) \/ Finish(w)
        BY <3>5 DEF Signal, Finish
      <3>6. QED
        BY <1>15, <3>1, <3>2, <3>3, <3>4, <3>5
    <2>3. {FALSE, Real(j), ResultKnown(j)} \subseteq BOOLEAN
      BY <1>b, <2>1
    <2>4. QED
      BY <1>c, <1>e, <1>f, <2>1, <2>2, <2>3 DEF OwnerPhases
  <1>16. CASE Promote(w)
    <2>1. j \in Jobs /\ worker[w].pc \in OwnerPhases
      BY <1>16, <1>a DEF Promote, At, OwnerPhases
    <2>2. \/ Goto(w, "validate") \/ Decide(w, "BLOCKED", FALSE, ResultKnown(j))
          \/ /\ NextCheckpoint(j) # 4
             /\ \/ Settle(w, "INSERT", ResearchStages[NextCheckpoint(j)], "NONE")
                \/ Settle(w, "COMPLETE", ResearchStages[NextCheckpoint(j)], "NONE")
      BY <1>16 DEF Promote, j
    <2>3. NextCheckpoint(j) # 4 => ResearchStages[NextCheckpoint(j)] \in ChainStages
      BY <2>1, NextCheckpointIs, StageNamesOfChain
    <2>4. ResultKnown(j) \in BOOLEAN
      BY <1>b, <2>1
    <2>5. QED
      BY <1>c, <1>e, <1>h, <1>i, <2>1, <2>2, <2>3, <2>4 DEF OwnerPhases
  <1>17. CASE Advance(w)
    <2>1. j \in Jobs /\ worker[w].pc \in OwnerPhases
      BY <1>17, <1>a DEF Advance, At, OwnerPhases
    <2>2. \/ Return(w) \/ Goto(w, "approve") \/ Decide(w, "BLOCKED", FALSE, ResultKnown(j))
          \/ Settle(w, "INSERT", "CANDIDATE_APPROVAL", "NONE")
      BY <1>17 DEF Advance, j
    <2>3. ResultKnown(j) \in BOOLEAN
      BY <1>b, <2>1
    <2>4. QED
      BY <1>c, <1>e, <1>f, <1>h, <1>i, <2>1, <2>2, <2>3 DEF OwnerPhases
  <1>18. CASE Terminalize(w)
    <2>1. j \in Jobs
      BY <1>18, <1>a DEF Terminalize, At, OwnerPhases
    <2>2. \/ Return(w) \/ Exit(w)
          \/ \E s \in ChainStages \cup {"NONE"} : Settle(w, "CLOSE", s, chain[j].status)
      BY <1>18 DEF Terminalize, j
    <2>3. QED
      BY <1>f, <1>h, <1>i, <2>1, <2>2
  <1>19. CASE Terminate(w)
    BY <1>19, <1>f DEF Terminate
  <1>20. QED
    BY <1>1, <1>2, <1>3, <1>4, <1>5, <1>6, <1>7, <1>8, <1>9, <1>10, <1>11, <1>12, <1>13, <1>14,
       <1>15, <1>16, <1>17, <1>18, <1>19 DEF WorkerStep

\* Heartbeats, crashes, time and operators.
LEMMA EnvironmentTypeStep ==
  ASSUME TypeInv,
         \/ \E w \in Workers : HeartbeatLost(w) \/ Crash(w) \/ Restart(w)
         \/ \E j \in Jobs : AbandonedLeaseLapses(j) \/ HeldLeaseLapses(j)
         \/ OperatorStep
         \/ UNCHANGED vars
  PROVE  RowsOK' /\ ProcessesOK'
  <1> USE DEF TypeInv
  <1>0. ASSUME faults < MaxFaults, faults' = faults + 1 PROVE faults' \in 0 .. MaxFaults
    BY <1>0, MaxFaultsAssumption DEF RowsOK
  <1>1. ASSUME NEW w \in Workers, HeartbeatLost(w) PROVE RowsOK' /\ ProcessesOK'
    <2>1. RowsOK'
      BY <1>1 DEF HeartbeatLost, RowsOK, chainVars
    <2>2. [worker[w] EXCEPT !.lost = TRUE] \in WorkerStates
      BY Zenon DEF ProcessesOK, WorkerStates
    <2>3. ProcessesOK'
      BY <1>1, <2>2 DEF HeartbeatLost, ProcessesOK, Assigned, WorkerStates
    <2>4. QED
      BY <2>1, <2>3
  <1>2. ASSUME NEW w \in Workers, Crash(w) PROVE RowsOK' /\ ProcessesOK'
    BY <1>0, <1>2, LeavingKeeps DEF Crash, RowsOK, chainVars
  <1>3. ASSUME NEW w \in Workers, Restart(w) PROVE RowsOK' /\ ProcessesOK'
    BY <1>3, PhaseNames, GotoKeeps DEF Restart, RowsOK, chainVars
  <1>4. ASSUME NEW j \in Jobs, AbandonedLeaseLapses(j) \/ HeldLeaseLapses(j)
        PROVE  RowsOK' /\ ProcessesOK'
    BY <1>0, <1>4 DEF AbandonedLeaseLapses, HeldLeaseLapses, RowsOK, ProcessesOK, Assigned,
                      chainVars
  <1>5. CASE OperatorStep
    <2>1. CASE QueueRequest
      BY <2>1 DEF QueueRequest, RowsOK, ProcessesOK, Assigned, chainVars
    <2>2. ASSUME NEW j \in Jobs, CommitCancel(j) PROVE RowsOK' /\ ProcessesOK'
      BY <2>2 DEF CommitCancel, RowsOK, ProcessesOK, Assigned, chainVars
    <2>3. ASSUME NEW j \in Jobs, RetryStale(j) PROVE RowsOK' /\ ProcessesOK'
      BY <1>0, <2>3 DEF RetryStale, RowsOK, ProcessesOK, Assigned, chainVars
    <2>4. ASSUME NEW j \in Jobs, RevokeApproval(j) PROVE RowsOK' /\ ProcessesOK'
      <3>1. [chain[j] EXCEPT !.status = "BLOCKED", !.approval = "REVOKED"] \in ChainRows
        BY ChainNames, Zenon DEF RowsOK, ChainRows
      <3>2. [chain EXCEPT ![j].status = "BLOCKED", ![j].approval = "REVOKED"]
              = [chain EXCEPT ![j] = [chain[j] EXCEPT !.status = "BLOCKED", !.approval = "REVOKED"]]
        BY DEF RowsOK
      <3>3. chain' \in [Jobs -> ChainRows]
        BY <2>4, <3>1, <3>2 DEF RevokeApproval, RowsOK
      <3>4. QED
        BY <2>4, <3>3 DEF RevokeApproval, RowsOK, ProcessesOK, Assigned
    <2>5. QED
      BY <1>5, <2>1, <2>2, <2>3, <2>4 DEF OperatorStep
  <1>6. CASE UNCHANGED vars
    BY <1>6 DEF vars, RowsOK, ProcessesOK, Assigned, chainVars
  <1>7. QED
    BY <1>1, <1>2, <1>3, <1>4, <1>5, <1>6

LEMMA WorkerTypeStep == TypeInv /\ [Next]_vars => TypeInv'
  <1> SUFFICES ASSUME TypeInv, [Next]_vars PROVE TypeInv'
    OBVIOUS
  <1>1. TypeOK'
    BY StepIsQueueStep, TypeStep DEF TypeInv
  <1>2. ASSUME NEW w \in Workers, WorkerStep(w) PROVE RowsOK' /\ ProcessesOK'
    <2>1. Looks(w) => RowsOK'
      BY LooksWriteNothing DEF TypeInv, RowsOK, chainVars
    <2>2. QED
      BY <1>2, <2>1, RowsTypeStep, ProcessTypeStep
  <1>3. RowsOK' /\ ProcessesOK'
    BY <1>2, EnvironmentTypeStep DEF Next
  <1>4. QED
    BY <1>1, <1>3 DEF TypeInv

LEMMA InitTypes == Init => TypeInv
  <1> SUFFICES ASSUME Init PROVE TypeInv
    OBVIOUS
  <1>1. TypeOK
    <2>1. "ABSENT" \in Statuses /\ "QUEUED" \in Stages /\ "FORMAL" \in Kinds
          /\ "NONE" \in AttemptStatuses
      BY DEF Statuses, Stages, Kinds, AttemptStatuses
    <2>2. QED
      BY <2>1, MaxClaimsAssumption DEF Init, JobsInit, TypeOK, JobRows, ControlRows
  <1>2. RowsOK
    BY ChainNames, MaxFaultsAssumption DEF Init, RowsOK, ChainRows
  <1>3. /\ Unassigned("audit") \in WorkerStates /\ Unassigned("audit").pc = "audit"
        /\ Unassigned("audit").tx.intent = "NONE"
    BY PhaseNames, UnassignedType
  <1>4. ProcessesOK
    BY <1>3 DEF Init, ProcessesOK, Assigned, OwnerPhases
  <1>5. QED
    BY <1>1, <1>2, <1>4 DEF TypeInv

LEMMA TypesHold == Spec => []TypeInv
  BY InitTypes, WorkerTypeStep, PTL DEF Spec

\* Every row and every process keeps its type, through every crash, recovery, refusal and
\* operator request.
THEOREM WorkerTypeCorrect == Spec => []WorkerTypeOK
  <1>1. TypeInv => WorkerTypeOK
    BY DEF TypeInv, RowsOK, ProcessesOK, WorkerTypeOK
  <1>2. QED
    BY <1>1, TypesHold, PTL

\* The composition of workers, recovery and operators does to the queue's tables nothing
\* but the operations of ResearchJobs.
THEOREM WorkersImplementJobs == Spec => ImplementsJobs
  <1>1. Init => JobsInit
    BY DEF Init
  <1>2. TypeInv /\ [Next]_vars => [JobsNext]_jobsVars
    BY StepIsQueueStep
  <1>3. QED
    BY <1>1, <1>2, TypesHold, PTL DEF Spec, ImplementsJobs, JobsSpec

\* What is proved of the queue holds of the workers.
LEMMA QueueFacts == Spec => [](OutcomeInv /\ SlotInv /\ AttemptInv)
  <1>1. Spec => JobsSpec
    BY WorkersImplementJobs DEF ImplementsJobs
  <1>2. QED
    BY <1>1, OutcomeCorrect, SlotCorrect, AttemptCorrect, PTL

-----------------------------------------------------------------------------
(* What never goes back.                                                   *)

\* A job's identity and what has been recorded of it last; a checkpoint, once
\* there, stays.
Lasting ==
    \A j \in Jobs :
        /\ job[j].status # "ABSENT" => job'[j].status # "ABSENT" /\ job'[j].kind = job[j].kind
        /\ job[j].attempted => job'[j].attempted
        /\ job[j].links => job'[j].links
        /\ job[j].completed => job'[j].completed
        /\ chain[j].approval # "NONE" => chain'[j].approval # "NONE"
        /\ \A s \in ChainStages : ckpt[j][s] # "NONE" => ckpt'[j][s] # "NONE"

\* The queue's part of it.
LEMMA JobLasts ==
  ASSUME TypeOK, [JobsNext]_jobsVars, NEW j \in Jobs
  PROVE  /\ job[j].status # "ABSENT" => job'[j].status # "ABSENT" /\ job'[j].kind = job[j].kind
         /\ job[j].attempted => job'[j].attempted
         /\ job[j].links => job'[j].links
         /\ job[j].completed => job'[j].completed
  <1> DEFINE Lasts ==
        /\ job[j].status # "ABSENT" => job'[j].status # "ABSENT" /\ job'[j].kind = job[j].kind
        /\ job[j].attempted => job'[j].attempted
        /\ job[j].links => job'[j].links
        /\ job[j].completed => job'[j].completed
  <1> USE DEF TypeOK, JobRows
  <1>1. ASSUME NEW i \in Jobs, NEW kind \in Kinds, Enqueue(i, kind) PROVE Lasts
    BY <1>1 DEF Enqueue
  <1>2. ASSUME NEW p \in BOOLEAN, SetPaused(p) PROVE Lasts
    BY <1>2 DEF SetPaused
  <1>3. ASSUME NEW i \in Jobs, CancelRead(i) \/ CancelWrite(i) PROVE Lasts
    <2>1. CASE CancelRead(i)
      BY <2>1 DEF CancelRead
    <2>2. CASE CancelWrite(i)
      BY <2>2 DEF CancelWrite
    <2>3. QED
      BY <1>3, <2>1, <2>2
  <1>4. ASSUME NEW i \in Jobs, ClaimNext(i) \/ LeaseLapse(i) \/ ExpireStale(i) PROVE Lasts
    <2>1. CASE ClaimNext(i)
      BY <2>1 DEF ClaimNext, ClaimCandidate, Claimable
    <2>2. CASE LeaseLapse(i)
      BY <2>2 DEF LeaseLapse
    <2>3. CASE ExpireStale(i)
      BY <2>3 DEF ExpireStale
    <2>4. QED
      BY <1>4, <2>1, <2>2, <2>3
  <1>5. ASSUME NEW i \in Jobs, NEW t \in Tokens, OwnerStep(i, t) PROVE Lasts
    <2>1. ASSUME NEW status \in TerminalStatuses, NEW links \in BOOLEAN,
                 NEW completed \in BOOLEAN, Complete(i, t, status, links, completed)
          PROVE  Lasts
      BY <2>1 DEF Complete, TerminalStatuses
    <2>2. CASE MarkProviderAttempt(i, t)
      BY <2>2 DEF MarkProviderAttempt
    <2>3. CASE CheckpointResearchResult(i, t)
      BY <2>3 DEF CheckpointResearchResult
    <2>4. CASE WaitForCandidateApproval(i, t)
      BY <2>4 DEF WaitForCandidateApproval
    <2>5. CASE AutoApproveJob(i, t)
      BY <2>5 DEF AutoApproveJob
    <2>6. CASE CancelAtCheckpoint(i, t)
      BY <2>1, <2>6 DEF CancelAtCheckpoint, TerminalStatuses
    <2>7. QED
      BY <1>5, <2>1, <2>2, <2>3, <2>4, <2>5, <2>6 DEF OwnerStep
  <1>6. ASSUME NEW i \in Jobs, IdleStep(i) PROVE Lasts
    <2>1. CASE ResumeAfterCandidateApproval(i)
      BY <2>1 DEF ResumeAfterCandidateApproval
    <2>2. CASE BlockWaitingCandidateApproval(i)
      BY <2>2 DEF BlockWaitingCandidateApproval
    <2>3. ASSUME NEW stage \in RecoveryStages, PrepareStaleRecovery(i, stage) PROVE Lasts
      BY <2>3 DEF PrepareStaleRecovery
    <2>4. CASE BlockUnrecoverableStale(i)
      BY <2>4 DEF BlockUnrecoverableStale
    <2>5. QED
      BY <1>6, <2>1, <2>2, <2>3, <2>4 DEF IdleStep
  <1>7. CASE UNCHANGED jobsVars
    BY <1>7 DEF jobsVars
  <1>8. QED
    BY <1>1, <1>2, <1>3, <1>4, <1>5, <1>6, <1>7 DEF JobsNext

\* What a step of a process does to the chain of its job k.
ClosedAs(k, tx, status) ==
    /\ chain'[k] = [chain[k] EXCEPT !.status = IF Active(tx.chain) THEN status ELSE @]
    /\ ckpt'[k] = [s \in ChainStages |-> IF s = tx.stage THEN status ELSE ckpt[k][s]]

SameChain(k) == chain'[k] = chain[k] /\ ckpt'[k] = ckpt[k]

StageWritten(w, k, status) ==
    /\ chain'[k] = [chain[k] EXCEPT !.late = Landed(w)]
    /\ ckpt'[k] = [ckpt[k] EXCEPT ![worker[w].tx.stage] = status]

LEMMA ExpireWrites ==
  ASSUME TypeInv, NEW w \in Workers, NEW k \in Jobs, k = worker[w].job, Expire(w)
  PROVE  \/ SameChain(k) /\ UNCHANGED jobsVars
         \/ /\ job[k].token = worker[w].token
            /\ ExpireStale(k)
            /\ ClosedAs(k, worker[w].tx, "STALE")
  <1>1. RowsOK
    BY DEF TypeInv
  <1>2. \/ UNCHANGED <<jobsVars, chain, ckpt>>
        \/ job[k].token = worker[w].token /\ ExpireStale(k) /\ Closes(k, worker[w].tx, "STALE")
    BY DEF Expire
  <1>3. QED
    BY <1>1, <1>2, ClosesIs DEF SameChain, ClosedAs

LEMMA RequeueWrites ==
  ASSUME TypeInv, NEW w \in Workers, NEW k \in Jobs, k = worker[w].job, Requeue(w)
  PROVE  \/ SameChain(k) /\ UNCHANGED jobsVars
         \/ /\ PrepareStaleRecovery(k, worker[w].tx.intent)
            /\ \/ SameChain(k)
               \/ /\ \E status \in {"APPROVED", "RUNNING", chain[k].status} :
                       chain'[k] = [chain[k] EXCEPT !.status = status]
                  /\ ckpt'[k] = [s \in ChainStages |->
                       IF ckpt[k][s] = "STALE" THEN "PREPARED" ELSE ckpt[k][s]]
  <1>1. \/ SameChain(k) /\ UNCHANGED jobsVars
        \/ /\ PrepareStaleRecovery(k, worker[w].tx.intent)
           /\ ChainResumes(w, "APPROVED") \/ ChainResumes(w, "RUNNING")
    BY DEF Requeue, SameChain, TypeInv, RowsOK
  <1>2. ASSUME NEW status, ChainResumes(w, status)
        PROVE  \/ SameChain(k)
               \/ /\ \E written \in {status, chain[k].status} :
                       chain'[k] = [chain[k] EXCEPT !.status = written]
                  /\ ckpt'[k] = [s \in ChainStages |->
                       IF ckpt[k][s] = "STALE" THEN "PREPARED" ELSE ckpt[k][s]]
    <2>1. CASE worker[w].tx.chain = "NONE"
      BY <1>2, <2>1 DEF ChainResumes, SameChain
    <2>2. CASE worker[w].tx.chain # "NONE"
      <3>1. ckpt'[k] = [s \in ChainStages |->
              IF ckpt[k][s] = "STALE" THEN "PREPARED" ELSE ckpt[k][s]]
        BY <1>2, <2>2 DEF ChainResumes, TypeInv, RowsOK
      <3>2. chain' = [chain EXCEPT ![k].status = IF worker[w].tx.chain = status THEN @ ELSE status]
        BY <1>2, <2>2 DEF ChainResumes
      <3>3. k \in DOMAIN chain
        BY DEF TypeInv, RowsOK
      <3>4. CASE worker[w].tx.chain = status
        BY <3>1, <3>2, <3>3, <3>4
      <3>5. CASE worker[w].tx.chain # status
        BY <3>1, <3>2, <3>3, <3>5
      <3>6. QED
        BY <3>4, <3>5
    <2>3. QED
      BY <2>1, <2>2
  <1>3. QED
    BY <1>1, <1>2

LEMMA QuarantineWrites ==
  ASSUME TypeInv, NEW w \in Workers, NEW k \in Jobs, k = worker[w].job, QuarantineStale(w)
  PROVE  \/ SameChain(k) /\ UNCHANGED jobsVars
         \/ /\ BlockUnrecoverableStale(k)
            /\ chain'[k] \in {chain[k], [chain[k] EXCEPT !.status = "BLOCKED"]}
            /\ ckpt'[k] \in {ckpt[k], [s \in ChainStages |->
                               IF LatestOpen(k, s) THEN "BLOCKED" ELSE ckpt[k][s]]}
  <1> DEFINE running == Active(worker[w].tx.chain)
  <1>1. \/ SameChain(k) /\ UNCHANGED jobsVars
        \/ /\ BlockUnrecoverableStale(k)
           /\ chain'[k] = [chain[k] EXCEPT !.status = IF running THEN "BLOCKED" ELSE @]
           /\ ckpt'[k] = [s \in ChainStages |->
                IF running /\ LatestOpen(k, s) THEN "BLOCKED" ELSE ckpt[k][s]]
    BY DEF QuarantineStale, SameChain, TypeInv, RowsOK
  <1>2. CASE running
    BY <1>1, <1>2
  <1>3. CASE ~running
    <2>1. [chain[k] EXCEPT !.status = IF running THEN "BLOCKED" ELSE @] = chain[k]
      BY <1>3 DEF ChainRows, TypeInv, RowsOK
    <2>2. [s \in ChainStages |-> IF running /\ LatestOpen(k, s) THEN "BLOCKED" ELSE ckpt[k][s]]
            = ckpt[k]
      BY <1>3 DEF TypeInv, RowsOK
    <2>3. QED
      BY <1>1, <2>1, <2>2
  <1>4. QED
    BY <1>2, <1>3

LEMMA InsertChainWrites ==
  ASSUME TypeInv, NEW w \in Workers, NEW k \in Jobs, k = worker[w].job, InsertChain(w)
  PROVE  \/ SameChain(k)
         \/ /\ chain[k].status = "NONE"
            /\ chain'[k] = [chain[k] EXCEPT !.status = "RUNNING", !.late = Landed(w)]
            /\ ckpt'[k] = ckpt[k]
  BY DEF InsertChain, SameChain, TypeInv, RowsOK

LEMMA InsertWrites ==
  ASSUME TypeInv, NEW w \in Workers, NEW k \in Jobs, k = worker[w].job, InsertCheckpoint(w)
  PROVE  \/ SameChain(k)
         \/ /\ ckpt[k][worker[w].tx.stage] = "NONE"
            /\ StageWritten(w, k, "PREPARED")
  BY DEF InsertCheckpoint, SameChain, StageWritten, TypeInv, RowsOK

LEMMA CompleteWrites ==
  ASSUME TypeInv, NEW w \in Workers, NEW k \in Jobs, k = worker[w].job, CompleteCheckpoint(w)
  PROVE  StageWritten(w, k, "SUCCESS")
  BY DEF CompleteCheckpoint, StageWritten, TypeInv, RowsOK

LEMMA ApproveWrites ==
  ASSUME TypeInv, NEW w \in Workers, NEW k \in Jobs, k = worker[w].job, Approve(w)
  PROVE  \/ SameChain(k) /\ UNCHANGED jobsVars
         \/ /\ AutoApproveJob(k, worker[w].token)
            /\ ChainActive(k)
            /\ ckpt[k]["CANDIDATE_APPROVAL"] = "PREPARED"
            /\ chain'[k] = [chain[k] EXCEPT !.status = "APPROVED", !.approval = "APPROVED"]
            /\ ckpt'[k] = [ckpt[k] EXCEPT !["CANDIDATE_APPROVAL"] = "SUCCESS"]
  BY DEF Approve, SameChain, TypeInv, RowsOK

LEMMA TerminateWrites ==
  ASSUME TypeInv, NEW w \in Workers, NEW k \in Jobs, k = worker[w].job, Terminate(w)
  PROVE  \/ SameChain(k) /\ UNCHANGED jobsVars
         \/ /\ Complete(k, worker[w].token, worker[w].verdict.status,
                        worker[w].verdict.links, worker[w].verdict.completed)
            /\ ClosedAs(k, worker[w].tx, worker[w].verdict.status)
  <1>1. RowsOK
    BY DEF TypeInv
  <1>2. QED
    BY <1>1, ClosesIs DEF Terminate, SameChain, ClosedAs

\* No other step of a process, and no step on another job, touches the chain.
LEMMA OtherChains ==
  ASSUME TypeInv, NEW w \in Workers, WorkerStep(w), NEW k \in Jobs,
         \/ k # worker[w].job
         \/ ~( \/ Expire(w) \/ Requeue(w) \/ QuarantineStale(w) \/ InsertChain(w)
               \/ InsertCheckpoint(w) \/ CompleteCheckpoint(w) \/ Approve(w) \/ Terminate(w) )
  PROVE  SameChain(k)
  <1> USE DEF TypeInv, RowsOK
  <1>1. CASE Looks(w)
    BY <1>1, LooksWriteNothing DEF SameChain, chainVars
  <1>2. CASE \/ Claim(w) \/ MarkAttempt(w) \/ CallProvider(w) \/ Checkpoint(w) \/ Signal(w)
             \/ Finish(w)
    BY <1>2 DEF Claim, MarkAttempt, CallProvider, Checkpoint, Signal, Finish, SameChain, chainVars
  <1>3. CASE k # worker[w].job /\ (Expire(w) \/ Terminate(w))
    BY <1>3 DEF Expire, Terminate, Closes, SameChain
  <1>4. CASE k # worker[w].job /\ (Requeue(w) \/ QuarantineStale(w))
    BY <1>4 DEF Requeue, ChainResumes, QuarantineStale, SameChain
  <1>5. CASE /\ k # worker[w].job
             /\ InsertChain(w) \/ InsertCheckpoint(w) \/ CompleteCheckpoint(w) \/ Approve(w)
    BY <1>5 DEF InsertChain, InsertCheckpoint, CompleteCheckpoint, Approve, SameChain
  <1>6. QED
    BY <1>1, <1>2, <1>3, <1>4, <1>5 DEF WorkerStep, Looks

\* The environment touches a chain only to revoke its approval.
LEMMA EnvironmentChains ==
  ASSUME TypeInv, NEW k \in Jobs,
         \/ \E w \in Workers : HeartbeatLost(w) \/ Crash(w) \/ Restart(w)
         \/ \E j \in Jobs : AbandonedLeaseLapses(j) \/ HeldLeaseLapses(j)
         \/ OperatorStep
         \/ UNCHANGED vars
  PROVE  /\ ckpt'[k] = ckpt[k]
         /\ \/ chain'[k] = chain[k]
            \/ chain'[k] = [chain[k] EXCEPT !.status = "BLOCKED", !.approval = "REVOKED"]
  <1> USE DEF TypeInv, RowsOK
  <1>1. ASSUME NEW j \in Jobs, RevokeApproval(j)
        PROVE  /\ ckpt'[k] = ckpt[k]
               /\ \/ chain'[k] = chain[k]
                  \/ chain'[k] = [chain[k] EXCEPT !.status = "BLOCKED", !.approval = "REVOKED"]
    BY <1>1 DEF RevokeApproval
  <1>2. UNCHANGED <<chain, ckpt>> \/ \E j \in Jobs : RevokeApproval(j)
    BY DEF HeartbeatLost, Crash, Restart, AbandonedLeaseLapses, HeldLeaseLapses, OperatorStep,
           QueueRequest, CommitCancel, RetryStale, vars, chainVars
  <1>3. QED
    BY <1>1, <1>2

\* The chain's part of what lasts.
LEMMA ChainLasts ==
  ASSUME TypeInv, [Next]_vars, NEW j \in Jobs
  PROVE  /\ chain[j].approval # "NONE" => chain'[j].approval # "NONE"
         /\ \A s \in ChainStages : ckpt[j][s] # "NONE" => ckpt'[j][s] # "NONE"
  <1> DEFINE Lasts == /\ chain[j].approval # "NONE" => chain'[j].approval # "NONE"
                      /\ \A s \in ChainStages : ckpt[j][s] # "NONE" => ckpt'[j][s] # "NONE"
  <1>0. chain[j] \in ChainRows /\ ckpt[j] \in [ChainStages -> CheckpointStatuses]
    BY DEF TypeInv, RowsOK
  <1> USE <1>0 DEF ChainRows
  <1>1. SameChain(j) => Lasts
    BY DEF SameChain
  <1>2. ASSUME NEW w \in Workers, WorkerStep(w), j = worker[w].job, ~SameChain(j) PROVE Lasts
    <2>1. ASSUME NEW tx, NEW status, status # "NONE", ClosedAs(j, tx, status) PROVE Lasts
      BY <2>1 DEF ClosedAs
    <2>2. CASE Expire(w) \/ Terminate(w)
      <3>1. worker[w].verdict.status # "NONE"
        BY VerdictIs DEF TerminalStatuses
      <3>2. \E tx, status : status # "NONE" /\ ClosedAs(j, tx, status)
        BY <1>2, <2>2, <3>1, ExpireWrites, TerminateWrites
      <3>3. QED
        BY <2>1, <3>2
    <2>3. CASE Requeue(w)
      <3>1. /\ \E status \in {"APPROVED", "RUNNING", chain[j].status} :
                 chain'[j] = [chain[j] EXCEPT !.status = status]
            /\ ckpt'[j] = [s \in ChainStages |-> IF ckpt[j][s] = "STALE" THEN "PREPARED" ELSE ckpt[j][s]]
        BY <1>2, <2>3, RequeueWrites
      <3>2. QED
        BY <3>1
    <2>4. CASE QuarantineStale(w)
      <3>1. /\ chain'[j] \in {chain[j], [chain[j] EXCEPT !.status = "BLOCKED"]}
            /\ ckpt'[j] \in {ckpt[j], [s \in ChainStages |->
                                 IF LatestOpen(j, s) THEN "BLOCKED" ELSE ckpt[j][s]]}
        BY <1>2, <2>4, QuarantineWrites
      <3>2. QED
        BY <3>1
    <2>5. CASE InsertChain(w)
      <3>1. /\ chain'[j] = [chain[j] EXCEPT !.status = "RUNNING", !.late = Landed(w)]
            /\ ckpt'[j] = ckpt[j]
        BY <1>2, <2>5, InsertChainWrites
      <3>2. QED
        BY <3>1
    <2>6. CASE Approve(w)
      <3>1. /\ chain'[j] = [chain[j] EXCEPT !.status = "APPROVED", !.approval = "APPROVED"]
            /\ ckpt'[j] = [ckpt[j] EXCEPT !["CANDIDATE_APPROVAL"] = "SUCCESS"]
        BY <1>2, <2>6, ApproveWrites
      <3>2. QED
        BY <3>1
    <2>7. CASE InsertCheckpoint(w) \/ CompleteCheckpoint(w)
      <3>1. \E status \in {"PREPARED", "SUCCESS"} : StageWritten(w, j, status)
        BY <1>2, <2>7, InsertWrites, CompleteWrites
      <3>2. QED
        BY <3>1 DEF StageWritten
    <2>8. QED
      BY <1>2, <2>2, <2>3, <2>4, <2>5, <2>6, <2>7, OtherChains
  <1>3. ASSUME NEW w \in Workers, WorkerStep(w) PROVE Lasts
    BY <1>1, <1>2, <1>3, OtherChains
  <1>4. ASSUME ~\E w \in Workers : WorkerStep(w) PROVE Lasts
    BY <1>4, EnvironmentChains DEF Next
  <1>5. QED
    BY <1>3, <1>4

LEMMA EverythingLasts ==
  ASSUME TypeInv, [Next]_vars
  PROVE  Lasting
  BY StepIsQueueStep, JobLasts, ChainLasts DEF Lasting, TypeInv


-----------------------------------------------------------------------------
(* Where a step may lead.                                                  *)

\* Whoever acts for a job after the step did so before, in the same phase, but for w.
Moves(w, phases) ==
    \A v \in Workers : worker'[v].pc \in OwnerPhases =>
        /\ worker[v].pc \in OwnerPhases
        /\ worker'[v].job = worker[v].job /\ worker'[v].token = worker[v].token
        /\ worker'[v].pc = worker[v].pc \/ (v = w /\ worker'[v].pc \in phases)

LEMMA GotoMoves ==
  ASSUME ProcessesOK, NEW w \in Workers, NEW phases, NEW pc \in phases,
         pc \in OwnerPhases => worker[w].pc \in OwnerPhases, Goto(w, pc)
  PROVE  Moves(w, phases)
  BY DEF ProcessesOK, WorkerStates, Goto, Moves

LEMMA DecideMoves ==
  ASSUME ProcessesOK, NEW w \in Workers, NEW phases, "terminate" \in phases,
         worker[w].pc \in OwnerPhases, NEW status, NEW links, NEW completed,
         Decide(w, status, links, completed)
  PROVE  Moves(w, phases)
  BY DEF ProcessesOK, WorkerStates, Decide, Moves

LEMMA SettleMoves ==
  ASSUME ProcessesOK, NEW w \in Workers, NEW phases, NEW intent, NEW stage, NEW status,
         Settle(w, intent, stage, status)
  PROVE  Moves(w, phases)
  BY SettleIs DEF Moves

LEMMA UnassignedMoves ==
  ASSUME ProcessesOK, NEW w \in Workers, NEW phases, NEW pc \in Phases \ OwnerPhases,
         worker' = [worker EXCEPT ![w] = Unassigned(pc)]
  PROVE  Moves(w, phases)
  BY UnassignedType DEF ProcessesOK, Moves

LEMMA LeavingMoves ==
  ASSUME ProcessesOK, NEW w \in Workers, NEW phases, Return(w) \/ Exit(w)
  PROVE  Moves(w, phases)
  BY PhaseNames, UnassignedMoves DEF Return, Exit

\* The table of the program counter.
LEMMA StepMoves ==
  ASSUME TypeInv, NEW w \in Workers
  PROVE  /\ Start(w) => Moves(w, {"signal", "promote", "open", "terminate"})
         /\ Fence(w) => Moves(w, {})
         /\ OpenChain(w) => Moves(w, {"prepare"})
         /\ InsertChain(w) => Moves(w, {"prepare"})
         /\ PrepareGeneration(w) => Moves(w, {"mark", "call", "terminate"})
         /\ InsertCheckpoint(w) => Moves(w, {Prepared(w), "terminate"})
         /\ CompleteCheckpoint(w) => Moves(w, {"promote"})
         /\ MarkAttempt(w) => Moves(w, {"call"})
         /\ CallProvider(w) => Moves(w, {"calling"})
         /\ CallRaises(w) => Moves(w, {"terminate"})
         /\ CallReturns(w) => Moves(w, {"checkpoint", "terminate"})
         /\ Checkpoint(w) => Moves(w, {"promote", "terminate"})
         /\ Promote(w) => Moves(w, {"validate", "terminate"})
         /\ Validate(w) => Moves(w, {"advance", "terminate"})
         /\ Advance(w) => Moves(w, {"approve", "terminate"})
         /\ Approve(w) => Moves(w, {"terminate"})
         /\ Signal(w) => Moves(w, {"finish", "terminate"})
         /\ Finish(w) => Moves(w, {"terminate"})
         /\ Terminalize(w) => Moves(w, {})
         /\ Terminate(w) => Moves(w, {})
  <1> USE DEF TypeInv
  <1>0. ASSUME NEW pc \in OwnerPhases, At(w, pc)
        PROVE  /\ \A next : Goto(w, next) => \A S : next \in S => Moves(w, S)
               /\ \A status, links, completed, S :
                    "terminate" \in S /\ Decide(w, status, links, completed) => Moves(w, S)
    BY <1>0, GotoMoves, DecideMoves DEF At
  <1>1. \A S : (Return(w) \/ Exit(w)) => Moves(w, S)
    BY LeavingMoves
  <1>2. \A intent, stage, status, S : Settle(w, intent, stage, status) => Moves(w, S)
    BY SettleMoves
  <1>3. ASSUME Start(w) PROVE Moves(w, {"signal", "promote", "open", "terminate"})
    BY <1>0, <1>1, <1>3 DEF Start, OwnerPhases
  <1>4. ASSUME OpenChain(w) PROVE Moves(w, {"prepare"})
    <2>1. ASSUME worker' = [worker EXCEPT ![w].pc = "prepare"] PROVE Moves(w, {"prepare"})
      BY <1>4, <2>1 DEF OpenChain, At, OwnerPhases, Moves, ProcessesOK, WorkerStates
    <2>2. At(w, "open") /\ "open" \in OwnerPhases
      BY <1>4 DEF OpenChain, OwnerPhases
    <2>3. \/ Exit(w) \/ Settle(w, "OPEN", "NONE", "NONE") \/ Goto(w, "prepare")
          \/ worker' = [worker EXCEPT ![w].pc = "prepare"]
      BY <1>4 DEF OpenChain
    <2>4. QED
      BY <1>0, <1>1, <1>2, <2>1, <2>2, <2>3
  <1>5. ASSUME PrepareGeneration(w) PROVE Moves(w, {"mark", "call", "terminate"})
    <2>1. At(w, "prepare") /\ "prepare" \in OwnerPhases
      BY <1>5 DEF PrepareGeneration, OwnerPhases
    <2>2. \/ Goto(w, "mark") \/ Goto(w, "call") \/ Decide(w, "BLOCKED", FALSE, FALSE) \/ Exit(w)
          \/ Settle(w, "INSERT", "GENERATION", "NONE")
      BY <1>5 DEF PrepareGeneration, Begun
    <2>3. QED
      BY <1>0, <1>1, <1>2, <2>1, <2>2
  <1>6. ASSUME MarkAttempt(w) PROVE Moves(w, {"call"})
    BY <1>0, <1>1, <1>6 DEF MarkAttempt, OwnerPhases
  <1>7. ASSUME CallProvider(w) PROVE Moves(w, {"calling"})
    BY <1>0, <1>7 DEF CallProvider, OwnerPhases
  <1>8. ASSUME CallRaises(w) PROVE Moves(w, {"terminate"})
    BY <1>0, <1>1, <1>8 DEF CallRaises, OwnerPhases
  <1>9. ASSUME CallReturns(w) PROVE Moves(w, {"checkpoint", "terminate"})
    BY <1>0, <1>1, <1>9 DEF CallReturns, OwnerPhases
  <1>10. ASSUME Checkpoint(w) PROVE Moves(w, {"promote", "terminate"})
    BY <1>0, <1>10 DEF Checkpoint, OwnerPhases
  <1>11. ASSUME Promote(w) PROVE Moves(w, {"validate", "terminate"})
    BY <1>0, <1>2, <1>11 DEF Promote, OwnerPhases
  <1>12. ASSUME Validate(w) PROVE Moves(w, {"advance", "terminate"})
    BY <1>0, <1>12 DEF Validate, OwnerPhases
  <1>13. ASSUME Advance(w) PROVE Moves(w, {"approve", "terminate"})
    BY <1>0, <1>1, <1>2, <1>13 DEF Advance, OwnerPhases
  <1>14. ASSUME Approve(w) PROVE Moves(w, {"terminate"})
    BY <1>0, <1>1, <1>14 DEF Approve, OwnerPhases
  <1>15. ASSUME Signal(w) PROVE Moves(w, {"finish", "terminate"})
    BY <1>0, <1>1, <1>15 DEF Signal, OwnerPhases
  <1>16. ASSUME Finish(w) PROVE Moves(w, {"terminate"})
    BY <1>0, <1>1, <1>16 DEF Finish, OwnerPhases
  <1>17. ASSUME Terminate(w) PROVE Moves(w, {})
    BY <1>1, <1>17 DEF Terminate
  <1>18. ASSUME Fence(w) PROVE Moves(w, {})
    BY <1>2, <1>18 DEF Fence
  <1>19. ASSUME InsertChain(w) PROVE Moves(w, {"prepare"})
    BY <1>0, <1>1, <1>19 DEF InsertChain, OwnerPhases
  <1>20. ASSUME InsertCheckpoint(w) PROVE Moves(w, {Prepared(w), "terminate"})
    <2>1. At(w, worker[w].pc) /\ worker[w].pc \in OwnerPhases
      BY <1>20 DEF InsertCheckpoint, At, OwnerPhases
    <2>2. \/ Goto(w, Prepared(w)) \/ Exit(w) \/ Settle(w, "FENCED", "NONE", "NONE")
          \/ Decide(w, "BLOCKED", FALSE, ResultKnown(worker[w].job))
      BY <1>20 DEF InsertCheckpoint
    <2>3. QED
      BY <1>0, <1>1, <1>2, <2>1, <2>2
  <1>21. ASSUME CompleteCheckpoint(w) PROVE Moves(w, {"promote"})
    BY <1>0, <1>21 DEF CompleteCheckpoint, OwnerPhases
  <1>22. ASSUME Terminalize(w) PROVE Moves(w, {})
    BY <1>1, <1>2, <1>22 DEF Terminalize
  <1>23. QED
    BY <1>3, <1>4, <1>5, <1>6, <1>7, <1>8, <1>9, <1>10, <1>11, <1>12, <1>13, <1>14, <1>15, <1>16,
       <1>17, <1>18, <1>19, <1>20, <1>21, <1>22, Zenon

\* Nobody takes a job up but by a claim.
LEMMA OtherMoves ==
  ASSUME TypeInv, NEW w \in Workers,
         \/ Audit(w) \/ Expire(w) \/ RecoverStale(w) \/ Requeue(w) \/ QuarantineStale(w)
         \/ HeartbeatLost(w) \/ Crash(w) \/ Restart(w)
         \/ \E j \in Jobs : AbandonedLeaseLapses(j) \/ HeldLeaseLapses(j)
         \/ OperatorStep
         \/ UNCHANGED vars
  PROVE  Moves(w, {})
  <1> USE DEF TypeInv
  <1>1. ASSUME worker[w].pc \notin OwnerPhases, worker'[w].pc \notin OwnerPhases,
               \A v \in Workers : v # w => worker'[v] = worker[v]
        PROVE  Moves(w, {})
    BY <1>1 DEF Moves
  <1>2. CASE Audit(w)
    <2>1. worker[w].pc \notin OwnerPhases
      BY <1>2 DEF Audit, OwnerPhases
    <2>2. AfterAudit(w) \notin OwnerPhases
      BY DEF AfterAudit, OwnerPhases
    <2>3. worker'[w].pc \in {worker[w].pc, AfterAudit(w)}
      <3>1. CASE Goto(w, AfterAudit(w))
        BY <3>1, GotoIs
      <3>2. ASSUME NEW i, NEW tx,
                   worker' = [worker EXCEPT ![w].job = i, ![w].token = job[i].token, ![w].tx = tx]
            PROVE  worker'[w].pc = worker[w].pc
        BY <3>2 DEF ProcessesOK, WorkerStates
      <3>3. QED
        BY <1>2, <3>1, <3>2 DEF Audit
    <2>4. \A v \in Workers : v # w => worker'[v] = worker[v]
      BY <1>2 DEF Audit, Goto, ProcessesOK
    <2>5. QED
      BY <1>1, <2>1, <2>2, <2>3, <2>4
  <1>3. CASE RecoverStale(w) \/ Restart(w)
    <2>1. worker[w].pc \notin OwnerPhases
      BY <1>3 DEF RecoverStale, Restart, At, OwnerPhases
    <2>2. worker'[w].pc \in {worker[w].pc, "preclaim", "audit"}
      BY <1>3 DEF RecoverStale, Restart, Goto, ProcessesOK, WorkerStates
    <2>3. \A v \in Workers : v # w => worker'[v] = worker[v]
      BY <1>3 DEF RecoverStale, Restart, Goto, ProcessesOK
    <2>4. QED
      BY <1>1, <2>1, <2>2, <2>3 DEF OwnerPhases
  <1>4. CASE HeartbeatLost(w)
    BY <1>4 DEF HeartbeatLost, Moves, ProcessesOK, WorkerStates
  <1>5. CASE Crash(w)
    BY <1>5, LeavingMoves DEF Crash
  <1>6. CASE Expire(w) \/ QuarantineStale(w) \/ Requeue(w)
    <2>1. AfterAudit(w) \in {"recover", "claim"}
      BY DEF AfterAudit
    <2>2. \/ \E pc \in {"recover", "claim", "preclaim"} : worker' = [worker EXCEPT ![w] = Unassigned(pc)]
          \/ Settle(w, "BLOCK", "NONE", chain[worker[w].job].status)
      BY <1>6, <2>1 DEF Expire, QuarantineStale, Requeue
    <2>3. QED
      BY <2>2, PhaseNames, UnassignedMoves, SettleMoves
  <1>7. CASE \/ UNCHANGED vars \/ OperatorStep
             \/ \E j \in Jobs : AbandonedLeaseLapses(j) \/ HeldLeaseLapses(j)
    <2>1. UNCHANGED worker
      BY <1>7 DEF AbandonedLeaseLapses, HeldLeaseLapses, vars, OperatorStep, QueueRequest,
                  CommitCancel, RetryStale, RevokeApproval
    <2>2. QED
      BY <2>1 DEF Moves
  <1>8. QED
    BY <1>2, <1>3, <1>4, <1>5, <1>6, <1>7

-----------------------------------------------------------------------------
(* The provider.  A request is sent from the phase "call", which a real    *)
(* job enters once, for its attempt is marked on the way there.            *)

CallInv ==
    /\ \A j \in Jobs : calls[j] # 0 => calls[j] = 1 /\ Real(j) /\ job[j].attempted
    /\ \A w \in Workers : worker[w].pc \in OwnerPhases => job[worker[w].job].status # "ABSENT"
    /\ \A w \in Workers : At(w, "mark") => Real(worker[w].job)
    /\ \A w \in Workers : At(w, "call") /\ Real(worker[w].job) =>
          job[worker[w].job].attempted /\ calls[worker[w].job] = 0
    /\ \A v, w \in Workers :
          At(v, "call") /\ At(w, "call") /\ worker[v].job = worker[w].job /\ Real(worker[w].job)
              => v = w

\* A step that enters neither the call nor its mark.
Quiet ==
    \A v \in Workers : worker'[v].pc \in OwnerPhases =>
        \/ /\ worker[v].pc \in OwnerPhases
           /\ worker'[v].job = worker[v].job
           /\ worker'[v].pc \in {"mark", "call"} => worker'[v].pc = worker[v].pc
        \/ /\ worker'[v].pc = "start"
           /\ worker'[v].job \in Jobs
           /\ job[worker'[v].job].status # "ABSENT"

LEMMA MovesAreQuiet ==
  ASSUME NEW w \in Workers, NEW phases, Moves(w, phases), "mark" \notin phases, "call" \notin phases
  PROVE  Quiet
  BY DEF Moves, Quiet

LEMMA QuietStep ==
  ASSUME TypeInv, OutcomeInv, CallInv, Lasting, UNCHANGED calls, Quiet
  PROVE  CallInv'
  <1>0. \A v \in Workers : worker[v].pc \in OwnerPhases =>
            worker[v].job \in Jobs /\ job[worker[v].job].status # "ABSENT"
    BY DEF TypeInv, ProcessesOK, Assigned, CallInv
  <1>1. \A j \in Jobs : job[j].status # "ABSENT" => (Real(j)' <=> Real(j))
    BY DEF Lasting, Real
  <1>2. ASSUME NEW v \in Workers, At(v, "mark")' \/ At(v, "call")'
        PROVE  /\ worker[v].pc = worker'[v].pc /\ worker'[v].job = worker[v].job
               /\ worker[v].job \in Jobs
               /\ Real(worker[v].job)' <=> Real(worker[v].job)
    <2>1. worker'[v].pc \in OwnerPhases /\ worker'[v].pc # "start"
      BY <1>2 DEF At, OwnerPhases
    <2>2. QED
      BY <1>0, <1>1, <1>2, <2>1 DEF At, Quiet
  <1>3. (\A j \in Jobs : calls[j] # 0 => calls[j] = 1 /\ Real(j) /\ job[j].attempted)'
    <2>1. ASSUME NEW j \in Jobs, calls[j] # 0
          PROVE  calls[j] = 1 /\ Real(j)' /\ job'[j].attempted
      <3>1. job[j].status # "ABSENT"
        BY <2>1 DEF CallInv, OutcomeInv, AbsentIsBlank
      <3>2. QED
        BY <2>1, <3>1, <1>1 DEF CallInv, Lasting
    <2>2. QED
      BY <2>1
  <1>4. (\A v \in Workers : worker[v].pc \in OwnerPhases => job[worker[v].job].status # "ABSENT")'
    BY <1>0 DEF Lasting, Quiet
  <1>5. (\A v \in Workers : At(v, "mark") => Real(worker[v].job))'
    <2>1. ASSUME NEW v \in Workers, At(v, "mark")' PROVE Real(worker[v].job)'
      <3>1. At(v, "mark") /\ worker'[v].job = worker[v].job
        BY <1>2, <2>1 DEF At
      <3>2. QED
        BY <1>2, <2>1, <3>1 DEF Real, CallInv
    <2>2. QED
      BY <2>1
  <1>6. ASSUME NEW v \in Workers, At(v, "call")', Real(worker[v].job)'
        PROVE  At(v, "call") /\ worker'[v].job = worker[v].job /\ Real(worker[v].job)
               /\ worker[v].job \in Jobs
    BY <1>2, <1>6 DEF At, Real
  <1>7. (\A v \in Workers : At(v, "call") /\ Real(worker[v].job) =>
            job[worker[v].job].attempted /\ calls[worker[v].job] = 0)'
    BY <1>6 DEF CallInv, Lasting
  <1>8. (\A u, v \in Workers :
            At(u, "call") /\ At(v, "call") /\ worker[u].job = worker[v].job /\ Real(worker[v].job)
              => u = v)'
    <2>1. ASSUME NEW u \in Workers, NEW v \in Workers, At(u, "call")', At(v, "call")',
                 worker'[u].job = worker'[v].job, Real(worker[v].job)'
          PROVE  u = v
      <3>1. Real(worker[u].job)'
        BY <2>1 DEF Real
      <3>2. QED
        BY <1>6, <2>1, <3>1 DEF CallInv
    <2>2. QED
      BY <2>1
  <1>9. QED
    BY <1>3, <1>4, <1>5, <1>7, <1>8 DEF CallInv

\* A worker enters the call.
LEMMA EnterCall ==
  ASSUME TypeInv, OutcomeInv, CallInv, Lasting, UNCHANGED calls,
         NEW w \in Workers, worker[w].pc \in OwnerPhases, worker[w].pc # "call", Goto(w, "call"),
         Real(worker[w].job) =>
            /\ job'[worker[w].job].attempted
            /\ calls[worker[w].job] = 0
            /\ \A v \in Workers : ~(At(v, "call") /\ worker[v].job = worker[w].job)
  PROVE  CallInv'
  <1>0. \A v \in Workers : worker[v].pc \in OwnerPhases =>
            worker[v].job \in Jobs /\ job[worker[v].job].status # "ABSENT"
    BY DEF TypeInv, ProcessesOK, Assigned, CallInv
  <1>1. \A j \in Jobs : job[j].status # "ABSENT" => (Real(j)' <=> Real(j))
    BY DEF Lasting, Real
  <1>2. /\ worker'[w].pc = "call" /\ worker'[w].job = worker[w].job
        /\ \A v \in Workers : v # w => worker'[v] = worker[v]
    BY DEF TypeInv, ProcessesOK, WorkerStates, Goto
  <1>3. \A v \in Workers : At(v, "mark")' \/ At(v, "call")' =>
            /\ worker[v].job \in Jobs /\ worker'[v].job = worker[v].job
            /\ Real(worker[v].job)' <=> Real(worker[v].job)
    BY <1>0, <1>1, <1>2 DEF At, OwnerPhases
  <1>4. (\A j \in Jobs : calls[j] # 0 => calls[j] = 1 /\ Real(j) /\ job[j].attempted)'
    <2>1. ASSUME NEW j \in Jobs, calls[j] # 0
          PROVE  calls[j] = 1 /\ Real(j)' /\ job'[j].attempted
      <3>1. job[j].status # "ABSENT"
        BY <2>1 DEF CallInv, OutcomeInv, AbsentIsBlank
      <3>2. QED
        BY <2>1, <3>1, <1>1 DEF CallInv, Lasting
    <2>2. QED
      BY <2>1
  <1>5. (\A v \in Workers : worker[v].pc \in OwnerPhases => job[worker[v].job].status # "ABSENT")'
    BY <1>0, <1>2 DEF Lasting
  <1>6. (\A v \in Workers : At(v, "mark") => Real(worker[v].job))'
    BY <1>2, <1>3 DEF CallInv, At, Real
  <1>7. (\A v \in Workers : At(v, "call") /\ Real(worker[v].job) =>
            job[worker[v].job].attempted /\ calls[worker[v].job] = 0)'
    BY <1>2, <1>3 DEF CallInv, At, Real, Lasting
  <1>8. (\A u, v \in Workers :
            At(u, "call") /\ At(v, "call") /\ worker[u].job = worker[v].job /\ Real(worker[v].job)
              => u = v)'
    BY <1>2, <1>3 DEF CallInv, At, Real
  <1>9. QED
    BY <1>4, <1>5, <1>6, <1>7, <1>8 DEF CallInv

\* A worker enters the mark, which it does for a real job only.
LEMMA EnterMark ==
  ASSUME TypeInv, OutcomeInv, CallInv, UNCHANGED <<jobsVars, calls>>,
         NEW w \in Workers, worker[w].pc \in OwnerPhases, Goto(w, "mark"), Real(worker[w].job)
  PROVE  CallInv'
  <1>1. /\ worker'[w].pc = "mark" /\ worker'[w].job = worker[w].job
        /\ \A v \in Workers : v # w => worker'[v] = worker[v]
    BY DEF TypeInv, ProcessesOK, WorkerStates, Goto
  <1>2. UNCHANGED job
    BY DEF jobsVars
  <1>3. QED
    BY <1>1, <1>2 DEF CallInv, At, Real

LEMMA CallStep ==
  ASSUME TypeInv, OutcomeInv, CallInv, [Next]_vars
  PROVE  CallInv'
  <1>0. Lasting
    BY EverythingLasts
  <1>a. \A v \in Workers : worker[v].pc \in OwnerPhases => worker[v].job \in Jobs
    BY DEF TypeInv, ProcessesOK, Assigned
  <1>1. ASSUME NEW w \in Workers, Claim(w) PROVE CallInv'
    <2>1. UNCHANGED calls
      BY <1>1 DEF Claim
    <2>2. Quiet
      <3>1. CASE Return(w) \/ Exit(w)
        <4>1. Moves(w, {})
          BY <3>1, LeavingMoves DEF TypeInv
        <4>2. QED
          BY <4>1, MovesAreQuiet
      <3>2. ASSUME NEW j \in Jobs, ClaimNext(j),
                   worker' = [worker EXCEPT ![w] =
                      [Unassigned("start") EXCEPT !.job = j, !.token = issued + 1]]
            PROVE  Quiet
        <4>1. worker'[w].pc = "start" /\ worker'[w].job = j
          BY <3>2 DEF TypeInv, ProcessesOK, Unassigned
        <4>2. \A v \in Workers : v # w => worker'[v] = worker[v]
          BY <3>2 DEF TypeInv, ProcessesOK
        <4>3. job[j].status # "ABSENT"
          BY <3>2 DEF ClaimNext, ClaimCandidate, Claimable
        <4>4. QED
          BY <4>1, <4>2, <4>3 DEF Quiet
      <3>3. QED
        BY <1>1, <3>1, <3>2 DEF Claim
    <2>3. QED
      BY <1>0, <2>1, <2>2, QuietStep
  <1>2. ASSUME NEW w \in Workers, PrepareGeneration(w) \/ InsertCheckpoint(w) PROVE CallInv'
    <2>1. /\ worker[w].pc \in OwnerPhases \ {"call"}
          /\ UNCHANGED <<jobsVars, calls>>
      BY <1>2 DEF PrepareGeneration, InsertCheckpoint, At, OwnerPhases
    <2>2. CASE Goto(w, Begun(w))
      <3>1. CASE Real(worker[w].job)
        BY <2>1, <2>2, <3>1, EnterMark DEF Begun
      <3>2. CASE ~Real(worker[w].job)
        BY <1>0, <2>1, <2>2, <3>2, EnterCall DEF Begun
      <3>3. QED
        BY <3>1, <3>2
    <2>3. ASSUME NEW pc \in {"promote", "approve"}, Goto(w, pc) PROVE CallInv'
      <3>1. Moves(w, {"promote", "approve"})
        BY <2>1, <2>3, GotoMoves DEF TypeInv
      <3>2. QED
        BY <1>0, <2>1, <3>1, MovesAreQuiet, QuietStep
    <2>4. ASSUME \/ Exit(w)
                 \/ \E completed : Decide(w, "BLOCKED", FALSE, completed)
                 \/ \E intent, stage : Settle(w, intent, stage, "NONE")
          PROVE  CallInv'
      <3>1. Moves(w, {"terminate"})
        BY <2>1, <2>4, LeavingMoves, DecideMoves, SettleMoves DEF TypeInv
      <3>2. QED
        BY <1>0, <2>1, <3>1, MovesAreQuiet, QuietStep
    <2>5. \/ Goto(w, Begun(w)) \/ Goto(w, "promote") \/ Goto(w, "approve") \/ Exit(w)
          \/ \E completed : Decide(w, "BLOCKED", FALSE, completed)
          \/ \E intent, stage : Settle(w, intent, stage, "NONE")
      <3>1. CASE PrepareGeneration(w)
        BY <3>1 DEF PrepareGeneration
      <3>2. CASE InsertCheckpoint(w)
        <4>1. Prepared(w) \in {Begun(w), "promote", "approve"}
          BY <3>2 DEF InsertCheckpoint, Prepared, At
        <4>2. QED
          BY <3>2, <4>1 DEF InsertCheckpoint
      <3>3. QED
        BY <1>2, <3>1, <3>2
    <2>6. QED
      BY <2>2, <2>3, <2>4, <2>5
  <1>3. ASSUME NEW w \in Workers, MarkAttempt(w) PROVE CallInv'
    <2>1. worker[w].pc = "mark" /\ worker[w].pc \in OwnerPhases /\ UNCHANGED calls
      BY <1>3 DEF MarkAttempt, At, OwnerPhases
    <2>2. CASE Return(w)
      <3>1. Moves(w, {})
        BY <2>2, LeavingMoves DEF TypeInv
      <3>2. QED
        BY <1>0, <2>1, <3>1, MovesAreQuiet, QuietStep
    <2>3. CASE MarkProviderAttempt(worker[w].job, worker[w].token) /\ Goto(w, "call")
      <3>1. ~job[worker[w].job].attempted /\ job'[worker[w].job].attempted
        BY <1>a, <2>1, <2>3 DEF MarkProviderAttempt, TypeInv, TypeOK, JobRows
      <3>2. calls[worker[w].job] = 0
        BY <1>a, <2>1, <3>1 DEF CallInv
      <3>3. Real(worker[w].job) =>
              \A v \in Workers : ~(At(v, "call") /\ worker[v].job = worker[w].job)
        BY <3>1 DEF CallInv
      <3>4. QED
        BY <1>0, <2>1, <2>3, <3>1, <3>2, <3>3, EnterCall
    <2>4. QED
      BY <1>3, <2>2, <2>3 DEF MarkAttempt
  <1>4. ASSUME NEW w \in Workers, CallProvider(w) PROVE CallInv'
    <2> DEFINE j == worker[w].job
    <2>1. /\ worker[w].pc = "call" /\ At(w, "call") /\ Goto(w, "calling")
          /\ calls' = [calls EXCEPT ![j] = @ + IF Real(j) THEN 1 ELSE 0]
          /\ UNCHANGED jobsVars
      BY <1>4 DEF CallProvider, At
    <2>2. j \in Jobs /\ calls[j] \in Nat
      BY <1>a, <2>1 DEF TypeInv, RowsOK, OwnerPhases
    <2>3. /\ calls'[j] = IF Real(j) THEN 1 ELSE 0
          /\ \A i \in Jobs : i # j => calls'[i] = calls[i]
      BY <2>1, <2>2 DEF CallInv, TypeInv, RowsOK
    <2>4. UNCHANGED job /\ \A i \in Jobs : Real(i)' <=> Real(i)
      BY <2>1 DEF jobsVars, Real
    <2>5. Moves(w, {"calling"}) /\ Quiet
      BY <1>4, StepMoves, MovesAreQuiet
    <2>6. \A v \in Workers : At(v, "call")' \/ At(v, "mark")' =>
            /\ v # w /\ worker'[v].pc = worker[v].pc /\ worker'[v].job = worker[v].job
            /\ worker[v].job \in Jobs
      <3>1. worker'[w].pc = "calling"
        BY <2>1, GotoIs DEF TypeInv
      <3>2. QED
        BY <1>a, <2>1, <2>5, <3>1 DEF At, OwnerPhases, Moves
    <2>7. (\A i \in Jobs : calls[i] # 0 => calls[i] = 1 /\ Real(i) /\ job[i].attempted)'
      <3>1. ASSUME NEW i \in Jobs, calls'[i] # 0
            PROVE  calls'[i] = 1 /\ Real(i) /\ job[i].attempted
        BY <2>1, <2>2, <2>3, <3>1 DEF CallInv
      <3>2. QED
        BY <2>4, <3>1
    <2>8. (\A v \in Workers : worker[v].pc \in OwnerPhases => job[worker[v].job].status # "ABSENT")'
      BY <2>4, <2>5 DEF CallInv, Moves
    <2>9. (\A v \in Workers : At(v, "mark") => Real(worker[v].job))'
      BY <2>4, <2>6 DEF CallInv, At, Real
    <2>10. (\A v \in Workers : At(v, "call") /\ Real(worker[v].job) =>
              job[worker[v].job].attempted /\ calls[worker[v].job] = 0)'
      <3>1. ASSUME NEW v \in Workers, At(v, "call")', Real(worker[v].job)'
            PROVE  job'[worker'[v].job].attempted /\ calls'[worker'[v].job] = 0
        <4>1. /\ v # w /\ At(v, "call") /\ worker'[v].job = worker[v].job
              /\ worker[v].job \in Jobs
          BY <2>6, <3>1 DEF At
        <4>2. Real(worker[v].job)
          BY <2>4, <3>1, <4>1 DEF Real
        <4>3. worker[v].job # j
          BY <2>1, <4>1, <4>2 DEF CallInv
        <4>4. QED
          BY <2>3, <2>4, <4>1, <4>2, <4>3 DEF CallInv
      <3>2. QED
        BY <3>1
    <2>11. (\A u, v \in Workers :
              At(u, "call") /\ At(v, "call") /\ worker[u].job = worker[v].job
                /\ Real(worker[v].job) => u = v)'
      <3>1. ASSUME NEW u \in Workers, NEW v \in Workers, At(u, "call")', At(v, "call")',
                   worker'[u].job = worker'[v].job, Real(worker[v].job)'
            PROVE  u = v
        <4>1. /\ At(u, "call") /\ At(v, "call") /\ worker[u].job = worker[v].job
              /\ worker'[v].job = worker[v].job /\ worker[v].job \in Jobs
          BY <2>6, <3>1 DEF At
        <4>2. Real(worker[v].job)
          BY <2>4, <3>1, <4>1 DEF Real
        <4>3. QED
          BY <4>1, <4>2 DEF CallInv
      <3>2. QED
        BY <3>1
    <2>12. QED
      BY <2>7, <2>8, <2>9, <2>10, <2>11 DEF CallInv
  <1>5. ASSUME NEW w \in Workers, NEW phases, Moves(w, phases), UNCHANGED calls,
               "mark" \notin phases, "call" \notin phases
        PROVE  CallInv'
    BY <1>0, <1>5, MovesAreQuiet, QuietStep
  <1>6. ASSUME NEW w \in Workers,
               \/ Start(w) \/ Fence(w) \/ OpenChain(w) \/ InsertChain(w) \/ CompleteCheckpoint(w)
               \/ CallRaises(w) \/ CallReturns(w) \/ Checkpoint(w) \/ Promote(w) \/ Validate(w)
               \/ Advance(w) \/ Approve(w) \/ Signal(w) \/ Finish(w) \/ Terminalize(w)
               \/ Terminate(w)
        PROVE  CallInv'
    <2>1. UNCHANGED calls
      BY <1>6 DEF Start, Fence, OpenChain, InsertChain, CompleteCheckpoint, CallRaises,
                  CallReturns, Checkpoint, Promote, Validate, Advance, Approve, Signal, Finish,
                  Terminalize, Terminate
    <2>2. \/ Moves(w, {"signal", "promote", "open", "terminate"}) \/ Moves(w, {"prepare"})
          \/ Moves(w, {"terminate"}) \/ Moves(w, {"checkpoint", "terminate"})
          \/ Moves(w, {"promote", "terminate"}) \/ Moves(w, {"validate", "terminate"})
          \/ Moves(w, {"advance", "terminate"}) \/ Moves(w, {"approve", "terminate"})
          \/ Moves(w, {"finish", "terminate"}) \/ Moves(w, {"promote"}) \/ Moves(w, {})
      BY <1>6, StepMoves
    <2>3. QED
      BY <1>5, <2>1, <2>2
  <1>7. ASSUME NEW w \in Workers,
               \/ Audit(w) \/ Expire(w) \/ RecoverStale(w) \/ Requeue(w) \/ QuarantineStale(w)
               \/ HeartbeatLost(w) \/ Crash(w) \/ Restart(w)
        PROVE  CallInv'
    <2>1. UNCHANGED calls
      BY <1>7 DEF Audit, Expire, RecoverStale, Requeue, QuarantineStale, HeartbeatLost, Crash,
                  Restart
    <2>2. QED
      BY <1>5, <1>7, <2>1, OtherMoves
  <1>8. CASE \/ \E j \in Jobs : AbandonedLeaseLapses(j) \/ HeldLeaseLapses(j)
             \/ OperatorStep
             \/ UNCHANGED vars
    <2>1. UNCHANGED <<worker, calls>>
      BY <1>8 DEF AbandonedLeaseLapses, HeldLeaseLapses, OperatorStep, QueueRequest, CommitCancel,
                  RetryStale, RevokeApproval, vars
    <2>2. Quiet
      BY <2>1 DEF Quiet
    <2>3. QED
      BY <1>0, <2>1, <2>2, QuietStep
  <1>9. QED
    BY <1>1, <1>2, <1>3, <1>4, <1>6, <1>7, <1>8 DEF Next, WorkerStep

LEMMA CallsHold == Spec => []CallInv
  <1>1. Init => CallInv
    BY DEF Init, CallInv, Unassigned, At, OwnerPhases
  <1>2. QED
    BY <1>1, CallStep, TypesHold, QueueFacts, PTL DEF Spec

\* No sequence of crashes, expiries, recoveries, retries and operator requests makes the
\* workers send a second request to the provider for a job, or a first for a formal one.
THEOREM ProviderIsCalledOnce == Spec => []ProviderCalledAtMostOnce
  <1>1. TypeInv /\ CallInv => ProviderCalledAtMostOnce
    BY DEF TypeInv, RowsOK, CallInv, ProviderCalledAtMostOnce
  <1>2. QED
    BY <1>1, TypesHold, CallsHold, PTL

-----------------------------------------------------------------------------
(* What one step does to the chain of a job, with the row of the job.      *)

\* The closing transactions that will find their token in force.
Closing(w, j) == Intends(w, "CLOSE") /\ worker[w].job = j /\ worker[w].token = job[j].token

ClosedStatuses == {"FAILED", "BLOCKED", "STALE"}

\* An expiry or a terminal write.
ClosedBy(w, j) ==
    /\ Closing(w, j)
    /\ job[j].status = "RUNNING"
    /\ job'[j].token = None
    /\ job'[j].status \in TerminalStatuses \ {"SUCCESS"}
    /\ attempt'[j] = job'[j].status
    /\ ClosedAs(j, worker[w].tx, job'[j].status)

\* The commit of a transaction on the chain, by an owner or a former one.
WrittenBy(w, j) ==
    /\ worker[w].job = j /\ worker[w].pc \in OwnerPhases
    /\ UNCHANGED jobsVars
    /\ chain'[j].late = Landed(w)
    /\ \/ /\ Intends(w, "OPEN")
          /\ chain[j].status = "NONE"
          /\ ckpt'[j] = ckpt[j]
       \/ /\ Intends(w, "INSERT")
          /\ ckpt[j][worker[w].tx.stage] = "NONE"
          /\ chain'[j].status = chain[j].status
          /\ ckpt'[j] = [ckpt[j] EXCEPT ![worker[w].tx.stage] = "PREPARED"]
       \/ /\ Intends(w, "COMPLETE")
          /\ chain'[j].status = chain[j].status
          /\ ckpt'[j] = [ckpt[j] EXCEPT ![worker[w].tx.stage] = "SUCCESS"]

\* The requeueing of a stale job whose chain resumes.
Resumed(j) ==
    /\ job[j].status = "STALE" /\ job[j].token = None
    /\ job'[j].status = "PENDING" /\ job'[j].token = None
    /\ chain'[j].late = chain[j].late
    /\ ckpt'[j] = [s \in ChainStages |-> IF ckpt[j][s] = "STALE" THEN "PREPARED" ELSE ckpt[j][s]]

Quarantined(j) ==
    /\ job[j].status = "STALE" /\ job[j].token = None
    /\ job'[j].status = "BLOCKED" /\ job'[j].token = None
    /\ attempt'[j] = "BLOCKED"
    /\ chain'[j] \in {chain[j], [chain[j] EXCEPT !.status = "BLOCKED"]}
    /\ ckpt'[j] \in {ckpt[j], [s \in ChainStages |->
                       IF LatestOpen(j, s) THEN "BLOCKED" ELSE ckpt[j][s]]}

ApprovedBy(w, j) ==
    /\ At(w, "approve") /\ worker[w].job = j
    /\ Owned(j, worker[w].token)
    /\ job'[j].status = "PENDING" /\ job'[j].token = None
    /\ chain'[j].late = chain[j].late
    /\ ckpt[j]["CANDIDATE_APPROVAL"] = "PREPARED"
    /\ ckpt'[j] = [ckpt[j] EXCEPT !["CANDIDATE_APPROVAL"] = "SUCCESS"]

Revoked(j) ==
    /\ UNCHANGED jobsVars
    /\ chain'[j] = [chain[j] EXCEPT !.status = "BLOCKED", !.approval = "REVOKED"]
    /\ ckpt'[j] = ckpt[j]

\* A step that leaves the chain alone closes the job's row only as SUCCESS or CANCELLED.
LeftAlone(j) ==
    /\ SameChain(j)
    /\ job'[j].status \in ClosedStatuses =>
          job[j].status = job'[j].status /\ attempt'[j] = attempt[j]

ChainStep(j) ==
    \/ LeftAlone(j)
    \/ \E w \in Workers : ClosedBy(w, j) \/ WrittenBy(w, j) \/ ApprovedBy(w, j)
    \/ Resumed(j) \/ Quarantined(j) \/ Revoked(j)

\* Operations of the queue that close no row on their own.
LEMMA QueueLeavesAlone ==
  ASSUME TypeInv, NEW i \in Jobs, NEW j \in Jobs, SameChain(j),
         \/ UNCHANGED jobsVars
         \/ \E kind \in Kinds : Enqueue(i, kind)
         \/ \E p \in BOOLEAN : SetPaused(p)
         \/ CancelRead(i) \/ CancelWrite(i) \/ ClaimNext(i) \/ LeaseLapse(i)
         \/ \E stage : PrepareStaleRecovery(i, stage)
         \/ \E t : \/ MarkProviderAttempt(i, t) \/ CheckpointResearchResult(i, t)
                   \/ AutoApproveJob(i, t)
                   \/ \E links, completed : Complete(i, t, "SUCCESS", links, completed)
  PROVE  LeftAlone(j)
  <1>0. job \in [Jobs -> JobRows] /\ attempt \in [Jobs -> AttemptStatuses]
    BY DEF TypeInv, TypeOK
  <1>a. ASSUME UNCHANGED attempt \/ i # j \/ job'[j].status \notin ClosedStatuses,
               \/ job'[j].status = job[j].status
               \/ job'[j].status \notin ClosedStatuses,
               i # j => attempt'[j] = attempt[j]
        PROVE  LeftAlone(j)
    BY <1>a DEF LeftAlone
  <1> USE <1>0 DEF JobRows, ClosedStatuses
  <1>1. CASE UNCHANGED jobsVars
    BY <1>1, <1>a DEF jobsVars
  <1>2. ASSUME NEW kind \in Kinds, Enqueue(i, kind) PROVE LeftAlone(j)
    BY <1>2, <1>a DEF Enqueue
  <1>3. CASE (\E p \in BOOLEAN : SetPaused(p)) \/ CancelRead(i)
    BY <1>3, <1>a DEF SetPaused, CancelRead
  <1>4. CASE CancelWrite(i)
    BY <1>4, <1>a DEF CancelWrite
  <1>5. CASE ClaimNext(i)
    BY <1>5, <1>a DEF ClaimNext
  <1>6. CASE LeaseLapse(i)
    BY <1>6, <1>a DEF LeaseLapse
  <1>7. ASSUME NEW stage, PrepareStaleRecovery(i, stage) PROVE LeftAlone(j)
    BY <1>7, <1>a DEF PrepareStaleRecovery
  <1>8. ASSUME NEW t, MarkProviderAttempt(i, t) PROVE LeftAlone(j)
    BY <1>8, <1>a DEF MarkProviderAttempt
  <1>9. ASSUME NEW t, CheckpointResearchResult(i, t) PROVE LeftAlone(j)
    BY <1>9, <1>a DEF CheckpointResearchResult
  <1>10. ASSUME NEW t, AutoApproveJob(i, t) PROVE LeftAlone(j)
    BY <1>10, <1>a DEF AutoApproveJob
  <1>11. ASSUME NEW t, NEW links, NEW completed, Complete(i, t, "SUCCESS", links, completed)
         PROVE  LeftAlone(j)
    <2> DEFINE row == [job[i] EXCEPT !.status = "SUCCESS", !.stage = "CLOSED", !.token = None,
                                     !.live = FALSE, !.links = job[i].links \/ links,
                                     !.completed = job[i].completed \/ completed]
    <2>a. job' = [job EXCEPT ![i] = row] /\ attempt' = [attempt EXCEPT ![i] = "SUCCESS"]
      BY <1>11, Zenon DEF Complete
    <2>b. row.status = "SUCCESS"
      BY DEF row
    <2> HIDE DEF row
    <2>1. job'[i].status = "SUCCESS"
      BY <2>a, <2>b
    <2>2. i # j => job'[j] = job[j] /\ attempt'[j] = attempt[j]
      BY <2>a
    <2>3. QED
      BY <2>1, <2>2, <1>a
  <1>12. QED
    BY <1>1, <1>2, <1>3, <1>4, <1>5, <1>6, <1>7, <1>8, <1>9, <1>10, <1>11

\* A step of a process on the chain of its own job.
LEMMA OwnChainStep ==
  ASSUME TypeInv, NEW w \in Workers, WorkerStep(w), NEW j \in Jobs, j = worker[w].job
  PROVE  ChainStep(j)
  <1> USE DEF TypeInv, TypeOK, JobRows
  <1>1. CASE Expire(w)
    <2>1. \/ SameChain(j) /\ UNCHANGED jobsVars
          \/ job[j].token = worker[w].token /\ ExpireStale(j) /\ ClosedAs(j, worker[w].tx, "STALE")
      BY <1>1, ExpireWrites
    <2>2. ASSUME job[j].token = worker[w].token, ExpireStale(j), ClosedAs(j, worker[w].tx, "STALE")
          PROVE  ClosedBy(w, j)
      <3>1. job'[j].token = None /\ job'[j].status = "STALE" /\ attempt'[j] = "STALE"
            /\ job[j].status = "RUNNING"
        BY <2>2 DEF ExpireStale, Expirable
      <3>2. QED
        BY <1>1, <2>2, <3>1 DEF ClosedBy, Closing, Expire, TerminalStatuses
    <2>3. QED
      BY <2>1, <2>2, QueueLeavesAlone DEF ChainStep
  <1>2. CASE Requeue(w)
    <2>1. \/ SameChain(j) /\ UNCHANGED jobsVars
          \/ /\ PrepareStaleRecovery(j, worker[w].tx.intent)
             /\ \/ SameChain(j)
                \/ /\ \E status \in {"APPROVED", "RUNNING", chain[j].status} :
                        chain'[j] = [chain[j] EXCEPT !.status = status]
                   /\ ckpt'[j] = [s \in ChainStages |->
                        IF ckpt[j][s] = "STALE" THEN "PREPARED" ELSE ckpt[j][s]]
      BY <1>2, RequeueWrites
    <2>2. CASE SameChain(j)
      BY <2>1, <2>2, QueueLeavesAlone DEF ChainStep
    <2>3. ASSUME PrepareStaleRecovery(j, worker[w].tx.intent),
                 NEW status, chain'[j] = [chain[j] EXCEPT !.status = status],
                 ckpt'[j] = [s \in ChainStages |->
                        IF ckpt[j][s] = "STALE" THEN "PREPARED" ELSE ckpt[j][s]]
          PROVE  Resumed(j)
      <3>1. chain'[j].late = chain[j].late
        BY <2>3 DEF RowsOK, ChainRows
      <3>2. /\ job[j].status = "STALE" /\ job[j].token = None
            /\ job'[j].status = "PENDING" /\ job'[j].token = None
        BY <2>3 DEF PrepareStaleRecovery, ExpiredStale
      <3>3. QED
        BY <2>3, <3>1, <3>2 DEF Resumed
    <2>4. QED
      BY <2>1, <2>2, <2>3 DEF ChainStep
  <1>3. CASE QuarantineStale(w)
    <2>1. \/ SameChain(j) /\ UNCHANGED jobsVars
          \/ /\ BlockUnrecoverableStale(j)
             /\ chain'[j] \in {chain[j], [chain[j] EXCEPT !.status = "BLOCKED"]}
             /\ ckpt'[j] \in {ckpt[j], [s \in ChainStages |->
                               IF LatestOpen(j, s) THEN "BLOCKED" ELSE ckpt[j][s]]}
      BY <1>3, QuarantineWrites
    <2>2. ASSUME BlockUnrecoverableStale(j)
          PROVE  /\ job[j].status = "STALE" /\ job[j].token = None
                 /\ job'[j].status = "BLOCKED" /\ job'[j].token = None
                 /\ attempt'[j] = "BLOCKED"
      BY <2>2 DEF BlockUnrecoverableStale, ExpiredStale
    <2>3. \/ SameChain(j) /\ UNCHANGED jobsVars
          \/ Quarantined(j)
      BY <2>1, <2>2 DEF Quarantined
    <2>4. QED
      BY <2>3, QueueLeavesAlone DEF ChainStep
  <1>4. CASE InsertChain(w)
    <2>1. /\ Intends(w, "OPEN") /\ UNCHANGED jobsVars /\ worker[w].pc \in OwnerPhases
      BY <1>4 DEF InsertChain, At, OwnerPhases
    <2>2. \/ SameChain(j)
          \/ /\ chain[j].status = "NONE"
             /\ chain'[j] = [chain[j] EXCEPT !.status = "RUNNING", !.late = Landed(w)]
             /\ ckpt'[j] = ckpt[j]
      BY <1>4, InsertChainWrites
    <2>3. ASSUME chain'[j] = [chain[j] EXCEPT !.status = "RUNNING", !.late = Landed(w)]
          PROVE  chain'[j].late = Landed(w)
      BY <2>3 DEF RowsOK, ChainRows
    <2>4. SameChain(j) \/ WrittenBy(w, j)
      BY <2>1, <2>2, <2>3 DEF WrittenBy
    <2>5. QED
      BY <2>1, <2>4, QueueLeavesAlone DEF ChainStep
  <1>5. CASE InsertCheckpoint(w) \/ CompleteCheckpoint(w)
    <2>1. /\ UNCHANGED jobsVars /\ worker[w].pc \in OwnerPhases
      BY <1>5 DEF InsertCheckpoint, CompleteCheckpoint, At, OwnerPhases
    <2>2. \/ SameChain(j)
          \/ /\ Intends(w, "INSERT") /\ ckpt[j][worker[w].tx.stage] = "NONE"
             /\ StageWritten(w, j, "PREPARED")
          \/ Intends(w, "COMPLETE") /\ StageWritten(w, j, "SUCCESS")
      BY <1>5, InsertWrites, CompleteWrites DEF InsertCheckpoint, CompleteCheckpoint
    <2>3. ASSUME NEW status, StageWritten(w, j, status)
          PROVE  /\ chain'[j].late = Landed(w) /\ chain'[j].status = chain[j].status
                 /\ ckpt'[j] = [ckpt[j] EXCEPT ![worker[w].tx.stage] = status]
      BY <2>3 DEF StageWritten, RowsOK, ChainRows
    <2>4. SameChain(j) \/ WrittenBy(w, j)
      BY <2>1, <2>2, <2>3 DEF WrittenBy
    <2>5. QED
      BY <2>1, <2>4, QueueLeavesAlone DEF ChainStep
  <1>6. CASE Approve(w)
    <2>1. \/ SameChain(j) /\ UNCHANGED jobsVars
          \/ /\ AutoApproveJob(j, worker[w].token)
             /\ ckpt[j]["CANDIDATE_APPROVAL"] = "PREPARED"
             /\ chain'[j] = [chain[j] EXCEPT !.status = "APPROVED", !.approval = "APPROVED"]
             /\ ckpt'[j] = [ckpt[j] EXCEPT !["CANDIDATE_APPROVAL"] = "SUCCESS"]
      BY <1>6, ApproveWrites
    <2>2. ASSUME AutoApproveJob(j, worker[w].token)
          PROVE  /\ Owned(j, worker[w].token)
                 /\ job'[j].status = "PENDING" /\ job'[j].token = None
      BY <2>2 DEF AutoApproveJob
    <2>3. ASSUME chain'[j] = [chain[j] EXCEPT !.status = "APPROVED", !.approval = "APPROVED"]
          PROVE  chain'[j].late = chain[j].late
      BY <2>3 DEF RowsOK, ChainRows
    <2>4. \/ SameChain(j) /\ UNCHANGED jobsVars
          \/ ApprovedBy(w, j)
      BY <1>6, <2>1, <2>2, <2>3 DEF ApprovedBy, Approve
    <2>5. QED
      BY <2>4, QueueLeavesAlone DEF ChainStep
  <1>7. CASE Terminate(w)
    <2> DEFINE v == worker[w].verdict
    <2>1. \/ SameChain(j) /\ UNCHANGED jobsVars
          \/ /\ Complete(j, worker[w].token, v.status, v.links, v.completed)
             /\ ClosedAs(j, worker[w].tx, v.status)
      BY <1>7, TerminateWrites
    <2>2. ASSUME Complete(j, worker[w].token, v.status, v.links, v.completed),
                 ClosedAs(j, worker[w].tx, v.status)
          PROVE  ClosedBy(w, j)
      <3>1. /\ job'[j].token = None /\ job'[j].status = v.status /\ attempt'[j] = v.status
            /\ job[j].status = "RUNNING" /\ job[j].token = worker[w].token
        BY <2>2 DEF Complete, Owned
      <3>2. v.status \in TerminalStatuses \ {"SUCCESS"}
        BY VerdictIs
      <3>3. Intends(w, "CLOSE")
        BY <1>7 DEF Terminate
      <3>4. QED
        BY <2>2, <3>1, <3>2, <3>3 DEF ClosedBy, Closing
    <2>3. QED
      BY <2>1, <2>2, QueueLeavesAlone DEF ChainStep
  <1>8. CASE ~( \/ Expire(w) \/ Requeue(w) \/ QuarantineStale(w) \/ InsertChain(w)
                \/ InsertCheckpoint(w) \/ CompleteCheckpoint(w) \/ Approve(w) \/ Terminate(w) )
    <2>1. SameChain(j)
      BY <1>8, OtherChains
    <2>2. \/ UNCHANGED jobsVars
          \/ \E i \in Jobs : ClaimNext(i)
          \/ \E t : MarkProviderAttempt(j, t) \/ CheckpointResearchResult(j, t)
          \/ \E t, links, completed : Complete(j, t, "SUCCESS", links, completed)
      <3>1. CASE Looks(w)
        BY <3>1, LooksWriteNothing
      <3>2. CASE Claim(w)
        BY <3>2 DEF Claim
      <3>3. CASE MarkAttempt(w) \/ CallProvider(w) \/ Checkpoint(w) \/ Signal(w) \/ Finish(w)
        BY <3>3 DEF MarkAttempt, CallProvider, Checkpoint, Signal, Finish
      <3>4. QED
        BY <1>8, <3>1, <3>2, <3>3 DEF WorkerStep, Looks
    <2>3. QED
      BY <2>1, <2>2, QueueLeavesAlone DEF ChainStep
  <1>9. QED
    BY <1>1, <1>2, <1>3, <1>4, <1>5, <1>6, <1>7, <1>8

\* Every step does one of these things to the chain of a job.
LEMMA EveryChainStep ==
  ASSUME TypeInv, [Next]_vars, NEW j \in Jobs
  PROVE  ChainStep(j)
  <1>1. ASSUME NEW w \in Workers, WorkerStep(w), j # worker[w].job PROVE LeftAlone(j)
    <2>1. SameChain(j)
      BY <1>1, OtherChains
    <2>2. \/ UNCHANGED jobsVars
          \/ \E i \in Jobs : ClaimNext(i)
          \/ job'[j] = job[j] /\ attempt'[j] = attempt[j]
      <3>1. CASE Looks(w)
        BY <3>1, LooksWriteNothing
      <3>2. CASE Claim(w)
        BY <3>2 DEF Claim
      <3>0. job \in [Jobs -> JobRows] /\ attempt \in [Jobs -> AttemptStatuses]
        BY DEF TypeInv, TypeOK
      <3>a. ASSUME NEW i, i # j, NEW row, NEW status,
                   job' = [job EXCEPT ![i] = row],
                   attempt' = [attempt EXCEPT ![i] = status] \/ UNCHANGED attempt
            PROVE  job'[j] = job[j] /\ attempt'[j] = attempt[j]
        BY <3>0, <3>a
      <3>3. CASE Expire(w)
        <4>1. UNCHANGED jobsVars \/ ExpireStale(worker[w].job)
          BY <3>3 DEF Expire
        <4>2. QED
          BY <1>1, <3>a, <4>1 DEF ExpireStale
      <3>4. CASE Requeue(w) \/ QuarantineStale(w)
        <4>1. \/ UNCHANGED jobsVars
              \/ PrepareStaleRecovery(worker[w].job, worker[w].tx.intent)
              \/ BlockUnrecoverableStale(worker[w].job)
          BY <3>4 DEF Requeue, QuarantineStale
        <4>2. QED
          BY <1>1, <3>a, <4>1 DEF PrepareStaleRecovery, BlockUnrecoverableStale
      <3>5. CASE \/ InsertChain(w) \/ InsertCheckpoint(w) \/ CompleteCheckpoint(w)
                 \/ CallProvider(w) \/ Signal(w)
        BY <3>5 DEF InsertChain, InsertCheckpoint, CompleteCheckpoint, CallProvider, Signal
      <3>6. CASE MarkAttempt(w) \/ Checkpoint(w) \/ Approve(w)
        <4>1. \/ UNCHANGED jobsVars
              \/ MarkProviderAttempt(worker[w].job, worker[w].token)
              \/ CheckpointResearchResult(worker[w].job, worker[w].token)
              \/ AutoApproveJob(worker[w].job, worker[w].token)
          BY <3>6 DEF MarkAttempt, Checkpoint, Approve
        <4>2. QED
          BY <1>1, <3>a, <4>1 DEF MarkProviderAttempt, CheckpointResearchResult, AutoApproveJob
      <3>7. CASE Finish(w) \/ Terminate(w)
        <4>1. \/ UNCHANGED jobsVars
              \/ \E status, links, completed :
                    Complete(worker[w].job, worker[w].token, status, links, completed)
          BY <3>7 DEF Finish, Terminate
        <4>2. ASSUME NEW status, NEW links, NEW completed,
                     Complete(worker[w].job, worker[w].token, status, links, completed)
              PROVE  job'[j] = job[j] /\ attempt'[j] = attempt[j]
          <5>1. \E row : job' = [job EXCEPT ![worker[w].job] = row]
            BY <4>2, Zenon DEF Complete
          <5>2. attempt' = [attempt EXCEPT ![worker[w].job] = status]
            BY <4>2, Zenon DEF Complete
          <5>3. QED
            BY <1>1, <3>a, <5>1, <5>2
        <4>3. QED
          BY <4>1, <4>2
      <3>8. QED
        BY <1>1, <3>1, <3>2, <3>3, <3>4, <3>5, <3>6, <3>7 DEF WorkerStep, Looks
    <2>3. QED
      BY <2>1, <2>2, QueueLeavesAlone DEF LeftAlone
  <1>2. ASSUME NEW w \in Workers, WorkerStep(w) PROVE ChainStep(j)
    BY <1>1, <1>2, OwnChainStep DEF ChainStep
  <1>3. CASE \/ \E w \in Workers : HeartbeatLost(w) \/ Crash(w) \/ Restart(w)
             \/ \E i \in Jobs : AbandonedLeaseLapses(i) \/ HeldLeaseLapses(i)
             \/ OperatorStep
             \/ UNCHANGED vars
    <2>1. CASE \E i \in Jobs : RevokeApproval(i)
      <3>1. \/ SameChain(j)
            \/ /\ chain'[j] = [chain[j] EXCEPT !.status = "BLOCKED", !.approval = "REVOKED"]
               /\ ckpt'[j] = ckpt[j]
        BY <1>3, EnvironmentChains DEF SameChain
      <3>2. UNCHANGED jobsVars
        BY <2>1 DEF RevokeApproval
      <3>3. QED
        BY <3>1, <3>2, QueueLeavesAlone DEF ChainStep, Revoked
    <2>2. CASE ~\E i \in Jobs : RevokeApproval(i)
      <3>1. UNCHANGED <<chain, ckpt>>
        BY <1>3, <2>2 DEF HeartbeatLost, Crash, Restart, AbandonedLeaseLapses, HeldLeaseLapses,
              OperatorStep, QueueRequest, CommitCancel, RetryStale, vars, chainVars
      <3>2. \/ UNCHANGED jobsVars
            \/ \E i \in Jobs : \/ \E kind \in Kinds : Enqueue(i, kind)
                               \/ CancelRead(i) \/ CancelWrite(i) \/ LeaseLapse(i)
                               \/ PrepareStaleRecovery(i, "VALIDATION_RETRY")
            \/ \E p \in BOOLEAN : SetPaused(p)
        BY <1>3, <2>2 DEF HeartbeatLost, Crash, Restart, AbandonedLeaseLapses, HeldLeaseLapses,
              OperatorStep, QueueRequest, CommitCancel, RetryStale, vars
      <3>3. QED
        BY <3>1, <3>2, QueueLeavesAlone DEF ChainStep, SameChain
    <2>3. QED
      BY <2>1, <2>2
  <1>4. QED
    BY <1>2, <1>3 DEF Next

-----------------------------------------------------------------------------
(* What becomes of an open transaction.                                    *)

\* The transaction of v is not open after the step.
TxOver(v) == worker'[v].tx.intent = "NONE"

\* It goes on as it was.
TxKept(v) ==
    /\ worker'[v].tx = worker[v].tx
    /\ worker'[v].job = worker[v].job /\ worker'[v].token = worker[v].token
    /\ \/ worker'[v].pc = worker[v].pc
       \/ At(v, "open") /\ Intends(v, "FENCED") /\ worker'[v].pc = "prepare"

\* It has read the open chain of a job, to close it.
TxCloses(v) ==
    LET i == worker'[v].job  tx == worker'[v].tx IN
    /\ i \in Jobs
    /\ tx.intent = "CLOSE" /\ tx.chain = chain[i].status
    /\ tx.stage \in ChainStages \cup {"NONE"} /\ LatestOpen(i, tx.stage)
    /\ worker'[v].token = job[i].token
    /\ \/ worker[v].pc \in {"audit", "preclaim"} /\ Expirable(i)
       \/ At(v, "terminate") /\ worker'[v].job = worker[v].job
          /\ worker'[v].token = worker[v].token /\ Owned(i, worker[v].token)

\* It has found the branch of recover_one_stale for a job.
TxRecovers(v) ==
    LET i == worker'[v].job  tx == worker'[v].tx IN
    /\ At(v, "recover") /\ i \in Jobs
    /\ tx.intent \in RecoveryModes
    /\ tx.intent \in {RecoveryMode(i), "BLOCK"}

\* It has found the owner's row in order.
TxFenced(v) ==
    /\ worker[v].pc \in {"open", "prepare", "promote", "advance"}
    /\ worker'[v].job = worker[v].job /\ worker'[v].token = worker[v].token
    /\ worker'[v].tx.intent = "FENCED"
    /\ InOrder(v) \/ (At(v, "promote") /\ Intends(v, "INSERT"))

\* It has found nothing where it will insert, or a checkpoint to complete.
TxWillWrite(v) ==
    LET j == worker[v].job  tx == worker'[v].tx IN
    /\ Intends(v, "FENCED")
    /\ worker'[v].job = worker[v].job /\ worker'[v].token = worker[v].token
    /\ \/ At(v, "open") /\ tx.intent = "OPEN" /\ chain[j].status = "NONE"
       \/ /\ At(v, "prepare") /\ tx.intent = "INSERT" /\ tx.stage = "GENERATION"
       \/ /\ At(v, "advance") /\ tx.intent = "INSERT" /\ tx.stage = "CANDIDATE_APPROVAL"
       \/ /\ At(v, "promote") /\ NextCheckpoint(j) # 4
          /\ tx.stage = ResearchStages[NextCheckpoint(j)]
          /\ \/ tx.intent = "INSERT"
             \/ tx.intent = "COMPLETE" /\ ckpt[j][tx.stage] = "PREPARED"

TxLook(v) ==
    /\ UNCHANGED <<jobsVars, chain, ckpt>>
    /\ worker'[v].pc = worker[v].pc
    /\ TxCloses(v) \/ TxRecovers(v) \/ TxFenced(v) \/ TxWillWrite(v)

TxStep(v) == TxOver(v) \/ TxKept(v) \/ TxLook(v)

LEMMA MovesEndTx ==
  ASSUME TypeInv, NEW w \in Workers, NEW v \in Workers,
         \/ \E pc : Goto(w, pc)
         \/ \E status, links, completed : Decide(w, status, links, completed)
         \/ \E pc \in Phases : worker' = [worker EXCEPT ![w] = Unassigned(pc)]
         \/ Return(w) \/ Exit(w)
  PROVE  TxOver(v) \/ TxKept(v)
  <1>0. ProcessesOK
    BY DEF TypeInv
  <1>1. CASE v # w
    BY <1>0, <1>1 DEF TxKept, Goto, Decide, Return, Exit, ProcessesOK
  <1>2. CASE v = w
    <2>1. ASSUME NEW pc, Goto(w, pc) PROVE TxOver(v)
      BY <1>0, <1>2, <2>1, GotoIs, NoTxType DEF TxOver
    <2>2. ASSUME NEW status, NEW links, NEW completed, Decide(w, status, links, completed)
          PROVE  TxOver(v)
      BY <1>0, <1>2, <2>2, NoTxType DEF TxOver, Decide, ProcessesOK, WorkerStates
    <2>3. ASSUME NEW pc \in Phases, worker' = [worker EXCEPT ![w] = Unassigned(pc)]
          PROVE  TxOver(v)
      BY <1>0, <1>2, <2>3, UnassignedType DEF TxOver, ProcessesOK
    <2>4. {"audit", "down"} \subseteq Phases
      BY DEF Phases
    <2>5. QED
      BY <2>1, <2>2, <2>3, <2>4 DEF Return, Exit
  <1>3. QED
    BY <1>1, <1>2

\* A transaction that reads on.
LEMMA LookTx ==
  ASSUME TypeInv, NEW w \in Workers, Looks(w), NEW v \in Workers
  PROVE  TxStep(v)
  <1>0. ProcessesOK /\ UNCHANGED <<jobsVars, chain, ckpt>>
    BY LooksWriteNothing DEF TypeInv, chainVars
  <1>a. \/ \E pc : Goto(w, pc)
        \/ \E status, links, completed : Decide(w, status, links, completed)
        \/ Return(w) \/ Exit(w)
        => TxStep(v)
    BY MovesEndTx DEF TxStep
  <1>b. ASSUME v # w, \E state : worker' = [worker EXCEPT ![w] = state] PROVE TxStep(v)
    BY <1>0, <1>b DEF TxStep, TxKept, ProcessesOK
  <1>c. ASSUME NEW intent, NEW stage, NEW status, Settle(w, intent, stage, status), v # w
        PROVE  TxStep(v)
    BY <1>0, <1>c, SettleIs DEF TxStep, TxKept
  <1>d. ASSUME NEW intent, NEW stage, NEW status, Settle(w, intent, stage, status)
        PROVE  /\ worker'[w].pc = worker[w].pc /\ worker'[w].job = worker[w].job
               /\ worker'[w].token = worker[w].token
               /\ worker'[w].tx.intent = intent /\ worker'[w].tx.stage = stage
    BY <1>0, <1>d DEF ProcessesOK, WorkerStates, Settle
  <1>1. CASE Audit(w)
    <2>1. ASSUME NEW i \in Jobs, NEW s \in ChainStages \cup {"NONE"}, Expirable(i), LatestOpen(i, s),
                 worker' = [worker EXCEPT ![w].job = i, ![w].token = job[i].token,
                    ![w].tx = [intent |-> "CLOSE", stage |-> s, chain |-> chain[i].status]]
          PROVE  TxStep(v)
      <3>1. CASE v # w
        BY <1>0, <2>1, <3>1 DEF TxStep, TxKept, ProcessesOK
      <3>2. CASE v = w
        <4>1. /\ worker'[w].pc = worker[w].pc /\ worker'[w].job = i
              /\ worker'[w].token = job[i].token
              /\ worker'[w].tx = [intent |-> "CLOSE", stage |-> s, chain |-> chain[i].status]
          BY <1>0, <2>1 DEF ProcessesOK, WorkerStates
        <4>2. worker[w].pc \in {"audit", "preclaim"}
          BY <1>1 DEF Audit
        <4>3. TxCloses(w)
          BY <2>1, <4>1, <4>2 DEF TxCloses
        <4>4. QED
          BY <1>0, <3>2, <4>1, <4>3 DEF TxStep, TxLook
      <3>3. QED
        BY <3>1, <3>2
    <2>2. QED
      BY <1>1, <1>a, <2>1 DEF Audit
  <1>2. CASE RecoverStale(w)
    <2>1. ASSUME NEW i \in Jobs, NEW mode \in RecoveryModes, mode \in {RecoveryMode(i), "BLOCK"},
                 worker' = [worker EXCEPT ![w].job = i,
                    ![w].tx = [intent |-> mode, stage |-> "NONE", chain |-> chain[i].status]]
          PROVE  TxStep(v)
      <3>1. CASE v # w
        BY <1>0, <2>1, <3>1 DEF TxStep, TxKept, ProcessesOK
      <3>2. CASE v = w
        <4>1. /\ worker'[w].pc = worker[w].pc /\ worker'[w].job = i
              /\ worker'[w].tx = [intent |-> mode, stage |-> "NONE", chain |-> chain[i].status]
          BY <1>0, <2>1 DEF ProcessesOK, WorkerStates
        <4>2. At(w, "recover")
          BY <1>2 DEF RecoverStale
        <4>3. TxRecovers(w)
          BY <2>1, <4>1, <4>2 DEF TxRecovers
        <4>4. QED
          BY <1>0, <3>2, <4>1, <4>3 DEF TxStep, TxLook
      <3>3. QED
        BY <3>1, <3>2
    <2>2. QED
      BY <1>2, <1>a, <2>1 DEF RecoverStale
  <1>3. CASE Fence(w)
    <2>1. Settle(w, "FENCED", "NONE", "NONE") /\ InOrder(w)
          /\ worker[w].pc \in {"open", "prepare", "promote", "advance"}
      BY <1>3 DEF Fence
    <2>2. CASE v = w
      BY <1>0, <2>1, <2>2, SettleIs DEF TxStep, TxLook, TxFenced
    <2>3. QED
      BY <1>c, <2>1, <2>2
  <1>4. CASE OpenChain(w)
    <2>1. ASSUME Intends(w, "FENCED"), chain[worker[w].job].status = "NONE",
                 Settle(w, "OPEN", "NONE", "NONE")
          PROVE  TxStep(v)
      <3>1. CASE v = w
        <4>1. At(w, "open")
          BY <1>4 DEF OpenChain
        <4>2. /\ worker'[w].pc = worker[w].pc /\ worker'[w].job = worker[w].job
              /\ worker'[w].token = worker[w].token
              /\ worker'[w].tx.intent = "OPEN" /\ worker'[w].tx.stage = "NONE"
          BY <2>1, <1>d
        <4>3. TxWillWrite(w)
          BY <2>1, <4>1, <4>2 DEF TxWillWrite
        <4>4. QED
          BY <1>0, <3>1, <4>2, <4>3 DEF TxStep, TxLook
      <3>2. QED
        BY <1>c, <2>1, <3>1
    <2>2. ASSUME Intends(w, "FENCED"), worker' = [worker EXCEPT ![w].pc = "prepare"] PROVE TxStep(v)
      BY <1>0, <1>4, <2>2 DEF OpenChain, TxStep, TxKept, ProcessesOK, WorkerStates
    <2>3. QED
      BY <1>4, <1>a, <2>1, <2>2 DEF OpenChain
  <1>5. CASE PrepareGeneration(w)
    <2>1. ASSUME Intends(w, "FENCED"), Settle(w, "INSERT", "GENERATION", "NONE")
          PROVE  TxStep(v)
      <3>1. CASE v = w
        <4>1. At(w, "prepare")
          BY <1>5 DEF PrepareGeneration
        <4>2. /\ worker'[w].pc = worker[w].pc /\ worker'[w].job = worker[w].job
              /\ worker'[w].token = worker[w].token
              /\ worker'[w].tx.intent = "INSERT" /\ worker'[w].tx.stage = "GENERATION"
          BY <2>1, <1>d
        <4>3. TxWillWrite(w)
          BY <2>1, <4>1, <4>2 DEF TxWillWrite
        <4>4. QED
          BY <1>0, <3>1, <4>2, <4>3 DEF TxStep, TxLook
      <3>2. QED
        BY <1>c, <2>1, <3>1
    <2>2. \/ \E pc : Goto(w, pc)
          \/ Decide(w, "BLOCKED", FALSE, FALSE) \/ Exit(w)
          \/ Intends(w, "FENCED") /\ Settle(w, "INSERT", "GENERATION", "NONE")
      BY <1>5 DEF PrepareGeneration
    <2>3. QED
      BY <1>a, <2>1, <2>2
  <1>6. CASE Promote(w)
    <2> DEFINE i == NextCheckpoint(worker[w].job)
    <2>1. ASSUME i # 4, Intends(w, "FENCED"),
                 \/ Settle(w, "INSERT", ResearchStages[i], "NONE")
                 \/ /\ ckpt[worker[w].job][ResearchStages[i]] = "PREPARED"
                    /\ Settle(w, "COMPLETE", ResearchStages[i], "NONE")
          PROVE  TxStep(v)
      <3>1. CASE v = w
        <4>1. At(w, "promote")
          BY <1>6 DEF Promote
        <4>2. /\ worker'[w].pc = worker[w].pc /\ worker'[w].job = worker[w].job
              /\ worker'[w].token = worker[w].token
              /\ worker'[w].tx.stage = ResearchStages[i]
              /\ \/ worker'[w].tx.intent = "INSERT"
                 \/ /\ worker'[w].tx.intent = "COMPLETE"
                    /\ ckpt[worker[w].job][ResearchStages[i]] = "PREPARED"
          BY <2>1, <1>d
        <4>3. TxWillWrite(w)
          BY <2>1, <4>1, <4>2 DEF TxWillWrite
        <4>4. QED
          BY <1>0, <3>1, <4>2, <4>3 DEF TxStep, TxLook
      <3>2. QED
        BY <1>c, <2>1, <3>1
    <2>2. \/ \E pc : Goto(w, pc)
          \/ \E status, links, completed : Decide(w, status, links, completed)
          \/ /\ i # 4 /\ Intends(w, "FENCED")
             /\ \/ Settle(w, "INSERT", ResearchStages[i], "NONE")
                \/ /\ ckpt[worker[w].job][ResearchStages[i]] = "PREPARED"
                   /\ Settle(w, "COMPLETE", ResearchStages[i], "NONE")
      BY <1>6, Zenon DEF Promote
    <2>3. QED
      BY <1>a, <2>1, <2>2
  <1>7. CASE Advance(w)
    <2>1. ASSUME Intends(w, "FENCED"), Settle(w, "INSERT", "CANDIDATE_APPROVAL", "NONE")
          PROVE  TxStep(v)
      <3>1. CASE v = w
        <4>1. At(w, "advance")
          BY <1>7 DEF Advance
        <4>2. /\ worker'[w].pc = worker[w].pc /\ worker'[w].job = worker[w].job
              /\ worker'[w].token = worker[w].token
              /\ worker'[w].tx.intent = "INSERT" /\ worker'[w].tx.stage = "CANDIDATE_APPROVAL"
          BY <2>1, <1>d
        <4>3. TxWillWrite(w)
          BY <2>1, <4>1, <4>2 DEF TxWillWrite
        <4>4. QED
          BY <1>0, <3>1, <4>2, <4>3 DEF TxStep, TxLook
      <3>2. QED
        BY <1>c, <2>1, <3>1
    <2>2. \/ \E pc : Goto(w, pc)
          \/ \E status, links, completed : Decide(w, status, links, completed)
          \/ Return(w)
          \/ Intends(w, "FENCED") /\ Settle(w, "INSERT", "CANDIDATE_APPROVAL", "NONE")
      BY <1>7, Zenon DEF Advance
    <2>3. QED
      BY <1>a, <2>1, <2>2
  <1>8. CASE Terminalize(w)
    <2>1. ASSUME NEW s \in ChainStages \cup {"NONE"}, LatestOpen(worker[w].job, s),
                 Owned(worker[w].job, worker[w].token),
                 Settle(w, "CLOSE", s, chain[worker[w].job].status)
          PROVE  TxStep(v)
      <3>1. CASE v = w
        <4>1. At(w, "terminate") /\ worker[w].job \in Jobs
          BY <1>0, <1>8 DEF Terminalize, ProcessesOK, Assigned, At, OwnerPhases
        <4>2. worker'[w].pc = worker[w].pc
              /\ worker'[w].job = worker[w].job /\ worker'[w].token = worker[w].token
              /\ worker'[w].tx = [intent |-> "CLOSE", stage |-> s,
                                  chain |-> chain[worker[w].job].status]
          BY <1>0, <2>1, SettleIs
        <4>3. TxCloses(w)
          BY <2>1, <4>1, <4>2 DEF TxCloses, Owned
        <4>4. QED
          BY <1>0, <3>1, <4>2, <4>3 DEF TxStep, TxLook
      <3>2. QED
        BY <1>c, <2>1, <3>1
    <2>2. \/ Return(w) \/ Exit(w)
          \/ \E s \in ChainStages \cup {"NONE"} :
                /\ LatestOpen(worker[w].job, s) /\ Owned(worker[w].job, worker[w].token)
                /\ Settle(w, "CLOSE", s, chain[worker[w].job].status)
      BY <1>8, Zenon DEF Terminalize
    <2>3. QED
      BY <1>a, <2>1, <2>2
  <1>9. CASE Start(w) \/ CallRaises(w) \/ CallReturns(w) \/ Validate(w) \/ Restart(w)
    BY <1>9, <1>a DEF Start, CallRaises, CallReturns, Validate, Restart
  <1>10. CASE HeartbeatLost(w)
    BY <1>0, <1>10 DEF HeartbeatLost, TxStep, TxKept, ProcessesOK, WorkerStates
  <1>11. QED
    BY <1>1, <1>2, <1>3, <1>4, <1>5, <1>6, <1>7, <1>8, <1>9, <1>10 DEF Looks

\* Every step ends a transaction, leaves it, or reads on.
LEMMA EveryTxStep ==
  ASSUME TypeInv, [Next]_vars, NEW v \in Workers
  PROVE  TxStep(v)
  <1>0. ProcessesOK
    BY DEF TypeInv
  <1>a. ASSUME NEW w \in Workers,
               \/ \E pc : Goto(w, pc)
               \/ \E status, links, completed : Decide(w, status, links, completed)
               \/ \E pc \in Phases : worker' = [worker EXCEPT ![w] = Unassigned(pc)]
               \/ Return(w) \/ Exit(w)
        PROVE  TxStep(v)
    BY <1>a, MovesEndTx DEF TxStep
  <1>1. ASSUME NEW w \in Workers, Looks(w) PROVE TxStep(v)
    BY <1>1, LookTx
  <1>2. ASSUME NEW w \in Workers, Expire(w) PROVE TxStep(v)
    BY <1>a, <1>2 DEF Expire, AfterAudit, Phases
  <1>3. ASSUME NEW w \in Workers, Requeue(w) PROVE TxStep(v)
    <2>1. ASSUME Settle(w, "BLOCK", "NONE", chain[worker[w].job].status),
                 UNCHANGED <<jobsVars, chain, ckpt>>
          PROVE  TxStep(v)
      <3>1. CASE v = w
        <4>1. /\ worker'[w].pc = worker[w].pc /\ worker'[w].job = worker[w].job
              /\ worker'[w].tx.intent = "BLOCK"
          BY <1>0, <2>1, SettleIs
        <4>2. At(w, "recover") /\ worker[w].job \in Jobs
          BY <1>0, <1>3 DEF Requeue, ProcessesOK, Assigned, RecoveryModes
        <4>3. TxRecovers(w)
          BY <4>1, <4>2 DEF TxRecovers, RecoveryModes
        <4>4. QED
          BY <2>1, <3>1, <4>1, <4>3 DEF TxStep, TxLook
      <3>2. CASE v # w
        BY <1>0, <2>1, <3>2, SettleIs DEF TxStep, TxKept
      <3>3. QED
        BY <3>1, <3>2
    <2>2. CASE worker' = [worker EXCEPT ![w] = Unassigned("preclaim")]
      BY <1>a, <2>2 DEF Phases
    <2>3. QED
      BY <1>3, <2>1, <2>2 DEF Requeue
  <1>4. ASSUME NEW w \in Workers, QuarantineStale(w) PROVE TxStep(v)
    BY <1>a, <1>4 DEF QuarantineStale, Phases
  <1>5. ASSUME NEW w \in Workers, Claim(w) PROVE TxStep(v)
    <2>1. ASSUME NEW i \in Jobs,
                 worker' = [worker EXCEPT ![w] =
                    [Unassigned("start") EXCEPT !.job = i, !.token = issued + 1]]
          PROVE  TxStep(v)
      <3>1. [Unassigned("start") EXCEPT !.job = i, !.token = issued + 1].tx.intent = "NONE"
        BY NoTxType DEF Unassigned
      <3>2. QED
        BY <1>0, <2>1, <3>1 DEF ProcessesOK, TxStep, TxKept, TxOver
    <2>2. QED
      BY <1>5, <1>a, <2>1 DEF Claim
  <1>6. ASSUME NEW w \in Workers, InsertCheckpoint(w) PROVE TxStep(v)
    <2>1. ASSUME Settle(w, "FENCED", "NONE", "NONE"), UNCHANGED <<chain, ckpt>>, At(w, "promote")
          PROVE  TxStep(v)
      <3>1. CASE v = w
        <4>1. TxFenced(w) /\ worker'[w].pc = worker[w].pc
          BY <1>0, <1>6, <2>1, SettleIs DEF InsertCheckpoint, TxFenced, At
        <4>2. UNCHANGED jobsVars
          BY <1>6 DEF InsertCheckpoint
        <4>3. QED
          BY <2>1, <3>1, <4>1, <4>2 DEF TxStep, TxLook
      <3>2. CASE v # w
        BY <1>0, <2>1, <3>2, SettleIs DEF TxStep, TxKept
      <3>3. QED
        BY <3>1, <3>2
    <2>2. \/ \E pc : Goto(w, pc)
          \/ \E status, links, completed : Decide(w, status, links, completed)
          \/ Exit(w)
          \/ Settle(w, "FENCED", "NONE", "NONE") /\ UNCHANGED <<chain, ckpt>> /\ At(w, "promote")
      BY <1>6, Zenon DEF InsertCheckpoint
    <2>3. QED
      BY <1>a, <2>1, <2>2
  <1>7. ASSUME NEW w \in Workers,
               \/ InsertChain(w) \/ CompleteCheckpoint(w) \/ MarkAttempt(w) \/ CallProvider(w)
               \/ Finish(w) \/ Terminate(w) \/ Crash(w)
        PROVE  TxStep(v)
    <2>1. \/ \E pc : Goto(w, pc)
          \/ \E status, links, completed : Decide(w, status, links, completed)
          \/ Return(w) \/ Exit(w)
      BY <1>7, Zenon DEF InsertChain, CompleteCheckpoint, MarkAttempt, CallProvider, Finish,
            Terminate, Crash
    <2>2. QED
      BY <1>a, <2>1
  <1>8. ASSUME NEW w \in Workers, Checkpoint(w) \/ Approve(w) \/ Signal(w) PROVE TxStep(v)
    <2>1. \/ \E pc : Goto(w, pc)
          \/ \E status, links, completed : Decide(w, status, links, completed)
          \/ Return(w)
      BY <1>8, Zenon DEF Checkpoint, Approve, Signal
    <2>2. QED
      BY <1>a, <2>1
  <1>9. CASE \/ UNCHANGED vars \/ OperatorStep
             \/ \E j \in Jobs : AbandonedLeaseLapses(j) \/ HeldLeaseLapses(j)
    <2>1. UNCHANGED worker
      BY <1>9 DEF AbandonedLeaseLapses, HeldLeaseLapses, vars, OperatorStep, QueueRequest,
                  CommitCancel, RetryStale, RevokeApproval
    <2>2. QED
      BY <2>1 DEF TxStep, TxKept
  <1>10. QED
    BY <1>1, <1>2, <1>3, <1>4, <1>5, <1>6, <1>7, <1>8, <1>9 DEF Next, WorkerStep, Looks

\* The intents a phase knows.
IntentsAt(pc) ==
    CASE pc = "open" -> {"NONE", "FENCED", "OPEN"}
      [] pc \in {"prepare", "advance"} -> {"NONE", "FENCED", "INSERT"}
      [] pc = "promote" -> {"NONE", "FENCED", "INSERT", "COMPLETE"}
      [] pc \in {"audit", "preclaim", "terminate"} -> {"NONE", "CLOSE"}
      [] pc = "recover" -> {"NONE"} \cup RecoveryModes
      [] OTHER -> {"NONE"}

\* A transaction is about a checkpoint of its phase, and writes over none but what it has read.
IntentOK(v) ==
    LET tx == worker[v].tx IN
    /\ tx.intent \in IntentsAt(worker[v].pc)
    /\ tx.intent \in {"INSERT", "COMPLETE"} =>
          /\ tx.stage \in ChainStages
          /\ tx.stage = "CANDIDATE_APPROVAL" <=> At(v, "advance")
    /\ tx.intent \in {"COMPLETE", "CLOSE"} /\ tx.stage # "NONE" =>
          tx.stage \in ChainStages /\ ckpt[worker[v].job][tx.stage] # "NONE"

IntentInv == \A v \in Workers : IntentOK(v)

LEMMA IntentStep == TypeInv /\ IntentInv /\ [Next]_vars => IntentInv'
  <1> SUFFICES ASSUME TypeInv, IntentInv, [Next]_vars, NEW v \in Workers
               PROVE  IntentOK(v)'
    BY DEF IntentInv
  <1> DEFINE tx == worker'[v].tx
             i == worker'[v].job
  <1>0. TxStep(v) /\ Lasting /\ IntentOK(v)
    BY EveryTxStep, EverythingLasts DEF IntentInv
  <1>a. worker[v].tx.intent # "NONE" => worker[v].job \in Jobs
    BY DEF TypeInv, ProcessesOK, Assigned
  <1>1. CASE TxOver(v)
    BY <1>1 DEF TxOver, IntentOK, IntentsAt
  <1>2. CASE TxKept(v)
    <2>1. /\ tx.intent \in {"COMPLETE", "CLOSE"} /\ tx.stage # "NONE" =>
                tx.stage \in ChainStages /\ ckpt'[worker'[v].job][tx.stage] # "NONE"
      BY <1>0, <1>a, <1>2 DEF TxKept, IntentOK, Lasting
    <2>2. CASE worker'[v].pc = worker[v].pc
      BY <1>0, <1>2, <2>1, <2>2 DEF TxKept, IntentOK, At
    <2>3. CASE At(v, "open") /\ Intends(v, "FENCED") /\ worker'[v].pc = "prepare"
      BY <1>2, <2>3 DEF TxKept, IntentOK, Intends, IntentsAt
    <2>4. QED
      BY <1>2, <2>2, <2>3 DEF TxKept
  <1>3. CASE TxLook(v)
    <2>0. worker'[v].pc = worker[v].pc /\ UNCHANGED ckpt
      BY <1>3 DEF TxLook
    <2>1. CASE TxCloses(v)
      <3>1. /\ tx.intent = "CLOSE"
            /\ tx.stage # "NONE" => ckpt[i][tx.stage] # "NONE"
            /\ tx.stage \in ChainStages \cup {"NONE"}
        BY <2>1 DEF TxCloses, LatestOpen
      <3>2. worker'[v].pc \in {"audit", "preclaim", "terminate"}
        BY <2>0, <2>1 DEF TxCloses, At
      <3>3. QED
        BY <2>0, <3>1, <3>2 DEF IntentOK, IntentsAt
    <2>2. CASE TxRecovers(v)
      BY <2>0, <2>2 DEF TxRecovers, IntentOK, IntentsAt, At, RecoveryModes
    <2>3. CASE TxFenced(v)
      BY <2>0, <2>3 DEF TxFenced, IntentOK, IntentsAt
    <2>4. CASE TxWillWrite(v)
      <3>0. worker[v].job \in Jobs
        BY <1>a, <2>4 DEF TxWillWrite, Intends
      <3>1. CASE At(v, "promote")
        <4>1. /\ tx.stage = ResearchStages[NextCheckpoint(worker[v].job)]
              /\ NextCheckpoint(worker[v].job) # 4
              /\ \/ tx.intent = "INSERT"
                 \/ tx.intent = "COMPLETE" /\ ckpt[worker[v].job][tx.stage] = "PREPARED"
              /\ worker'[v].job = worker[v].job
          BY <2>4, <3>1 DEF TxWillWrite, At
        <4>2. tx.stage \in ChainStages \ {"CANDIDATE_APPROVAL"}
          BY <3>0, <4>1, NextCheckpointIs, StageNamesOfChain
        <4>3. QED
          BY <2>0, <3>1, <4>1, <4>2 DEF IntentOK, IntentsAt, At
      <3>2. CASE ~At(v, "promote")
        BY <2>0, <2>4, <3>2 DEF TxWillWrite, IntentOK, IntentsAt, At, ChainStages
      <3>3. QED
        BY <3>1, <3>2
    <2>5. QED
      BY <1>3, <2>1, <2>2, <2>3, <2>4 DEF TxLook
  <1>4. QED
    BY <1>0, <1>1, <1>2, <1>3 DEF TxStep

LEMMA IntentsHold == Spec => []IntentInv
  <1>1. Init => IntentInv
    BY DEF Init, IntentInv, IntentOK, IntentsAt, Unassigned, NoTx
  <1>2. QED
    BY <1>1, IntentStep, TypesHold, PTL DEF Spec

-----------------------------------------------------------------------------
(* What a former owner may still do.                                       *)

\* A step of a process is of no other process.
LEMMA OneProcess ==
  ASSUME TypeInv, NEW w \in Workers, NEW v \in Workers, v # w,
         WorkerStep(w) \/ HeartbeatLost(w) \/ Crash(w) \/ Restart(w)
  PROVE  worker'[v] = worker[v]
  <1> USE DEF TypeInv, ProcessesOK
  <1>1. ASSUME NEW pc, Goto(w, pc) PROVE worker'[v] = worker[v]
    BY <1>1 DEF Goto
  <1>2. ASSUME NEW intent, NEW stage, NEW status, Settle(w, intent, stage, status)
        PROVE  worker'[v] = worker[v]
    BY <1>2 DEF Settle
  <1>3. ASSUME NEW status, NEW links, NEW completed, Decide(w, status, links, completed)
        PROVE  worker'[v] = worker[v]
    BY <1>3 DEF Decide
  <1>4. ASSUME NEW state, worker' = [worker EXCEPT ![w] = state] PROVE worker'[v] = worker[v]
    BY <1>4
  <1>5. ASSUME Return(w) \/ Exit(w) PROVE worker'[v] = worker[v]
    BY <1>5 DEF Return, Exit
  <1>6. CASE Audit(w)
    BY <1>6, <1>1 DEF Audit
  <1>7. CASE RecoverStale(w)
    BY <1>7, <1>1 DEF RecoverStale
  <1>8. CASE Expire(w) \/ Requeue(w) \/ QuarantineStale(w) \/ Claim(w)
    BY <1>8, <1>2, <1>4, <1>5 DEF Expire, Requeue, QuarantineStale, Claim
  <1>9. CASE Start(w) \/ CallRaises(w) \/ CallReturns(w) \/ Validate(w) \/ Restart(w) \/ Crash(w)
    BY <1>9, <1>1, <1>3, <1>5 DEF Start, CallRaises, CallReturns, Validate, Restart, Crash
  <1>10. CASE Fence(w) \/ PrepareGeneration(w)
    BY <1>10, <1>1, <1>2, <1>3, <1>5 DEF Fence, PrepareGeneration
  <1>11. CASE OpenChain(w)
    BY <1>11, <1>1, <1>2, <1>5 DEF OpenChain
  <1>12. CASE InsertChain(w) \/ CompleteCheckpoint(w) \/ MarkAttempt(w) \/ CallProvider(w)
    BY <1>12, <1>1, <1>5 DEF InsertChain, CompleteCheckpoint, MarkAttempt, CallProvider
  <1>13. CASE InsertCheckpoint(w)
    BY <1>13, <1>1, <1>2, <1>3, <1>5 DEF InsertCheckpoint
  <1>14. CASE Checkpoint(w) \/ Signal(w) \/ Finish(w)
    BY <1>14, <1>1, <1>3, <1>5 DEF Checkpoint, Signal, Finish
  <1>15. CASE Promote(w)
    BY <1>15, <1>1, <1>2, <1>3 DEF Promote
  <1>16. CASE Advance(w)
    BY <1>16, <1>1, <1>2, <1>3, <1>5 DEF Advance
  <1>17. CASE Approve(w)
    BY <1>17, <1>3, <1>5 DEF Approve
  <1>18. CASE Terminalize(w) \/ Terminate(w)
    BY <1>18, <1>2, <1>5 DEF Terminalize, Terminate
  <1>19. CASE HeartbeatLost(w)
    BY <1>19 DEF HeartbeatLost
  <1>20. QED
    BY <1>6, <1>7, <1>8, <1>9, <1>10, <1>11, <1>12, <1>13, <1>14, <1>15, <1>16, <1>17, <1>18, <1>19
    DEF WorkerStep

\* What a former owner leaves alone.
Harmless ==
    UNCHANGED <<jobsVars, chain, ckpt, deployed>>

\* What it may do to its own chain.
Limited(w) ==
    LET o == worker[w].job IN
    /\ UNCHANGED <<jobsVars, deployed>>
    /\ Intends(w, "NONE") => UNCHANGED <<chain, ckpt>>
    /\ chain'[o].status # chain[o].status => chain[o].status = "NONE"
    /\ chain'[o].approval = chain[o].approval
    /\ \A s \in ChainStages : LateWrite(ckpt[o][s], ckpt'[o][s])
    /\ ckpt'[o]["CANDIDATE_APPROVAL"] = "SUCCESS" => ckpt[o]["CANDIDATE_APPROVAL"] = "SUCCESS"
    /\ \A j \in Jobs \ {o} : chain'[j] = chain[j] /\ ckpt'[j] = ckpt[j]

LEMMA FormerOwnerStep ==
  ASSUME TypeInv, IntentInv, NEW w \in Workers, Former(w), WorkerStep(w) \/ HeartbeatLost(w) \/ Crash(w)
  PROVE  Limited(w)
  <1> DEFINE o == worker[w].job
  <1>0. /\ o \in Jobs /\ worker[w].pc \in OwnerPhases /\ ~Owned(o, worker[w].token)
        /\ RowsOK /\ IntentOK(w)
    BY DEF TypeInv, ProcessesOK, Assigned, Former, Owned, IntentInv
  <1>1. Harmless => Limited(w)
    BY DEF Harmless, Limited, LateWrite
  <1>2. CASE Looks(w) \/ Crash(w)
    BY <1>1, <1>2, LooksWriteNothing DEF Crash, Harmless, chainVars
  <1>3. CASE Expire(w) \/ Requeue(w) \/ QuarantineStale(w) \/ Claim(w)
    BY <1>0, <1>3 DEF Expire, Requeue, QuarantineStale, Claim, At, OwnerPhases
  <1>4. CASE CallProvider(w) \/ MarkAttempt(w) \/ Checkpoint(w)
    BY <1>0, <1>1, <1>4 DEF CallProvider, MarkAttempt, MarkProviderAttempt, Checkpoint,
        CheckpointResearchResult, Harmless, chainVars
  <1>5. CASE Approve(w) \/ Terminate(w)
    BY <1>0, <1>1, <1>5 DEF Approve, AutoApproveJob, Terminate, Complete, Harmless
  <1>6. CASE Signal(w) \/ Finish(w)
    BY <1>0, <1>1, <1>6 DEF Signal, Finish, Complete, Harmless, chainVars
  <1>7. CASE InsertChain(w)
    <2>1. UNCHANGED <<jobsVars, ckpt, deployed>> /\ ~Intends(w, "NONE")
      BY <1>7 DEF InsertChain, Intends
    <2>2. CASE UNCHANGED chain
      BY <1>1, <2>1, <2>2 DEF Harmless
    <2>3. CASE /\ chain[o].status = "NONE"
               /\ chain' = [chain EXCEPT ![o].status = "RUNNING", ![o].late = Landed(w)]
      <3>1. chain'[o].approval = chain[o].approval /\ \A j \in Jobs \ {o} : chain'[j] = chain[j]
        BY <1>0, <2>3 DEF RowsOK, ChainRows
      <3>2. QED
        BY <2>1, <2>3, <3>1 DEF Limited, LateWrite
    <2>4. QED
      BY <1>7, <2>2, <2>3 DEF InsertChain
  <1>8. CASE InsertCheckpoint(w) \/ CompleteCheckpoint(w)
    <2> DEFINE s == worker[w].tx.stage
    <2>1. /\ UNCHANGED <<jobsVars, deployed>> /\ ~Intends(w, "NONE")
          /\ worker[w].tx.intent \in {"INSERT", "COMPLETE"}
      BY <1>8 DEF InsertCheckpoint, CompleteCheckpoint, Intends
    <2>2. \A j \in Jobs \ {o} : chain'[j] = chain[j] /\ ckpt'[j] = ckpt[j]
      BY <1>8, OtherChains DEF SameChain, WorkerStep
    <2>3. CASE SameChain(o)
      BY <2>1, <2>2, <2>3 DEF SameChain, Limited, LateWrite
    <2>4. ASSUME NEW status, StageWritten(w, o, status),
                 \/ status = "SUCCESS" /\ s # "CANDIDATE_APPROVAL"
                 \/ status = "PREPARED" /\ ckpt[o][s] = "NONE"
          PROVE  Limited(w)
      <3>1. chain'[o].status = chain[o].status /\ chain'[o].approval = chain[o].approval
        BY <1>0, <2>4 DEF StageWritten, RowsOK, ChainRows
      <3>2. \A t \in ChainStages : ckpt'[o][t] = IF t = s THEN status ELSE ckpt[o][t]
        BY <1>0, <2>4 DEF StageWritten, RowsOK
      <3>3. /\ \A t \in ChainStages : LateWrite(ckpt[o][t], ckpt'[o][t])
            /\ ckpt'[o]["CANDIDATE_APPROVAL"] = "SUCCESS"
                 => ckpt[o]["CANDIDATE_APPROVAL"] = "SUCCESS"
        BY <2>4, <3>2 DEF LateWrite, ChainStages
      <3>4. QED
        BY <2>1, <2>2, <3>1, <3>3 DEF Limited
    <2>5. CASE CompleteCheckpoint(w)
      <3>1. s # "CANDIDATE_APPROVAL"
        BY <1>0, <2>5 DEF CompleteCheckpoint, IntentOK, Intends, At
      <3>2. QED
        BY <1>0, <2>4, <2>5, <3>1, CompleteWrites
    <2>6. CASE InsertCheckpoint(w)
      BY <1>0, <2>3, <2>4, <2>6, InsertWrites
    <2>7. QED
      BY <1>8, <2>5, <2>6
  <1>9. QED
    BY <1>2, <1>3, <1>4, <1>5, <1>6, <1>7, <1>8 DEF WorkerStep, Looks

\* A worker that has lost its lease, in whatever it was doing, writes nothing of the queue,
\* of an approval or of a deployment, begins nothing, and finishes at most the one write
\* on its own chain that it had begun as the owner.
THEOREM FormerOwnersAreContained == Spec => LateWritesAreContained
  <1>1. ASSUME TypeInv, IntentInv, [Next]_vars
        PROVE  \A w \in Workers : Former(w) /\ worker'[w] # worker[w] =>
                 LET o == worker[w].job IN
                 /\ UNCHANGED <<jobsVars, deployed>>
                 /\ Intends(w, "NONE") =>
                     /\ worker'[w].tx.intent = "NONE"
                     /\ UNCHANGED <<chain, ckpt>>
                 /\ chain'[o].status # chain[o].status => chain[o].status = "NONE"
                 /\ chain'[o].approval = chain[o].approval
                 /\ \A s \in ChainStages : LateWrite(ckpt[o][s], ckpt'[o][s])
                 /\ ckpt'[o]["CANDIDATE_APPROVAL"] = "SUCCESS"
                     => ckpt[o]["CANDIDATE_APPROVAL"] = "SUCCESS"
                 /\ \A j \in Jobs \ {o} : chain'[j] = chain[j] /\ ckpt'[j] = ckpt[j]
    <2> SUFFICES ASSUME NEW w \in Workers, Former(w), worker'[w] # worker[w]
                 PROVE  Limited(w) /\ (Intends(w, "NONE") => worker'[w].tx.intent = "NONE")
      BY DEF Limited
    <2>1. WorkerStep(w) \/ HeartbeatLost(w) \/ Crash(w)
      <3>1. ~UNCHANGED worker
        OBVIOUS
      <3>2. ~Restart(w)
        BY DEF Former, Restart, At, OwnerPhases
      <3>3. \E v \in Workers : WorkerStep(v) \/ HeartbeatLost(v) \/ Crash(v) \/ Restart(v)
        BY <1>1, <3>1 DEF Next, AbandonedLeaseLapses, HeldLeaseLapses, vars, OperatorStep,
                          QueueRequest, CommitCancel, RetryStale, RevokeApproval
      <3>4. QED
        BY <1>1, <3>2, <3>3, OneProcess
    <2>2. Limited(w)
      BY <1>1, <2>1, FormerOwnerStep
    <2>3. ASSUME Intends(w, "NONE") PROVE worker'[w].tx.intent = "NONE"
      <3>1. ~Owned(worker[w].job, worker[w].token) /\ worker[w].pc \in OwnerPhases
        BY DEF Former, Owned
      <3>2. ~TxLook(w)
        BY <2>3, <3>1 DEF TxLook, TxCloses, TxRecovers, TxFenced, TxWillWrite, Intends, At,
                          OwnerPhases, InOrder, OwnsUncancelled
      <3>3. QED
        BY <1>1, <2>3, <3>2, EveryTxStep DEF TxStep, TxOver, TxKept, Intends
    <2>4. QED
      BY <2>2, <2>3
  <1>2. QED
    BY <1>1, TypesHold, IntentsHold, PTL DEF Spec, LateWritesAreContained

-----------------------------------------------------------------------------
(* Tokens.  A token is current once: it leaves its row, and never returns. *)

\* What a step may do to the token of a row.
TokenMoves(j) ==
    \/ job'[j].token = job[j].token /\ (job'[j].live => job[j].live)
    \/ job'[j].token = None
    \/ job'[j].token = issued + 1 /\ issued' = issued + 1

LEMMA TokenStep ==
  ASSUME TypeOK, [JobsNext]_jobsVars, NEW j \in Jobs
  PROVE  TokenMoves(j) /\ issued' >= issued
  <1> USE DEF TypeOK, JobRows, TokenMoves
  <1>1. ASSUME NEW i \in Jobs, NEW kind \in Kinds, Enqueue(i, kind)
        PROVE  TokenMoves(j) /\ issued' >= issued
    BY <1>1 DEF Enqueue
  <1>2. ASSUME NEW p \in BOOLEAN, SetPaused(p) PROVE TokenMoves(j) /\ issued' >= issued
    BY <1>2 DEF SetPaused
  <1>3. ASSUME NEW i \in Jobs, CancelRead(i) PROVE TokenMoves(j) /\ issued' >= issued
    BY <1>3 DEF CancelRead
  <1>4. ASSUME NEW i \in Jobs, CancelWrite(i) PROVE TokenMoves(j) /\ issued' >= issued
    BY <1>4 DEF CancelWrite
  <1>5. ASSUME NEW i \in Jobs, ClaimNext(i) PROVE TokenMoves(j) /\ issued' >= issued
    BY <1>5 DEF ClaimNext
  <1>6. ASSUME NEW i \in Jobs, LeaseLapse(i) PROVE TokenMoves(j) /\ issued' >= issued
    BY <1>6 DEF LeaseLapse
  <1>7. ASSUME NEW i \in Jobs, ExpireStale(i) PROVE TokenMoves(j) /\ issued' >= issued
    BY <1>7 DEF ExpireStale
  <1>8. ASSUME NEW i \in Jobs, NEW t \in Tokens, OwnerStep(i, t)
        PROVE  TokenMoves(j) /\ issued' >= issued
    <2>1. ASSUME NEW status \in TerminalStatuses, NEW links \in BOOLEAN,
                 NEW completed \in BOOLEAN, Complete(i, t, status, links, completed)
          PROVE  TokenMoves(j) /\ issued' >= issued
      BY <2>1 DEF Complete
    <2>2. CASE MarkProviderAttempt(i, t)
      BY <2>2 DEF MarkProviderAttempt
    <2>3. CASE CheckpointResearchResult(i, t)
      BY <2>3 DEF CheckpointResearchResult
    <2>4. CASE WaitForCandidateApproval(i, t)
      BY <2>4 DEF WaitForCandidateApproval
    <2>5. CASE AutoApproveJob(i, t)
      BY <2>5 DEF AutoApproveJob
    <2>6. CASE CancelAtCheckpoint(i, t)
      BY <2>1, <2>6 DEF CancelAtCheckpoint, TerminalStatuses
    <2>7. QED
      BY <1>8, <2>1, <2>2, <2>3, <2>4, <2>5, <2>6 DEF OwnerStep
  <1>9. ASSUME NEW i \in Jobs, IdleStep(i) PROVE TokenMoves(j) /\ issued' >= issued
    <2>1. CASE ResumeAfterCandidateApproval(i)
      BY <2>1 DEF ResumeAfterCandidateApproval
    <2>2. CASE BlockWaitingCandidateApproval(i)
      BY <2>2 DEF BlockWaitingCandidateApproval
    <2>3. ASSUME NEW stage \in RecoveryStages, PrepareStaleRecovery(i, stage)
          PROVE  TokenMoves(j) /\ issued' >= issued
      BY <2>3 DEF PrepareStaleRecovery
    <2>4. CASE BlockUnrecoverableStale(i)
      BY <2>4 DEF BlockUnrecoverableStale
    <2>5. QED
      BY <1>9, <2>1, <2>2, <2>3, <2>4 DEF IdleStep
  <1>10. CASE UNCHANGED jobsVars
    BY <1>10 DEF jobsVars
  <1>11. QED
    BY <1>1, <1>2, <1>3, <1>4, <1>5, <1>6, <1>7, <1>8, <1>9, <1>10 DEF JobsNext

\* Every token a process holds was issued, to it alone; and the lease an expiry has read
\* lapsed does not come back.
TokenInv ==
    /\ \A w \in Workers : worker[w].pc \in OwnerPhases \/ Intends(w, "CLOSE") =>
          worker[w].token \in Tokens /\ worker[w].token <= issued
    /\ \A v, w \in Workers :
          /\ worker[v].pc \in OwnerPhases /\ worker[w].pc \in OwnerPhases
          /\ worker[v].token = worker[w].token
          => v = w
    /\ \A w \in Workers, j \in Jobs :
          Closing(w, j) /\ worker[w].pc \notin OwnerPhases => ~job[j].live

\* Who acts for a job after the step did so before under the same token, or has just
\* claimed it.
LEMMA HolderStep ==
  ASSUME TypeInv, [Next]_vars
  PROVE  \/ \A v \in Workers : worker'[v].pc \in OwnerPhases =>
              /\ worker[v].pc \in OwnerPhases
              /\ worker'[v].job = worker[v].job /\ worker'[v].token = worker[v].token
         \/ /\ issued' = issued + 1
            /\ \E w \in Workers :
                 /\ worker'[w].token = issued + 1
                 /\ \A v \in Workers \ {w} : worker'[v] = worker[v]
  <1> DEFINE Same == \A v \in Workers : worker'[v].pc \in OwnerPhases =>
              /\ worker[v].pc \in OwnerPhases
              /\ worker'[v].job = worker[v].job /\ worker'[v].token = worker[v].token
  <1>1. ASSUME NEW w \in Workers, NEW phases, Moves(w, phases) PROVE Same
    BY <1>1 DEF Moves
  <1>2. ASSUME NEW w \in Workers, Claim(w)
        PROVE  \/ Same
               \/ /\ issued' = issued + 1
                  /\ \E u \in Workers :
                       /\ worker'[u].token = issued + 1
                       /\ \A v \in Workers \ {u} : worker'[v] = worker[v]
    <2>1. CASE Return(w) \/ Exit(w)
      BY <1>1, <2>1, LeavingMoves DEF TypeInv
    <2>2. ASSUME NEW i \in Jobs, ClaimNext(i),
                 worker' = [worker EXCEPT ![w] =
                    [Unassigned("start") EXCEPT !.job = i, !.token = issued + 1]]
          PROVE  /\ issued' = issued + 1
                 /\ worker'[w].token = issued + 1
                 /\ \A v \in Workers \ {w} : worker'[v] = worker[v]
      BY <2>2 DEF ClaimNext, TypeInv, ProcessesOK, Unassigned
    <2>3. QED
      BY <1>2, <2>1, <2>2 DEF Claim
  <1>3. QED
    BY <1>1, <1>2, StepMoves, OtherMoves DEF Next, WorkerStep

LEMMA TokenFacts ==
  ASSUME TypeInv, SlotInv, [Next]_vars
  PROVE  /\ issued \in Nat /\ issued' \in Nat /\ issued' >= issued
         /\ \A j \in Jobs : TokenMoves(j) /\ job[j].token \in Tokens \cup {None}
         /\ \A j \in Jobs : job[j].status = "RUNNING" =>
               job[j].token = issued /\ job[j].token \in Tokens
  <1>1. TypeOK /\ [JobsNext]_jobsVars
    BY StepIsQueueStep DEF TypeInv
  <1>2. Jobs # {}
    BY MaxJobsAssumption DEF Jobs
  <1>3. TypeOK'
    BY WorkerTypeStep DEF TypeInv
  <1>4. /\ issued \in Nat /\ issued' \in Nat /\ issued' >= issued
        /\ \A j \in Jobs : TokenMoves(j) /\ job[j].token \in Tokens \cup {None}
    BY <1>1, <1>2, <1>3, TokenStep, MaxClaimsAssumption DEF TypeOK, JobRows
  <1>5. QED
    BY <1>4 DEF SlotInv, RunningHoldsSlot, FormerOwnersAreFenced, None, Tokens

\* A closing transaction with the current token had it before, or has just read the chain.
LEMMA ClosingStep ==
  ASSUME TypeInv, SlotInv, TokenInv, [Next]_vars, NEW w \in Workers, NEW j \in Jobs, Closing(w, j)'
  PROVE  \/ TxKept(w) /\ Closing(w, j) /\ TokenMoves(j) /\ job'[j].token = job[j].token
            /\ job'[j].token # None /\ job'[j].token # issued + 1
         \/ TxLook(w) /\ TxCloses(w) /\ worker'[w].job = j
  <1>0. /\ worker'[w].tx.intent = "CLOSE" /\ worker'[w].job = j
        /\ worker'[w].token = job'[j].token
    BY DEF Closing, Intends
  <1>1. CASE TxKept(w)
    <2>1. worker[w].token \in Tokens /\ worker[w].token <= issued /\ Intends(w, "CLOSE")
      BY <1>0, <1>1 DEF TxKept, TokenInv, Intends
    <2>2. job'[j].token # None /\ job'[j].token # issued + 1
      BY <1>0, <1>1, <2>1, TokenFacts DEF TxKept, Tokens, None
    <2>3. job'[j].token = job[j].token /\ TokenMoves(j)
      BY <2>2, TokenFacts DEF TokenMoves
    <2>4. Closing(w, j)
      BY <1>0, <1>1, <2>1, <2>3 DEF TxKept, Closing
    <2>5. QED
      BY <1>1, <2>2, <2>3, <2>4
  <1>2. CASE TxLook(w)
    BY <1>0, <1>2 DEF TxLook, TxRecovers, TxFenced, TxWillWrite, RecoveryModes
  <1>3. QED
    BY <1>0, <1>1, <1>2, EveryTxStep DEF TxStep, TxOver

LEMMA TokenInvStep == TypeInv /\ SlotInv /\ TokenInv /\ [Next]_vars => TokenInv'
  <1> SUFFICES ASSUME TypeInv, SlotInv, TokenInv, [Next]_vars PROVE TokenInv'
    OBVIOUS
  <1>0. issued \in Nat /\ issued' \in Nat /\ issued' >= issued
    BY TokenFacts
  <1>a. \A j \in Jobs : job[j].status = "RUNNING" => job[j].token = issued /\ job[j].token \in Tokens
    BY TokenFacts
  <1>b. \A v \in Workers : worker'[v].pc \in OwnerPhases => worker'[v].token \in Tokens
    BY WorkerTypeStep DEF TypeInv, ProcessesOK, Assigned
  <1>c. \A v \in Workers : TxStep(v)
    BY EveryTxStep
  <1>1. ASSUME NEW w \in Workers, worker'[w].pc \in OwnerPhases \/ worker'[w].tx.intent = "CLOSE"
        PROVE  worker'[w].token \in Tokens /\ worker'[w].token <= issued'
    <2>1. CASE worker'[w].pc \in OwnerPhases
      <3>1. CASE worker[w].pc \in OwnerPhases /\ worker'[w].token = worker[w].token
        BY <1>0, <3>1 DEF TokenInv, Tokens
      <3>2. CASE worker'[w].token = issued + 1 /\ issued' = issued + 1
        BY <1>0, <1>b, <2>1, <3>2
      <3>3. CASE worker'[w] = worker[w]
        BY <1>0, <2>1, <3>3 DEF TokenInv, Tokens
      <3>4. QED
        BY <2>1, <3>1, <3>2, <3>3, HolderStep
    <2>2. CASE worker'[w].tx.intent = "CLOSE"
      <3>1. CASE TxKept(w)
        BY <1>0, <2>2, <3>1 DEF TxKept, TokenInv, Intends, Tokens
      <3>2. CASE TxLook(w)
        <4>1. TxCloses(w)
          BY <2>2, <3>2 DEF TxLook, TxRecovers, TxFenced, TxWillWrite, RecoveryModes
        <4>2. /\ worker'[w].token = job[worker'[w].job].token /\ worker'[w].job \in Jobs
              /\ job[worker'[w].job].status = "RUNNING"
          BY <4>1 DEF TxCloses, Expirable, Owned
        <4>3. QED
          BY <1>0, <1>a, <4>2
      <3>3. QED
        BY <1>c, <2>2, <3>1, <3>2 DEF TxStep, TxOver
    <2>3. QED
      BY <1>1, <2>1, <2>2
  <1>2. ASSUME NEW v \in Workers, NEW w \in Workers,
               worker'[v].pc \in OwnerPhases, worker'[w].pc \in OwnerPhases,
               worker'[v].token = worker'[w].token
        PROVE  v = w
    <2>1. CASE \A u \in Workers : worker'[u].pc \in OwnerPhases =>
                 worker[u].pc \in OwnerPhases /\ worker'[u].token = worker[u].token
      BY <1>2, <2>1 DEF TokenInv
    <2>2. ASSUME NEW u \in Workers, worker'[u].token = issued + 1,
                 \A x \in Workers \ {u} : worker'[x] = worker[x]
          PROVE  v = w
      <3>1. ASSUME NEW x \in Workers \ {u}, worker'[x].pc \in OwnerPhases
            PROVE  worker'[x].token # issued + 1
        BY <1>0, <2>2, <3>1 DEF TokenInv, Tokens
      <3>2. CASE v # u /\ w # u
        BY <1>2, <2>2, <3>2 DEF TokenInv
      <3>3. QED
        BY <1>2, <2>2, <3>1, <3>2
    <2>3. QED
      BY <2>1, <2>2, HolderStep
  <1>3. ASSUME NEW w \in Workers, NEW j \in Jobs, Closing(w, j)', worker'[w].pc \notin OwnerPhases
        PROVE  ~job'[j].live
    <2>1. CASE TxKept(w) /\ Closing(w, j)
      <3>1. job'[j].live => job[j].live
        BY <1>3, <2>1, ClosingStep DEF TokenMoves, TxLook, TxCloses, Expirable, jobsVars
      <3>2. worker[w].pc \notin OwnerPhases
        BY <1>3, <2>1 DEF TxKept, At, Closing, Intends
      <3>3. QED
        BY <2>1, <3>1, <3>2 DEF TokenInv
    <2>2. CASE TxLook(w) /\ TxCloses(w) /\ worker'[w].job = j
      <3>1. Expirable(j) /\ UNCHANGED job
        BY <1>3, <2>2 DEF TxCloses, TxLook, At, OwnerPhases, jobsVars
      <3>2. QED
        BY <3>1 DEF Expirable
    <2>3. QED
      BY <1>3, <2>1, <2>2, ClosingStep
  <1>4. QED
    BY <1>1, <1>2, <1>3 DEF TokenInv, Closing, Intends

LEMMA TokensHold == Spec => []TokenInv
  <1>1. Init => TokenInv
    BY DEF Init, TokenInv, Closing, Intends, Unassigned, NoTx, OwnerPhases
  <1>2. QED
    BY <1>1, TokenInvStep, TypesHold, QueueFacts, PTL DEF Spec

-----------------------------------------------------------------------------
(* What no late or closing write can undo.                                 *)

\* Every checkpoint before s has succeeded.
Before(j, s) == \A t \in ChainStages : Order[t] < Order[s] => ckpt[j][t] = "SUCCESS"

Proved(j) == \A s \in ChainStages : ckpt[j][s] = "SUCCESS"

\* The research is over: the candidate has its checkpoint, or a transaction that has
\* found the research complete is about to insert it.
Settled(j) ==
    \/ ckpt[j]["CANDIDATE_APPROVAL"] # "NONE"
    \/ \E w \in Workers : At(w, "advance") /\ ~Intends(w, "NONE") /\ worker[w].job = j

\* No closing transaction will write over the checkpoint.
Safe(j, s) == \A w \in Workers : Closing(w, j) => worker[w].tx.stage # s

SettledOK(j) ==
    /\ Settled(j) => /\ Before(j, "CANDIDATE_APPROVAL")
                     /\ \A s \in ChainStages \ {"CANDIDATE_APPROVAL"} : Safe(j, s)
    /\ ckpt[j]["CANDIDATE_APPROVAL"] = "SUCCESS" => Safe(j, "CANDIDATE_APPROVAL")

SettledInv ==
    /\ \A j \in Jobs : SettledOK(j)
    /\ \A w \in Workers : Intends(w, "SIGNAL_RECOVERY") => Proved(worker[w].job)

\* The facts about transactions and tokens that the rest builds on.
BaseInv == TypeInv /\ SlotInv /\ IntentInv /\ TokenInv

LEMMA BaseHolds == Spec => []BaseInv
  <1>1. TypeInv /\ SlotInv /\ IntentInv /\ TokenInv => BaseInv
    BY DEF BaseInv
  <1>2. QED
    BY <1>1, TypesHold, QueueFacts, IntentsHold, TokensHold, PTL

LEMMA CandidateIs ==
  /\ "CANDIDATE_APPROVAL" \in ChainStages
  /\ \A s \in ChainStages : s # "CANDIDATE_APPROVAL" <=> Order[s] < Order["CANDIDATE_APPROVAL"]
  BY DEF ChainStages, Order

\* A checkpoint that has succeeded stays so, unless a transaction is about to close it.
LEMMA SuccessLasts ==
  ASSUME BaseInv, [Next]_vars, NEW j \in Jobs, NEW s \in ChainStages,
         ckpt[j][s] = "SUCCESS", Safe(j, s)
  PROVE  ckpt'[j][s] = "SUCCESS"
  <1>0. ChainStep(j) /\ ckpt[j] \in [ChainStages -> CheckpointStatuses]
    BY EveryChainStep DEF BaseInv, TypeInv, RowsOK
  <1>1. CASE LeftAlone(j) \/ Revoked(j)
    BY <1>1 DEF LeftAlone, SameChain, Revoked
  <1>2. ASSUME NEW w \in Workers, ClosedBy(w, j) PROVE ckpt'[j][s] = "SUCCESS"
    BY <1>0, <1>2 DEF ClosedBy, ClosedAs, Safe
  <1>3. ASSUME NEW w \in Workers, WrittenBy(w, j) PROVE ckpt'[j][s] = "SUCCESS"
    BY <1>0, <1>3 DEF WrittenBy
  <1>4. ASSUME NEW w \in Workers, ApprovedBy(w, j) PROVE ckpt'[j][s] = "SUCCESS"
    BY <1>0, <1>4 DEF ApprovedBy
  <1>5. CASE Resumed(j)
    BY <1>0, <1>5 DEF Resumed
  <1>6. CASE Quarantined(j)
    <2>1. ~LatestOpen(j, s)
      BY DEF LatestOpen, ChainStages
    <2>2. QED
      BY <1>0, <1>6, <2>1 DEF Quarantined
  <1>7. QED
    BY <1>0, <1>1, <1>2, <1>3, <1>4, <1>5, <1>6 DEF ChainStep

\* Nor does a transaction come about that will.
LEMMA SafeLasts ==
  ASSUME BaseInv, [Next]_vars, NEW j \in Jobs, NEW s \in ChainStages,
         ckpt[j][s] = "SUCCESS", Safe(j, s)
  PROVE  Safe(j, s)'
  <1> SUFFICES ASSUME NEW w \in Workers, Closing(w, j)' PROVE worker'[w].tx.stage # s
    BY DEF Safe
  <1>1. CASE TxKept(w) /\ Closing(w, j)
    BY <1>1 DEF TxKept, Safe
  <1>2. CASE TxLook(w) /\ TxCloses(w) /\ worker'[w].job = j
    <2>1. LatestOpen(j, worker'[w].tx.stage)
      BY <1>2 DEF TxCloses
    <2>2. QED
      BY <2>1 DEF LatestOpen, ChainStages
  <1>3. QED
    BY <1>1, <1>2, ClosingStep DEF BaseInv

\* The research is over once the check before the approval has found it complete.
LEMMA SettledArises ==
  ASSUME BaseInv, [Next]_vars, NEW j \in Jobs, Settled(j)'
  PROVE  \/ Settled(j)
         \/ \E w \in Workers : /\ TxLook(w) /\ At(w, "advance") /\ InOrder(w)
                               /\ worker[w].job = j
  <1>1. CASE ckpt'[j]["CANDIDATE_APPROVAL"] # "NONE"
    <2>0. /\ ChainStep(j) /\ ckpt[j] \in [ChainStages -> CheckpointStatuses]
          /\ \A w \in Workers : IntentOK(w)
      BY EveryChainStep DEF BaseInv, TypeInv, RowsOK, IntentInv
    <2>1. CASE LeftAlone(j) \/ Revoked(j)
      BY <1>1, <2>1 DEF LeftAlone, SameChain, Revoked, Settled
    <2>2. ASSUME NEW w \in Workers, ClosedBy(w, j) PROVE Settled(j)
      BY <1>1, <2>0, <2>2, CandidateIs DEF ClosedBy, ClosedAs, Closing, Intends, IntentOK, Settled
    <2>3. ASSUME NEW w \in Workers, WrittenBy(w, j) PROVE Settled(j)
      <3>1. CASE Intends(w, "OPEN")
        BY <1>1, <2>3, <3>1 DEF WrittenBy, Settled, Intends
      <3>2. CASE worker[w].tx.stage # "CANDIDATE_APPROVAL" /\ ~Intends(w, "OPEN")
        BY <1>1, <2>0, <2>3, <3>2, CandidateIs DEF WrittenBy, Settled
      <3>3. CASE worker[w].tx.stage = "CANDIDATE_APPROVAL" /\ ~Intends(w, "OPEN")
        <4>1. worker[w].tx.intent \in {"INSERT", "COMPLETE"} /\ worker[w].job = j
          BY <2>3, <3>3 DEF WrittenBy, Intends
        <4>2. At(w, "advance") /\ ~Intends(w, "NONE")
          BY <2>0, <3>3, <4>1 DEF IntentOK, Intends
        <4>3. QED
          BY <4>1, <4>2 DEF Settled
      <3>4. QED
        BY <3>1, <3>2, <3>3
    <2>4. ASSUME NEW w \in Workers, ApprovedBy(w, j) PROVE Settled(j)
      BY <2>4 DEF ApprovedBy, Settled
    <2>5. CASE Resumed(j)
      BY <1>1, <2>0, <2>5, CandidateIs DEF Resumed, Settled
    <2>6. CASE Quarantined(j)
      BY <1>1, <2>0, <2>6, CandidateIs DEF Quarantined, LatestOpen, Settled
    <2>7. QED
      BY <2>0, <2>1, <2>2, <2>3, <2>4, <2>5, <2>6 DEF ChainStep
  <1>2. ASSUME NEW w \in Workers, worker'[w].pc = "advance", worker'[w].tx.intent # "NONE",
               worker'[w].job = j
        PROVE  \/ Settled(j)
               \/ TxLook(w) /\ At(w, "advance") /\ InOrder(w) /\ worker[w].job = j
    <2>1. CASE TxKept(w)
      BY <1>2, <2>1 DEF TxKept, At, Settled, Intends
    <2>2. CASE TxLook(w)
      <3>1. At(w, "advance")
        BY <1>2, <2>2 DEF TxLook, At
      <3>2. \/ TxFenced(w) /\ InOrder(w)
            \/ TxWillWrite(w)
        BY <2>2, <3>1 DEF TxLook, TxCloses, TxRecovers, TxFenced, At
      <3>3. CASE TxWillWrite(w)
        BY <1>2, <3>1, <3>3 DEF TxWillWrite, Intends, Settled
      <3>4. CASE TxFenced(w) /\ InOrder(w)
        BY <1>2, <2>2, <3>1, <3>4 DEF TxFenced
      <3>5. QED
        BY <3>2, <3>3, <3>4
    <2>3. QED
      BY <1>2, <2>1, <2>2, EveryTxStep DEF BaseInv, TxStep, TxOver
  <1>3. QED
    BY <1>1, <1>2 DEF Settled, At, Intends

\* Only the approval makes the candidate's checkpoint succeed.
LEMMA ApprovalArises ==
  ASSUME BaseInv, [Next]_vars, NEW j \in Jobs, ckpt'[j]["CANDIDATE_APPROVAL"] = "SUCCESS"
  PROVE  ckpt[j]["CANDIDATE_APPROVAL"] = "SUCCESS" \/ \E w \in Workers : ApprovedBy(w, j)
  <1>0. /\ ChainStep(j) /\ ckpt[j] \in [ChainStages -> CheckpointStatuses]
        /\ \A w \in Workers : IntentOK(w)
    BY EveryChainStep DEF BaseInv, TypeInv, RowsOK, IntentInv
  <1>1. CASE LeftAlone(j) \/ Revoked(j)
    BY <1>1 DEF LeftAlone, SameChain, Revoked
  <1>2. ASSUME NEW w \in Workers, ClosedBy(w, j)
        PROVE  ckpt[j]["CANDIDATE_APPROVAL"] = "SUCCESS"
    BY <1>0, <1>2, CandidateIs DEF ClosedBy, ClosedAs
  <1>3. ASSUME NEW w \in Workers, WrittenBy(w, j)
        PROVE  ckpt[j]["CANDIDATE_APPROVAL"] = "SUCCESS"
    <2>1. CASE Intends(w, "OPEN") \/ Intends(w, "INSERT")
      BY <1>0, <1>3, <2>1, CandidateIs DEF WrittenBy, Intends
    <2>2. CASE Intends(w, "COMPLETE")
      <3>1. worker[w].tx.stage # "CANDIDATE_APPROVAL"
        BY <1>0, <2>2 DEF Intends, IntentOK, IntentsAt, At
      <3>2. QED
        BY <1>0, <1>3, <2>2, <3>1, CandidateIs DEF WrittenBy, Intends
    <2>3. QED
      BY <1>3, <2>1, <2>2 DEF WrittenBy
  <1>4. CASE Resumed(j)
    BY <1>0, <1>4, CandidateIs DEF Resumed
  <1>5. CASE Quarantined(j)
    BY <1>0, <1>5, CandidateIs DEF Quarantined, LatestOpen
  <1>6. QED
    BY <1>0, <1>1, <1>2, <1>3, <1>4, <1>5 DEF ChainStep

LEMMA ProvedIs ==
  ASSUME NEW j \in Jobs
  PROVE  Proved(j) <=> ckpt[j]["CANDIDATE_APPROVAL"] = "SUCCESS" /\ Before(j, "CANDIDATE_APPROVAL")
  BY CandidateIs DEF Proved, Before

LEMMA ApprovedIsProved ==
  ASSUME SettledInv, NEW j \in Jobs, ckpt[j]["CANDIDATE_APPROVAL"] = "SUCCESS"
  PROVE  Proved(j) /\ \A s \in ChainStages : Safe(j, s)
  BY ProvedIs DEF SettledInv, SettledOK, Settled

LEMMA ProvedLasts ==
  ASSUME BaseInv, SettledInv, [Next]_vars, NEW j \in Jobs, Proved(j)
  PROVE  Proved(j)'
  BY ApprovedIsProved, SuccessLasts, CandidateIs DEF Proved

LEMMA SettledStep == BaseInv /\ SettledInv /\ [Next]_vars => SettledInv'
  <1> SUFFICES ASSUME BaseInv, SettledInv, [Next]_vars PROVE SettledInv'
    OBVIOUS
  <1>1. ASSUME NEW j \in Jobs, Settled(j)'
        PROVE  /\ Before(j, "CANDIDATE_APPROVAL")'
               /\ \A s \in ChainStages \ {"CANDIDATE_APPROVAL"} : Safe(j, s)'
    <2>1. CASE Settled(j)
      <3>1. \A s \in ChainStages \ {"CANDIDATE_APPROVAL"} : ckpt[j][s] = "SUCCESS" /\ Safe(j, s)
        BY <2>1, CandidateIs DEF SettledInv, SettledOK, Before
      <3>2. \A s \in ChainStages \ {"CANDIDATE_APPROVAL"} :
               ckpt'[j][s] = "SUCCESS" /\ Safe(j, s)'
        BY <3>1, SuccessLasts, SafeLasts
      <3>3. QED
        BY <3>2, CandidateIs DEF Before
    <2>2. ASSUME NEW w \in Workers, TxLook(w), At(w, "advance"), InOrder(w), worker[w].job = j
          PROVE  /\ Before(j, "CANDIDATE_APPROVAL")'
                 /\ \A s \in ChainStages \ {"CANDIDATE_APPROVAL"} : Safe(j, s)'
      <3>1. \A s \in ChainStages \ {"CANDIDATE_APPROVAL"} : ckpt[j][s] = "SUCCESS"
        <4>1. NextCheckpoint(j) = 4
          BY <2>2 DEF InOrder
        <4>2. \A k \in 1 .. 3 : ckpt[j][ResearchStages[k]] = "SUCCESS"
          BY <4>1, NextCheckpointIs
        <4>3. /\ ckpt[j][ResearchStages[1]] = "SUCCESS"
              /\ ckpt[j][ResearchStages[2]] = "SUCCESS"
              /\ ckpt[j][ResearchStages[3]] = "SUCCESS"
          BY <4>2
        <4>4. QED
          BY <4>3, StageNamesOfChain
      <3>2. \A v \in Workers : ~Closing(v, j)
        <4>1. job[j].live /\ job[j].token = worker[w].token /\ worker[w].pc \in OwnerPhases
          BY <2>2 DEF InOrder, OwnsUncancelled, Owned, At, OwnerPhases
        <4>2. ASSUME NEW v \in Workers, Closing(v, j) PROVE FALSE
          <5>1. worker[v].pc \in OwnerPhases
            BY <4>1, <4>2 DEF BaseInv, TokenInv
          <5>2. v = w
            BY <4>1, <4>2, <5>1 DEF BaseInv, TokenInv, Closing
          <5>3. IntentOK(w)
            BY DEF BaseInv, IntentInv
          <5>4. QED
            BY <2>2, <4>2, <5>2, <5>3 DEF Closing, Intends, IntentOK, IntentsAt, At
        <4>3. QED
          BY <4>2
      <3>3. \A s \in ChainStages \ {"CANDIDATE_APPROVAL"} :
               ckpt'[j][s] = "SUCCESS" /\ Safe(j, s)'
        BY <3>1, <3>2, SuccessLasts, SafeLasts DEF Safe
      <3>4. QED
        BY <3>3, CandidateIs DEF Before
    <2>3. QED
      BY <1>1, <2>1, <2>2, SettledArises
  <1>2. ASSUME NEW j \in Jobs, ckpt'[j]["CANDIDATE_APPROVAL"] = "SUCCESS"
        PROVE  Safe(j, "CANDIDATE_APPROVAL")'
    <2>1. CASE ckpt[j]["CANDIDATE_APPROVAL"] = "SUCCESS"
      BY <2>1, SafeLasts, CandidateIs DEF SettledInv, SettledOK
    <2>2. ASSUME NEW w \in Workers, ApprovedBy(w, j) PROVE Safe(j, "CANDIDATE_APPROVAL")'
      <3>1. job'[j].token = None
        BY <2>2 DEF ApprovedBy
      <3>2. \A v \in Workers : ~Closing(v, j)'
        <4>1. TypeInv' /\ TokenInv'
          BY WorkerTypeStep, TokenInvStep DEF BaseInv
        <4>2. QED
          BY <3>1, <4>1 DEF Closing, TokenInv, Tokens, None
      <3>3. QED
        BY <3>2 DEF Safe
    <2>3. QED
      BY <1>2, <2>1, <2>2, ApprovalArises
  <1>3. ASSUME NEW w \in Workers, worker'[w].tx.intent = "SIGNAL_RECOVERY"
        PROVE  \E i \in Jobs : worker'[w].job = i /\ Proved(i)'
    <2>1. CASE TxKept(w)
      <3>1. worker[w].job \in Jobs /\ Intends(w, "SIGNAL_RECOVERY")
        BY <1>3, <2>1 DEF TxKept, Intends, BaseInv, TypeInv, ProcessesOK, Assigned
      <3>2. QED
        BY <2>1, <3>1, ProvedLasts DEF TxKept, SettledInv
    <2>2. CASE TxLook(w)
      <3>1. TxRecovers(w)
        BY <1>3, <2>2 DEF TxLook, TxCloses, TxFenced, TxWillWrite
      <3>2. /\ worker'[w].job \in Jobs
            /\ RecoveryMode(worker'[w].job) = "SIGNAL_RECOVERY"
        BY <1>3, <3>1 DEF TxRecovers
      <3>3. ckpt[worker'[w].job]["CANDIDATE_APPROVAL"] = "SUCCESS"
        BY <3>2 DEF RecoveryMode, ApprovedCandidate
      <3>4. QED
        BY <3>2, <3>3, ApprovedIsProved, ProvedLasts
    <2>3. QED
      BY <1>3, <2>1, <2>2, EveryTxStep DEF BaseInv, TxStep, TxOver
  <1>4. QED
    BY <1>1, <1>2, <1>3 DEF SettledInv, SettledOK, Intends

LEMMA SettledHolds == Spec => []SettledInv
  <1>1. Init => SettledInv
    <2> SUFFICES ASSUME Init PROVE SettledInv
      OBVIOUS
    <2>1. /\ \A j \in Jobs : ckpt[j]["CANDIDATE_APPROVAL"] = "NONE"
          /\ \A w \in Workers : worker[w].pc = "audit" /\ worker[w].tx.intent = "NONE"
      BY CandidateIs DEF Init, Unassigned, NoTx
    <2>2. QED
      BY <2>1 DEF SettledInv, SettledOK, Settled, At, Intends
  <1>2. QED
    BY <1>1, SettledStep, BaseHolds, PTL DEF Spec

-----------------------------------------------------------------------------
(* The candidate.  The stage of a job, the phase of its worker and the     *)
(* published deployment never claim more than its checkpoints prove.       *)

CandidateStages == {"CANDIDATE_APPROVED", "SIGNAL_RECOVERY", "SIGNAL"}
KnownStages == CandidateStages \cup {"PERSISTED_RESULT_RECOVERY"}

InPlay(j) == job[j].status \in {"PENDING", "RUNNING"}

Bound(j) == job[j].links /\ job[j].completed

\* The phases in which a worker has the ids of its job bound.
BoundPhases == {"promote", "validate", "advance", "approve"}

StagesInv ==
    \A j \in Jobs :
        /\ InPlay(j) /\ job[j].stage \in CandidateStages => Proved(j)
        /\ InPlay(j) /\ job[j].stage \in KnownStages => Bound(j)

PhasesInv ==
    \A w \in Workers :
        /\ worker[w].pc \in BoundPhases => Bound(worker[w].job)
        /\ worker[w].pc = "finish" => deployed[worker[w].job]

CandidateInv == StagesInv /\ PhasesInv /\ DeployedWasApproved /\ SuccessWasDeployed

\* A job that neither enters a stage that promises more, nor succeeds.
Modest(j) ==
    /\ job'[j].status \in {"PENDING", "RUNNING"} /\ job'[j].stage \in KnownStages =>
          /\ InPlay(j) /\ job[j].stage \in KnownStages
          /\ job'[j].stage \in CandidateStages => job[j].stage \in CandidateStages
    /\ job'[j].status = "SUCCESS" => job[j].status = "SUCCESS"

\* The operations of the queue that keep every job modest.
LEMMA ModestOperations ==
  ASSUME TypeOK, OutcomeInv, NEW i \in Jobs, NEW j \in Jobs
  PROVE  /\ \A kind \in Kinds : Enqueue(i, kind) => Modest(j)
         /\ CancelWrite(i) => Modest(j)
         /\ ClaimNext(i) => Modest(j)
         /\ LeaseLapse(i) => Modest(j)
         /\ ExpireStale(i) => Modest(j)
         /\ \A t \in Tokens : MarkProviderAttempt(i, t) => Modest(j)
         /\ \A t \in Tokens : CheckpointResearchResult(i, t) => Modest(j)
         /\ \A t, links, completed : \A status \in TerminalStatuses :
               Complete(i, t, status, links, completed) => Modest(j) \/ (status = "SUCCESS" /\ i = j)
         /\ \A stage \in {"GENERATION_RETRY", "VALIDATION_RETRY"} :
               PrepareStaleRecovery(i, stage) => Modest(j)
         /\ BlockUnrecoverableStale(i) => Modest(j)
         /\ UNCHANGED job => Modest(j)
  <1> USE DEF TypeOK, JobRows, Modest, InPlay, KnownStages, CandidateStages
  <1>1. ASSUME NEW kind \in Kinds, Enqueue(i, kind) PROVE Modest(j)
    BY <1>1 DEF Enqueue, OutcomeInv, AbsentIsBlank
  <1>2. ASSUME CancelWrite(i) PROVE Modest(j)
    BY <1>2 DEF CancelWrite
  <1>3. ASSUME ClaimNext(i) PROVE Modest(j)
    BY <1>3 DEF ClaimNext, ClaimCandidate, Claimable, ClaimedStage
  <1>4. ASSUME LeaseLapse(i) PROVE Modest(j)
    BY <1>4 DEF LeaseLapse
  <1>5. ASSUME ExpireStale(i) PROVE Modest(j)
    BY <1>5 DEF ExpireStale
  <1>6. ASSUME NEW t \in Tokens, MarkProviderAttempt(i, t) PROVE Modest(j)
    BY <1>6 DEF MarkProviderAttempt
  <1>7. ASSUME NEW t \in Tokens, CheckpointResearchResult(i, t) PROVE Modest(j)
    BY <1>7 DEF CheckpointResearchResult
  <1>8. ASSUME NEW t, NEW links, NEW completed, NEW status \in TerminalStatuses,
               Complete(i, t, status, links, completed)
        PROVE  Modest(j) \/ (status = "SUCCESS" /\ i = j)
    BY <1>8 DEF Complete, TerminalStatuses
  <1>9. ASSUME NEW stage \in {"GENERATION_RETRY", "VALIDATION_RETRY"}, PrepareStaleRecovery(i, stage)
        PROVE  Modest(j)
    BY <1>9 DEF PrepareStaleRecovery
  <1>10. ASSUME BlockUnrecoverableStale(i) PROVE Modest(j)
    BY <1>10 DEF BlockUnrecoverableStale
  <1>11. ASSUME UNCHANGED job PROVE Modest(j)
    BY <1>11
  <1> HIDE DEF Modest
  <1>12. QED
    BY <1>1, <1>2, <1>3, <1>4, <1>5, <1>6, <1>7, <1>8, <1>9, <1>10, <1>11

\* A job that gets past its earlier stage, or closes with success, has earned it.
Earned(j) ==
    \/ Modest(j)
    \/ job'[j].status = "SUCCESS" /\ deployed'[j]
    \/ /\ job'[j].status # "SUCCESS"
       /\ Bound(j)'
       /\ job'[j].stage \in CandidateStages => Proved(j)'

ProofLasts == \A j \in Jobs : Proved(j) => Proved(j)'

LEMMA EarnedStep ==
  ASSUME StagesInv, SuccessWasDeployed, Lasting, ProofLasts,
         \A j \in Jobs : deployed[j] => deployed'[j],
         \A j \in Jobs : Earned(j)
  PROVE  StagesInv' /\ SuccessWasDeployed'
  <1>1. ASSUME NEW j \in Jobs
        PROVE  /\ InPlay(j)' /\ job'[j].stage \in CandidateStages => Proved(j)'
               /\ InPlay(j)' /\ job'[j].stage \in KnownStages => Bound(j)'
    <2>1. /\ Proved(j) => Proved(j)'
          /\ Bound(j) => Bound(j)'
      BY DEF ProofLasts, Lasting, Bound
    <2>2. CandidateStages \subseteq KnownStages
      BY DEF KnownStages
    <2>3. Earned(j)
      OBVIOUS
    <2>4. QED
      BY <2>1, <2>2, <2>3 DEF Earned, Modest, InPlay, StagesInv
  <1>2. ASSUME NEW j \in Jobs, job'[j].status = "SUCCESS" PROVE deployed'[j]
    BY <1>2 DEF Earned, Modest, SuccessWasDeployed
  <1>3. QED
    BY <1>1, <1>2 DEF StagesInv, SuccessWasDeployed

LEMMA DeployedStep ==
  ASSUME DeployedWasApproved, Lasting, ProofLasts,
         \A j \in Jobs : deployed'[j] =>
            deployed[j] \/ (Proved(j) /\ Bound(j) /\ chain[j].approval # "NONE")
  PROVE  DeployedWasApproved'
  <1> SUFFICES ASSUME NEW j \in Jobs, deployed'[j]
               PROVE  Proved(j)' /\ chain'[j].approval # "NONE" /\ job'[j].links /\ job'[j].completed
    BY DEF DeployedWasApproved, Proved
  <1>1. Proved(j) /\ Bound(j) /\ chain[j].approval # "NONE"
    BY DEF DeployedWasApproved, Proved, Bound
  <1>2. QED
    BY <1>1 DEF Lasting, ProofLasts, Bound

BoundNext(k) == job'[k].links /\ job'[k].completed

\* Every process that is past a promise either was so already, for the same job, or the
\* step made it true.
PhasesEarned ==
    \A v \in Workers :
        \/ worker'[v].pc = worker[v].pc /\ worker'[v].job = worker[v].job
        \/ LET k == worker'[v].job IN
           /\ worker'[v].pc \in BoundPhases => BoundNext(k)
           /\ worker'[v].pc = "finish" => deployed'[k]

LEMMA PhasesStep ==
  ASSUME PhasesInv, ProcessesOK, Lasting, \A j \in Jobs : deployed[j] => deployed'[j],
         PhasesEarned
  PROVE  PhasesInv'
  <1>1. ASSUME NEW v \in Workers
        PROVE  LET k == worker'[v].job IN
               /\ worker'[v].pc \in BoundPhases => BoundNext(k)
               /\ worker'[v].pc = "finish" => deployed'[k]
    <2>1. CASE worker'[v].pc = worker[v].pc /\ worker'[v].job = worker[v].job
      <3>1. CASE worker[v].pc \notin OwnerPhases
        BY <2>1, <3>1 DEF OwnerPhases, BoundPhases
      <3>2. CASE worker[v].pc \in OwnerPhases
        <4>1. worker[v].job \in Jobs
          BY <3>2 DEF ProcessesOK, Assigned
        <4>2. Bound(worker[v].job) => BoundNext(worker[v].job)
          BY <4>1 DEF Lasting, Bound, BoundNext
        <4>3. QED
          BY <2>1, <4>1, <4>2 DEF PhasesInv
      <3>3. QED
        BY <3>1, <3>2
    <2>2. QED
      BY <2>1 DEF PhasesEarned
  <1>2. QED
    BY <1>1 DEF PhasesInv, Bound, BoundNext

\* A step that enters none of the promising phases.
LEMMA MovesEarn ==
  ASSUME NEW w \in Workers, NEW phases, Moves(w, phases),
         phases \cap (BoundPhases \cup {"finish"}) = {}
  PROVE  PhasesEarned
  <1>1. BoundPhases \cup {"finish"} \subseteq OwnerPhases
    BY DEF OwnerPhases, BoundPhases
  <1>2. QED
    BY <1>1 DEF Moves, PhasesEarned

\* A step within the promising phases keeps the promise.
LEMMA BoundMovesEarn ==
  ASSUME TypeInv, PhasesInv, Lasting, NEW w \in Workers, NEW phases, Moves(w, phases),
         worker[w].pc \in BoundPhases, "finish" \notin phases
  PROVE  PhasesEarned
  <1>1. worker[w].job \in Jobs /\ BoundPhases \cup {"finish"} \subseteq OwnerPhases
    BY DEF OwnerPhases, BoundPhases, TypeInv, ProcessesOK, Assigned
  <1>2. BoundNext(worker[w].job)
    BY <1>1 DEF PhasesInv, Lasting, Bound, BoundNext
  <1>3. QED
    BY <1>1, <1>2 DEF Moves, PhasesEarned

\* A step of one process into one phase.
LEMMA GotoEarns ==
  ASSUME TypeInv, NEW w \in Workers, NEW pc, Goto(w, pc),
         LET k == worker[w].job IN
         /\ pc \in BoundPhases => BoundNext(k)
         /\ pc = "finish" => deployed'[k]
  PROVE  PhasesEarned
  <1>1. /\ worker'[w].pc = pc /\ worker'[w].job = worker[w].job
        /\ \A v \in Workers : v # w => worker'[v] = worker[v]
    BY GotoIs DEF TypeInv
  <1>2. QED
    BY <1>1 DEF PhasesEarned

LEMMA LeavingEarns ==
  ASSUME TypeInv, NEW w \in Workers,
         \/ Return(w) \/ Exit(w)
         \/ /\ worker[w].pc \in OwnerPhases
            /\ \E status, links, completed : Decide(w, status, links, completed)
  PROVE  PhasesEarned
  <1>1. Moves(w, {"terminate"})
    BY LeavingMoves, DecideMoves DEF TypeInv
  <1>2. QED
    BY <1>1, MovesEarn DEF BoundPhases

\* A recovered job resumes no further than its rows prove.
LEMMA RecoveredEarns ==
  ASSUME TypeInv, OutcomeInv, SettledInv, ProofLasts, NEW w \in Workers, Requeue(w), NEW j \in Jobs
  PROVE  Earned(j)
  <1> DEFINE mode == worker[w].tx.intent
  <1>0. PICK i \in Jobs : i = worker[w].job
    BY DEF Requeue, RecoveryModes, TypeInv, ProcessesOK, Assigned
  <1>1. CASE UNCHANGED jobsVars
    BY <1>1, ModestOperations DEF Earned, TypeInv, jobsVars
  <1>2. CASE PrepareStaleRecovery(i, mode)
    <2>0. mode \in {"SIGNAL_RECOVERY", "GENERATION_RETRY", "PERSISTED_RESULT_RECOVERY"}
      BY DEF Requeue, RecoveryModes
    <2>1. CASE j # i
      <3>1. job'[j] = job[j]
        BY <1>0, <1>2, <2>1 DEF PrepareStaleRecovery, TypeInv, TypeOK
      <3>2. QED
        BY <3>1 DEF Earned, Modest, InPlay
    <2>2. CASE mode = "GENERATION_RETRY"
      BY <1>0, <1>2, <2>2, ModestOperations DEF Earned, TypeInv
    <2>3. CASE j = i /\ mode \in {"PERSISTED_RESULT_RECOVERY", "SIGNAL_RECOVERY"}
      <3>1. /\ job'[i].status = "PENDING" /\ job'[i].stage = mode
            /\ job'[i].links = job[i].links /\ job'[i].completed = job[i].completed
            /\ job[i].status = "STALE" /\ job[i].stage = "LEASE_EXPIRED"
            /\ job[i].links
        <4>1. job[i].links
          BY <1>2, <2>3 DEF PrepareStaleRecovery, RecoveryGuard
        <4>2. QED
          BY <1>0, <1>2, <4>1 DEF PrepareStaleRecovery, TypeInv, TypeOK, JobRows, ExpiredStale
      <3>2. Bound(i)'
        BY <1>0, <3>1 DEF OutcomeInv, LinksKnowOutcome, MayStillRun, Bound
      <3>3. CASE mode = "PERSISTED_RESULT_RECOVERY"
        BY <2>3, <3>1, <3>2, <3>3 DEF Earned, CandidateStages
      <3>4. CASE mode = "SIGNAL_RECOVERY"
        <4>1. Proved(i)'
          BY <1>0, <3>4 DEF SettledInv, Intends, ProofLasts
        <4>2. QED
          BY <2>3, <3>1, <3>2, <4>1 DEF Earned
      <3>5. QED
        BY <2>3, <3>3, <3>4
    <2>4. QED
      BY <2>0, <2>1, <2>2, <2>3
  <1>3. QED
    BY <1>0, <1>1, <1>2 DEF Requeue

\* The step of a process, other than a claim and the deployment.
LEMMA OwnerEarns ==
  ASSUME TypeInv, StagesInv, PhasesInv, Lasting, NEW w \in Workers,
         WorkerStep(w), ~Claim(w), ~Signal(w)
  PROVE  PhasesEarned
  <1>a. ASSUME NEW pc \in OwnerPhases, At(w, pc)
        PROVE  worker[w].pc \in OwnerPhases /\ worker[w].job \in Jobs
    BY <1>a DEF At, TypeInv, ProcessesOK, Assigned
  <1>b. ASSUME NEW phases, phases \in SUBSET {"prepare", "mark", "call", "calling", "checkpoint",
                                              "terminate"},
               Moves(w, phases)
        PROVE  PhasesEarned
    BY <1>b, MovesEarn DEF BoundPhases
  <1>1. CASE \/ Fence(w) \/ OpenChain(w) \/ InsertChain(w) \/ PrepareGeneration(w) \/ MarkAttempt(w)
             \/ CallProvider(w) \/ CallRaises(w) \/ CallReturns(w)
             \/ Approve(w) \/ Finish(w) \/ Terminalize(w) \/ Terminate(w)
    <2>1. \/ Moves(w, {}) \/ Moves(w, {"prepare"}) \/ Moves(w, {"mark", "call", "terminate"})
          \/ Moves(w, {"call"}) \/ Moves(w, {"calling"}) \/ Moves(w, {"terminate"})
          \/ Moves(w, {"checkpoint", "terminate"})
      BY <1>1, StepMoves
    <2>2. QED
      BY <1>b, <2>1
  <1>2. CASE \/ Audit(w) \/ Expire(w) \/ RecoverStale(w) \/ Requeue(w) \/ QuarantineStale(w)
    <2>1. Moves(w, {})
      BY <1>2, OtherMoves
    <2>2. QED
      BY <1>b, <2>1
  <1>3. CASE CompleteCheckpoint(w) \/ Promote(w) \/ Validate(w) \/ Advance(w)
    <2>1. worker[w].pc \in BoundPhases
      BY <1>3 DEF CompleteCheckpoint, Promote, Validate, Advance, At, BoundPhases
    <2>2. \/ Moves(w, {"promote"}) \/ Moves(w, {"validate", "terminate"})
          \/ Moves(w, {"advance", "terminate"}) \/ Moves(w, {"approve", "terminate"})
      BY <1>3, StepMoves
    <2>3. QED
      BY <2>1, <2>2, BoundMovesEarn
  <1>4. CASE InsertCheckpoint(w)
    <2>1. Moves(w, {Prepared(w), "terminate"})
      BY <1>4, StepMoves
    <2>2. CASE At(w, "prepare")
      <3>1. Prepared(w) \in {"mark", "call"}
        BY <2>2 DEF Prepared, Begun, At
      <3>2. QED
        BY <1>b, <2>1, <3>1
    <2>3. CASE ~At(w, "prepare")
      <3>1. worker[w].pc \in {"promote", "advance"}
        BY <1>4, <2>3 DEF InsertCheckpoint, At
      <3>2. Prepared(w) \in {"promote", "approve"}
        BY <3>1 DEF Prepared, At
      <3>3. QED
        BY <2>1, <3>1, <3>2, BoundMovesEarn DEF BoundPhases
    <2>4. QED
      BY <2>2, <2>3
  <1>5. CASE Start(w)
    <2>1. worker[w].pc \in OwnerPhases /\ worker[w].job \in Jobs
      BY <1>a, <1>5 DEF Start, OwnerPhases
    <2>2. CASE Goto(w, "promote") /\ job[worker[w].job].status = "RUNNING"
               /\ job[worker[w].job].stage = "PERSISTED_RESULT_RECOVERY"
      <3>1. BoundNext(worker[w].job)
        BY <2>1, <2>2 DEF StagesInv, InPlay, KnownStages, Lasting, Bound, BoundNext
      <3>2. QED
        BY <2>2, <3>1, GotoEarns
    <2>3. CASE Goto(w, "signal") \/ Goto(w, "open")
      BY <2>3, GotoEarns DEF BoundPhases
    <2>4. CASE Return(w) \/ Decide(w, "CANCELLED", FALSE, FALSE)
      BY <2>1, <2>4, LeavingEarns
    <2>5. QED
      BY <1>5, <2>2, <2>3, <2>4 DEF Start
  <1>6. CASE Checkpoint(w)
    <2>1. worker[w].pc \in OwnerPhases /\ worker[w].job \in Jobs
      BY <1>a, <1>6 DEF Checkpoint, OwnerPhases
    <2>2. CASE CheckpointResearchResult(worker[w].job, worker[w].token) /\ Goto(w, "promote")
      <3>1. BoundNext(worker[w].job)
        BY <2>1, <2>2 DEF CheckpointResearchResult, BoundNext, TypeInv, TypeOK, JobRows
      <3>2. QED
        BY <2>2, <3>1, GotoEarns
    <2>3. CASE Decide(w, "BLOCKED", FALSE, Real(worker[w].job))
      BY <2>1, <2>3, LeavingEarns
    <2>4. QED
      BY <1>6, <2>2, <2>3 DEF Checkpoint
  <1>7. QED
    BY <1>1, <1>2, <1>3, <1>4, <1>5, <1>6 DEF WorkerStep

\* The operations after which every job is modest.
LEMMA MostStepsAreModest ==
  ASSUME TypeInv, OutcomeInv, NEW w \in Workers, NEW j \in Jobs,
         \/ UNCHANGED jobsVars
         \/ Expire(w) \/ QuarantineStale(w) \/ Claim(w) \/ MarkAttempt(w) \/ Checkpoint(w)
         \/ Terminate(w)
  PROVE  Modest(j)
  <1>0. /\ worker[w].pc \in OwnerPhases => worker[w].job \in Jobs /\ worker[w].token \in Tokens
        /\ worker[w].tx.intent # "NONE" => worker[w].job \in Jobs
        /\ TypeOK
    BY DEF TypeInv, ProcessesOK, Assigned
  <1>1. CASE UNCHANGED jobsVars
    BY <1>0, <1>1, ModestOperations DEF jobsVars
  <1>2. CASE Expire(w) \/ QuarantineStale(w)
    <2>1. /\ worker[w].job \in Jobs
          /\ \/ ExpireStale(worker[w].job) \/ BlockUnrecoverableStale(worker[w].job)
             \/ UNCHANGED jobsVars
      BY <1>0, <1>2 DEF Expire, QuarantineStale, Intends
    <2>2. QED
      BY <1>0, <1>1, <2>1, ModestOperations
  <1>3. CASE Claim(w)
    <2>1. UNCHANGED jobsVars \/ \E i \in Jobs : ClaimNext(i)
      BY <1>3 DEF Claim
    <2>2. QED
      BY <1>0, <1>1, <2>1, ModestOperations
  <1>4. CASE MarkAttempt(w) \/ Checkpoint(w)
    <2>1. /\ worker[w].job \in Jobs /\ worker[w].token \in Tokens
          /\ \/ UNCHANGED jobsVars
             \/ MarkProviderAttempt(worker[w].job, worker[w].token)
             \/ CheckpointResearchResult(worker[w].job, worker[w].token)
      BY <1>0, <1>4 DEF MarkAttempt, Checkpoint, At, OwnerPhases
    <2>2. QED
      BY <1>0, <1>1, <2>1, ModestOperations
  <1>5. CASE Terminate(w)
    <2>1. worker[w].job \in Jobs
      BY <1>0, <1>5 DEF Terminate, At, OwnerPhases
    <2>2. /\ worker[w].verdict.status \in TerminalStatuses
          /\ worker[w].verdict.status # "SUCCESS"
      BY DEF TypeInv, ProcessesOK, WorkerStates, Verdicts
    <2>3. \/ UNCHANGED jobsVars
          \/ Complete(worker[w].job, worker[w].token, worker[w].verdict.status,
                      worker[w].verdict.links, worker[w].verdict.completed)
      BY <1>5 DEF Terminate
    <2>4. QED
      BY <1>0, <1>1, <2>1, <2>2, <2>3, ModestOperations
  <1>6. QED
    BY <1>1, <1>2, <1>3, <1>4, <1>5

LEMMA CandidateStep ==
  ASSUME BaseInv, OutcomeInv, SettledInv, CandidateInv, [Next]_vars
  PROVE  CandidateInv'
  <1> USE DEF CandidateInv
  <1>0. TypeInv /\ TypeOK /\ ProcessesOK
    BY DEF BaseInv, TypeInv
  <1>k. Lasting /\ ProofLasts
    BY <1>0, EverythingLasts, ProvedLasts DEF ProofLasts
  <1>a. \A w \in Workers : worker[w].pc \in OwnerPhases =>
            worker[w].job \in Jobs /\ worker[w].token \in Tokens
    BY <1>0 DEF ProcessesOK, Assigned
  \* A step that deploys nothing.
  <1>b. ASSUME UNCHANGED deployed, PhasesEarned, \A j \in Jobs : Earned(j)
        PROVE  CandidateInv'
    BY <1>0, <1>b, <1>k, EarnedStep, DeployedStep, PhasesStep
  <1>c. ASSUME UNCHANGED deployed, PhasesEarned, \A j \in Jobs : Modest(j)
        PROVE  CandidateInv'
    BY <1>b, <1>c DEF Earned
  <1>1. ASSUME NEW w \in Workers,
               \/ Looks(w) /\ ~HeartbeatLost(w) /\ ~Restart(w)
               \/ InsertChain(w) \/ InsertCheckpoint(w) \/ CompleteCheckpoint(w) \/ CallProvider(w)
               \/ Expire(w) \/ QuarantineStale(w) \/ MarkAttempt(w) \/ Checkpoint(w) \/ Terminate(w)
        PROVE  CandidateInv'
    <2>1. UNCHANGED deployed
      BY <1>1, LooksWriteNothing DEF InsertChain, InsertCheckpoint, CompleteCheckpoint, CallProvider,
          Expire, QuarantineStale, MarkAttempt, Checkpoint, Terminate, chainVars
    <2>2. WorkerStep(w) /\ (~Claim(w) /\ ~Signal(w) => PhasesEarned)
      <3>1. WorkerStep(w)
        BY <1>1 DEF WorkerStep, Looks
      <3>2. QED
        BY <1>0, <1>k, <3>1, OwnerEarns
    <2>3. \A j \in Jobs : Modest(j)
      <3>1. \/ UNCHANGED jobsVars
            \/ Expire(w) \/ QuarantineStale(w) \/ MarkAttempt(w) \/ Checkpoint(w) \/ Terminate(w)
        BY <1>1, LooksWriteNothing DEF InsertChain, InsertCheckpoint, CompleteCheckpoint,
                                       CallProvider
      <3>2. QED
        BY <1>0, <3>1, MostStepsAreModest
    <2>4. ~Claim(w) /\ ~Signal(w)
      BY <1>1 DEF Looks, Audit, RecoverStale, Start, Fence, OpenChain, PrepareGeneration, CallRaises,
           CallReturns, Promote, Validate, Advance, Terminalize, InsertChain, InsertCheckpoint, CompleteCheckpoint, CallProvider, Expire, QuarantineStale,
           MarkAttempt, Checkpoint, Terminate, Claim, Signal, At
    <2>5. QED
      BY <1>c, <2>1, <2>2, <2>3, <2>4
  <1>2. ASSUME NEW w \in Workers, Requeue(w) PROVE CandidateInv'
    <2>1. UNCHANGED deployed
      BY <1>2 DEF Requeue
    <2>2. PhasesEarned
      <3>1. Moves(w, {})
        BY <1>0, <1>2, OtherMoves
      <3>2. QED
        BY <3>1, MovesEarn
    <2>3. \A j \in Jobs : Earned(j)
      BY <1>0, <1>2, <1>k, RecoveredEarns
    <2>4. QED
      BY <1>b, <2>1, <2>2, <2>3
  <1>3. ASSUME NEW w \in Workers, Claim(w) PROVE CandidateInv'
    <2>1. UNCHANGED deployed
      BY <1>3 DEF Claim, chainVars
    <2>2. PhasesEarned
      <3>1. CASE Return(w) \/ Exit(w)
        BY <1>0, <3>1, LeavingEarns
      <3>2. ASSUME NEW j \in Jobs,
                   worker' = [worker EXCEPT ![w] =
                      [Unassigned("start") EXCEPT !.job = j, !.token = issued + 1]]
            PROVE  PhasesEarned
        <4>1. worker'[w].pc = "start" /\ \A v \in Workers : v # w => worker'[v] = worker[v]
          BY <1>0, <3>2 DEF ProcessesOK, Unassigned
        <4>2. QED
          BY <4>1 DEF PhasesEarned, BoundPhases
      <3>3. QED
        BY <1>3, <3>1, <3>2 DEF Claim
    <2>3. \A j \in Jobs : Modest(j)
      BY <1>0, <1>3, MostStepsAreModest
    <2>4. QED
      BY <1>c, <2>1, <2>2, <2>3
  <1>4. ASSUME NEW w \in Workers, Approve(w) PROVE CandidateInv'
    <2>0. PICK k \in Jobs : k = worker[w].job
      BY <1>4, <1>a DEF Approve, At, OwnerPhases
    <2>1. /\ worker[w].pc = "approve" /\ worker[w].pc \in OwnerPhases
          /\ UNCHANGED deployed
      BY <1>4 DEF Approve, At, OwnerPhases
    <2>2. PhasesEarned
      BY <1>0, <1>4, <2>1, LeavingEarns DEF Approve
    <2>3. CASE UNCHANGED jobsVars
      BY <1>0, <1>c, <2>1, <2>2, <2>3, MostStepsAreModest
    <2>4. CASE /\ AutoApproveJob(k, worker[w].token)
               /\ ckpt' = [ckpt EXCEPT ![k]["CANDIDATE_APPROVAL"] = "SUCCESS"]
      <3>1. ckpt'[k]["CANDIDATE_APPROVAL"] = "SUCCESS"
        BY <1>0, <2>4, CandidateIs DEF TypeInv, RowsOK
      <3>2. Proved(k)'
        <4>1. SettledInv'
          BY SettledStep
        <4>2. Before(k, "CANDIDATE_APPROVAL")'
          BY <3>1, <4>1 DEF SettledInv, SettledOK, Settled
        <4>3. QED
          BY <3>1, <4>2, CandidateIs DEF Proved, Before
      <3>3. Bound(k)'
        BY <1>k, <2>0, <2>1 DEF PhasesInv, BoundPhases, Bound, Lasting
      <3>4. job'[k].status = "PENDING" /\ \A j \in Jobs : j # k => job'[j] = job[j]
        BY <1>0, <2>4 DEF AutoApproveJob, TypeOK, JobRows
      <3>5. ASSUME NEW j \in Jobs PROVE Earned(j)
        <4>1. CASE j = k
          BY <3>2, <3>3, <3>4, <4>1 DEF Earned
        <4>2. CASE j # k
          BY <3>4, <4>2 DEF Earned, Modest, InPlay
        <4>3. QED
          BY <4>1, <4>2
      <3>6. QED
        BY <1>b, <2>1, <2>2, <3>5
    <2>5. QED
      BY <1>4, <2>0, <2>3, <2>4 DEF Approve
  <1>5. ASSUME NEW w \in Workers, Signal(w) PROVE CandidateInv'
    <2> DEFINE k == worker[w].job
    <2>1. /\ worker[w].pc \in OwnerPhases /\ k \in Jobs /\ UNCHANGED jobsVars
      BY <1>5, <1>a DEF Signal, At, OwnerPhases
    <2>2. ASSUME NEW j \in Jobs PROVE Modest(j)
      BY <1>0, <2>1, MostStepsAreModest
    <2>3. CASE /\ UNCHANGED deployed
               /\ \/ Return(w)
                  \/ \E status \in {"BLOCKED", "FAILED"} : Decide(w, status, FALSE, FALSE)
      <3>1. PhasesEarned
        BY <1>0, <2>1, <2>3, LeavingEarns
      <3>2. QED
        BY <1>c, <2>1, <2>2, <2>3, <3>1
    <2>4. CASE /\ Owned(k, worker[w].token) /\ job[k].stage = "SIGNAL" /\ ApprovedCandidate(k)
               /\ deployed' = [deployed EXCEPT ![k] = TRUE]
               /\ Goto(w, "finish")
      <3>1. Proved(k) /\ Bound(k) /\ chain[k].approval # "NONE"
        BY <2>1, <2>4 DEF Owned, StagesInv, InPlay, KnownStages, CandidateStages, ApprovedCandidate
      <3>2. deployed'[k] /\ \A j \in Jobs : deployed'[j] <=> deployed[j] \/ j = k
        BY <1>0, <2>1, <2>4, Zenon DEF TypeInv, RowsOK
      <3>3. PhasesEarned
        BY <1>0, <2>4, <3>2, GotoEarns DEF BoundPhases
      <3>4. \A j \in Jobs : Earned(j)
        BY <2>2 DEF Earned
      <3>5. StagesInv' /\ SuccessWasDeployed'
        BY <1>k, <3>2, <3>4, EarnedStep
      <3>6. DeployedWasApproved'
        BY <1>k, <3>1, <3>2, DeployedStep
      <3>7. PhasesInv'
        BY <1>0, <1>k, <3>2, <3>3, PhasesStep
      <3>8. QED
        BY <3>5, <3>6, <3>7
    <2>5. QED
      BY <1>5, <2>3, <2>4 DEF Signal
  <1>6. ASSUME NEW w \in Workers, Finish(w) PROVE CandidateInv'
    <2> DEFINE k == worker[w].job
    <2>1. /\ worker[w].pc \in OwnerPhases /\ worker[w].pc = "finish" /\ k \in Jobs
          /\ UNCHANGED deployed
      BY <1>6, <1>a DEF Finish, At, OwnerPhases, chainVars
    <2>2. PhasesEarned
      BY <1>0, <1>6, <2>1, LeavingEarns DEF Finish
    <2>3. CASE UNCHANGED jobsVars
      BY <1>0, <1>c, <2>1, <2>2, <2>3, MostStepsAreModest
    <2>4. CASE Complete(k, worker[w].token, "SUCCESS", TRUE, FALSE)
      <3>1. deployed'[k]
        BY <2>1 DEF PhasesInv
      <3>2. job'[k].status = "SUCCESS" /\ \A j \in Jobs : j # k => job'[j] = job[j]
        BY <1>0, <2>1, <2>4 DEF Complete, TypeOK, JobRows
      <3>3. \A j \in Jobs : Earned(j)
        BY <3>1, <3>2 DEF Earned, Modest, InPlay
      <3>4. QED
        BY <1>b, <2>1, <2>2, <3>3
    <2>5. QED
      BY <1>6, <2>3, <2>4 DEF Finish
  <1>7. ASSUME NEW w \in Workers, HeartbeatLost(w) \/ Crash(w) \/ Restart(w) PROVE CandidateInv'
    <2>1. UNCHANGED <<jobsVars, deployed>>
      BY <1>7 DEF HeartbeatLost, Crash, Restart, chainVars
    <2>2. Moves(w, {})
      BY <1>0, <1>7, OtherMoves
    <2>3. QED
      BY <1>0, <1>c, <2>1, <2>2, MovesEarn, MostStepsAreModest
  <1>8. CASE \/ \E j \in Jobs : AbandonedLeaseLapses(j) \/ HeldLeaseLapses(j)
             \/ OperatorStep
             \/ UNCHANGED vars
    <2>1. UNCHANGED <<worker, deployed>>
      BY <1>8 DEF AbandonedLeaseLapses, HeldLeaseLapses, OperatorStep, QueueRequest,
                  CommitCancel, RetryStale, RevokeApproval, vars, chainVars
    <2>2. PhasesEarned
      BY <2>1 DEF PhasesEarned
    <2>3. \/ UNCHANGED job
          \/ \E i \in Jobs : \/ LeaseLapse(i) \/ CancelWrite(i)
                             \/ PrepareStaleRecovery(i, "VALIDATION_RETRY")
                             \/ \E kind \in Kinds : Enqueue(i, kind)
      BY <1>8 DEF AbandonedLeaseLapses, HeldLeaseLapses, OperatorStep, QueueRequest,
                  CommitCancel, RetryStale, RevokeApproval, SetPaused, CancelRead, vars, jobsVars
    <2>4. \A j \in Jobs : Modest(j)
      BY <1>0, <2>3, ModestOperations
    <2>5. QED
      BY <1>c, <2>1, <2>2, <2>4
  <1>9. QED
    BY <1>1, <1>2, <1>3, <1>4, <1>5, <1>6, <1>7, <1>8 DEF Next, WorkerStep, Looks

LEMMA CandidateHolds == Spec => []CandidateInv
  <1>1. Init => CandidateInv
    <2> SUFFICES ASSUME Init PROVE CandidateInv
      OBVIOUS
    <2>1. \A j \in Jobs : job[j].status = "ABSENT" /\ ~deployed[j]
      BY DEF Init, JobsInit
    <2>2. \A w \in Workers : worker[w].pc = "audit"
      BY DEF Init, Unassigned
    <2>3. QED
      BY <2>1, <2>2 DEF CandidateInv, StagesInv, PhasesInv, DeployedWasApproved,
                        SuccessWasDeployed, InPlay, BoundPhases
  <1>2. QED
    BY <1>1, CandidateStep, BaseHolds, SettledHolds, QueueFacts, PTL DEF Spec

\* A job in the queue or running for the continuation has every checkpoint of its chain.
THEOREM SignalIsForACandidate == Spec => []SignalHasCandidate
  <1>1. CandidateInv => SignalHasCandidate
    BY DEF CandidateInv, StagesInv, SignalHasCandidate, InPlay, Proved, CandidateStages
  <1>2. QED
    BY <1>1, CandidateHolds, PTL

\* Nothing is deployed but a candidate that passed every checkpoint, was approved, and
\* whose provider outcome and ids are recorded.
THEOREM OnlyApprovedIsDeployed == Spec => []DeployedWasApproved
  <1>1. CandidateInv => DeployedWasApproved
    BY DEF CandidateInv
  <1>2. QED
    BY <1>1, CandidateHolds, PTL

\* A job is closed as a success only when its deployment has been published.
THEOREM SuccessIsDeployed == Spec => []SuccessWasDeployed
  <1>1. CandidateInv => SuccessWasDeployed
    BY DEF CandidateInv
  <1>2. QED
    BY <1>1, CandidateHolds, PTL


-----------------------------------------------------------------------------
(* The chains no former owner has written to: their checkpoints succeed in *)
(* order, at most one is open, and who closes the job closes it too.       *)

Shape(j) == \A s \in ChainStages : ckpt[j][s] # "NONE" => Before(j, s)

\* What a closing transaction has read is what is open.
ClosesAll(w, j) ==
    /\ ChainActive(j) => Active(worker[w].tx.chain)
    /\ \A s \in ChainStages : ckpt[j][s] = "PREPARED" <=> s = worker[w].tx.stage

\* Nothing of the job is open.
AllClosed(j) ==
    /\ ~ChainActive(j)
    /\ \A s \in ChainStages : ckpt[j][s] # "PREPARED"

\* An owner that will write a checkpoint has found those before it successful.
WritesInOrder ==
    \A w \in Workers, j \in Jobs :
        /\ worker[w].tx.intent \in {"INSERT", "COMPLETE"}
        /\ worker[w].job = j
        /\ worker[w].token = job[j].token
        => Before(j, worker[w].tx.stage)

CleanOK(j) ==
    /\ Shape(j)
    /\ \A w \in Workers : Closing(w, j) => ClosesAll(w, j)
    /\ job[j].status \in ClosedStatuses => AllClosed(j)

ShapeInv ==
    /\ WritesInOrder
    /\ \A j \in Jobs : ~chain[j].late => CleanOK(j)
    /\ \A j \in Jobs : job[j].status \in ClosedStatuses => attempt[j] = job[j].status

LEMMA WritesInOrderStep ==
  ASSUME BaseInv, SettledInv, ShapeInv, [Next]_vars
  PROVE  WritesInOrder'
  <1> SUFFICES ASSUME NEW w \in Workers, NEW j \in Jobs, NEW s, s = worker'[w].tx.stage,
                      worker'[w].tx.intent \in {"INSERT", "COMPLETE"},
                      worker'[w].job = j, worker'[w].token = job'[j].token
               PROVE  Before(j, s)'
    BY DEF WritesInOrder, Before
  <1>0. /\ TypeInv /\ SlotInv /\ TokenInv /\ IntentOK(w) /\ TxStep(w) /\ ChainStep(j)
        /\ ckpt[j] \in [ChainStages -> CheckpointStatuses]
    BY EveryTxStep, EveryChainStep DEF BaseInv, IntentInv, TypeInv, RowsOK
  <1>1. CASE TxKept(w)
    <2>1. /\ worker[w].tx.intent \in {"INSERT", "COMPLETE"} /\ worker[w].job = j
          /\ worker[w].token = job'[j].token /\ worker[w].tx.stage = s
      BY <1>1 DEF TxKept
    <2>2. worker[w].pc \in OwnerPhases
      BY <1>0, <2>1 DEF IntentOK, IntentsAt, OwnerPhases, RecoveryModes
    <2>3. worker[w].token \in Tokens /\ worker[w].token <= issued /\ issued \in Nat
      BY <1>0, <2>2, TokenFacts DEF TokenInv
    <2>4. job'[j].token # None /\ job[j].token = worker[w].token
      BY <1>0, <2>1, <2>3, TokenFacts DEF TokenMoves, Tokens, None
    <2>5. Before(j, s)
      BY <2>1, <2>4 DEF ShapeInv, WritesInOrder
    <2>6. ASSUME NEW t \in ChainStages, ckpt[j][t] = "SUCCESS" PROVE ckpt'[j][t] = "SUCCESS"
      <3>1. CASE LeftAlone(j) \/ Revoked(j)
        BY <2>6, <3>1 DEF LeftAlone, SameChain, Revoked
      <3>2. ASSUME NEW v \in Workers, WrittenBy(v, j) PROVE ckpt'[j][t] = "SUCCESS"
        BY <1>0, <2>6, <3>2 DEF WrittenBy
      <3>3. CASE (\E v \in Workers : ClosedBy(v, j) \/ ApprovedBy(v, j)) \/ Resumed(j) \/ Quarantined(j)
        BY <2>4, <3>3 DEF ClosedBy, ApprovedBy, Resumed, Quarantined
      <3>4. QED
        BY <1>0, <3>1, <3>2, <3>3 DEF ChainStep
    <2>7. QED
      BY <2>1, <2>5, <2>6 DEF Before
  <1>2. CASE TxLook(w)
    <2>1. TxWillWrite(w) /\ UNCHANGED ckpt /\ worker[w].job = j
      BY <1>2 DEF TxLook, TxCloses, TxRecovers, TxFenced, TxWillWrite, RecoveryModes
    <2>2. Before(j, s)
      <3>1. CASE At(w, "prepare") /\ s = "GENERATION"
        BY <3>1 DEF Before, Order, ChainStages
      <3>2. CASE At(w, "advance") /\ s = "CANDIDATE_APPROVAL"
        <4>1. Settled(j)
          BY <2>1, <3>2 DEF TxWillWrite, Settled, Intends
        <4>2. QED
          BY <3>2, <4>1 DEF SettledInv, SettledOK
      <3>3. CASE NextCheckpoint(j) # 4 /\ s = ResearchStages[NextCheckpoint(j)]
        <4> DEFINE i == NextCheckpoint(j)
        <4>1. i \in 1 .. 3 /\ \A k \in 1 .. 3 : k < i => ckpt[j][ResearchStages[k]] = "SUCCESS"
          BY <3>3, NextCheckpointIs
        <4> HIDE DEF i
        <4>2. \A t \in ChainStages : Order[t] < Order[ResearchStages[i]] =>
                  \E k \in 1 .. 3 : k < i /\ t = ResearchStages[k]
          <5>1. /\ ResearchStages[1] = "GENERATION" /\ ResearchStages[2] = "BACKTEST"
                /\ ResearchStages[3] = "SCORING"
            BY DEF ResearchStages
          <5>2. i = 1 \/ i = 2 \/ i = 3
            BY <4>1
          <5>3. QED
            BY <5>1, <5>2 DEF ChainStages, Order
        <4>3. QED
          BY <3>3, <4>1, <4>2 DEF Before, i
      <3>4. QED
        BY <2>1, <3>1, <3>2, <3>3 DEF TxWillWrite
    <2>3. QED
      BY <2>1, <2>2 DEF Before
  <1>3. QED
    BY <1>0, <1>1, <1>2 DEF TxStep, TxOver

\* Checkpoints in order leave at most one open.
LEMMA OneOpen ==
  ASSUME NEW j \in Jobs, Shape(j), NEW s \in ChainStages \cup {"NONE"}, LatestOpen(j, s)
  PROVE  \A t \in ChainStages : ckpt[j][t] = "PREPARED" <=> t = s
  <1>1. CASE s = "NONE"
    BY <1>1 DEF LatestOpen, ChainStages
  <1>2. CASE s # "NONE"
    <2>1. ckpt[j][s] = "PREPARED" /\ s \in ChainStages
      BY <1>2 DEF LatestOpen
    <2>2. Before(j, s)
      BY <2>1 DEF Shape
    <2>3. ASSUME NEW t \in ChainStages, ckpt[j][t] = "PREPARED", t # s PROVE FALSE
      <3>1. Order[t] <= Order[s]
        BY <1>2, <2>3 DEF LatestOpen
      <3>2. Order[t] # Order[s]
        BY <2>1, <2>3 DEF ChainStages, Order
      <3>3. Order[t] < Order[s]
        BY <2>1, <3>1, <3>2 DEF ChainStages, Order
      <3>4. QED
        BY <2>2, <2>3, <3>3 DEF Before
    <2>4. QED
      BY <2>1, <2>3
  <1>3. QED
    BY <1>1, <1>2

\* A step on a clean chain whose checkpoints stay successful, and are of no stage whose
\* predecessors are not, keeps its shape.
LEMMA ShapeKept ==
  ASSUME NEW j \in Jobs, Shape(j),
         \A s \in ChainStages : ckpt[j][s] = "SUCCESS" => ckpt'[j][s] = "SUCCESS",
         \A s \in ChainStages : ckpt'[j][s] # "NONE" => ckpt[j][s] # "NONE" \/ Before(j, s)
  PROVE  Shape(j)'
  BY DEF Shape, Before

\* Who writes to a clean chain and leaves it clean owns the job.
LEMMA CleanWriter ==
  ASSUME NEW w \in Workers, NEW j \in Jobs, WrittenBy(w, j), ~chain'[j].late
  PROVE  ~chain[j].late /\ Owned(j, worker[w].token)
  BY DEF WrittenBy, Landed

\* A chain stays clean only if it was.
LEMMA CleanBefore ==
  ASSUME BaseInv, [Next]_vars, NEW j \in Jobs, ~chain'[j].late
  PROVE  ~chain[j].late
  <1>0. ChainStep(j) /\ chain[j] \in ChainRows
    BY EveryChainStep DEF BaseInv, TypeInv, RowsOK
  <1>1. ASSUME NEW w \in Workers, ClosedBy(w, j) PROVE ~chain[j].late
    BY <1>0, <1>1 DEF ClosedBy, ClosedAs, ChainRows
  <1>2. CASE Quarantined(j)
    <2>1. [chain[j] EXCEPT !.status = "BLOCKED"].late = chain[j].late
      BY <1>0 DEF ChainRows
    <2>2. QED
      BY <1>2, <2>1 DEF Quarantined
  <1>3. CASE Revoked(j)
    BY <1>0, <1>3 DEF Revoked, ChainRows
  <1>4. QED
    BY <1>0, <1>1, <1>2, <1>3, CleanWriter DEF ChainStep, LeftAlone, SameChain, ApprovedBy, Resumed

LEMMA ShapeStep ==
  ASSUME BaseInv, ShapeInv, [Next]_vars, NEW j \in Jobs, ~chain'[j].late
  PROVE  Shape(j)'
  <1>0. /\ ~chain[j].late /\ CleanOK(j) /\ Shape(j) /\ ChainStep(j)
        /\ ckpt[j] \in [ChainStages -> CheckpointStatuses]
    BY CleanBefore, EveryChainStep DEF ShapeInv, CleanOK, BaseInv, TypeInv, RowsOK
  <1>1. CASE LeftAlone(j) \/ Revoked(j)
    BY <1>0, <1>1, ShapeKept DEF LeftAlone, SameChain, Revoked
  <1>2. ASSUME NEW w \in Workers, ClosedBy(w, j) PROVE Shape(j)'
    <2>1. \A s \in ChainStages : ckpt[j][s] = "PREPARED" <=> s = worker[w].tx.stage
      BY <1>0, <1>2 DEF ClosedBy, CleanOK, ClosesAll
    <2>2. \A s \in ChainStages :
            ckpt'[j][s] = IF s = worker[w].tx.stage THEN job'[j].status ELSE ckpt[j][s]
      BY <1>2 DEF ClosedBy, ClosedAs
    <2>3. QED
      BY <1>0, <2>1, <2>2, ShapeKept
  <1>3. ASSUME NEW w \in Workers, WrittenBy(w, j) PROVE Shape(j)'
    <2>1. Owned(j, worker[w].token) /\ worker[w].job = j
      BY <1>3, CleanWriter DEF WrittenBy
    <2>2. CASE Intends(w, "OPEN") /\ ckpt'[j] = ckpt[j]
      BY <1>0, <2>2, ShapeKept
    <2>3. ASSUME worker[w].tx.intent \in {"INSERT", "COMPLETE"},
                 ckpt[j][worker[w].tx.stage] = "NONE" \/ Intends(w, "COMPLETE"),
                 NEW status, status = "SUCCESS" \/ Intends(w, "INSERT"),
                 ckpt'[j] = [ckpt[j] EXCEPT ![worker[w].tx.stage] = status]
          PROVE  Shape(j)'
      <3>1. Before(j, worker[w].tx.stage)
        BY <2>1, <2>3 DEF ShapeInv, WritesInOrder, Owned
      <3>2. \A s \in ChainStages :
              ckpt'[j][s] = IF s = worker[w].tx.stage THEN status ELSE ckpt[j][s]
        BY <1>0, <2>3
      <3>3. QED
        BY <1>0, <2>3, <3>1, <3>2, ShapeKept DEF Intends
    <2>4. QED
      BY <1>3, <2>2, <2>3 DEF WrittenBy, Intends
  <1>4. CASE Resumed(j)
    BY <1>0, <1>4, ShapeKept DEF Resumed
  <1>5. CASE Quarantined(j)
    <2>1. \A s \in ChainStages : LatestOpen(j, s) => ckpt[j][s] = "PREPARED"
      BY DEF LatestOpen, ChainStages
    <2>2. \A s \in ChainStages :
             ckpt'[j][s] = ckpt[j][s] \/ (ckpt'[j][s] = "BLOCKED" /\ LatestOpen(j, s))
      BY <1>5 DEF Quarantined
    <2>3. QED
      BY <1>0, <2>1, <2>2, ShapeKept
  <1>6. ASSUME NEW w \in Workers, ApprovedBy(w, j) PROVE Shape(j)'
    <2>1. \A s \in ChainStages :
             ckpt'[j][s] = IF s = "CANDIDATE_APPROVAL" THEN "SUCCESS" ELSE ckpt[j][s]
      BY <1>0, <1>6 DEF ApprovedBy
    <2>2. QED
      BY <1>0, <1>6, <2>1, ShapeKept DEF ApprovedBy
  <1>7. QED
    BY <1>0, <1>1, <1>2, <1>3, <1>4, <1>5, <1>6 DEF ChainStep

LEMMA ClosesAllStep ==
  ASSUME BaseInv, ShapeInv, [Next]_vars, NEW j \in Jobs, ~chain'[j].late,
         NEW w \in Workers, Closing(w, j)'
  PROVE  ClosesAll(w, j)'
  <1>0. /\ ~chain[j].late /\ CleanOK(j) /\ Shape(j) /\ ChainStep(j)
        /\ TypeInv /\ SlotInv /\ TokenInv /\ chain[j] \in ChainRows
    BY CleanBefore, EveryChainStep DEF ShapeInv, CleanOK, BaseInv, TypeInv, RowsOK
  <1>1. CASE TxKept(w) /\ Closing(w, j) /\ job'[j].token = job[j].token /\ job'[j].token # None
    <2>1. ClosesAll(w, j) /\ worker'[w].tx = worker[w].tx
      BY <1>0, <1>1 DEF CleanOK, TxKept
    <2>2. CASE SameChain(j)
      BY <2>1, <2>2 DEF SameChain, ClosesAll, ChainActive
    <2>3. CASE Revoked(j)
      <3>1. chain'[j].status = "BLOCKED" /\ ckpt'[j] = ckpt[j]
        BY <1>0, <2>3 DEF Revoked, ChainRows
      <3>2. QED
        BY <2>1, <3>1 DEF ClosesAll, ChainActive, Active, TerminalStatuses
    <2>4. ASSUME NEW v \in Workers, WrittenBy(v, j) PROVE FALSE
      <3>1. /\ Owned(j, worker[v].token) /\ worker[v].pc \in OwnerPhases
            /\ worker[v].tx.intent \in {"OPEN", "INSERT", "COMPLETE"}
        BY <2>4, CleanWriter DEF WrittenBy, Intends
      <3>2. worker[w].pc \in OwnerPhases
        BY <1>0, <1>1, <3>1 DEF TokenInv, Owned
      <3>3. v = w
        BY <1>0, <1>1, <3>1, <3>2 DEF TokenInv, Owned, Closing
      <3>4. QED
        BY <1>1, <3>1, <3>3 DEF Closing, Intends
    <2>5. QED
      BY <1>0, <1>1, <2>2, <2>3, <2>4
      DEF ChainStep, LeftAlone, ClosedBy, ApprovedBy, Resumed, Quarantined
  <1>2. CASE TxLook(w) /\ TxCloses(w) /\ worker'[w].job = j
    <2>1. /\ UNCHANGED <<chain, ckpt>>
          /\ worker'[w].tx.chain = chain[j].status
          /\ worker'[w].tx.stage \in ChainStages \cup {"NONE"}
          /\ LatestOpen(j, worker'[w].tx.stage)
      BY <1>2 DEF TxLook, TxCloses
    <2>2. \A s \in ChainStages : ckpt[j][s] = "PREPARED" <=> s = worker'[w].tx.stage
      BY <1>0, <2>1, OneOpen
    <2>3. QED
      BY <2>1, <2>2 DEF ClosesAll, ChainActive
  <1>3. QED
    BY <1>0, <1>1, <1>2, ClosingStep

LEMMA AllClosedStep ==
  ASSUME BaseInv, ShapeInv, [Next]_vars, NEW j \in Jobs, ~chain'[j].late,
         job'[j].status \in ClosedStatuses
  PROVE  AllClosed(j)'
  <1>0. /\ ~chain[j].late /\ CleanOK(j) /\ ChainStep(j) /\ chain[j] \in ChainRows
    BY CleanBefore, EveryChainStep DEF ShapeInv, BaseInv, TypeInv, RowsOK
  <1>1. CASE LeftAlone(j)
    BY <1>0, <1>1 DEF LeftAlone, SameChain, CleanOK, AllClosed, ChainActive
  <1>2. ASSUME NEW w \in Workers, ClosedBy(w, j) PROVE AllClosed(j)'
    <2>1. /\ ClosesAll(w, j)
          /\ \A s \in ChainStages :
               ckpt'[j][s] = IF s = worker[w].tx.stage THEN job'[j].status ELSE ckpt[j][s]
      BY <1>0, <1>2 DEF ClosedBy, ClosedAs, CleanOK
    <2>2. chain'[j].status = IF Active(worker[w].tx.chain) THEN job'[j].status ELSE chain[j].status
      BY <1>0, <1>2 DEF ClosedBy, ClosedAs, ChainRows
    <2>3. ~ChainActive(j)'
      BY <2>1, <2>2 DEF ClosesAll, ChainActive, Active, ClosedStatuses, TerminalStatuses
    <2>4. \A s \in ChainStages : ckpt'[j][s] # "PREPARED"
      BY <2>1 DEF ClosesAll, ClosedStatuses
    <2>5. QED
      BY <2>3, <2>4 DEF AllClosed
  <1>3. ASSUME NEW w \in Workers, WrittenBy(w, j) PROVE AllClosed(j)'
    <2>1. job[j].status = "RUNNING" /\ job' = job
      BY <1>3, CleanWriter DEF WrittenBy, Owned, jobsVars
    <2>2. QED
      BY <2>1 DEF ClosedStatuses
  <1>4. CASE Quarantined(j)
    <2>1. AllClosed(j)
      BY <1>0, <1>4 DEF Quarantined, CleanOK, ClosedStatuses
    <2>2. chain'[j].status \in {chain[j].status, "BLOCKED"}
      <3>1. [chain[j] EXCEPT !.status = "BLOCKED"].status = "BLOCKED"
        BY <1>0 DEF ChainRows
      <3>2. QED
        BY <1>4, <3>1 DEF Quarantined
    <2>3. \A s \in ChainStages : ckpt'[j][s] \in {ckpt[j][s], "BLOCKED"}
      BY <1>4 DEF Quarantined
    <2>4. QED
      BY <2>1, <2>2, <2>3 DEF AllClosed, ChainActive, Active, TerminalStatuses
  <1>5. CASE Revoked(j)
    <2>1. job[j].status \in ClosedStatuses /\ ckpt'[j] = ckpt[j]
      BY <1>5 DEF Revoked, jobsVars
    <2>2. chain'[j].status = "BLOCKED"
      BY <1>0, <1>5 DEF Revoked, ChainRows
    <2>3. QED
      BY <1>0, <2>1, <2>2 DEF CleanOK, AllClosed, ChainActive, Active, TerminalStatuses
  <1>6. CASE Resumed(j) \/ \E w \in Workers : ApprovedBy(w, j)
    BY <1>6 DEF Resumed, ApprovedBy, ClosedStatuses
  <1>7. QED
    BY <1>0, <1>1, <1>2, <1>3, <1>4, <1>5, <1>6 DEF ChainStep

LEMMA ShapeInvStep == BaseInv /\ SettledInv /\ ShapeInv /\ [Next]_vars => ShapeInv'
  <1> SUFFICES ASSUME BaseInv, SettledInv, ShapeInv, [Next]_vars PROVE ShapeInv'
    OBVIOUS
  <1>1. WritesInOrder'
    BY WritesInOrderStep
  <1>2. ASSUME NEW j \in Jobs, ~chain'[j].late PROVE CleanOK(j)'
    BY <1>2, ShapeStep, ClosesAllStep, AllClosedStep DEF CleanOK
  <1>3. ASSUME NEW j \in Jobs, job'[j].status \in ClosedStatuses PROVE attempt'[j] = job'[j].status
    <2>1. ChainStep(j)
      BY EveryChainStep DEF BaseInv
    <2>2. CASE LeftAlone(j)
      BY <1>3, <2>2 DEF ShapeInv, LeftAlone
    <2>3. ASSUME UNCHANGED jobsVars PROVE attempt'[j] = job'[j].status
      BY <1>3, <2>3 DEF ShapeInv, jobsVars
    <2>4. ASSUME NEW w \in Workers, ClosedBy(w, j) \/ WrittenBy(w, j) \/ ApprovedBy(w, j)
          PROVE  attempt'[j] = job'[j].status
      <3>1. CASE ClosedBy(w, j)
        BY <3>1 DEF ClosedBy
      <3>2. CASE WrittenBy(w, j)
        BY <2>3, <3>2 DEF WrittenBy
      <3>3. CASE ApprovedBy(w, j)
        BY <1>3, <3>3 DEF ApprovedBy, ClosedStatuses
      <3>4. QED
        BY <2>4, <3>1, <3>2, <3>3
    <2>5. CASE Resumed(j) \/ Quarantined(j)
      BY <1>3, <2>5 DEF Resumed, Quarantined, ClosedStatuses
    <2>6. CASE Revoked(j)
      BY <2>3, <2>6 DEF Revoked
    <2>7. QED
      BY <2>1, <2>2, <2>4, <2>5, <2>6 DEF ChainStep
  <1>4. QED
    BY <1>1, <1>2, <1>3 DEF ShapeInv

\* A job its worker, an expiry or the quarantine has closed is closed in all its tables,
\* unless a former owner's write has landed on its chain.
THEOREM ClosedIsClosedTogether == Spec => []ClosedTogether
  <1>1. Init => ShapeInv
    <2> SUFFICES ASSUME Init PROVE ShapeInv
      OBVIOUS
    <2>1. /\ \A j \in Jobs : job[j].status = "ABSENT" /\ \A s \in ChainStages : ckpt[j][s] = "NONE"
          /\ \A w \in Workers : worker[w].tx.intent = "NONE"
      BY DEF Init, JobsInit, Unassigned, NoTx
    <2>2. QED
      BY <2>1 DEF ShapeInv, WritesInOrder, CleanOK, Shape, Closing, Intends, ClosedStatuses
  <1>2. ShapeInv => ClosedTogether
    BY DEF ShapeInv, CleanOK, AllClosed, ClosedTogether, ClosedStatuses
  <1>3. QED
    BY <1>1, <1>2, ShapeInvStep, BaseHolds, SettledHolds, PTL DEF Spec

=============================================================================
