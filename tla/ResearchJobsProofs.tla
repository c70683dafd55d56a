-------------------------- MODULE ResearchJobsProofs --------------------------
(***************************************************************************)
(* Proofs about the research-job queue, for every number of jobs, attempts *)
(* and lease tokens, and for any callers of the repository.                *)
(***************************************************************************)
EXTENDS ResearchJobs, TLAPS

-----------------------------------------------------------------------------
(* Types.                                                                  *)

\* Giving up the slot leaves a control row.
LEMMA ReleasedType ==
  ASSUME TypeOK, NEW j, NEW t
  PROVE  Released(j, t) \in ControlRows
  <1>1. [control EXCEPT !.active = None, !.token = None] \in ControlRows
    BY DEF TypeOK, ControlRows
  <1>2. QED
    BY <1>1 DEF Released, TypeOK

\* The names the actions write are names of their types.
LEMMA StatusNames ==
  /\ TerminalStatuses \subseteq Statuses
  /\ "PENDING" \in Statuses
  /\ "RUNNING" \in Statuses
  /\ "AWAITING_APPROVAL" \in Statuses
  /\ "CANCELLED" \in Statuses
  /\ "STALE" \in Statuses
  /\ "BLOCKED" \in Statuses
  BY DEF Statuses, TerminalStatuses

LEMMA AttemptNames ==
  /\ TerminalStatuses \subseteq AttemptStatuses
  /\ "RUNNING" \in AttemptStatuses
  /\ "AWAITING_APPROVAL" \in AttemptStatuses
  /\ "STALE" \in AttemptStatuses
  /\ "BLOCKED" \in AttemptStatuses
  BY DEF AttemptStatuses, TerminalStatuses

LEMMA StageNames ==
  /\ RecoveryStages \subseteq Stages
  /\ "CANDIDATE_APPROVED" \in Stages
  /\ "GENERATION" \in Stages
  /\ "PROVIDER_CALL" \in Stages
  /\ "PERSISTED_RESULT" \in Stages
  /\ "SIGNAL" \in Stages
  /\ "CANDIDATE_APPROVAL" \in Stages
  /\ "LEASE_EXPIRED" \in Stages
  /\ "CLOSED" \in Stages
  <1>1. RecoveryStages \subseteq Stages
    BY DEF Stages
  <1>2. "CANDIDATE_APPROVED" \in RecoveryStages
    BY DEF RecoveryStages
  <1>3. QED
    BY <1>1, <1>2 DEF Stages

\* Every step keeps the types.
LEMMA TypeStep == TypeOK /\ [JobsNext]_jobsVars => TypeOK'
  <1> SUFFICES ASSUME TypeOK, [JobsNext]_jobsVars PROVE TypeOK'
    OBVIOUS
  <1>0. \A j \in Jobs : job[j] \in JobRows
    BY DEF TypeOK
  <1>1. ASSUME NEW j \in Jobs, NEW kind \in Kinds, Enqueue(j, kind) PROVE TypeOK'
    <2>1. [job[j] EXCEPT !.status = "PENDING", !.kind = kind] \in JobRows
      BY <1>0, StatusNames, Zenon DEF JobRows
    <2>2. QED
      BY <1>1, <2>1 DEF TypeOK, Enqueue
  <1>2. ASSUME NEW p \in BOOLEAN, SetPaused(p) PROVE TypeOK'
    BY <1>2 DEF TypeOK, SetPaused, ControlRows
  <1>3. ASSUME NEW j \in Jobs, CancelRead(j) PROVE TypeOK'
    BY <1>3 DEF TypeOK, CancelRead
  <1>4. ASSUME NEW j \in Jobs, CancelWrite(j) PROVE TypeOK'
    <2>1. /\ [job[j] EXCEPT !.cancel = TRUE] \in JobRows
          /\ [job[j] EXCEPT !.status = "CANCELLED", !.stage = "CLOSED",
                            !.cancel = TRUE] \in JobRows
      BY <1>0, StatusNames, StageNames, Zenon DEF JobRows
    <2>2. QED
      BY <1>4, <2>1 DEF TypeOK, CancelWrite
  <1>5. ASSUME NEW j \in Jobs, ClaimNext(j) PROVE TypeOK'
    <2>1. ClaimedStage(j) \in Stages
      <3>1. job[j].stage \in Stages
        BY <1>0 DEF JobRows
      <3>2. QED
        BY <3>1, StageNames DEF ClaimedStage
    <2>2. issued + 1 \in Tokens
      BY <1>5, MaxClaimsAssumption DEF TypeOK, ClaimNext, ClaimCandidate, Tokens
    <2>3. ClaimedAttempts(j) \in Nat
      BY DEF TypeOK, JobRows, ClaimedAttempts
    <2>4. [job[j] EXCEPT !.status = "RUNNING", !.stage = ClaimedStage(j),
                         !.token = issued + 1, !.live = TRUE,
                         !.attempts = ClaimedAttempts(j)] \in JobRows
      BY <1>0, <2>1, <2>2, <2>3, StatusNames, StageNames, Zenon DEF JobRows
    <2>5. issued + 1 \in 0 .. MaxClaims
      BY <1>5, <2>2, MaxClaimsAssumption DEF Tokens
    <2>6. control' \in ControlRows
      BY <1>5, <2>2 DEF TypeOK, ClaimNext, ControlRows
    <2>7. QED
      BY <1>5, <2>4, <2>5, <2>6, AttemptNames DEF TypeOK, ClaimNext
  <1>6. ASSUME NEW j \in Jobs, LeaseLapse(j) PROVE TypeOK'
    <2>1. [job[j] EXCEPT !.live = FALSE] \in JobRows
      BY <1>0, Zenon DEF JobRows
    <2>2. QED
      BY <1>6, <2>1 DEF TypeOK, LeaseLapse
  <1>7. ASSUME NEW j \in Jobs, ExpireStale(j) PROVE TypeOK'
    <2>1. control' \in ControlRows
      BY <1>7, ReleasedType DEF ExpireStale
    <2>2. [job[j] EXCEPT !.status = "STALE", !.stage = "LEASE_EXPIRED",
                         !.token = None, !.live = FALSE,
                         !.prev = job[j].stage] \in JobRows
      BY <1>0, StatusNames, StageNames, Zenon DEF JobRows
    <2>3. QED
      BY <1>7, <2>1, <2>2, AttemptNames DEF TypeOK, ExpireStale
  <1>8. ASSUME NEW j \in Jobs, NEW t \in Tokens, NEW status \in TerminalStatuses,
               NEW links \in BOOLEAN, NEW completed \in BOOLEAN,
               Complete(j, t, status, links, completed)
        PROVE  TypeOK'
    <2>1. control' \in ControlRows
      BY <1>8, ReleasedType DEF Complete
    <2>2. /\ (job[j].links \/ links) \in BOOLEAN
          /\ (job[j].completed \/ completed) \in BOOLEAN
      OBVIOUS
    <2>3. [job[j] EXCEPT !.status = status, !.stage = "CLOSED",
                         !.token = None, !.live = FALSE,
                         !.links = job[j].links \/ links,
                         !.completed = job[j].completed \/ completed] \in JobRows
      BY <1>0, <2>2, StatusNames, StageNames, Zenon DEF JobRows
    <2>4. QED
      BY <1>8, <2>1, <2>3, AttemptNames DEF TypeOK, Complete
  <1>9. ASSUME NEW j \in Jobs, NEW t \in Tokens, OwnerStep(j, t) PROVE TypeOK'
    <2>1. (job[j].completed \/ job[j].attempted) \in BOOLEAN
      OBVIOUS
    <2>2. ASSUME MarkProviderAttempt(j, t) PROVE TypeOK'
      <3>1. [job[j] EXCEPT !.attempted = TRUE, !.stage = "PROVIDER_CALL"] \in JobRows
        BY <1>0, StatusNames, StageNames, Zenon DEF JobRows
      <3>2. QED
        BY <2>2, <3>1 DEF TypeOK, MarkProviderAttempt
    <2>3. ASSUME CheckpointResearchResult(j, t) PROVE TypeOK'
      <3>1. [job[j] EXCEPT !.links = TRUE, !.completed = TRUE,
                           !.stage = "PERSISTED_RESULT"] \in JobRows
        BY <1>0, StatusNames, StageNames, Zenon DEF JobRows
      <3>2. QED
        BY <2>3, <3>1 DEF TypeOK, CheckpointResearchResult
    <2>4. ASSUME WaitForCandidateApproval(j, t) PROVE TypeOK'
      <3>1. control' \in ControlRows
        BY <2>4, ReleasedType DEF WaitForCandidateApproval
      <3>2. [job[j] EXCEPT !.status = "AWAITING_APPROVAL", !.stage = "CANDIDATE_APPROVAL",
                           !.token = None, !.live = FALSE,
                           !.completed = job[j].completed \/ job[j].attempted] \in JobRows
        BY <1>0, <2>1, StatusNames, StageNames, Zenon DEF JobRows
      <3>3. QED
        BY <2>4, <3>1, <3>2, AttemptNames DEF TypeOK, WaitForCandidateApproval
    <2>5. ASSUME AutoApproveJob(j, t) PROVE TypeOK'
      <3>1. control' \in ControlRows
        BY <2>5 DEF TypeOK, AutoApproveJob, ControlRows
      <3>2. [job[j] EXCEPT !.status = "PENDING", !.stage = "CANDIDATE_APPROVED",
                           !.token = None, !.live = FALSE,
                           !.completed = job[j].completed \/ job[j].attempted] \in JobRows
        BY <1>0, <2>1, StatusNames, StageNames, Zenon DEF JobRows
      <3>3. QED
        BY <2>5, <3>1, <3>2, AttemptNames DEF TypeOK, AutoApproveJob
    <2>6. CASE CancelAtCheckpoint(j, t)
      <3>1. "CANCELLED" \in TerminalStatuses
        BY DEF TerminalStatuses
      <3>2. QED
        BY <1>8, <2>6, <3>1 DEF CancelAtCheckpoint
    <2>7. QED
      BY <1>8, <1>9, <2>2, <2>3, <2>4, <2>5, <2>6 DEF OwnerStep
  <1>10. ASSUME NEW j \in Jobs, IdleStep(j) PROVE TypeOK'
    <2>1. ASSUME NEW status \in Statuses, NEW stage \in Stages
          PROVE  [job[j] EXCEPT !.status = status, !.stage = stage] \in JobRows
      BY <1>0, Zenon DEF JobRows
    <2>2. ASSUME ResumeAfterCandidateApproval(j) PROVE TypeOK'
      BY <2>1, <2>2, StatusNames, StageNames, Zenon DEF TypeOK, ResumeAfterCandidateApproval
    <2>3. ASSUME BlockWaitingCandidateApproval(j) PROVE TypeOK'
      BY <2>1, <2>3, StatusNames, StageNames, Zenon DEF TypeOK, BlockWaitingCandidateApproval
    <2>4. ASSUME NEW stage \in RecoveryStages, PrepareStaleRecovery(j, stage) PROVE TypeOK'
      BY <2>1, <2>4, StatusNames, StageNames, Zenon DEF TypeOK, PrepareStaleRecovery
    <2>5. ASSUME BlockUnrecoverableStale(j) PROVE TypeOK'
      BY <2>1, <2>5, StatusNames, StageNames, AttemptNames, Zenon DEF TypeOK, BlockUnrecoverableStale
    <2>6. QED
      BY <1>10, <2>2, <2>3, <2>4, <2>5 DEF IdleStep
  <1>11. CASE UNCHANGED jobsVars
    BY <1>11 DEF TypeOK, jobsVars
  <1>12. QED
    BY <1>1, <1>2, <1>3, <1>4, <1>5, <1>6, <1>7, <1>9, <1>10, <1>11 DEF JobsNext

\* Every column keeps its type, whatever the callers present.
THEOREM TypeCorrect == JobsSpec => []TypeOK
  <1>1. JobsInit => TypeOK
    <2>1. "ABSENT" \in Statuses /\ "QUEUED" \in Stages /\ "FORMAL" \in Kinds
          /\ "NONE" \in AttemptStatuses
      BY DEF Statuses, Stages, Kinds, AttemptStatuses
    <2>2. QED
      BY <2>1, MaxClaimsAssumption DEF JobsInit, TypeOK, JobRows, ControlRows
  <1>2. QED
    BY <1>1, TypeStep, PTL DEF JobsSpec

-----------------------------------------------------------------------------
(* The slot.  It is handed out only while nobody holds it, and taken back  *)
(* only from a job that stops running in the same transaction.             *)

SlotInv == RunningHoldsSlot /\ FormerOwnersAreFenced

\* A step that starts no job and takes the slot from none that runs on.
SlotKept ==
    /\ \A i \in Jobs : job'[i].status = "RUNNING" =>
          job[i].status = "RUNNING" /\ job'[i].token = job[i].token
    /\ control'.active # control.active \/ control'.token # control.token =>
          \A i \in Jobs : job'[i].status = "RUNNING" => control.active # i
    /\ issued' = issued

\* Only a claim needs more than that.
LEMMA SlotKeptStep == SlotInv /\ SlotKept => SlotInv'
  BY DEF SlotInv, SlotKept, RunningHoldsSlot, FormerOwnersAreFenced

\* Nothing but a claim starts a job or moves the slot to one.
LEMMA NonClaimKeepsSlot ==
  ASSUME TypeOK, [JobsNext]_jobsVars, ~(\E j \in Jobs : ClaimNext(j))
  PROVE  SlotKept
  <1>1. ASSUME NEW j \in Jobs, NEW kind \in Kinds, Enqueue(j, kind) PROVE SlotKept
    BY <1>1 DEF TypeOK, JobRows, SlotKept, Enqueue
  <1>2. ASSUME NEW p \in BOOLEAN, SetPaused(p) PROVE SlotKept
    BY <1>2 DEF TypeOK, ControlRows, SlotKept, SetPaused
  <1>3. ASSUME NEW j \in Jobs, CancelRead(j) PROVE SlotKept
    BY <1>3 DEF SlotKept, CancelRead
  <1>4. ASSUME NEW j \in Jobs, CancelWrite(j) PROVE SlotKept
    BY <1>4 DEF TypeOK, JobRows, SlotKept, CancelWrite
  <1>5. ASSUME NEW j \in Jobs, LeaseLapse(j) PROVE SlotKept
    BY <1>5 DEF TypeOK, JobRows, SlotKept, LeaseLapse
  <1>6. ASSUME NEW j \in Jobs, ExpireStale(j) PROVE SlotKept
    BY <1>6 DEF TypeOK, JobRows, SlotKept, ExpireStale, Released
  <1>7. ASSUME NEW j \in Jobs, NEW t \in Tokens, OwnerStep(j, t) PROVE SlotKept
    <2>1. ASSUME NEW status \in TerminalStatuses, NEW links \in BOOLEAN,
                 NEW completed \in BOOLEAN, Complete(j, t, status, links, completed)
          PROVE SlotKept
      BY <2>1 DEF TypeOK, JobRows, SlotKept, Complete, Released, TerminalStatuses
    <2>2. CASE MarkProviderAttempt(j, t)
      BY <2>2 DEF TypeOK, JobRows, SlotKept, MarkProviderAttempt
    <2>3. CASE CheckpointResearchResult(j, t)
      BY <2>3 DEF TypeOK, JobRows, SlotKept, CheckpointResearchResult
    <2>4. CASE WaitForCandidateApproval(j, t)
      BY <2>4 DEF TypeOK, JobRows, SlotKept, WaitForCandidateApproval, Released
    <2>5. CASE AutoApproveJob(j, t)
      BY <2>5 DEF TypeOK, JobRows, SlotKept, AutoApproveJob
    <2>6. CASE CancelAtCheckpoint(j, t)
      BY <2>1, <2>6 DEF CancelAtCheckpoint, TerminalStatuses
    <2>7. QED
      BY <1>7, <2>1, <2>2, <2>3, <2>4, <2>5, <2>6 DEF OwnerStep
  <1>8. ASSUME NEW j \in Jobs, IdleStep(j) PROVE SlotKept
    <2>1. CASE ResumeAfterCandidateApproval(j)
      BY <2>1 DEF TypeOK, JobRows, SlotKept, ResumeAfterCandidateApproval
    <2>2. CASE BlockWaitingCandidateApproval(j)
      BY <2>2 DEF TypeOK, JobRows, SlotKept, BlockWaitingCandidateApproval
    <2>3. ASSUME NEW stage \in RecoveryStages, PrepareStaleRecovery(j, stage)
          PROVE SlotKept
      BY <2>3 DEF TypeOK, JobRows, SlotKept, PrepareStaleRecovery
    <2>4. CASE BlockUnrecoverableStale(j)
      BY <2>4 DEF TypeOK, JobRows, SlotKept, BlockUnrecoverableStale
    <2>5. QED
      BY <1>8, <2>1, <2>2, <2>3, <2>4 DEF IdleStep
  <1>9. CASE UNCHANGED jobsVars
    BY <1>9 DEF SlotKept, jobsVars
  <1>10. QED
    BY <1>1, <1>2, <1>3, <1>4, <1>5, <1>6, <1>7, <1>8, <1>9 DEF JobsNext

\* Every step keeps the slot invariant.
LEMMA SlotStep == TypeOK /\ SlotInv /\ [JobsNext]_jobsVars => SlotInv'
  <1> SUFFICES ASSUME TypeOK, SlotInv, [JobsNext]_jobsVars PROVE SlotInv'
    OBVIOUS
  <1>1. ASSUME NEW j \in Jobs, ClaimNext(j) PROVE SlotInv'
    BY <1>1 DEF TypeOK, JobRows, ControlRows, SlotInv, RunningHoldsSlot,
                FormerOwnersAreFenced, ClaimNext, ClaimCandidate, None, Jobs, Tokens
  <1>2. CASE ~(\E j \in Jobs : ClaimNext(j))
    BY <1>2, NonClaimKeepsSlot, SlotKeptStep
  <1>3. QED
    BY <1>1, <1>2

LEMMA SlotCorrect == JobsSpec => []SlotInv
  <1>1. JobsInit => SlotInv
    BY DEF JobsInit, SlotInv, RunningHoldsSlot, FormerOwnersAreFenced
  <1>2. QED
    BY <1>1, SlotStep, TypeCorrect, PTL DEF JobsSpec

\* Whatever tokens the callers present and however they interleave, a RUNNING
\* job holds the one slot under its own token: at most one job ever runs.
THEOREM SlotIsExclusive == JobsSpec => []RunningHoldsSlot
  <1>1. SlotInv => RunningHoldsSlot
    BY DEF SlotInv
  <1>2. QED
    BY <1>1, SlotCorrect, PTL

\* The token of a RUNNING job is the last one issued, so no former owner can
\* pass the WHERE clause of a fenced write.
THEOREM FencingHolds == JobsSpec => []FormerOwnersAreFenced
  <1>1. SlotInv => FormerOwnersAreFenced
    BY DEF SlotInv
  <1>2. QED
    BY <1>1, SlotCorrect, PTL

-----------------------------------------------------------------------------
(* The provider's outcome.  What may still run keeps it known: the ids of  *)
(* a result are bound together with its completion time, and a job leaves  *)
(* RUNNING for the queue only with its outcome recorded.                   *)

\* A row that was never created is blank.
AbsentIsBlank ==
    \A j \in Jobs : job[j].status = "ABSENT" =>
        /\ job[j].stage = "QUEUED"
        /\ ~job[j].attempted
        /\ ~job[j].links
        /\ job[j].attempts = 0

\* The rows that may still run: everything but a closed job.
MayStillRun(j) ==
    \/ job[j].status \in {"PENDING", "RUNNING", "AWAITING_APPROVAL"}
    \/ job[j].status = "STALE" /\ job[j].stage = "LEASE_EXPIRED"

\* Database ids are bound together with the provider's outcome, so the
\* recovery of a signal, which looks only at the ids, finds it known.
LinksKnowOutcome ==
    \A j \in Jobs : MayStillRun(j) /\ job[j].links => job[j].completed

OutcomeInv == AbsentIsBlank /\ LinksKnowOutcome /\ QueuedOutcomeIsKnown

\* Every step keeps the outcome known.
LEMMA OutcomeStep == TypeOK /\ OutcomeInv /\ [JobsNext]_jobsVars => OutcomeInv'
  <1> SUFFICES ASSUME TypeOK, OutcomeInv, [JobsNext]_jobsVars PROVE OutcomeInv'
    OBVIOUS
  <1> USE DEF TypeOK, JobRows, OutcomeInv, AbsentIsBlank, LinksKnowOutcome, MayStillRun,
              QueuedOutcomeIsKnown
  <1>1. ASSUME NEW j \in Jobs, NEW kind \in Kinds, Enqueue(j, kind) PROVE OutcomeInv'
    BY <1>1 DEF Enqueue
  <1>2. ASSUME NEW p \in BOOLEAN, SetPaused(p) PROVE OutcomeInv'
    BY <1>2 DEF SetPaused
  <1>3. ASSUME NEW j \in Jobs, CancelRead(j) PROVE OutcomeInv'
    BY <1>3 DEF CancelRead
  <1>4. ASSUME NEW j \in Jobs, CancelWrite(j) PROVE OutcomeInv'
    BY <1>4 DEF CancelWrite
  <1>5. ASSUME NEW j \in Jobs, ClaimNext(j) PROVE OutcomeInv'
    BY <1>5 DEF ClaimNext, ClaimCandidate, Claimable
  <1>6. ASSUME NEW j \in Jobs, LeaseLapse(j) PROVE OutcomeInv'
    BY <1>6 DEF LeaseLapse
  <1>7. ASSUME NEW j \in Jobs, ExpireStale(j) PROVE OutcomeInv'
    BY <1>7 DEF ExpireStale, Expirable
  <1>8. ASSUME NEW j \in Jobs, NEW t \in Tokens, OwnerStep(j, t) PROVE OutcomeInv'
    <2>1. ASSUME NEW status \in TerminalStatuses, NEW links \in BOOLEAN,
                 NEW completed \in BOOLEAN, Complete(j, t, status, links, completed)
          PROVE OutcomeInv'
      BY <2>1 DEF Complete, TerminalStatuses
    <2>2. CASE MarkProviderAttempt(j, t)
      BY <2>2 DEF MarkProviderAttempt, Owned
    <2>3. CASE CheckpointResearchResult(j, t)
      BY <2>3 DEF CheckpointResearchResult, Owned
    <2>4. CASE WaitForCandidateApproval(j, t)
      BY <2>4 DEF WaitForCandidateApproval
    <2>5. CASE AutoApproveJob(j, t)
      BY <2>5 DEF AutoApproveJob, Owned
    <2>6. CASE CancelAtCheckpoint(j, t)
      BY <2>1, <2>6 DEF CancelAtCheckpoint, TerminalStatuses
    <2>7. QED
      BY <1>8, <2>1, <2>2, <2>3, <2>4, <2>5, <2>6 DEF OwnerStep
  <1>9. ASSUME NEW j \in Jobs, IdleStep(j) PROVE OutcomeInv'
    <2>1. CASE ResumeAfterCandidateApproval(j)
      BY <2>1 DEF ResumeAfterCandidateApproval
    <2>2. CASE BlockWaitingCandidateApproval(j)
      BY <2>2 DEF BlockWaitingCandidateApproval
    <2>3. ASSUME NEW stage \in RecoveryStages \ {"CANDIDATE_APPROVED"},
                 PrepareStaleRecovery(j, stage)
          PROVE OutcomeInv'
      <3>1. job[j].attempted => job[j].completed
        BY <2>3 DEF PrepareStaleRecovery, ExpiredStale, RecoveryGuard, RecoveryStages
      <3>2. QED
        BY <2>3, <3>1 DEF PrepareStaleRecovery, ExpiredStale
    <2>4. CASE BlockUnrecoverableStale(j)
      BY <2>4 DEF BlockUnrecoverableStale
    <2>5. QED
      BY <1>9, <2>1, <2>2, <2>3, <2>4 DEF IdleStep
  <1>10. CASE UNCHANGED jobsVars
    BY <1>10 DEF jobsVars
  <1>11. QED
    BY <1>1, <1>2, <1>3, <1>4, <1>5, <1>6, <1>7, <1>8, <1>9, <1>10 DEF JobsNext

LEMMA OutcomeCorrect == JobsSpec => []OutcomeInv
  <1>1. JobsInit => OutcomeInv
    BY DEF JobsInit, OutcomeInv, AbsentIsBlank, LinksKnowOutcome, QueuedOutcomeIsKnown
  <1>2. QED
    BY <1>1, OutcomeStep, TypeCorrect, PTL DEF JobsSpec

\* No job waits in the queue, or for an approval, with a provider attempt
\* whose outcome is unknown.
THEOREM OutcomeIsKnown == JobsSpec => []QueuedOutcomeIsKnown
  <1>1. OutcomeInv => QueuedOutcomeIsKnown
    BY DEF OutcomeInv
  <1>2. QED
    BY <1>1, OutcomeCorrect, PTL

-----------------------------------------------------------------------------
(* The attempt row.  It is parked whenever its job may resume, and resumed *)
(* rather than counted again.                                              *)

\* The attempt row follows the job through every state it may be resumed from.
AttemptFollowsJob ==
    \A j \in Jobs :
        /\ job[j].status = "PENDING" =>
              IF job[j].stage \in RecoveryStages
              THEN job[j].attempts = 1 /\ AttemptParked(j)
              ELSE job[j].attempts = 0
        /\ job[j].status = "RUNNING" => job[j].attempts = 1
        /\ job[j].status = "AWAITING_APPROVAL" =>
              job[j].attempts = 1 /\ attempt[j] = "AWAITING_APPROVAL"
        /\ job[j].status = "STALE" /\ job[j].stage = "LEASE_EXPIRED" =>
              job[j].attempts = 1 /\ attempt[j] = "STALE"

AttemptInv == AbsentIsBlank /\ AttemptFollowsJob /\ AttemptIsReused

\* Every step keeps the attempt row in step with its job.
LEMMA AttemptStep == TypeOK /\ AttemptInv /\ [JobsNext]_jobsVars => AttemptInv'
  <1> SUFFICES ASSUME TypeOK, AttemptInv, [JobsNext]_jobsVars PROVE AttemptInv'
    OBVIOUS
  <1> USE DEF TypeOK, JobRows, AttemptInv, AbsentIsBlank, AttemptFollowsJob,
              AttemptIsReused, AttemptParked
  <1>1. ASSUME NEW j \in Jobs, NEW kind \in Kinds, Enqueue(j, kind) PROVE AttemptInv'
    BY <1>1 DEF Enqueue, RecoveryStages
  <1>2. ASSUME NEW p \in BOOLEAN, SetPaused(p) PROVE AttemptInv'
    BY <1>2 DEF SetPaused
  <1>3. ASSUME NEW j \in Jobs, CancelRead(j) PROVE AttemptInv'
    BY <1>3 DEF CancelRead
  <1>4. ASSUME NEW j \in Jobs, CancelWrite(j) PROVE AttemptInv'
    BY <1>4 DEF CancelWrite
  <1>5. ASSUME NEW j \in Jobs, ClaimNext(j) PROVE AttemptInv'
    BY <1>5 DEF ClaimNext, ClaimCandidate, Claimable, ResumesAttempt, ClaimedAttempts
  <1>6. ASSUME NEW j \in Jobs, LeaseLapse(j) PROVE AttemptInv'
    BY <1>6 DEF LeaseLapse
  <1>7. ASSUME NEW j \in Jobs, ExpireStale(j) PROVE AttemptInv'
    BY <1>7 DEF ExpireStale, Expirable
  <1>8. ASSUME NEW j \in Jobs, NEW t \in Tokens, OwnerStep(j, t) PROVE AttemptInv'
    <2>1. ASSUME NEW status \in TerminalStatuses, NEW links \in BOOLEAN,
                 NEW completed \in BOOLEAN, Complete(j, t, status, links, completed)
          PROVE AttemptInv'
      BY <2>1 DEF Complete, Owned, TerminalStatuses
    <2>2. CASE MarkProviderAttempt(j, t)
      BY <2>2 DEF MarkProviderAttempt, Owned
    <2>3. CASE CheckpointResearchResult(j, t)
      BY <2>3 DEF CheckpointResearchResult, Owned
    <2>4. CASE WaitForCandidateApproval(j, t)
      BY <2>4 DEF WaitForCandidateApproval
    <2>5. CASE AutoApproveJob(j, t)
      BY <2>5 DEF AutoApproveJob, Owned, RecoveryStages
    <2>6. CASE CancelAtCheckpoint(j, t)
      BY <2>1, <2>6 DEF CancelAtCheckpoint, TerminalStatuses
    <2>7. QED
      BY <1>8, <2>1, <2>2, <2>3, <2>4, <2>5, <2>6 DEF OwnerStep
  <1>9. ASSUME NEW j \in Jobs, IdleStep(j) PROVE AttemptInv'
    <2>1. CASE ResumeAfterCandidateApproval(j)
      BY <2>1 DEF ResumeAfterCandidateApproval, RecoveryStages
    <2>2. CASE BlockWaitingCandidateApproval(j)
      BY <2>2 DEF BlockWaitingCandidateApproval
    <2>3. ASSUME NEW stage \in RecoveryStages, PrepareStaleRecovery(j, stage)
          PROVE AttemptInv'
      BY <2>3 DEF PrepareStaleRecovery, ExpiredStale
    <2>4. CASE BlockUnrecoverableStale(j)
      BY <2>4 DEF BlockUnrecoverableStale
    <2>5. QED
      BY <1>9, <2>1, <2>2, <2>3, <2>4 DEF IdleStep
  <1>10. CASE UNCHANGED jobsVars
    BY <1>10 DEF jobsVars
  <1>11. QED
    BY <1>1, <1>2, <1>3, <1>4, <1>5, <1>6, <1>7, <1>8, <1>9, <1>10 DEF JobsNext

LEMMA AttemptCorrect == JobsSpec => []AttemptInv
  <1>1. JobsInit => AttemptInv
    BY DEF JobsInit, AttemptInv, AbsentIsBlank, AttemptFollowsJob, AttemptIsReused
  <1>2. QED
    BY <1>1, AttemptStep, TypeCorrect, PTL DEF JobsSpec

\* The head of the queue never makes claim_next raise.
THEOREM ResumptionNeverWedges == JobsSpec => []ResumableHasParkedAttempt
  <1>1. AttemptInv => ResumableHasParkedAttempt
    BY DEF AttemptInv, AttemptFollowsJob, ResumableHasParkedAttempt
  <1>2. QED
    BY <1>1, AttemptCorrect, PTL

\* However often a job is recovered, and whatever max_attempts allows, it gets
\* one attempt.
THEOREM OneAttemptEver == JobsSpec => []AttemptIsReused
  <1>1. AttemptInv => AttemptIsReused
    BY DEF AttemptInv
  <1>2. QED
    BY <1>1, AttemptCorrect, PTL

-----------------------------------------------------------------------------
(* What a single step may do to a job that is not running.                 *)

\* Only a claim makes a job RUNNING, and a claim starts from the queue.
LEMMA OnlyClaimsStart ==
  ASSUME TypeOK, [JobsNext]_jobsVars, NEW i \in Jobs,
         job[i].status # "RUNNING", job'[i].status = "RUNNING"
  PROVE  job[i].status = "PENDING"
  <1>1. PICK j \in Jobs : ClaimNext(j)
    BY NonClaimKeepsSlot DEF SlotKept
  <1>2. QED
    BY <1>1 DEF TypeOK, JobRows, ClaimNext, ClaimCandidate, Claimable

\* A job that left RUNNING with an unknown provider outcome never runs again.
THEOREM UnknownOutcomeIsQuarantined == JobsSpec => UnknownOutcomeNeverReruns
  <1> DEFINE Keeps ==
        \A j \in Jobs : job[j].status # "RUNNING" /\ job[j].attempted /\ ~job[j].completed
            => job'[j].status # "RUNNING"
  <1>1. TypeOK /\ OutcomeInv /\ [JobsNext]_jobsVars => [Keeps]_jobsVars
    <2>1. ASSUME TypeOK, OutcomeInv, [JobsNext]_jobsVars, NEW j \in Jobs,
                 job[j].status # "RUNNING", job[j].attempted, ~job[j].completed,
                 job'[j].status = "RUNNING"
          PROVE  FALSE
      <3>1. job[j].status = "PENDING"
        BY <2>1, OnlyClaimsStart
      <3>2. QED
        BY <2>1, <3>1 DEF OutcomeInv, QueuedOutcomeIsKnown
    <2>2. QED
      BY <2>1
  <1>2. QED
    BY <1>1, TypeCorrect, OutcomeCorrect, PTL DEF JobsSpec, UnknownOutcomeNeverReruns
=============================================================================
