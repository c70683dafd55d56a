---------------------------- MODULE ResearchJobs ----------------------------
(***************************************************************************)
(* The durable research-job queue: the rows of research_jobs, their        *)
(* attempt rows, and the one-row research_worker_control table that hands  *)
(* out the single execution slot.                                          *)
(*                                                                         *)
(* Every operation of ResearchJobRepository that writes is one action, as  *)
(* one committed transaction; the two writes on the same rows that live in *)
(* the full-chain code (the automatic candidate approval and the           *)
(* quarantine of an unrecoverable job) are here too.  A caller is whoever  *)
(* presents a lease token, current or not: JobsNext lets any token ever    *)
(* issued be presented at any time, so the specification covers former     *)
(* owners that wake up late.  ResearchWorker restricts the callers to the  *)
(* real worker processes.                                                  *)
(*                                                                         *)
(* Time is abstracted to one bit per lease.  A heartbeat only extends a    *)
(* lease that has not expired, so an expired lease never comes back:       *)
(* "live" is cleared by LeaseLapse and set only by a new claim, and a      *)
(* heartbeat changes nothing that this module can see.                     *)
(***************************************************************************)
EXTENDS Integers

CONSTANTS
    MaxJobs,      \* bound on the jobs ever enqueued; ids are 1, 2, ... in creation order
    MaxAttempts,  \* ResearchJob.max_attempts (1 by default)
    MaxClaims     \* bound on the lease tokens ever issued

ASSUME MaxJobsAssumption == MaxJobs \in Nat \ {0}
ASSUME MaxAttemptsAssumption == MaxAttempts \in Nat \ {0}
ASSUME MaxClaimsAssumption == MaxClaims \in Nat \ {0}

Jobs == 1 .. MaxJobs

\* NULL in a job-id or a lease-token column.  The value 0 that claim_next
\* writes to reserve the slot never outlives its own transaction.
None == 0

Tokens == 1 .. MaxClaims

\* A job either calls the paid provider (allow_real_call) or replays a formal
\* candidate deterministically, without a provider.
Kinds == {"REAL", "FORMAL"}

TerminalStatuses == {"SUCCESS", "FAILED", "BLOCKED", "CANCELLED", "STALE"}

Statuses == TerminalStatuses \cup {"ABSENT", "PENDING", "RUNNING", "AWAITING_APPROVAL"}

RecoveryStages == {"CANDIDATE_APPROVED", "GENERATION_RETRY", "VALIDATION_RETRY",
                   "PERSISTED_RESULT_RECOVERY", "SIGNAL_RECOVERY"}

\* "CLOSED" stands for every label a terminal write leaves in the stage column
\* except LEASE_EXPIRED, the only one that recovery reads.
Stages == RecoveryStages \cup
          {"QUEUED", "GENERATION", "PROVIDER_CALL", "PERSISTED_RESULT", "SIGNAL",
           "CANDIDATE_APPROVAL", "LEASE_EXPIRED", "CLOSED"}

AttemptStatuses == TerminalStatuses \cup {"NONE", "RUNNING", "AWAITING_APPROVAL"}

VARIABLES
    job,        \* [Jobs -> row of research_jobs]
    attempt,    \* [Jobs -> status of the job's latest research_job_attempts row]
    control,    \* the research_worker_control row
    issued,     \* number of lease tokens issued so far
    cancelSeen  \* [Jobs -> status a cancel request in flight has read, "NONE" if none]

jobsVars == <<job, attempt, control, issued, cancelSeen>>

JobRows == [kind : Kinds, status : Statuses, stage : Stages,
            token : Tokens \cup {None}, live : BOOLEAN, cancel : BOOLEAN,
            attempts : Nat, attempted : BOOLEAN, completed : BOOLEAN,
            links : BOOLEAN, prev : Stages]

ControlRows == [paused : BOOLEAN, active : Jobs \cup {None}, token : Tokens \cup {None}]

TypeOK ==
    /\ job \in [Jobs -> JobRows]
    /\ attempt \in [Jobs -> AttemptStatuses]
    /\ control \in ControlRows
    /\ issued \in 0 .. MaxClaims
    /\ cancelSeen \in [Jobs -> {"NONE", "PENDING", "RUNNING", "AWAITING_APPROVAL"}]

JobsInit ==
    /\ job = [j \in Jobs |->
                [kind |-> "FORMAL", status |-> "ABSENT", stage |-> "QUEUED",
                 token |-> None, live |-> FALSE, cancel |-> FALSE,
                 attempts |-> 0, attempted |-> FALSE, completed |-> FALSE,
                 links |-> FALSE, prev |-> "QUEUED"]]
    /\ attempt = [j \in Jobs |-> "NONE"]
    /\ control = [paused |-> FALSE, active |-> None, token |-> None]
    /\ issued = 0
    /\ cancelSeen = [j \in Jobs |-> "NONE"]

-----------------------------------------------------------------------------
(* Predicates the transactions share.                                      *)

\* The WHERE clause of every fenced write: the row is RUNNING under the
\* presented token and its lease has not expired.
Owned(j, t) ==
    /\ job[j].status = "RUNNING"
    /\ job[j].token = t
    /\ job[j].live

\* What claim_next selects: a fresh job with an attempt left, or a job that
\* recovery or an approval put back to resume its existing attempt.
Claimable(j) ==
    /\ job[j].status = "PENDING"
    /\ \/ job[j].attempts < MaxAttempts
       \/ job[j].stage \in RecoveryStages /\ job[j].attempts >= 1

ResumesAttempt(j) == job[j].stage \in RecoveryStages /\ job[j].attempts >= 1

\* Released only if the control row still names this job and this token.
Released(j, t) ==
    IF control.active = j /\ control.token = t
    THEN [control EXCEPT !.active = None, !.token = None]
    ELSE control

-----------------------------------------------------------------------------
(* Intake and operator controls.                                           *)

\* create_or_get: one row per (operation, idempotency key).  A repeated key
\* returns the existing row, or raises a conflict; neither changes anything.
Enqueue(j, kind) ==
    /\ job[j].status = "ABSENT"
    /\ \A i \in Jobs : i < j => job[i].status # "ABSENT"
    /\ job' = [job EXCEPT ![j] = [@ EXCEPT !.status = "PENDING", !.kind = kind]]
    /\ UNCHANGED <<attempt, control, issued, cancelSeen>>

SetPaused(p) ==
    /\ control.paused # p
    /\ control' = [control EXCEPT !.paused = p]
    /\ UNCHANGED <<job, attempt, issued, cancelSeen>>

\* Mutant: cancel() does not return early for a terminal job.
CancelReadAny(j) ==
    /\ cancelSeen[j] = "NONE"
    /\ cancelSeen' = [cancelSeen EXCEPT ![j] = job[j].status]
    /\ UNCHANGED <<job, attempt, control, issued>>

\* cancel() reads the row, decides, and commits an UPDATE whose WHERE clause
\* is the primary key alone: another transaction may commit in between.
CancelRead(j) ==
    /\ cancelSeen[j] = "NONE"
    /\ job[j].status \in {"PENDING", "RUNNING", "AWAITING_APPROVAL"}
    /\ cancelSeen' = [cancelSeen EXCEPT ![j] = job[j].status]
    /\ UNCHANGED <<job, attempt, control, issued>>

CancelWrite(j) ==
    /\ cancelSeen[j] # "NONE"
    /\ cancelSeen' = [cancelSeen EXCEPT ![j] = "NONE"]
    /\ job' = IF cancelSeen[j] = "RUNNING"
              THEN [job EXCEPT ![j] = [@ EXCEPT !.cancel = TRUE]]
              ELSE [job EXCEPT ![j] = [@ EXCEPT !.status = "CANCELLED", !.stage = "CLOSED",
                                                !.cancel = TRUE]]
    /\ UNCHANGED <<attempt, control, issued>>

-----------------------------------------------------------------------------
(* Claim, lease and expiry.                                                *)

\* The stage a claim enters.
ClaimedStage(j) ==
    IF job[j].stage \in {"CANDIDATE_APPROVED", "SIGNAL_RECOVERY"} THEN "SIGNAL"
    ELSE IF ResumesAttempt(j) THEN job[j].stage
    ELSE "GENERATION"

\* A claim is a new attempt unless it resumes one.
ClaimedAttempts(j) == IF ResumesAttempt(j) THEN job[j].attempts ELSE job[j].attempts + 1

\* Mutant: the slot is not reserved before the claim.
ClaimCandidateAnySlot(j) == issued < MaxClaims /\ ~control.paused /\ Claimable(j)

\* The slot is free, and j is the oldest claimable job, except that the
\* skip-locked SELECT may pass over a row whose cancellation is being committed.
ClaimCandidate(j) ==
    /\ issued < MaxClaims
    /\ ~control.paused
    /\ control.active = None
    /\ Claimable(j)
    /\ \A i \in Jobs : i < j /\ Claimable(i) => cancelSeen[i] # "NONE"

\* Mutant: the attempt of an expired job is not accepted back.
AttemptAwaiting(j) == attempt[j] = "AWAITING_APPROVAL"

\* A job that resumes must find its attempt row parked; otherwise claim_next
\* raises and the whole transaction, reservation included, rolls back.
AttemptParked(j) == attempt[j] \in {"AWAITING_APPROVAL", "STALE"}

ClaimNext(j) ==
    /\ ClaimCandidate(j)
    /\ ResumesAttempt(j) => AttemptParked(j)
    /\ issued' = issued + 1
    /\ job' = [job EXCEPT ![j] = [@ EXCEPT !.status = "RUNNING", !.stage = ClaimedStage(j),
                                           !.token = issued + 1, !.live = TRUE,
                                           !.attempts = ClaimedAttempts(j)]]
    /\ attempt' = [attempt EXCEPT ![j] = "RUNNING"]
    /\ control' = [control EXCEPT !.active = j, !.token = issued + 1]
    /\ UNCHANGED cancelSeen

\* The lease's expiry passes without a heartbeat having extended it.
LeaseLapse(j) ==
    /\ job[j].status = "RUNNING"
    /\ job[j].live
    /\ job' = [job EXCEPT ![j] = [@ EXCEPT !.live = FALSE]]
    /\ UNCHANGED <<attempt, control, issued, cancelSeen>>

\* Mutant: the audit skips jobs with a pending cancellation.
ExpirableUncancelled(j) ==
    control.active = j /\ job[j].status = "RUNNING" /\ ~job[j].live /\ ~job[j].cancel

\* expire_stale looks only at the job the control row names.
Expirable(j) ==
    /\ control.active = j
    /\ job[j].status = "RUNNING"
    /\ job[j].token = control.token
    /\ ~job[j].live

ExpireStale(j) ==
    /\ Expirable(j)
    /\ job' = [job EXCEPT ![j] = [@ EXCEPT !.status = "STALE", !.stage = "LEASE_EXPIRED",
                                           !.token = None, !.live = FALSE,
                                           !.prev = job[j].stage]]
    /\ attempt' = [attempt EXCEPT ![j] = "STALE"]
    /\ control' = Released(j, job[j].token)
    /\ UNCHANGED <<issued, cancelSeen>>

-----------------------------------------------------------------------------
(* Writes of the lease owner.                                              *)

MarkProviderAttempt(j, t) ==
    /\ Owned(j, t)
    /\ ~job[j].attempted
    /\ ~job[j].cancel
    /\ job' = [job EXCEPT ![j] = [@ EXCEPT !.attempted = TRUE, !.stage = "PROVIDER_CALL"]]
    /\ UNCHANGED <<attempt, control, issued, cancelSeen>>

\* All seven database ids arrive together.
CheckpointResearchResult(j, t) ==
    /\ Owned(j, t)
    /\ job[j].stage \in {"GENERATION", "GENERATION_RETRY", "PROVIDER_CALL"}
    /\ job' = [job EXCEPT ![j] = [@ EXCEPT !.links = TRUE, !.completed = TRUE,
                                           !.stage = "PERSISTED_RESULT"]]
    /\ UNCHANGED <<attempt, control, issued, cancelSeen>>

Complete(j, t, status, links, completed) ==
    /\ Owned(j, t)
    /\ job' = [job EXCEPT ![j] = [@ EXCEPT !.status = status, !.stage = "CLOSED",
                                           !.token = None, !.live = FALSE,
                                           !.links = job[j].links \/ links,
                                           !.completed = job[j].completed \/ completed]]
    /\ attempt' = [attempt EXCEPT ![j] = status]
    /\ control' = Released(j, t)
    /\ UNCHANGED <<issued, cancelSeen>>

CancelAtCheckpoint(j, t) ==
    /\ job[j].cancel
    /\ Complete(j, t, "CANCELLED", FALSE, FALSE)

\* Releases the slot while an operator decides; the lease's expiry is not
\* among the conditions of this write.
WaitForCandidateApproval(j, t) ==
    /\ job[j].status = "RUNNING"
    /\ job[j].token = t
    /\ ~job[j].cancel
    /\ attempt[j] = "RUNNING"
    /\ job' = [job EXCEPT ![j] = [@ EXCEPT !.status = "AWAITING_APPROVAL",
                                           !.stage = "CANDIDATE_APPROVAL",
                                           !.token = None, !.live = FALSE,
                                           !.completed = job[j].completed \/ job[j].attempted]]
    /\ attempt' = [attempt EXCEPT ![j] = "AWAITING_APPROVAL"]
    /\ control' = Released(j, t)
    /\ UNCHANGED <<issued, cancelSeen>>

\* The automatic approval: the owner's job goes straight back to the queue.
AutoApproveJob(j, t) ==
    /\ Owned(j, t)
    /\ ~job[j].cancel
    /\ attempt[j] = "RUNNING"
    /\ control.active = j
    /\ control.token = t
    /\ job' = [job EXCEPT ![j] = [@ EXCEPT !.status = "PENDING", !.stage = "CANDIDATE_APPROVED",
                                           !.token = None, !.live = FALSE,
                                           !.completed = job[j].completed \/ job[j].attempted]]
    /\ attempt' = [attempt EXCEPT ![j] = "AWAITING_APPROVAL"]
    /\ control' = [control EXCEPT !.active = None, !.token = None]
    /\ UNCHANGED <<issued, cancelSeen>>

-----------------------------------------------------------------------------
(* Writes on jobs that nobody owns.                                        *)

ResumeAfterCandidateApproval(j) ==
    /\ job[j].status = "AWAITING_APPROVAL"
    /\ ~job[j].cancel
    /\ job[j].token = None
    /\ job' = [job EXCEPT ![j] = [@ EXCEPT !.status = "PENDING", !.stage = "CANDIDATE_APPROVED"]]
    /\ UNCHANGED <<attempt, control, issued, cancelSeen>>

BlockWaitingCandidateApproval(j) ==
    /\ job[j].status = "AWAITING_APPROVAL"
    /\ job[j].token = None
    /\ job' = [job EXCEPT ![j] = [@ EXCEPT !.status = "BLOCKED", !.stage = "CLOSED"]]
    /\ UNCHANGED <<attempt, control, issued, cancelSeen>>

ExpiredStale(j) ==
    /\ job[j].status = "STALE"
    /\ job[j].stage = "LEASE_EXPIRED"
    /\ job[j].token = None

\* Mutant: a recovery forgets to ask for the completion.
RecoveryGuardTrustsAttempt(j, stage) ==
    IF stage = "PERSISTED_RESULT_RECOVERY" THEN job[j].attempted ELSE ~job[j].attempted

\* What each recovery mode demands of the row before it may be requeued.
RecoveryGuard(j, stage) ==
    CASE stage \in {"GENERATION_RETRY", "VALIDATION_RETRY"} ->
            ~job[j].attempted /\ ~job[j].completed /\ ~job[j].links
      [] stage = "PERSISTED_RESULT_RECOVERY" ->
            /\ job[j].attempted \/ job[j].kind = "FORMAL"
            /\ job[j].completed
            /\ job[j].links
      [] stage = "SIGNAL_RECOVERY" -> job[j].links

PrepareStaleRecovery(j, stage) ==
    /\ ExpiredStale(j)
    /\ RecoveryGuard(j, stage)
    /\ job' = [job EXCEPT ![j] = [@ EXCEPT !.status = "PENDING", !.stage = stage]]
    /\ UNCHANGED <<attempt, control, issued, cancelSeen>>

BlockUnrecoverableStale(j) ==
    /\ ExpiredStale(j)
    /\ job' = [job EXCEPT ![j] = [@ EXCEPT !.status = "BLOCKED", !.stage = "CLOSED"]]
    /\ attempt' = [attempt EXCEPT ![j] = "BLOCKED"]
    /\ UNCHANGED <<control, issued, cancelSeen>>

-----------------------------------------------------------------------------
OwnerStep(j, t) ==
    \/ MarkProviderAttempt(j, t)
    \/ CheckpointResearchResult(j, t)
    \/ \E status \in TerminalStatuses, links, completed \in BOOLEAN :
            Complete(j, t, status, links, completed)
    \/ CancelAtCheckpoint(j, t)
    \/ WaitForCandidateApproval(j, t)
    \/ AutoApproveJob(j, t)

IdleStep(j) ==
    \/ ResumeAfterCandidateApproval(j)
    \/ BlockWaitingCandidateApproval(j)
    \/ \E stage \in RecoveryStages \ {"CANDIDATE_APPROVED"} : PrepareStaleRecovery(j, stage)
    \/ BlockUnrecoverableStale(j)

JobsNext ==
    \/ \E j \in Jobs, kind \in Kinds : Enqueue(j, kind)
    \/ \E p \in BOOLEAN : SetPaused(p)
    \/ \E j \in Jobs : CancelRead(j) \/ CancelWrite(j)
    \/ \E j \in Jobs : ClaimNext(j) \/ LeaseLapse(j) \/ ExpireStale(j)
    \/ \E j \in Jobs, t \in Tokens : OwnerStep(j, t)
    \/ \E j \in Jobs : IdleStep(j)

JobsSpec == JobsInit /\ [][JobsNext]_jobsVars

-----------------------------------------------------------------------------
(* Safety.                                                                 *)

\* A RUNNING job always holds the execution slot under its own token, so at
\* most one job runs and no job runs that expire_stale could not see
\* ("the database owns the single active lease").
RunningHoldsSlot ==
    \A j \in Jobs : job[j].status = "RUNNING" =>
        /\ control.active = j
        /\ control.token = job[j].token
        /\ job[j].token # None

\* The token in force is the one issued last: whoever still presents an older
\* one fails the WHERE clause of every fenced write.
FormerOwnersAreFenced ==
    \A j \in Jobs : job[j].status = "RUNNING" => job[j].token = issued

\* A job waiting to be claimed never carries a provider attempt whose outcome
\* is unknown: no path of recovery or approval can lead to a second call.
QueuedOutcomeIsKnown ==
    \A j \in Jobs :
        job[j].status \in {"PENDING", "AWAITING_APPROVAL"} /\ job[j].attempted
            => job[j].completed

\* A job that resumes always finds its attempt row parked, so claim_next never
\* raises on the head of the queue and never wedges behind it.
ResumableHasParkedAttempt ==
    \A j \in Jobs : job[j].status = "PENDING" /\ job[j].stage \in RecoveryStages =>
        /\ job[j].attempts >= 1
        /\ AttemptParked(j)

\* Recovery and approval resume the one attempt a job ever gets, whatever
\* max_attempts allows: "reuses attempt" of test_research_job_repository.
AttemptIsReused == \A j \in Jobs : job[j].attempts <= 1

\* Once a job has left RUNNING with a provider attempt and no recorded
\* outcome, it never runs again.
UnknownOutcomeNeverReruns ==
    [][\A j \in Jobs :
        job[j].status # "RUNNING" /\ job[j].attempted /\ ~job[j].completed
            => job'[j].status # "RUNNING"]_jobsVars

\* cancel() promises an immediate CANCELLED only to a job that holds nothing:
\* a RUNNING job is cancelled by its owner, "and releases the lease".
CancelledHoldsNoSlot ==
    \A j \in Jobs : job[j].status = "CANCELLED" => control.active # j
=============================================================================
