---------------------------- MODULE ResearchWorker ----------------------------
(***************************************************************************)
(* The worker processes that serve the research-job queue, composed with   *)
(* the full-chain checkpoints they write and the provider they call.       *)
(*                                                                         *)
(* A worker runs run_once over and over: audit the queue for an expired    *)
(* lease, recover one stale job, claim, execute.  Each of its database     *)
(* transactions and each side of the provider call is an action, so that   *)
(* another worker, an operator or a crash may come between any two.  A     *)
(* heartbeat thread tells the worker, at any later time, that its lease    *)
(* could not be renewed.                                                   *)
(*                                                                         *)
(* The queue's rows are written by conditional UPDATEs or under locks.     *)
(* The chain and its checkpoints are not: a transaction reads the job, the *)
(* chain and the checkpoints unlocked (READ COMMITTED, one identity map)   *)
(* and writes the chain's rows by primary key when it commits.  Such a     *)
(* transaction is two or three actions here: the ownership check, the look *)
(* at the checkpoints, the commit.  What it has settled on in between is   *)
(* the worker's tx, and a lease may lapse, expire and be claimed anew      *)
(* before the commit.                                                      *)
(*                                                                         *)
(* Exceptions follow the code: a ResearchFullChainBlocked is turned into a *)
(* terminal write, every other one escapes run_once and ends the process.  *)
(***************************************************************************)
EXTENDS ResearchJobs

CONSTANTS
    Workers,    \* worker processes (one by default, more when started twice)
    MaxFaults,  \* bound on crashes, lapses under a live owner and operator retries
    Requests    \* the kinds of operator request the instance has, besides enqueueing

ASSUME MaxFaultsAssumption == MaxFaults \in Nat
ASSUME RequestsAssumption == Requests \subseteq {"PAUSE", "CANCEL", "RETRY", "REVOKE"}

\* The checkpoints a research job writes, in the order they must succeed.
ResearchStages == <<"GENERATION", "BACKTEST", "SCORING">>
ChainStages == {"GENERATION", "BACKTEST", "SCORING", "CANDIDATE_APPROVAL"}

\* Rows are inserted in this order, so the latest row is the one farthest on.
Order == [GENERATION |-> 1, BACKTEST |-> 2, SCORING |-> 3, CANDIDATE_APPROVAL |-> 4]

CheckpointStatuses == {"NONE", "PREPARED", "SUCCESS", "FAILED", "BLOCKED", "CANCELLED", "STALE"}
ChainStatuses == TerminalStatuses \cup {"NONE", "RUNNING", "APPROVED"}

\* Where a worker stands between two transactions.
Phases == {"down", "audit", "recover", "preclaim", "claim", "start", "open", "prepare",
           "mark", "call", "calling", "checkpoint", "promote", "validate", "advance",
           "approve", "signal", "finish", "terminate"}

\* The phases in which a worker acts for a job it has claimed.
OwnerPhases == {"start", "open", "prepare", "mark", "call", "calling", "checkpoint",
                "promote", "validate", "advance", "approve", "signal", "finish", "terminate"}

\* What a transaction that has read, and not committed yet, has settled on:
\*   FENCED    the owner's row and the chain were in order
\*   OPEN      and the job had no chain: it will insert one
\*   INSERT    and the stage had no checkpoint: it will insert one
\*   COMPLETE  and the stage's checkpoint was PREPARED: it will write SUCCESS
\*   CLOSE     the chain and the checkpoint that were open will be closed
\* or, for a stale job, the branch of recover_one_stale it fell into.
RecoveryModes == {"SIGNAL_RECOVERY", "GENERATION_RETRY", "PERSISTED_RESULT_RECOVERY", "BLOCK"}
Intents == {"NONE", "FENCED", "OPEN", "INSERT", "COMPLETE", "CLOSE"} \cup RecoveryModes

Transactions == [intent : Intents, stage : ChainStages \cup {"NONE"}, chain : ChainStatuses]

Verdicts == [status : TerminalStatuses \ {"SUCCESS"}, links : BOOLEAN, completed : BOOLEAN]

VARIABLES
    chain,      \* [Jobs -> [status, approval] of the job's full_chain_runs row, and late:
                \*  a history of whether a former owner's write has landed on it]
    ckpt,       \* [Jobs -> [ChainStages -> status of its full_chain_stage_runs row]]
    deployed,   \* [Jobs -> whether a strategy deployment has been published]
    worker,     \* [Workers -> what the process knows]
    calls,      \* [Jobs -> provider requests sent for the job], seen by the provider
    faults      \* faults so far

chainVars == <<chain, ckpt, deployed>>
vars == <<jobsVars, chainVars, worker, calls, faults>>

WorkerStates == [pc : Phases, job : Jobs \cup {None}, token : Tokens \cup {None},
                 lost : BOOLEAN, verdict : Verdicts, tx : Transactions]

ChainRows == [status : ChainStatuses, approval : {"NONE", "APPROVED", "REVOKED"},
              late : BOOLEAN]

WorkerTypeOK ==
    /\ TypeOK
    /\ chain \in [Jobs -> ChainRows]
    /\ ckpt \in [Jobs -> [ChainStages -> CheckpointStatuses]]
    /\ deployed \in [Jobs -> BOOLEAN]
    /\ worker \in [Workers -> WorkerStates]
    /\ calls \in [Jobs -> Nat]
    /\ faults \in 0 .. MaxFaults

NoVerdict == [status |-> "BLOCKED", links |-> FALSE, completed |-> FALSE]

\* No transaction is open, or the open one has read nothing that matters yet.
NoTx == [intent |-> "NONE", stage |-> "NONE", chain |-> "NONE"]

\* A process that owns nothing and is about to poll, or has exited.
Unassigned(pc) == [pc |-> pc, job |-> None, token |-> None, lost |-> FALSE,
                   verdict |-> NoVerdict, tx |-> NoTx]

Init ==
    /\ JobsInit
    /\ chain = [j \in Jobs |-> [status |-> "NONE", approval |-> "NONE", late |-> FALSE]]
    /\ ckpt = [j \in Jobs |-> [s \in ChainStages |-> "NONE"]]
    /\ deployed = [j \in Jobs |-> FALSE]
    /\ worker = [w \in Workers |-> Unassigned("audit")]
    /\ calls = [j \in Jobs |-> 0]
    /\ faults = 0

-----------------------------------------------------------------------------
(* Moves of a worker's program counter.                                    *)

At(w, pc) == worker[w].pc = pc

Intends(w, intent) == worker[w].tx.intent = intent

\* The worker goes on; the transaction it was in, if any, is over.
Goto(w, pc) == worker' = [worker EXCEPT ![w].pc = pc, ![w].tx = NoTx]

\* The worker's transaction goes on.
Settle(w, intent, stage, status) ==
    worker' = [worker EXCEPT ![w].tx = [intent |-> intent, stage |-> stage, chain |-> status]]

\* _execute returns and the loop polls again; the lease, if any, is left as it is.
Return(w) == worker' = [worker EXCEPT ![w] = Unassigned("audit")]

\* An exception escapes run_once and ends the process.
Exit(w) == worker' = [worker EXCEPT ![w] = Unassigned("down")]

\* A blocked or failed outcome to be written by terminalize_owned.
Decide(w, status, links, completed) ==
    worker' = [worker EXCEPT ![w].pc = "terminate", ![w].tx = NoTx,
        ![w].verdict = [status |-> status, links |-> links, completed |-> completed]]

\* Whether the worker's own payload allows a real call.
Real(j) == job[j].kind = "REAL"

\* Mutant: the lease token is not compared.
OwnsByStatus(w) ==
    LET j == worker[w].job IN
    job[j].status = "RUNNING" /\ ~job[j].cancel /\ attempt[j] = "RUNNING"

\* _require_owned_job: the lease, no cancellation, and a running attempt.
OwnsUncancelled(w) ==
    LET j == worker[w].job IN
    /\ Owned(j, worker[w].token)
    /\ ~job[j].cancel
    /\ attempt[j] = "RUNNING"

\* A full_chain_runs row that is not closed.
Active(status) == status \notin TerminalStatuses \cup {"NONE"}

ChainActive(j) == Active(chain[j].status)

\* The latest checkpoint left PREPARED, or "NONE".
LatestOpen(j, s) ==
    IF s = "NONE" THEN \A t \in ChainStages : ckpt[j][t] # "PREPARED"
    ELSE /\ ckpt[j][s] = "PREPARED"
         /\ \A t \in ChainStages : ckpt[j][t] = "PREPARED" => Order[t] <= Order[s]

\* The history of the chain row after a commit of this worker.
Landed(w) == chain[worker[w].job].late \/ ~Owned(worker[w].job, worker[w].token)

\* The writer of a verdict on a persisted result knows that the provider has
\* answered; before that only a real call counts as one.
ResultKnown(j) == job[j].stage = "PERSISTED_RESULT_RECOVERY" \/ Real(j)

-----------------------------------------------------------------------------
(* Polling: expiry, recovery and claim.                                    *)

\* Mutants: the stage label lands in the status column; the open checkpoint stays open.
ClosesAsStage(j, tx, status) ==
    /\ chain' = [chain EXCEPT ![j].status =
                    IF Active(tx.chain) THEN (IF status = "STALE" THEN "LEASE_EXPIRED" ELSE status)
                    ELSE @]
    /\ ckpt' = [ckpt EXCEPT ![j] =
                    [s \in ChainStages |-> IF s = tx.stage THEN status ELSE @[s]]]

ClosesAlone(j, tx, status) ==
    /\ chain' = [chain EXCEPT ![j].status = IF Active(tx.chain) THEN status ELSE @]
    /\ UNCHANGED ckpt

\* A transaction that closes writes the chain, if it read it open, and the
\* checkpoint it read PREPARED, whatever the two rows are by then.
Closes(j, tx, status) ==
    /\ chain' = [chain EXCEPT ![j].status = IF Active(tx.chain) THEN status ELSE @]
    /\ ckpt' = [ckpt EXCEPT ![j] =
                    [s \in ChainStages |-> IF s = tx.stage THEN status ELSE @[s]]]

AfterAudit(w) == IF At(w, "audit") THEN "recover" ELSE "claim"

\* run_once audits the queue before recovery, and claim_next audits it again.
\* expire_stale first reads the slot's job, its chain and its open checkpoint
\* (the second time it may see the rows the first audit has left in the session,
\* and miss a lease that ran out since) ...
Audit(w) ==
    /\ worker[w].pc \in {"audit", "preclaim"}
    /\ Intends(w, "NONE")
    /\ \/ \E j \in Jobs, s \in ChainStages \cup {"NONE"} :
            /\ Expirable(j)
            /\ LatestOpen(j, s)
            /\ worker' = [worker EXCEPT ![w].job = j, ![w].token = job[j].token,
                    ![w].tx = [intent |-> "CLOSE", stage |-> s, chain |-> chain[j].status]]
       \/ /\ At(w, "preclaim") \/ \A j \in Jobs : ~Expirable(j)
          /\ Goto(w, AfterAudit(w))
    /\ UNCHANGED <<jobsVars, chainVars, calls, faults>>

\* ... and then expires the job, unless another transaction took the lease away.
Expire(w) ==
    /\ worker[w].pc \in {"audit", "preclaim"}
    /\ Intends(w, "CLOSE")
    /\ worker' = [worker EXCEPT ![w] = Unassigned(AfterAudit(w))]
    /\ LET j == worker[w].job IN
       \/ /\ job[j].token = worker[w].token
          /\ ExpireStale(j)
          /\ Closes(j, worker[w].tx, "STALE")
       \/ /\ ~(Expirable(j) /\ job[j].token = worker[w].token)
          /\ UNCHANGED <<jobsVars, chain, ckpt>>
    /\ UNCHANGED <<deployed, calls, faults>>

ApprovedCandidate(j) ==
    chain[j].approval = "APPROVED" /\ ckpt[j]["CANDIDATE_APPROVAL"] = "SUCCESS"

\* The branch of recover_one_stale a stale job falls into.
RecoveryMode(j) ==
    IF job[j].prev = "SIGNAL"
    THEN IF chain[j].status = "STALE" /\ ApprovedCandidate(j) /\ job[j].links
         THEN "SIGNAL_RECOVERY" ELSE "BLOCK"
    ELSE IF /\ ~job[j].attempted /\ ~job[j].completed /\ ~job[j].links
            /\ chain[j].status \in {"NONE", "RUNNING", "STALE"}
            /\ ckpt[j]["GENERATION"] \in {"NONE", "PREPARED", "STALE"}
    THEN "GENERATION_RETRY"
    ELSE IF job[j].attempted /\ ~job[j].completed
    THEN "LEAVE"
    ELSE IF /\ job[j].attempted \/ job[j].kind = "FORMAL"
            /\ job[j].completed /\ job[j].links
            /\ chain[j].status \in {"RUNNING", "STALE"}
    THEN "PERSISTED_RESULT_RECOVERY"
    ELSE "BLOCK"

\* The stale job recovery considers next: the lowest id that it does not leave alone.
RecoveryCandidate(j) ==
    /\ ExpiredStale(j)
    /\ RecoveryMode(j) # "LEAVE"
    /\ \A i \in Jobs : i < j => ~(ExpiredStale(i) /\ RecoveryMode(i) # "LEAVE")

\* recover_one_stale reads the job, its chain and its checkpoints, and settles
\* on a mode.  A persisted lineage may not validate any more, and a late write
\* may have moved current_stage, which is not modelled, off SIGNAL.
RecoverStale(w) ==
    /\ At(w, "recover")
    /\ Intends(w, "NONE")
    /\ \/ \E j \in Jobs, mode \in RecoveryModes :
            /\ RecoveryCandidate(j)
            /\ \/ mode = RecoveryMode(j)
               \/ mode = "BLOCK" /\ RecoveryMode(j) # "GENERATION_RETRY"
            /\ worker' = [worker EXCEPT ![w].job = j,
                    ![w].tx = [intent |-> mode, stage |-> "NONE", chain |-> chain[j].status]]
       \/ /\ \A j \in Jobs : ~RecoveryCandidate(j)
          /\ Goto(w, "preclaim")
    /\ UNCHANGED <<jobsVars, chainVars, calls, faults>>

\* _resume_recoverable_chain; a status that is what was read is not written.
ChainResumes(w, status) ==
    LET j == worker[w].job
        read == worker[w].tx.chain
    IN
    IF read = "NONE"
    THEN UNCHANGED <<chain, ckpt>>
    ELSE /\ chain' = [chain EXCEPT ![j].status = IF read = status THEN @ ELSE status]
         /\ ckpt' = [ckpt EXCEPT ![j] =
                        [s \in ChainStages |-> IF @[s] = "STALE" THEN "PREPARED" ELSE @[s]]]

\* The requeueing UPDATE asks again for a stale row the mode fits; if there is
\* none, the job is to be quarantined.
Requeue(w) ==
    LET j == worker[w].job
        mode == worker[w].tx.intent
    IN
    /\ At(w, "recover")
    /\ mode \in RecoveryModes \ {"BLOCK"}
    /\ \/ /\ PrepareStaleRecovery(j, mode)
          /\ ChainResumes(w, IF mode = "SIGNAL_RECOVERY" THEN "APPROVED" ELSE "RUNNING")
          /\ worker' = [worker EXCEPT ![w] = Unassigned("preclaim")]
       \/ /\ ~(ExpiredStale(j) /\ RecoveryGuard(j, mode))
          /\ Settle(w, "BLOCK", "NONE", chain[j].status)
          /\ UNCHANGED <<jobsVars, chain, ckpt>>
    /\ UNCHANGED <<deployed, calls, faults>>

\* A job no mode fits is quarantined if it is still stale, and the loop goes on
\* to the next one.
QuarantineStale(w) ==
    LET j == worker[w].job
        running == Active(worker[w].tx.chain)
    IN
    /\ At(w, "recover")
    /\ Intends(w, "BLOCK")
    /\ worker' = [worker EXCEPT ![w] = Unassigned("recover")]
    /\ \/ /\ BlockUnrecoverableStale(j)
          /\ chain' = [chain EXCEPT ![j].status = IF running THEN "BLOCKED" ELSE @]
          /\ ckpt' = [ckpt EXCEPT ![j] = [s \in ChainStages |->
                        IF running /\ LatestOpen(j, s) THEN "BLOCKED" ELSE @[s]]]
       \/ /\ ~ExpiredStale(j)
          /\ UNCHANGED <<jobsVars, chain, ckpt>>
    /\ UNCHANGED <<deployed, calls, faults>>

Claim(w) ==
    /\ At(w, "claim")
    /\ \/ \E j \in Jobs :
            /\ ClaimNext(j)
            /\ worker' = [worker EXCEPT ![w] =
                    [Unassigned("start") EXCEPT !.job = j, !.token = issued + 1]]
       \/ /\ \A j \in Jobs : ~ClaimCandidate(j)
          /\ Return(w)
          /\ UNCHANGED jobsVars
       \/ /\ \E j \in Jobs : ClaimCandidate(j) /\ ResumesAttempt(j) /\ ~AttemptParked(j)
          /\ Exit(w)
          /\ UNCHANGED jobsVars
    /\ UNCHANGED <<chainVars, calls, faults>>

-----------------------------------------------------------------------------
(* Execution of a claimed job.                                             *)

\* _execute re-reads the row it claimed and picks its branch.
Start(w) ==
    /\ At(w, "start")
    /\ LET j == worker[w].job IN
       IF job[j].status # "RUNNING" \/ job[j].token # worker[w].token THEN Return(w)
       ELSE IF job[j].cancel THEN Decide(w, "CANCELLED", FALSE, FALSE)
       ELSE IF job[j].stage = "SIGNAL" THEN Goto(w, "signal")
       ELSE IF job[j].stage = "PERSISTED_RESULT_RECOVERY" THEN Goto(w, "promote")
       ELSE Goto(w, "open")
    /\ UNCHANGED <<jobsVars, chainVars, calls, faults>>

\* The first research checkpoint that has not succeeded; 4 when all have.
NextCheckpoint(j) ==
    CHOOSE i \in 1 .. 4 :
        /\ i = 4 \/ ckpt[j][ResearchStages[i]] # "SUCCESS"
        /\ \A k \in 1 .. 3 : k < i => ckpt[j][ResearchStages[k]] = "SUCCESS"

\* What lets a transaction on the chain go on: the owner's row, the chain it
\* reads with it and, for the approval, the checkpoints before.
InOrder(w) ==
    /\ OwnsUncancelled(w)
    /\ ~At(w, "open") => ChainActive(worker[w].job)
    /\ At(w, "advance") => NextCheckpoint(worker[w].job) = 4

\* The ownership check of a transaction on the chain: an unlocked read, on which
\* everything up to the commit rests.
Fence(w) ==
    /\ worker[w].pc \in {"open", "prepare", "promote", "advance"}
    /\ Intends(w, "NONE")
    /\ InOrder(w)
    /\ Settle(w, "FENCED", "NONE", "NONE")
    /\ UNCHANGED <<jobsVars, chainVars, calls, faults>>

\* open_for_claimed_job; its FullChainBlocked is not the exception _execute
\* handles.  An existing chain always belongs to the attempt that resumes, and
\* the transaction then goes on into begin()'s next check.
OpenChain(w) ==
    /\ At(w, "open")
    /\ LET j == worker[w].job IN
       \/ Intends(w, "NONE") /\ ~InOrder(w) /\ Exit(w)
       \/ Intends(w, "FENCED") /\ chain[j].status = "NONE" /\ Settle(w, "OPEN", "NONE", "NONE")
       \/ Intends(w, "FENCED") /\ ChainActive(j) /\ worker' = [worker EXCEPT ![w].pc = "prepare"]
       \/ Intends(w, "FENCED") /\ chain[j].status \in TerminalStatuses /\ Goto(w, "prepare")
    /\ UNCHANGED <<jobsVars, chainVars, calls, faults>>

\* The new chain is committed; the unique index on the job refuses a second one.
InsertChain(w) ==
    /\ At(w, "open")
    /\ Intends(w, "OPEN")
    /\ LET j == worker[w].job IN
       \/ /\ chain[j].status = "NONE"
          /\ chain' = [chain EXCEPT ![j].status = "RUNNING", ![j].late = Landed(w)]
          /\ Goto(w, "prepare")
       \/ /\ chain[j].status # "NONE"
          /\ Exit(w)
          /\ UNCHANGED chain
    /\ UNCHANGED <<jobsVars, ckpt, deployed, calls, faults>>

\* Where begin() leads.
Begun(w) == IF Real(worker[w].job) THEN "mark" ELSE "call"

\* The crashed run that this one retries has prepared GENERATION already.
Retries(j) ==
    /\ ckpt[j]["GENERATION"] = "PREPARED"
    /\ job[j].stage = "GENERATION_RETRY"
    /\ ~job[j].attempted

\* The rest of begin(): look for the GENERATION checkpoint.
PrepareGeneration(w) ==
    /\ At(w, "prepare")
    /\ worker[w].tx.intent \in {"NONE", "FENCED"}
    /\ LET j == worker[w].job
           s == ckpt[j]["GENERATION"]
       IN
       \/ Retries(j) /\ Goto(w, Begun(w))
       \/ s # "NONE" /\ ~Retries(j) /\ Decide(w, "BLOCKED", FALSE, FALSE)
       \/ s = "NONE" /\ Intends(w, "FENCED") /\ Settle(w, "INSERT", "GENERATION", "NONE")
       \/ s = "NONE" /\ Intends(w, "NONE") /\ ~InOrder(w) /\ Exit(w)
    /\ UNCHANGED <<jobsVars, chainVars, calls, faults>>

\* Where a prepared checkpoint leads.
Prepared(w) ==
    CASE At(w, "prepare") -> Begun(w)
      [] At(w, "promote") -> "promote"
      [] At(w, "advance") -> "approve"

\* prepare_stage commits its PREPARED checkpoint.  If another worker's is there
\* by now, its second look blocks on it, or goes on with it when it is not
\* PREPARED; or the look is past and the unique index refuses the insert.
InsertCheckpoint(w) ==
    /\ worker[w].pc \in {"prepare", "promote", "advance"}
    /\ Intends(w, "INSERT")
    /\ LET j == worker[w].job
           s == worker[w].tx.stage
       IN
       \/ /\ ckpt[j][s] = "NONE"
          /\ ckpt' = [ckpt EXCEPT ![j][s] = "PREPARED"]
          /\ chain' = [chain EXCEPT ![j].late = Landed(w)]
          /\ Goto(w, Prepared(w))
       \/ /\ ckpt[j][s] # "NONE"
          /\ \/ Exit(w)
             \/ ~At(w, "prepare") /\ Decide(w, "BLOCKED", FALSE, ResultKnown(j))
             \/ ckpt[j][s] # "PREPARED" /\ ~At(w, "promote") /\ Goto(w, Prepared(w))
             \/ ckpt[j][s] # "PREPARED" /\ At(w, "promote") /\ Settle(w, "FENCED", "NONE", "NONE")
          /\ UNCHANGED <<chain, ckpt>>
    /\ UNCHANGED <<jobsVars, deployed, calls, faults>>

\* complete_stage commits SUCCESS over whatever the checkpoint has become.
CompleteCheckpoint(w) ==
    /\ At(w, "promote")
    /\ Intends(w, "COMPLETE")
    /\ LET j == worker[w].job IN
       /\ ckpt' = [ckpt EXCEPT ![j][worker[w].tx.stage] = "SUCCESS"]
       /\ chain' = [chain EXCEPT ![j].late = Landed(w)]
    /\ Goto(w, "promote")
    /\ UNCHANGED <<jobsVars, deployed, calls, faults>>

\* Mutant: the attempt is not committed before the call.
MarkAttemptInMemory(w) ==
    At(w, "mark") /\ Goto(w, "call") /\ UNCHANGED <<jobsVars, chainVars, calls, faults>>

\* provider_attempted_at is committed before the provider is called.
MarkAttempt(w) ==
    /\ At(w, "mark")
    /\ \/ /\ MarkProviderAttempt(worker[w].job, worker[w].token)
          /\ Goto(w, "call")
       \/ /\ \/ ~Owned(worker[w].job, worker[w].token)
             \/ job[worker[w].job].attempted
             \/ job[worker[w].job].cancel
          /\ Return(w)
          /\ UNCHANGED jobsVars
    /\ UNCHANGED <<chainVars, calls, faults>>

\* service.run starts; for a real job the request leaves for the provider.
CallProvider(w) ==
    /\ At(w, "call")
    /\ calls' = [calls EXCEPT ![worker[w].job] = @ + IF Real(worker[w].job) THEN 1 ELSE 0]
    /\ Goto(w, "calling")
    /\ UNCHANGED <<jobsVars, chainVars, faults>>

\* service.run raises: for a real job the outcome is unknown.
CallRaises(w) ==
    /\ At(w, "calling")
    /\ IF worker[w].lost THEN Return(w)
       ELSE Decide(w, IF Real(worker[w].job) THEN "STALE" ELSE "FAILED", FALSE, FALSE)
    /\ UNCHANGED <<jobsVars, chainVars, calls, faults>>

\* service.run answers; a cancellation requested meanwhile wins over the answer.
CallReturns(w) ==
    /\ At(w, "calling")
    /\ LET j == worker[w].job IN
       IF worker[w].lost THEN Return(w)
       ELSE IF job[j].cancel THEN Decide(w, "CANCELLED", FALSE, Real(j))
       ELSE \/ Goto(w, "checkpoint")
            \/ \E status \in {"BLOCKED", "FAILED"} : Decide(w, status, FALSE, Real(j))
    /\ UNCHANGED <<jobsVars, chainVars, calls, faults>>

\* Mutant: promotion starts without the ids being bound to the job.
CheckpointSkipped(w) ==
    At(w, "checkpoint") /\ Goto(w, "promote") /\ UNCHANGED <<jobsVars, chainVars, calls, faults>>

\* checkpoint_response: validate the lineage and bind every database id.
Checkpoint(w) ==
    /\ At(w, "checkpoint")
    /\ \/ /\ CheckpointResearchResult(worker[w].job, worker[w].token)
          /\ Goto(w, "promote")
       \/ /\ Decide(w, "BLOCKED", FALSE, Real(worker[w].job))
          /\ UNCHANGED jobsVars
    /\ UNCHANGED <<chainVars, calls, faults>>

\* _prepare_research_stages: each transaction prepares or completes one
\* checkpoint.  It may be refused at any of them: the lease, the chain or the
\* persisted lineage no longer checks out.
Promote(w) ==
    /\ At(w, "promote")
    /\ worker[w].tx.intent \in {"NONE", "FENCED"}
    /\ LET j == worker[w].job
           i == NextCheckpoint(j)
           s == ResearchStages[i]
       IN
       \/ i = 4 /\ Goto(w, "validate")
       \/ /\ i # 4 /\ Intends(w, "FENCED")
          /\ \/ ckpt[j][s] = "NONE" /\ Settle(w, "INSERT", s, "NONE")
             \/ ckpt[j][s] = "PREPARED" /\ Settle(w, "COMPLETE", s, "NONE")
       \/ Decide(w, "BLOCKED", FALSE, ResultKnown(j))
    /\ UNCHANGED <<jobsVars, chainVars, calls, faults>>

\* validate_for_promotion runs further backtests; it touches no row modelled here.
Validate(w) ==
    /\ At(w, "validate")
    /\ \/ Goto(w, "advance")
       \/ Decide(w, "BLOCKED", TRUE, ResultKnown(worker[w].job))
    /\ UNCHANGED <<jobsVars, chainVars, calls, faults>>

\* advance() up to the approval: look for the CANDIDATE_APPROVAL checkpoint.
Advance(w) ==
    /\ At(w, "advance")
    /\ worker[w].tx.intent \in {"NONE", "FENCED"}
    /\ LET j == worker[w].job
           s == ckpt[j]["CANDIDATE_APPROVAL"]
       IN
       \/ ApprovedCandidate(j) /\ Return(w)
       \/ ~ApprovedCandidate(j) /\ s = "PREPARED" /\ Goto(w, "approve")
       \/ /\ s = "NONE" /\ Intends(w, "FENCED")
          /\ Settle(w, "INSERT", "CANDIDATE_APPROVAL", "NONE")
       \/ /\ ~ApprovedCandidate(j)
          /\ s \notin {"NONE", "PREPARED"} \/ (Intends(w, "NONE") /\ ~InOrder(w))
          /\ Decide(w, "BLOCKED", FALSE, ResultKnown(j))
    /\ UNCHANGED <<jobsVars, chainVars, calls, faults>>

\* auto_approve_candidate: job, attempt, control, chain and checkpoint in one
\* transaction over locked rows; the promotion gates may also refuse.
Approve(w) ==
    /\ At(w, "approve")
    /\ LET j == worker[w].job IN
       \/ /\ ChainActive(j)
          /\ AutoApproveJob(j, worker[w].token)
          /\ ckpt[j]["CANDIDATE_APPROVAL"] = "PREPARED"
          /\ chain[j].approval = "NONE"
          /\ chain' = [chain EXCEPT ![j].status = "APPROVED", ![j].approval = "APPROVED"]
          /\ ckpt' = [ckpt EXCEPT ![j]["CANDIDATE_APPROVAL"] = "SUCCESS"]
          /\ Return(w)
       \/ /\ Decide(w, "BLOCKED", FALSE, ResultKnown(j))
          /\ UNCHANGED <<jobsVars, chain, ckpt>>
    /\ UNCHANGED <<deployed, calls, faults>>

\* The continuation of an approved candidate, up to the committed publish().
\* It is refused when the lease, the chain or the approval no longer holds
\* (an approval also expires after five minutes), and any other error fails it.
Signal(w) ==
    /\ At(w, "signal")
    /\ LET j == worker[w].job IN
       \/ /\ Owned(j, worker[w].token) /\ ~job[j].cancel
          /\ job[j].stage = "SIGNAL"
          /\ chain[j].status = "APPROVED"
          /\ ApprovedCandidate(j)
          /\ deployed' = [deployed EXCEPT ![j] = TRUE]
          /\ Goto(w, "finish")
       \/ /\ IF worker[w].lost THEN Return(w)
             ELSE \E status \in {"BLOCKED", "FAILED"} : Decide(w, status, FALSE, FALSE)
          /\ UNCHANGED deployed
    /\ UNCHANGED <<jobsVars, chain, ckpt, calls, faults>>

\* Mutant: the job succeeds, the slot is left to a later transaction.
FinishKeepsSlot(w) ==
    /\ At(w, "finish")
    /\ LET j == worker[w].job IN
       /\ Owned(j, worker[w].token)
       /\ job' = [job EXCEPT ![j].status = "SUCCESS", ![j].stage = "CLOSED", ![j].token = None]
       /\ attempt' = [attempt EXCEPT ![j] = "SUCCESS"]
    /\ Return(w)
    /\ UNCHANGED <<control, issued, cancelSeen, chainVars, calls, faults>>

\* The terminal checkpoint after publish(): the lease is read again.
Finish(w) ==
    /\ At(w, "finish")
    /\ \/ /\ Complete(worker[w].job, worker[w].token, "SUCCESS", TRUE, FALSE)
          /\ Return(w)
       \/ /\ ~Owned(worker[w].job, worker[w].token)
          /\ IF worker[w].lost THEN Return(w) ELSE Decide(w, "BLOCKED", FALSE, FALSE)
          /\ UNCHANGED jobsVars
    /\ UNCHANGED <<chainVars, calls, faults>>

\* terminalize_owned reads the job, the chain and the open checkpoint.  It
\* raises, and the process ends, when the chain is already closed otherwise, or
\* when the open checkpoint of a cancelled job would be closed as anything but
\* CANCELLED.
Terminalize(w) ==
    /\ At(w, "terminate")
    /\ Intends(w, "NONE")
    /\ \E s \in ChainStages \cup {"NONE"} :
        LET j == worker[w].job
            v == worker[w].verdict
            raises == \/ chain[j].status \in TerminalStatuses /\ chain[j].status # v.status
                      \/ s # "NONE" /\ ~ChainActive(j)
                      \/ s # "NONE" /\ job[j].cancel /\ v.status # "CANCELLED"
        IN
        /\ LatestOpen(j, s)
        /\ \/ ~Owned(j, worker[w].token) /\ Return(w)
           \/ Owned(j, worker[w].token) /\ raises /\ Exit(w)
           \/ Owned(j, worker[w].token) /\ ~raises /\ Settle(w, "CLOSE", s, chain[j].status)
    /\ UNCHANGED <<jobsVars, chainVars, calls, faults>>

\* It closes the four tables' rows in one commit, or nothing when the
\* conditional UPDATE of the job finds the lease gone.
Terminate(w) ==
    /\ At(w, "terminate")
    /\ Intends(w, "CLOSE")
    /\ Return(w)
    /\ LET j == worker[w].job
           v == worker[w].verdict
       IN
       \/ /\ Complete(j, worker[w].token, v.status, v.links, v.completed)
          /\ Closes(j, worker[w].tx, v.status)
       \/ /\ ~Owned(j, worker[w].token)
          /\ UNCHANGED <<jobsVars, chain, ckpt>>
    /\ UNCHANGED <<deployed, calls, faults>>

WorkerStep(w) ==
    \/ Audit(w) \/ Expire(w)
    \/ RecoverStale(w) \/ Requeue(w) \/ QuarantineStale(w) \/ Claim(w)
    \/ Start(w) \/ Fence(w) \/ OpenChain(w) \/ InsertChain(w)
    \/ PrepareGeneration(w) \/ InsertCheckpoint(w) \/ CompleteCheckpoint(w)
    \/ MarkAttempt(w) \/ CallProvider(w) \/ CallRaises(w) \/ CallReturns(w)
    \/ Checkpoint(w) \/ Promote(w) \/ Validate(w) \/ Advance(w) \/ Approve(w)
    \/ Signal(w) \/ Finish(w) \/ Terminalize(w) \/ Terminate(w)

-----------------------------------------------------------------------------
(* The environment: heartbeats, crashes, time and operators.               *)

\* The heartbeat thread's conditional UPDATE matched no row.  A lost lease never
\* comes back, so the flag need only be raised in the phases that read it.
HeartbeatLost(w) ==
    /\ worker[w].pc \in {"calling", "signal", "finish"}
    /\ ~worker[w].lost
    /\ ~Owned(worker[w].job, worker[w].token)
    /\ worker' = [worker EXCEPT ![w].lost = TRUE]
    /\ UNCHANGED <<jobsVars, chainVars, calls, faults>>

Crash(w) ==
    /\ faults < MaxFaults
    /\ ~At(w, "down")
    /\ Exit(w)
    /\ faults' = faults + 1
    /\ UNCHANGED <<jobsVars, chainVars, calls>>

Restart(w) ==
    /\ At(w, "down")
    /\ Goto(w, "audit")
    /\ UNCHANGED <<jobsVars, chainVars, calls, faults>>

\* No process beats for this lease any more.
Abandoned(j) ==
    \A w \in Workers : ~(/\ worker[w].pc \in OwnerPhases
                         /\ worker[w].job = j
                         /\ worker[w].token = job[j].token)

\* An abandoned lease expires; a held one only when its heartbeat stalls.
AbandonedLeaseLapses(j) ==
    /\ Abandoned(j)
    /\ LeaseLapse(j)
    /\ UNCHANGED <<chainVars, worker, calls, faults>>

HeldLeaseLapses(j) ==
    /\ faults < MaxFaults
    /\ ~Abandoned(j)
    /\ LeaseLapse(j)
    /\ faults' = faults + 1
    /\ UNCHANGED <<chainVars, worker, calls>>

\* The candidate-validation queue's retry_stale.
RetryStale(j) ==
    /\ faults < MaxFaults
    /\ "RETRY" \in Requests
    /\ job[j].kind = "FORMAL"
    /\ PrepareStaleRecovery(j, "VALIDATION_RETRY")
    /\ faults' = faults + 1
    /\ UNCHANGED <<chainVars, worker, calls>>

\* Read without a lock and written by primary key: the chain may have been closed
\* between the two, and becomes BLOCKED all the same.
RevokeApproval(j) ==
    /\ "REVOKE" \in Requests
    /\ chain[j].approval = "APPROVED"
    /\ chain' = [chain EXCEPT ![j].status = "BLOCKED", ![j].approval = "REVOKED"]
    /\ UNCHANGED <<jobsVars, ckpt, deployed, worker, calls, faults>>

QueueRequest ==
    /\ \/ \E j \in Jobs, kind \in Kinds : Enqueue(j, kind)
       \/ "PAUSE" \in Requests /\ \E p \in BOOLEAN : SetPaused(p)
       \/ "CANCEL" \in Requests /\ \E j \in Jobs : CancelRead(j)
    /\ UNCHANGED <<chainVars, worker, calls, faults>>

CommitCancel(j) ==
    /\ CancelWrite(j)
    /\ UNCHANGED <<chainVars, worker, calls, faults>>

OperatorStep ==
    \/ QueueRequest
    \/ \E j \in Jobs : CommitCancel(j) \/ RetryStale(j) \/ RevokeApproval(j)

Next ==
    \/ \E w \in Workers : WorkerStep(w) \/ HeartbeatLost(w) \/ Crash(w) \/ Restart(w)
    \/ \E j \in Jobs : AbandonedLeaseLapses(j) \/ HeldLeaseLapses(j)
    \/ OperatorStep

Spec == Init /\ [][Next]_vars

\* What the scheduling gives: a live process keeps stepping (service.run has
\* timeouts of its own), a dead one is restarted by the managed runtime, an
\* abandoned lease runs out, and a cancel request that was read is committed.
Fairness ==
    /\ \A w \in Workers : WF_vars(WorkerStep(w)) /\ WF_vars(Restart(w))
    /\ \A j \in Jobs : WF_vars(AbandonedLeaseLapses(j))
    /\ \A j \in Jobs : WF_vars(CommitCancel(j))

FairSpec == Spec /\ Fairness

-----------------------------------------------------------------------------
(* Safety.                                                                 *)

\* "The worker must not automatically submit another Provider request for that
\* job": whatever crashes, expiries, recoveries and retries happen, the paid
\* provider sees at most one request per job, and none for a formal one.
ProviderCalledAtMostOnce ==
    \A j \in Jobs : calls[j] <= IF Real(j) THEN 1 ELSE 0

\* Whatever the workers, the recovery and the operators do to the queue's tables is, step
\* by step, an operation of ResearchJobs or nothing: what is shown of the queue for every
\* order of calls holds of the worker's.
ImplementsJobs == JobsSpec

\* A worker whose token is no longer the row's.
Former(w) ==
    worker[w].pc \in OwnerPhases /\ job[worker[w].job].token # worker[w].token

\* What a step of a former owner may do to a checkpoint of its job.
LateWrite(before, after) ==
    after = before \/ (before = "NONE" /\ after = "PREPARED") \/ after = "SUCCESS"

\* Once its token is no longer the row's, a worker changes nothing of the queue,
\* of an approval, of a deployment or of another job's chain.  It begins no
\* transaction; the one it had begun may still open the chain no one has opened,
\* or prepare or complete one research checkpoint, and approves nothing.
LateWritesAreContained ==
    [][\A w \in Workers : Former(w) /\ worker'[w] # worker[w] =>
        LET o == worker[w].job IN
        /\ UNCHANGED <<jobsVars, deployed>>
        /\ Intends(w, "NONE") =>
            /\ worker'[w].tx.intent = "NONE"
            /\ UNCHANGED <<chain, ckpt>>
        /\ chain'[o].status # chain[o].status => chain[o].status = "NONE"
        /\ chain'[o].approval = chain[o].approval
        /\ \A s \in ChainStages : LateWrite(ckpt[o][s], ckpt'[o][s])
        /\ ckpt'[o]["CANDIDATE_APPROVAL"] = "SUCCESS"
            => ckpt[o]["CANDIDATE_APPROVAL"] = "SUCCESS"
        /\ \A j \in Jobs \ {o} : chain'[j] = chain[j] /\ ckpt'[j] = ckpt[j]]_vars

\* A deployment exists only for a candidate that went through every research
\* checkpoint and was approved, with its provider outcome and ids persisted.
DeployedWasApproved ==
    \A j \in Jobs : deployed[j] =>
        /\ \A s \in ChainStages : ckpt[j][s] = "SUCCESS"
        /\ chain[j].approval # "NONE"
        /\ job[j].links
        /\ job[j].completed

\* SUCCESS is claimed only after the deployment was published.
SuccessWasDeployed ==
    \A j \in Jobs : job[j].status = "SUCCESS" => deployed[j]

\* "Atomically close Job, Attempt, FullChain and its active checkpoint": a job
\* that its worker, an expiry or the quarantine closed has its attempt closed
\* alike, and leaves no chain running and no checkpoint open, unless a former
\* owner's write has landed on the chain.
ClosedTogether ==
    \A j \in Jobs : job[j].status \in {"FAILED", "BLOCKED", "STALE"} =>
        /\ attempt[j] = job[j].status
        /\ ~chain[j].late => /\ ~ChainActive(j)
                             /\ \A s \in ChainStages : ckpt[j][s] # "PREPARED"

\* The job's stage never claims more than its chain has proved: a job queued or
\* running for the continuation has its candidate checkpoint, and no PREPARED
\* checkpoint from before is left open behind it.
SignalHasCandidate ==
    \A j \in Jobs :
        /\ job[j].status \in {"PENDING", "RUNNING"}
        /\ job[j].stage \in {"CANDIDATE_APPROVED", "SIGNAL_RECOVERY", "SIGNAL"}
        => \A s \in ChainStages : ckpt[j][s] = "SUCCESS"

-----------------------------------------------------------------------------
(* Liveness, under FairSpec.                                               *)

\* The slot is held by a job that is not running: only the race of cancel()
\* with a claim gets there (see CancelledHoldsNoSlot).
SlotStranded == \E j \in Jobs : control.active = j /\ job[j].status # "RUNNING"

\* While the queue is not paused for ever, and the slot is not stranded, every
\* enqueued job reaches a terminal status and stays there.
QueueDrains ==
    (<>[]~control.paused /\ []~SlotStranded) =>
        \A j \in Jobs :
            job[j].status = "PENDING" ~> [](job[j].status \in TerminalStatuses)
=============================================================================
