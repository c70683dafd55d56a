# Verification of freqtrade-ai

TLA+ models of the protocols at the core of this repository, the TLC runs that
check them on small instances, and TLAPS proofs of the theorems that hold for
every instance. The models are translated from the Python source under `src/` and
the SQL functions and triggers that its migrations install; `PROJECT.json` maps
every definition to the lines it stands for.

The program runs a research pipeline (a paid model generates a trading strategy,
backtests and scoring judge it, an approval promotes it, a deployment evaluates
signals) and two trading lines to the OKX *demo* exchange: the production runtime
(risk gates admit an order, an order writer sends it, a reconciliation compares
the database with the exchange, a guard opens and closes automation) and the
bounded soak of `canonical_v13`. Nearly all coordination goes through PostgreSQL
rows: leases with fencing tokens, status columns changed by conditional UPDATEs,
unique indexes and triggers. What can go wrong is what happens *between* two
transactions, and between a request and its answer.

## Inventory

| Component | State | Operations | What is hard | Correct when |
|---|---|---|---|---|
| **Research job queue** (`repositories/research_jobs.py`) | rows of `research_jobs`, `research_job_attempts`, the single `research_worker_control` row | `create_or_get`, `claim_next`, `heartbeat`, `mark_provider_attempt`, `checkpoint_research_result`, `complete`, `cancel`, `cancel_at_checkpoint`, `wait_for_candidate_approval`, `resume_after_…`, `block_waiting_…`, `expire_stale`, `prepare_stale_recovery`, `block_unrecoverable_stale`, pause/resume | two workers; former owners that wake up late; recovery must decide from the row alone; `cancel` reads and writes without a lock between | one job runs at a time and holds the slot; former owners are fenced; a provider request of unknown outcome is never repeated; the head of the queue never wedges |
| **Research worker and full chain** (`workers/deepseek_backtest_worker.py`, `services/research_full_chain_orchestrator.py`, `repositories/full_chain.py`, `services/strategy_deployment_continuation.py`) | the process's own memory (job, token, heartbeat flag); `full_chain_runs`, `full_chain_stage_runs`; published deployments | `run_once`: audit, recover, claim, execute; checkpoints GENERATION, BACKTEST, SCORING, CANDIDATE_APPROVAL; the continuation that publishes | crash between the committed attempt and the answer; lease lost during a call, or between an ownership check and its commit; a prefix of checkpoints committed | at most one paid request per job; only approved candidates are deployed; the four tables close together; every job ends |
| **Signal evaluation queue, risk chain, approved execution** (`repositories/strategy_deployments.py`, `services/okx_demo_execution_orchestrator.py`, owner functions in `db/migrations.py`) | `signal_evaluations` with leases and fences, EXECUTION chains and stages, intents, approvals, the risk budget | enqueue, claim with expiry, checkpoint, renew, SIGNAL and RISK stages, the owner function that decides and reserves, selection and dispatch claim, fail-closed completion, disable | a runtime paused beyond its lease fails an evaluation another one works on; an approval selected in one transaction and used in another; release of approvals that may be about to be dispatched | an order has its whole chain behind it; one order at a time; the budget covers the approvals; former owners decide nothing; every evaluation ends |
| **OKX demo order writer** (`adapters/okx_demo/order_writer.py`, `writer_repository.py`, `writer_state.py`, `write_transport.py`) | journal of write attempts, the exchange-order row, the writer lease, recovery grants; the exchange itself | `place`, `recovery_cancel`, `recovery_reduce_only`, `reconcile_unresolved`, close cleanup | a request whose answer is lost; a restart between journal and POST; lease takeover while a POST is in flight; recovery by reads only | never two POSTs for one operation; nothing at the exchange that the journal does not know; RECONCILED is what the exchange says |
| **Reconciliation** (`services/okx_demo_reconciliation.py`, `adapters/okx_demo/reconciliation_runtime.py`) | reconciliation runs and gate, recovery grants, order statuses, copied fills | reads of open orders, history, position and fills; comparison; repair; grants; choice of the writer's next call | reads one after the other while the exchange moves; a run that commits what is no longer so | a run misses and invents no order; whatever it does is something the writer survives; grants are current when used |
| **Runtime service, lease keeper, automation guard** (`adapters/okx_demo/runtime_service.py`, `runtime_writer_lease.py`, guard functions in `db/migrations.py`) | the guard row, the published slots, the last observation, the lease | observe, report, cycle, place; enable, reset, publish; failure and health; keeper renewal | an exception rolls the report back with the cycle; failure classes in any order; the observation is older than the order | openings only when a safe observation and the guard in force allow them; a cooldown ends; a latch holds |
| **canonical_v13 continuous soak** (`canonical_v13/continuous_demo_soak.py`, `continuous_demo_execution.py`, `phase9_order_writer.py`, `phase9_*`) | grants, orders, dispatch claims, receipts, fills, ledger, reconciliations; a writer lease | one durable step a tick: reconcile, ledger, fill, dispatch, exit, signal; absence probe before a second request | a request proved absent that arrives late; grants that run out; a crash between claim and POST | one exposure at a time; the ledger is the account when nothing is incomplete; the soak drains |
| **canonical_v13 research, approvals, releases** | artefacts with digests, append-only tables | an operator's command line, one step at a time | formats and statistics | receipts match their inputs |
| **Generation, scoring, validation, backtests** (`services/…`) | none of its own | computation and an external process | — | numeric, unit-testable |
| **HTTP API, configuration, audit** (`api/`, `config`) | none of its own | handlers over the repositories | — | — |
| **Supervisor scripts** (`scripts/local_supervisor.py`) | process table | start, stop, restart | — | a process that exits is started again |
| **Frontend** (`frontend/`) | none | presentation | — | — |

How they interact: the API and the operators enqueue research jobs; a worker
claims one, records each chain stage, and publishes a deployment; the evaluation
queue turns closed candles into signals; the owner functions turn a signal into an
approval with its share of the budget; the runtime, if the guard allows it, gives
the approval to the order writer under the writer lease; the reconciliation reads the
journal and the exchange, and either agrees or freezes openings and issues a
recovery grant, which the writer executes. The soak of `canonical_v13` has tables, a
writer and a lease of its own and shares only the exchange.

## Modules

| Module | Models | Role |
|---|---|---|
| `ResearchJobs` | the queue | one action per writing operation of the repository, callable by anyone with any token ever issued |
| `ResearchWorker` | worker processes, full chain, provider | composes with `ResearchJobs` (EXTENDS): every queue write of a worker *is* a `ResearchJobs` action conjoined with the worker's own |
| `OrderWriter` | order writer, journal, writer lease, exchange | one action per committed transaction, request or read |
| `OrderProtocol` | what the writer promises | abstract specification: two variables, where an order's request is and what the journal says of it |
| `OrderWriterRefinement` | — | the mapping from `OrderWriter` to `OrderProtocol` (INSTANCE … WITH) |
| `Reconciliation` | the runtime's cycle around the writer | composes with `OrderWriter` (EXTENDS): every call of a cycle is one of the writer's actions |
| `SignalExecution` | evaluations, chain, risk, approval, dispatch | one action per transaction of one or more runtimes |
| `AutomationGuard` | the guard row and the runtime loop | the guard's functions as operators on its row, the loop as four phases |
| `DemoSoak` | the soak of `canonical_v13` | one action per transaction or exchange call of a tick |
| `MC…` | — | model values and symmetry for TLC |
| `…Proofs` | — | the theorems, one module per component |

### ResearchJobs

`job[j]` keeps of a `research_jobs` row what its guards read: status, stage, lease
token, whether the lease is in date, the cancel flag, attempts, the two
provider timestamps as booleans (`attempted`, `completed`), whether the seven
result ids are bound (`links`), the stage that an expiry interrupted (`prev`).
`attempt[j]` is the status of the latest `research_job_attempts` row. `control` is
`research_worker_control`. A lease token is a number: a fresh one is larger than
every earlier one, which abstracts a fresh UUID.

Every operation is one committed transaction, under row locks or a conditional
UPDATE, hence one action. The exception is `cancel`, which reads the row without
a lock, decides, and writes `WHERE id = …`: `CancelRead` and `CancelWrite`.
Time is one bit per lease, since a heartbeat only extends a lease that is
in date.

### ResearchWorker

A worker's `pc` names where it stands between two transactions of `run_once`.
`ResearchFullChainBlocked` becomes a terminal write, any other exception ends the
process (`Exit`) and the supervisor restarts it (`Restart`). The provider is the
counter `calls`: the requests it has seen for a job. The validations of persisted
lineage, and the promotion gates, may refuse at any time (a disjunct that
decides BLOCKED), so nothing relies on them. `ImplementsJobs` says that the
composition is a behaviour of `JobsSpec`: what is shown of the queue for every
order of calls holds of the workers'.

The queue's rows are written by conditional UPDATEs or under locks, the chain and its
checkpoints by primary key, after an unlocked read. So each transaction on the chain is
split where another process may come between, and `worker[w].tx` holds what the open
transaction has settled on:

| Code | Actions |
|---|---|
| `open_for_claimed_job` | `Fence` (`_require_owned_job`), `OpenChain` (the look), `InsertChain` (the commit) |
| `prepare_stage` | `Fence`, the look (`PrepareGeneration`, `Promote`, `Advance`), `InsertCheckpoint` |
| `complete_stage` | `Fence`, the look (`Promote`), `CompleteCheckpoint` |
| `expire_stale` | `Audit` (reads job, chain and open checkpoint), `Expire` (the conditional UPDATE, and the chain's rows as read) |
| `recover_one_stale` | `RecoverStale` (reads, chooses the mode), `Requeue` or `QuarantineStale` |
| `terminalize_owned` | `Terminalize` (reads), `Terminate` (the conditional UPDATE, and the chain's rows as read) |

`auto_approve_candidate` and `publish` lock and refresh the rows they decide on; they are one
action each. `chain[j].late` is a history variable, read by no guard: a write of a former
owner has landed on the chain.

### OrderWriter

`attempt[<<a, op>>]` is the row of `okx_order_write_attempts` for operation `op` of
approval `a`: its state and the lease generation that fences it. The operation's
identity is derived from the approval, so a row exists at most once. `order[a]`
is the `exchange_orders` row: its status and which request it carries, the two
things its trigger judges. `lease` is the one lease row, `grant[a]` the recovery
grant to cancel `a`'s order or to reduce the position. `writer[w]` is what a
process knows between two steps: the phase, the attempt, the generation it was
given, the attempt's state as it last read or wrote it, the transition it is about to
write, and the order state it has read. `wire`, `answer`, `market`, `position` and
`leverage` are the exchange: a request that left arrives later or never, and is
accepted or rejected on arrival. `posts` counts requests and is read by no action.

| Code | Actions |
|---|---|
| `place` | `AcquireForPlace`, `Fence`, `AdoptUnresolved` or `NothingUnresolved`, `ReadLeverage`, `Prepare`, `Post`, then an answer |
| `_post_and_reconcile` | `Answered` or `OutcomeUnknown`, `Fence`, `Record`, then the reads |
| `_reconcile`, `_reconcile_leverage` | `Get`, `ReadPosition`, `Fence`, `Settle`; the `except` clause is `GetFails` or a refused `Settle`, then `Fence`, `Doubt` |
| `_cleanup_close` | `CleanupClose`, `Record` |
| `reconcile_unresolved` | `ClaimUnresolved`, then the reads |
| `recovery_cancel`, `recovery_reduce_only` | `AcquireForRecovery`, `Fence`, `AdoptUnresolved` or `Prepare`, `Post` |
| `RuntimeWriterLeaseKeeper` | `KeepLease`, `HeldLeaseLapses` (a stalled keeper) |
| a reconciliation run | `ReconciliationCommits`, `ExpireGrant`; `Prepare` consumes a grant |
| the exchange | `ArriveAccepted`, `ArriveRejected`, `OrderEnds`; `ProtectionTriggers` (an attached take-profit or stop-loss closes the position) |

Three facts of the code shape the module. `_require_lease` reads the lease without
a lock, so `Fence` is a step of its own and the lease can be taken over between
it and the statements it protects; what really protects them is the generation
in the attempt's row. The trigger on `exchange_orders` (PostgreSQL only) can refuse
a transition the state machine allows; the transaction then rolls back and the
attempt stays unresolved. And `_cleanup_close` derives a client order id that the
same trigger refuses to insert outside a canary lifecycle, so on PostgreSQL its
only effect is to settle a close whose position is gone.

An exception of the reconciliation that the runtime loop calls transient continues
with the next cycle (`Leave`); any other ends the process, which restarts with
a new token (`Crash`, `Restart`).

`OrderProtocol` forgets processes, leases, generations, answers and reads. An order's
request is NOWHERE, in a process's HAND, on the WIRE or at the EXCHANGE; the journal
says ABSENT, OPEN, REJECTED or RECONCILED. One order is open at a time, its request
leaves once, it may land late, and the journal concludes only what became of it.
`OrderWriterRefinement` maps: EXCHANGE if the market has it, else WIRE if a request is
there, else HAND if a process is about to send it.

### Reconciliation

One process's cycle: `StartRun`, the three reads (`ReadPending`, `ReadHistory`,
`ReadPositionOfRun`) with the exchange moving between them, `Commit` or
`CommitRefused` (a repair that the trigger refuses), then the choice of the writer's
call (`CallForUnresolved`, `CallForGrant`, `CallForPlace`) and the writer's own steps
(`WriterActs`, with the gate that `Prepare` consults). Time is two sets: the orders
filled before the run began are the fills it asks for, and the orders that ended
before the floor (`past`, five seconds before the last run completed) are in
no later history. A run may take longer than the overlap, so `past` may grow to any
ended order at a commit.

In `OrderWriter` a run is one abstract step, `ReconciliationCommits`, that may write
what it saw in any identified order's row and offer any grant.
`ImplementsOrderWriter` says that the concrete runs, whatever they have read and
whenever they commit, do no more than that: the writer's properties hold under them.

### SignalExecution

`eval[e]` is a `signal_evaluations` row (status, fence, whether its lease is in
date, its checkpoint), `chain[e]` the EXECUTION chain, `stage[e]` its SIGNAL and RISK
stages, `approval[e]` the trade intent with its approved execution, `attempt[e]` its
order write attempt, `budget` the positions `risk_budgets` has reserved. A runtime's
`pc` names the transaction it makes next; `late` says that the clock it last read is
past its lease; `clock` which bundles were fresh when the cycle read it. Each question
put to the guard may be answered either way, and the order writer is OPEN or DONE: both
have modules of their own. `fresh` is the validity of the signal's trusted bundle, and of
all that expires with it.

Three facts of the code shape the module. The orchestrator passes `evaluation.id` and
`chain.id` to each call, which loads rows that the last commit expired;
`require_active_lease` then locks the evaluation but does not refresh it
(no `populate_existing`), so status, token, fence, deployment and the chain's status are
tested as they were loaded. `Load` is that load, `seen` what it found, and the transaction's
own action tests `seen`, the stage rows (read under the lock) and the last clock reading;
what it writes are the columns that differ from what was loaded. A transaction that finds
its work done does not commit and goes on with the same rows (`SignalPrepared`, `OpenChain`,
whose existing chain is renewed or resumed at once; the renewal writes an expiry only, which
`fresh` stands for). From the first load to the write of the checkpoint there is no commit, so
`Capture` and the evaluator run between the two. `complete` is a conditional UPDATE, and
`_fail_closed` is three transactions that begin with nothing loaded: they test current rows.
And the input of the SIGNAL stage holds the evaluation's fence, so an evaluation that
was requeued after its SIGNAL stage cannot resume it and is failed closed.

### AutomationGuard

The guard's SQL functions are operators on its row (`Failed`, `Healthy`,
`OpeningAllowed`), since each holds an advisory lock. The runtime process observes
(a committed reconciliation), reports and runs one cycle in the same transaction, and
may place. An exception rolls the report back unless the cycle had committed (`Left`).
A reconciliation is reduced to whether database and exchange agree. `Cycle` leaves out the
branch of `run_cycle` that uses a recovery grant (`reconciliation_runtime.py:282`, modelled in
`Reconciliation`) and set-leverage attempts (modelled in `OrderWriter`); deployments are
published and never disabled (`SignalExecution` disables them). The properties are about
openings, which none of these makes.

### DemoSoak

`row[o]` is an order of `canonical_v13` with its one grant, its status, its dispatch
claims with their outcomes, and how many of its contracts have a fill, a ledger entry
and a reconciliation; `exch[o]` is what the exchange holds of it; `history` the order of
creation, from which a tick picks the newest incomplete order. `net` is the sum of the ledger's
entries as `_ledger_net` reads it, and `position` the account's contracts: both are what a
purchase adds and a sale takes, the one when an entry is posted (`PostLedger`), the other when
the exchange fills (`Fill`). A tick (`Works`) does the first
step that is due: reconcile, ledger, fill, dispatch (`Guard`, `Claim`, `Post`, `Query`,
`Record`), grant an exit, grant an opening, end. A request that timed out is proved absent by a
read before the next claim (`Query` answering "absent"), and may still arrive.
All processes share one keychain secret, hence one lease holder and generation. The GETs by
which a tick asks for one order (open, then history) are one read, and so are the
probe for a flat account and the write of the reconciliation that rests on it; the exchange
moves between any two of the steps that remain.

## Runs

| Run | Instance | Shows |
|---|---|---|
| `jobs_queue` | 2 jobs, 2 attempts, 2 tokens; any token presented at any time | slot exclusion, fencing, outcome quarantine, resumability |
| `worker_ends` | 2 workers, 1 job, 5 tokens, 1 fault, cancellations, retries and revocations, `FairSpec` | at most one provider request; deployments only of approved candidates; the four tables closed together; former owners confined to the write they had begun; every step is one of the queue's; every enqueued job reaches a terminal status |
| `cancel_strands_slot` | violation | `cancel` racing with a claim strands the slot |
| `writer_close` | 1 process and its restart, an opening and a closing approval, 2 generations, 1 fault | one order in flight; RECONCILED is what the exchange showed; every step is one of `OrderProtocol` |
| `writer_settles` | 2 processes, an opening approval, 2 generations, 1 fault, `FairSpec` | one POST per operation; a placement stays in the journal; generations are exclusive; an order that reached the exchange is reconciled |
| `signal_execution` | 1 deployment, 2 candles, 2 runtimes, 1 position, 1 fault | orders have their chain, one at a time, within the budget; former owners decide nothing and commit one transaction at most |
| `signal_ends` | 1 deployment, 1 candle, 2 runtimes, 2 faults, an account that may hold a position, `FairSpec` | every evaluation ends |
| `automation_guard` | 2 deployments, 2 slots, 6 exceptions, crashes or disagreements, `FairSpec` | openings are authorized; RUNNING is below the threshold; a cooldown ends |
| `guard_latch` | violation | a counted failure after a latch becomes a cooldown |
| `reconciliation` | 1 process, an opening and a reduce-only recovery, 2 generations, 1 fault | runs miss and invent no order; the trigger refuses a run for one reason only; cancellations are current; every step is one of `OrderWriter` |
| `reconciliation_fills` | violation | a fill read by two runs is a lineage conflict |
| `demo_soak` | 1 process, 2 signals, openings of 2 contracts, 2 faults, `FairSpec` | one exposure; the books are the account; the soak drains or stands in one of five dead ends |

Every run but `demo_soak` checks deadlock; a soak that has drained stops.

Bounds. Two workers and one job, or two jobs presented any token, suffice for every
pairwise race, since one slot serialises the jobs; the queue alone needs two tokens for a
claim, an expiry and a claim by another, and the workers need one per claim that the
faults and operator retries allow. `MaxFaults` counts crashes, lapses under a live owner,
takeovers from a paused process, lost requests and operator retries. In the writer's
runs a takeover needs a crash or a lapse, so `MaxFaults + 1` generations are all there
can be. Two candles of one deployment give two evaluations whose lives overlap, which is
what a former owner, a second approval or a release of the budget needs. Three counted
failures are the guard's threshold; six faults are a cooldown, its end, and another.
In the soak an opening of two contracts fills in parts, and a second signal is what
`OneExposure` is about; two faults are a lost request and a crash, or a request proved
absent twice. What is proved (below) does not depend on these bounds.

`worker_ends` is an instance with one fault, and `QueueDrains` a statement about it. With two, a
recovery that stalls between its reads and its UPDATE may requeue, in the mode it read, a job
that has been approved in the meantime: its owner finds nothing to do and returns without a
terminal write, its lease runs out, and recovery puts it back in the queue, for ever. The run has
one job, so that another job's rows stay untouched is what the proof of `LateWritesAreContained`
shows, not the run. Pausing gates claims only and is left to `jobs_queue`; in `QueueDrains` it is
the premise that no pause lasts for ever.

Fairness. `WF` of a worker's, writer's, runtime's or soak's step: a live process keeps
going, and its calls have timeouts of their own. `WF` of restarts: the supervisor
restarts what exits; the writer's is conditioned on `StartsExact`, since startup runs an
exact reconciliation, and the soak's is not assumed at all but a premise of `Drains`.
`WF` of an abandoned lease's expiry, of `LeaseExpires` and of `CooldownPasses`: time passes;
`SF` of `GrantExpires` and `LeaseExpires` in the soak for the same reason, since other
steps may disable and enable them. `WF` of a pending cancel's write (`CommitCancel`): the
request handler finishes. `SF` of the writer's `ClaimUnresolved`: each cycle of the
runtime looks at the journal before it does anything else. `SF` of `Get`: a read that
could show the order does not fail each time for ever. The guard's `SF` says that now and
then a report follows its run within ninety seconds and finds nothing unresolved;
`DriftClears` that agreement returns, by a recovery grant or the operator. `WF` of the soak's
`Arrive` and `Fill`: the exchange takes what reaches it. Nothing is assumed about
heartbeats, operators, the provider's answer, or the writer's requests arriving.

`writer_settles` speaks of openings only: a close that leaves a residual position
waits for the operator by design, and a set-leverage that never arrives stays
unresolved. It excepts the state in which a crashed process cannot start because an order or
position is open: on PostgreSQL nothing writes `exchange_positions`, so an open
position is drift to every run, and startup wants an exact one.

### Findings

- `cancel_strands_slot`: `cancel` reads a row and writes by primary key. A claim in
  between is overwritten and the slot stays taken by a CANCELLED job; a completion in
  between is overwritten in the same way.
- `guard_latch`: a counted failure recorded after MANUAL_RESET_REQUIRED, within the
  window, finds the count at the threshold and writes COOLDOWN, from which health alone
  returns to RUNNING.
- `reconciliation_fills`: two runs overlap by five seconds; the second reading of a fill
  compares row ids and observation time too and raises a lineage conflict.

None of them breaks a property of the passing runs. `PROJECT.json` quotes the text each
contradicts.

### What a former owner can still write

Two ownership checks of the code do not cover the commit they stand before. Comments and
documents promise more; the models contain what the code does, and the properties
`LateWritesAreContained` and `FormerOwnersAreContained` say how far it goes.

- `_require_owned_job` reads without a lock and the chain's rows are written by primary key, so a
  worker whose lease lapses in between still opens the chain, or prepares or completes a
  checkpoint (`backend/app/repositories/full_chain.py:114`: "Lease-fenced persistence for the single
  ResearchJob-to-OKX Demo chain."; `docs/phase9_db_backed_worker.md:118`: "a former owner cannot
  overwrite a newer state", which does hold of the queue's own tables). It writes nothing
  else, approves nothing and begins nothing further. `ClosedTogether` excepts the chains on which such a
  write has landed: their closed job may be left with a RUNNING chain or a PREPARED checkpoint.
- A recovery that stalls between its reads and its UPDATE requeues the job in the mode it
  read (`backend/app/services/research_full_chain_orchestrator.py:75`: "Requeue one stale attempt only
  when the next action is non-ambiguous."). The UPDATE's conditions keep an unknown provider
  outcome from being rerun (`ProviderCalledAtMostOnce`), but not the mode from being wrong.
- The lock of `require_active_lease` refreshes nothing, so a runtime that loaded its evaluation
  before it lost it, or before the deployment was disabled, commits one more transaction on chain
  and stages, or overwrites the checkpoint that its successor has written
  (`backend/app/repositories/strategy_deployments.py:75`: "Every execution-chain mutation must prove
  the SignalEvaluation token and fencing sequence"; `:461`: "Persist immutable evaluator output").
  It decides no approval, and cannot complete a SIGNAL stage prepared under another fence.

### Behaviours met while modelling

No document or test of the repository says otherwise of these, so they are not
findings; the models contain them.

- A recovery cancellation that the exchange rejects leaves REJECTED in the order's row,
  which the trigger keeps for ever: every later run that sees the order otherwise is
  rolled back, and the runtime cannot start. `RefusedByRejectedCancel` shows that
  nothing else rolls a run back.
- A crash after a cancellation was PREPARED, and a run that writes `canceled` in the
  order's row: the cancellation's own acknowledgement is then refused by the trigger, and
  it stays unresolved.
- Because `exchange_positions` stays empty on PostgreSQL, a run that sees a position is
  drifted: it freezes openings and offers a reduction, and a process that crashed while
  a position is open does not start again.
- A run that takes longer than the overlap leaves the fills and the ends of orders in
  between unread for ever (`past`); the order is then missing in every later run.
- On PostgreSQL the status `position_zero` is never written: a close that leaves a residual
  already has a final status, `filled` or `canceled`, which the trigger keeps, so the
  transition of `_cleanup_close` is always refused (`order_writer.py:833`, `StatusOK`).
  Such a close is settled by `reconcile_unresolved`, which the cycle calls first.
- A generic recovery close that leaves a residual is called again by no cycle; each
  cycle raises on it until an operator acts.
- After a set-leverage the order of the same approval cannot be prepared: both requests
  share an `exchange_orders` row whose request must not change.
- An evaluation requeued after its SIGNAL stage was prepared can only be failed closed,
  since the stage's input holds the old fence.
- A former owner whose preparation is refused because of its successor's stage writes BLOCKED in
  the chain in the same transaction, which may be that of a dispatched order
  (`DispatchIsBacked` allows it); the order's own rows are not touched.
- A budget reservation is released only for an approval whose chain reached EXECUTION and
  that was never dispatched; others count for ever.
- In the soak: two ticks side by side (a scheduled one and an operator's) are both granted, since
  grants lock by signal and a shared holder passes the lease check, and two purchases may
  be under way; `OneExposure` is therefore checked and proved for one process. A request that arrives
  after two proofs of its absence is an order the tables call rejected (`Forgotten`). A
  prepared order whose grant ran out wedges every tick, because the call that should
  cancel it always raises. A signal has one exit grant, and an exit that expired or was
  refused is not granted again. An order that ends partly filled is incomplete for
  ever. A drain ends on a flat ledger without a look at the account, which is flat as well
  unless an order was forgotten (`SoakEndsFlat`); the branch for a short ledger is never taken
  by one process, since `net` stays within one opening.

## Proofs

TLAPS checks eight modules; nothing in them is assumed but the named assumptions on the
constants, and `OneProcess` where a theorem says so.

**`ResearchJobsProofs`**, for every `MaxJobs`, `MaxAttempts` and `MaxClaims`:
`TypeCorrect`, `SlotIsExclusive`, `FencingHolds`, `OutcomeIsKnown`,
`ResumptionNeverWedges`, `OneAttemptEver` and `UnknownOutcomeIsQuarantined`. Because
`JobsNext` lets any token be presented at any time, they hold whatever the callers do.
None of the properties is inductive alone. RUNNING implies
owning the slot with the token issued last (`SlotInv`), so a claim, which needs
a free slot, can not meet another RUNNING job, and an old token can not match; the
outcome of the provider's attempt is recorded before a row leaves RUNNING for
a status from which it can be queued (`OutcomeInv`); and every transition that
parks a job for resumption parks its attempt in the same transaction
(`AttemptInv`). `UnknownOutcomeIsQuarantined` is an action property and follows
from the conjunction.

**`ResearchWorkerProofs`**, for any workers, jobs, claims, faults and requests. First
`WorkersImplementJobs`: each step of the composition is a step of the queue or leaves its
tables alone, so the queue's theorems carry over (`QueueFacts`). On them rest the rest.
`Lasting` collects what never goes back (a recorded attempt, bound ids, a checkpoint that
succeeded); `Moves` is the table of where a worker's `pc` can go. `ProviderIsCalledOnce`:
a call needs the row's attempt not to be marked before, the mark is committed first, and marks
last (`CallInv`). `OnlyApprovedIsDeployed` and `SuccessIsDeployed`: a worker that holds a
candidate knows of its row and its chain what publishing needs (`CandidateInv`, `Earned`).
`FormerOwnersAreContained` is an action property: every look begins a
transaction only under a lease that is current (`OwnsUncancelled` in `Fence`), so a worker whose
token is not the row's begins none (`Looks`), and what it has settled on (`IntentInv`) names one
commit, on its own job's chain and on no approval. `ClosedIsClosedTogether` follows from
what each closing transaction writes (`ClosedAs`): on a chain without a late write a
checkpoint exists only if those before it have succeeded (`Shape`), so at most one is open; what a closing
transaction has read open is what is open, as long as its token is the row's (`ClosesAll`),
and later steps leave closed rows alone (`CleanOK`). `WorkerTypeCorrect`, `SignalIsForACandidate`.

**`OrderWriterProofs`**, for every set of approvals and processes and every
`MaxGeneration` and `MaxFaults`: `WriterTypeCorrect`, `NeverReposted`,
`OrdersAreTracked`, `SingleOrderInFlight`, `GenerationsAreExclusive` and
`ReconciliationIsReal`. A writer acts on what it read some steps earlier, so the
invariant (`IInv`) must say what that knowledge is worth in each phase (`PhaseOK`,
`KnowsOK`):
- A row is ABSENT until `Prepare` and never again, and `Prepare` is the only way to
  the phase `post`. So a request about to be sent was never sent, and no other
  writer is about to send it (`RowOK`, `OneSender`): `NeverReposted`.
- Only REJECTED and RECONCILED close an attempt. The first needs the operation's
  own answer REJECT, the second that the exchange has shown the order (`Shown`). A request
  still on the wire has neither, so its attempt is pending: `OrdersAreTracked`.
- `Prepare` needs that nothing is pending, so at most one row is (`OneUnresolved`):
  `SingleOrderInFlight`.
- Whoever acquires the lease has a generation no other process has, and an attempt's
  row names a generation only while its holder knows the row's state (`GenOK`,
  `OwnGeneration`): `GenerationsAreExclusive`.
- The exchange's terminal states are stable and what a writer has seen of them
  stays true (`Truthful`): `ReconciliationIsReal`.

The lease itself is hardly used: the proof of single sending rests on the row and
its generation, which is what the unlocked lease check leaves to rely on. The lemmas
sort the steps by their footprint (`LocalStep`, `TransitionStep`, `ClaimStep`, ...)
before one lemma per action.

**`OrderWriterRefinementProofs`**: `WritersImplementOrderProtocol`, the refinement for
every instance, from the same invariant. A step concerns one order (`Moves`) or none
(`Same`): preparing an order opens it, a POST puts it from hand to wire, a refusal or a
crash before the POST drops it, its arrival lands or bounces it, and the transitions to REJECTED
and RECONCILED conclude it where `PhaseOK` says the order is. Everything else, takeovers
and adoptions included, is a stutter.

**`ReconciliationProofs`**. For any approvals, processes and takeovers:
`RuntimeImplementsOrderWriter` (every step of a cycle is a step of `OrderWriter`, in
particular every commit of a run a `ReconciliationCommits`), from which `RuntimeIsSafe`
carries the writer's theorems over to the runtime; `UnknownOrdersAreUnresolved` and
`ReconciliationTypeCorrect`. The invariant (`RInv`) adds to the writer's one what relates
rows to attempts and runs to the exchange: the request in an order's row is that of all its
attempts (`RowsOK`); the row has the exchange's order id only if the order is there and its
attempt left PREPARED, and a reconciled opening has it (`KnownOK`); no row is ever
`RECONCILED` or `position_zero` (`StatusOK`); what a run read of ended orders stays true
(`RunOK`).

Three more theorems assume `OneProcess` (`Writers` has one element at most), as the
supervisor starts the runtime (`scripts/local_runtime.py:2095`): `MissingOrdersArePast`, `CancellationsAreCurrent` and
`RefusalsFollowRejectedCancels`. A run and a call of the same process never overlap
(`BetweenCalls`), so the rows stay as they were between the reads and the commit
(`ReadsOK`), and every order that the cycle may still cancel had a row that was not final
when its run committed and is touched by no other call of the cycle (`OffersOK`,
`Footprint`). A second process could write a row between another's reads and its commit.

**`SignalExecutionProofs`**, for any deployments, candles, runtimes, policies and faults:
`OrdersAreBacked`, `OneOrderAtATime`, `ApprovalsAreCovered` and
`FormerOwnersWriteTheirOwn`. The invariant (`Inv`) says what the rows of an evaluation tell
of each other (`RowOK`: a RISK stage needs a SIGNAL stage that succeeded, which needs a
recorded signal; an attempt needs everything), what a runtime may rely on in each phase whoever
owns its evaluation by now (`PhaseOK`: from RECORD_SIGNAL on the SIGNAL stage is there with the
runtime's own fence; a selected approval has an ACTIONABLE evaluation), and that the ACTIVE
approvals are finitely many, at most the budget, at most the policy's (`Covered`).
Since the lease is not what protects the chain, each transaction on it is shown to keep
that much whoever owns the evaluation (`GoesOn`, `Follows`): a stage keeps the fence it
was prepared under, what was recorded stays recorded, and of a chain whose RISK stage
succeeded only the status changes, to BLOCKED. `OrdersAreBacked` follows, with the release,
which passes over what was dispatched. `FormerOwnersWriteTheirOwn` adds what `Contained`
says of a runtime that does not own the row: it commits nothing but what it had loaded, once, and
the SIGNAL stage's fence keeps it from completing another owner's stage.
`ApprovalsAreCovered`: a decision reserves one more than the
larger of account and reservations, a release returns what it expires.
Whether another attempt is open is asked again in the transaction that makes one
(`MayDispatch`), so a runtime paused since its selection does no harm
(`OneOrderAtATime`).

`LeasedOncePerFault` and, with its bound, `SignalTypeCorrect` need a second invariant. An
evaluation is leased again only when it was requeued, and it is requeued only for an
expired lease; the lease of a runtime that works expires for a fault, and that of a runtime
that was taken over or crashed had its fault then. What makes it inductive: a runtime taken over
between its cycle's start and its claim may claim once more (`Strays`), and an evaluation
nobody works on may be leased once without a fault (`Vacant`); with the two counted in
(`Counts`), no step gains. A runtime that read a clock past its lease (`late`) still has its
fence there only on a lease that has expired (`FenceOK`).

**`AutomationGuardProofs`**, for any deployments and number of failures: `TypeCorrect`,
`RunsBelowThreshold` (RUNNING with the threshold on record is unreachable, because each
way into RUNNING clears the count) and `OpeningsAuthorized` (the phase PLACE is reached
only from a safe observation under a running guard whose set is the published one; the
placement checks guard and run again).

**`DemoSoakProofs`**, for any signals, size of an opening and faults, assuming `OneProcess`:
`SoakTypeCorrect`, `OnePurchase` (`OneExposure`), `LedgerIsTheAccount`
(`BooksAreTheAccount`), `NothingSoldUnbought`, `HoldingsAreBounded`, and of steps
`RecordsOnlyGrow` and `SoakEndsFlat`. They relate orders that different ticks made, tables
written after crashes, and an exchange the tables learn of late. The invariant (`Inv`) has these parts:

- `RowOK`: what one row tells. A size only with a grant, a place in `history` only with a status, and
  matched ≤ posted ≤ recorded ≤ filled at the exchange; an order the exchange has, or may yet
  receive, was prepared, and an accepted one is there.
- `HistoryOK`: only the last order can need a step (`Busy`), so orders come one after the
  other, and of two accepted purchases the earlier one's exit is posted in full.
- `ExitsOK`: an exit is granted only for a purchase that is filled, posted and reconciled, and
  one that needs a step belongs to the newest purchase (`Entry`).
- `NetOK`: the ledger's sum is what the newest purchase posted less its exit, and zero while a
  purchase is on its way to the exchange.
- `WorkerOK`: what a process may rely on at each step, e.g. that everything is still complete
  between its probe and its preparation. This is what a second process breaks.
- `AccountOK`: account and ledger differ by the contracts of the one busy order that are
  filled and not yet posted. It is conditional on `Known`, that no order the exchange has is
  rejected in the tables: a late arrival falsifies `Known` and nothing restores it by itself.

A purchase that is exposed is then either busy or the entry of a positive ledger
(`ExposedIs`); two such are one, because only the last order is busy, because the entry is
unique (`OneEntry`), and because the ledger is flat while another one is in flight. TLC
checked the same `Inv` on the instance of `demo_soak`, and the statements that no run
checks. The lemmas sort the steps by what they write: nothing but processes (`LocalStep`),
the exchange (`ExchangeStep`), one order's row (`RowStep`); the acceptance of a purchase
(`RecordPurchase`), a ledger entry (`PostLedgerInv`) and a new order (`PrepareNew`) have proofs
of their own.

Stated by theorems and checked by no run of their own: `OneAttemptEver`, `OutcomeIsKnown`,
`SignalIsForACandidate`, `SuccessIsDeployed`, `LeasedOncePerFault`, `NothingSoldUnbought`,
`HoldingsAreBounded`, `RecordsOnlyGrow`, `SoakEndsFlat`.

Model-checked only: liveness (`QueueDrains`, `PlacementSettles`, `EvaluationsEnd`,
`CooldownEnds`, `Drains`), which is out of the prover's reach. Every safety property that a run
checks is a theorem.

## Not modelled

- Of the order writer: `dispatch_atomic_once` and the controlled canary (its consent
  handoffs, its recovery close, and the operator's acceptance of a NOT_FOUND order,
  which database functions carry out); `amend` and `cancel`, which no production code
  calls. Order quantities, prices, precision and the contents of snapshots are data to
  the protocol; a partially filled order counts as `live`, and `mmp_canceled` as
  `canceled`. The leverage an order was filled at.
- Of the worker: manual approval and rejection, the contents of evidence. The order of row
  locks (`auto_approve_candidate` and `expire_stale` take them in opposite orders): PostgreSQL
  aborts one of the two, which changes nothing and ends its process.
- Of the signal line: the retained local path of `RiskChainService`, which no production
  caller uses; the evaluation heartbeat, which the runtime does not call; notional gates
  (one nondeterministic breach).
- Of the reconciliation: the event stream ingested outside a run, account and other
  instruments, evidence files and their compaction. The position and the open orders of
  the soak's probe are two reads, modelled as one: a state between them has no outcome of
  its own.
- Of the runtime: readiness files, the supervisor's freeze file, one-shot runs beside the
  loop.
- Of `canonical_v13`: everything but the soak. Releases and readiness checks before a soak
  is confirmed, the single canary order that uses the same writer, and the research line
  are an operator's command line over append-only tables, one step at a time.
- Generation, scoring, validation and backtests are computation; API, configuration and
  frontend are presentation over the repositories modelled here; supervisor scripts
  are used only for the fact that they start again what exits.

The repository is large and most of it is of these last kinds, so the lines the map names are
a small share of it.
