----------------------------- MODULE OrderWriter -----------------------------
(***************************************************************************)
(* The OKX demo order writer: what it journals before a request leaves,    *)
(* how it learns what became of the request, and the writer lease that     *)
(* fences one process from another.                                        *)
(*                                                                         *)
(* Four entries of the production runtime are modelled: place,             *)
(* reconcile_unresolved, recovery_cancel and recovery_reduce_only.  Every  *)
(* committed transaction, request and read of the exchange is one action   *)
(* of a writer process.  _require_lease, the first statement of most transactions, is  *)
(* an unlocked read, so it is an action of its own (Fence): the lease may  *)
(* change hands between it and the statements that rely on it.             *)
(*                                                                         *)
(* Validations of approvals, precision, the reconciliation gate and the    *)
(* automation guard may refuse at any time (Refused): nothing here relies  *)
(* on them.  The backend is PostgreSQL, whose trigger on exchange_orders   *)
(* refuses some of the writer's updates.                                   *)
(***************************************************************************)
EXTENDS Integers

CONSTANTS
    Openings,       \* approved executions that open a position
    Closings,       \* reduce-only orders
    Reductions,     \* those of them made under a recovery grant, without an approval
    Writers,        \* writer processes
    Nobody,         \* the lease holder that no live process is
    MaxGeneration,  \* bound on the takeovers of the writer lease
    MaxFaults       \* bound on crashes and on lapses of a live process's lease

Approvals == Openings \cup Closings

ASSUME ApprovalsAssumption ==
    Approvals # {} /\ Openings \cap Closings = {} /\ Reductions \subseteq Closings
ASSUME NobodyAssumption == Nobody \notin Writers
ASSUME BoundsAssumption == MaxGeneration \in Nat /\ MaxFaults \in Nat

Operations == {"SET_LEVERAGE", "PLACE", "CLOSE", "CANCEL"}

OrderKey(a) == <<a, IF a \in Closings THEN "CLOSE" ELSE "PLACE">>

IsOrder(k) == k[2] \in {"PLACE", "CLOSE"}

\* The unique operation identity (operation, operation_id): the id is derived
\* from the approval's client order id, so each operation has one row for ever.
Keys == {k \in Approvals \X Operations : IsOrder(k) => k = OrderKey(k[1])}

\* The operation a recovery grant allows.
RecoveryKey(a) == IF a \in Reductions THEN OrderKey(a) ELSE <<a, "CANCEL">>

IsRecovery(k) == k = RecoveryKey(k[1])

Unresolved == {"PREPARED", "DISPATCHED", "ACKNOWLEDGED", "RECOVERY_REQUIRED",
               "RESIDUAL_CLOSE_REQUIRED"}

WriteStates == Unresolved \cup {"REJECTED", "RECONCILED"}

Events == {"ACKNOWLEDGE", "EXPLICIT_REJECTION", "OUTCOME_UNKNOWN", "RECOVERY_STILL_UNKNOWN",
           "RESIDUAL_DETECTED", "RECONCILE"}

TerminalOrderStates == {"filled", "canceled"}

\* What a transition can write in exchange_orders.status besides a write state.
OrderStates == {"live", "position_zero", "leverage_confirmed"} \cup TerminalOrderStates

Phases == {"idle", "down", "unresolved", "leverage", "prepare", "post", "sent", "record",
           "get", "position", "settle", "doubt", "cleanup"}

\* The phases whose transaction begins with _require_lease.
FencedPhases == {"unresolved", "prepare", "record", "settle", "doubt"}

VARIABLES
    attempt,   \* [Keys -> state and lease_generation of the write-attempt row]
    order,     \* [Approvals -> status and request_snapshot of the exchange_orders row]
    grant,     \* [Approvals -> status of the recovery grant for RecoveryKey]
    lease,     \* the okx_order_writer_leases row
    writer,    \* [Writers -> what the process knows]
    wire,      \* requests that have left and have not reached the exchange
    answer,    \* [Keys -> the exchange's answer, "NONE" before the request arrives]
    market,    \* [Approvals -> state of the order at the exchange, "NONE" if unknown to it]
    position,  \* whether the exchange holds an open position
    leverage,  \* the approvals that ask for the leverage in force at the exchange
    posts,     \* [Keys -> POSTs started]
    faults     \* faults so far

journal == <<attempt, order, grant>>
exchange == <<wire, answer, market, position, leverage>>
vars == <<journal, lease, writer, exchange, posts, faults>>

Rows == [state : WriteStates \cup {"ABSENT"}, gen : 0 .. MaxGeneration]

OrderRows == [status : WriteStates \cup OrderStates \cup {"ABSENT"},
              body : {"NONE", "LEVERAGE", "ORDER"}]

Leases == [holder : Writers \cup {Nobody}, gen : 0 .. MaxGeneration, live : BOOLEAN]

WriterStates ==
    [pc : Phases, key : Keys, goal : {"NONE", "PLACE", "RECOVER", "RECONCILE"},
     gen : 0 .. MaxGeneration, fenced : BOOLEAN, state : WriteStates \cup {"ABSENT"},
     event : Events \cup {"NONE"}, seen : OrderStates \cup {"NONE"}]

WriterTypeOK ==
    /\ attempt \in [Keys -> Rows]
    /\ order \in [Approvals -> OrderRows]
    /\ grant \in [Approvals -> {"NONE", "ACTIVE", "CONSUMED", "EXPIRED"}]
    /\ lease \in Leases
    /\ writer \in [Writers -> WriterStates]
    /\ wire \in SUBSET Keys
    /\ answer \in [Keys -> {"NONE", "ACK", "REJECT"}]
    /\ market \in [Approvals -> {"NONE", "live", "filled", "canceled"}]
    /\ position \in BOOLEAN
    /\ leverage \in SUBSET Approvals
    /\ posts \in [Keys -> Nat]
    /\ faults \in 0 .. MaxFaults

NoKey == CHOOSE k \in Keys : TRUE

Unassigned(pc) ==
    [pc |-> pc, key |-> NoKey, goal |-> "NONE", gen |-> 0, fenced |-> FALSE,
     state |-> "ABSENT", event |-> "NONE", seen |-> "NONE"]

Init ==
    /\ attempt = [k \in Keys |-> [state |-> "ABSENT", gen |-> 0]]
    /\ order = [a \in Approvals |-> [status |-> "ABSENT", body |-> "NONE"]]
    /\ grant = [a \in Approvals |-> "NONE"]
    /\ lease = [holder |-> Nobody, gen |-> 0, live |-> FALSE]
    /\ writer = [w \in Writers |-> Unassigned("idle")]
    /\ wire = {}
    /\ answer = [k \in Keys |-> "NONE"]
    /\ market = [a \in Approvals |-> "NONE"]
    /\ position \in BOOLEAN
    /\ leverage \in SUBSET Approvals
    /\ posts = [k \in Keys |-> 0]
    /\ faults = 0

-----------------------------------------------------------------------------
(* The journal's rules.                                                    *)

Pending(k) == attempt[k].state \in Unresolved

\* TRANSITIONS; "INVALID" where transition_write_state raises.
After(state, event) ==
    CASE event = "ACKNOWLEDGE" /\ state \in {"PREPARED", "DISPATCHED"} -> "ACKNOWLEDGED"
      [] event = "EXPLICIT_REJECTION" /\ state \in {"PREPARED", "DISPATCHED"} -> "REJECTED"
      [] event = "OUTCOME_UNKNOWN" /\ state \in {"PREPARED", "DISPATCHED", "ACKNOWLEDGED"} ->
            "RECOVERY_REQUIRED"
      [] event = "RECOVERY_STILL_UNKNOWN"
            /\ state \in {"RECOVERY_REQUIRED", "RESIDUAL_CLOSE_REQUIRED"} -> state
      [] event = "RESIDUAL_DETECTED"
            /\ state \in {"ACKNOWLEDGED", "RECOVERY_REQUIRED", "RESIDUAL_CLOSE_REQUIRED"} ->
            "RESIDUAL_CLOSE_REQUIRED"
      [] event = "RECONCILE"
            /\ state \in {"ACKNOWLEDGED", "RECOVERY_REQUIRED", "RESIDUAL_CLOSE_REQUIRED"} ->
            "RECONCILED"
      [] OTHER -> "INVALID"

\* The trigger on exchange_orders: the request never changes, and these
\* statuses are final.
TriggerAllows(a, status, body) ==
    \/ order[a].status = "ABSENT"
    \/ /\ order[a].body = body
       /\ order[a].status \in {"REJECTED", "RECONCILED", "position_zero"} \cup TerminalOrderStates
            => status = order[a].status

\* Whether transition() finds the row as the writer left it.
RowMatches(w) ==
    /\ attempt[writer[w].key].state = writer[w].state
    /\ attempt[writer[w].key].gen = writer[w].gen
    /\ After(writer[w].state, writer[w].event) # "INVALID"

NewState(w) == After(writer[w].state, writer[w].event)

\* Mutants: the order state is written whatever the event, or never.
NewStatusSeen(w) == writer[w].seen

NewStatusOfAttempt(w) == NewState(w)

\* order_state, given only with the last two events, or else the attempt's state.
NewStatus(w) ==
    IF writer[w].event \in {"RESIDUAL_DETECTED", "RECONCILE"} THEN writer[w].seen ELSE NewState(w)

OrderAllows(w) == TriggerAllows(writer[w].key[1], NewStatus(w), order[writer[w].key[1]].body)

\* transition(), once the lease was read: the row and its order move together.
Transition(w) ==
    /\ RowMatches(w)
    /\ OrderAllows(w)
    /\ attempt' = [attempt EXCEPT ![writer[w].key].state = NewState(w)]
    /\ order' = [order EXCEPT ![writer[w].key[1]].status = NewStatus(w)]
    /\ UNCHANGED <<grant, lease, exchange, posts, faults>>

-----------------------------------------------------------------------------
(* Moves of a writer.                                                      *)

At(w, pc) == writer[w].pc = pc

Goto(w, pc) ==
    writer' = [writer EXCEPT ![w] = [writer[w] EXCEPT !.pc = pc, !.fenced = FALSE]]

\* The call returns or raises to the runtime's cycle.
Leave(w) == writer' = [writer EXCEPT ![w] = Unassigned("idle")]

\* A transition to be written by the named phase.
Decide(w, pc, event) ==
    writer' = [writer EXCEPT ![w] =
        [writer[w] EXCEPT !.pc = pc, !.event = event, !.fenced = FALSE]]

\* The except clause of _reconcile.
DoubtEvent(state) ==
    IF state = "RECOVERY_REQUIRED" THEN "RECOVERY_STILL_UNKNOWN" ELSE "OUTCOME_UNKNOWN"

InDoubt(w) == Decide(w, "doubt", DoubtEvent(writer[w].state))

-----------------------------------------------------------------------------
(* The writer lease.                                                       *)

\* Mutants: only an expired lease is acquired; a takeover keeps the generation.
CanAcquireExpired(w) == ~lease.live /\ lease.gen < MaxGeneration

AcquiredAsIs(w) ==
    [holder |-> w, gen |-> IF lease.gen = 0 THEN 1 ELSE lease.gen, live |-> TRUE]

\* The same process keeps its generation even after its lease expired; another
\* one takes over only after that, with the next generation.
CanAcquire(w) ==
    \/ lease.holder = w
    \/ ~lease.live /\ lease.gen < MaxGeneration

Acquired(w) ==
    IF lease.holder = w THEN [lease EXCEPT !.live = TRUE]
    ELSE [holder |-> w, gen |-> lease.gen + 1, live |-> TRUE]

\* acquire_lease: no other approval may have an unresolved attempt.
AcquireForPlace(w, a) ==
    /\ At(w, "idle")
    /\ a \notin Reductions
    /\ CanAcquire(w)
    /\ \A k \in Keys : Pending(k) => k[1] = a
    /\ lease' = Acquired(w)
    /\ writer' = [writer EXCEPT ![w] = [Unassigned("unresolved") EXCEPT
                    !.key = OrderKey(a), !.goal = "PLACE", !.gen = Acquired(w).gen]]
    /\ UNCHANGED <<journal, exchange, posts, faults>>

\* acquire_recovery_lease: the grant is active, or consumed by an attempt that
\* is still unresolved.  The cycle calls nothing for one that left a residual.
AcquireForRecovery(w, a) ==
    /\ At(w, "idle")
    /\ CanAcquire(w)
    /\ \/ grant[a] = "ACTIVE"
       \/ grant[a] = "CONSUMED" /\ Pending(RecoveryKey(a))
    /\ attempt[RecoveryKey(a)].state # "RESIDUAL_CLOSE_REQUIRED"
    /\ lease' = Acquired(w)
    /\ writer' = [writer EXCEPT ![w] = [Unassigned("unresolved") EXCEPT
                    !.key = RecoveryKey(a), !.goal = "RECOVER", !.gen = Acquired(w).gen]]
    /\ UNCHANGED <<journal, exchange, posts, faults>>

\* Mutant: reconciliation posts an attempt it finds PREPARED.
ClaimUnresolvedAndPost(w) ==
    /\ At(w, "idle")
    /\ CanAcquire(w)
    /\ \E k \in Keys :
        /\ Pending(k)
        /\ ~IsRecovery(k)
        /\ attempt' = [attempt EXCEPT ![k].gen = Acquired(w).gen]
        /\ writer' = [writer EXCEPT ![w] =
                [Unassigned(IF attempt[k].state = "PREPARED" THEN "post" ELSE "get") EXCEPT
                    !.key = k, !.goal = "RECONCILE", !.gen = Acquired(w).gen,
                    !.state = attempt[k].state]]
    /\ lease' = Acquired(w)
    /\ UNCHANGED <<order, grant, exchange, posts, faults>>

\* claim_unresolved_for_reconciliation: lease and attempt in one transaction;
\* an attempt under a grant is not eligible.
ClaimUnresolved(w) ==
    /\ At(w, "idle")
    /\ CanAcquire(w)
    /\ \E k \in Keys :
        /\ Pending(k)
        /\ ~IsRecovery(k)
        /\ attempt' = [attempt EXCEPT ![k].gen = Acquired(w).gen]
        /\ writer' = [writer EXCEPT ![w] = [Unassigned("get") EXCEPT
                        !.key = k, !.goal = "RECONCILE", !.gen = Acquired(w).gen,
                        !.state = attempt[k].state]]
    /\ lease' = Acquired(w)
    /\ UNCHANGED <<order, grant, exchange, posts, faults>>

\* _require_lease.  What it raises ends the call, except inside _reconcile,
\* whose handler tries to record the doubt.
Fence(w) ==
    /\ writer[w].pc \in FencedPhases
    /\ ~writer[w].fenced
    /\ IF lease.holder = w /\ lease.gen = writer[w].gen /\ lease.live
       THEN writer' = [writer EXCEPT ![w] = [writer[w] EXCEPT !.fenced = TRUE]]
       ELSE IF At(w, "settle") THEN InDoubt(w) ELSE Leave(w)
    /\ UNCHANGED <<journal, lease, exchange, posts, faults>>

-----------------------------------------------------------------------------
(* Preparing a request.                                                    *)

\* Whether the call may go on with the unresolved attempt it found.  A residual
\* under a grant needs the grant of a controlled canary, which is not modelled.
MayRecover(w, k) ==
    IF writer[w].goal = "PLACE" THEN k[1] = writer[w].key[1]
    ELSE k = writer[w].key /\ attempt[k].state # "RESIDUAL_CLOSE_REQUIRED"

\* unresolved(): the attempt, if there is one, is rebound to the caller's
\* generation, and recovered without a request.
AdoptUnresolved(w) ==
    /\ At(w, "unresolved")
    /\ writer[w].fenced
    /\ \E k \in Keys :
        /\ Pending(k)
        /\ attempt' = [attempt EXCEPT ![k].gen = writer[w].gen]
        /\ IF ~MayRecover(w, k) THEN Leave(w)
           ELSE writer' = [writer EXCEPT ![w] = [writer[w] EXCEPT
                    !.pc = IF /\ writer[w].goal = "PLACE"
                              /\ k[2] = "CLOSE"
                              /\ attempt[k].state = "RESIDUAL_CLOSE_REQUIRED"
                           THEN "cleanup" ELSE "get",
                    !.key = k, !.goal = "RECONCILE", !.state = attempt[k].state,
                    !.fenced = FALSE]]
    /\ UNCHANGED <<order, grant, lease, exchange, posts, faults>>

NothingUnresolved(w) ==
    /\ At(w, "unresolved")
    /\ writer[w].fenced
    /\ \A k \in Keys : ~Pending(k)
    /\ Goto(w, IF writer[w].goal = "PLACE" THEN "leverage" ELSE "prepare")
    /\ UNCHANGED <<journal, lease, exchange, posts, faults>>

\* A close needs the position it offsets; then the leverage is compared.
ReadLeverage(w) ==
    /\ At(w, "leverage")
    /\ LET a == writer[w].key[1] IN
       /\ a \in Closings => position
       /\ writer' = [writer EXCEPT ![w] = [writer[w] EXCEPT
                        !.pc = "prepare",
                        !.key = IF a \in leverage THEN OrderKey(a) ELSE <<a, "SET_LEVERAGE">>]]
    /\ UNCHANGED <<journal, lease, exchange, posts, faults>>

\* The tables' constraints on a new attempt: one row per operation, one
\* unresolved row at all, no leverage change once the approval is used, an
\* order row that takes the request, and a grant that is still active.
CanPrepare(k) ==
    /\ attempt[k].state = "ABSENT"
    /\ \A j \in Keys : ~Pending(j)
    /\ IsRecovery(k) => grant[k[1]] = "ACTIVE"
    /\ IF k[2] = "CANCEL"
       THEN order[k[1]].status # "ABSENT"
       ELSE /\ attempt[OrderKey(k[1])].state = "ABSENT"
            /\ TriggerAllows(k[1], "PREPARED", IF IsOrder(k) THEN "ORDER" ELSE "LEVERAGE")

\* prepare_place, prepare_existing and prepare_recovery_close: the attempt is
\* durable before its request, and the grant is consumed with it.
Prepare(w) ==
    /\ At(w, "prepare")
    /\ writer[w].fenced
    /\ LET k == writer[w].key IN
       /\ CanPrepare(k)
       /\ attempt' = [attempt EXCEPT ![k] = [state |-> "PREPARED", gen |-> writer[w].gen]]
       /\ grant' = IF IsRecovery(k) THEN [grant EXCEPT ![k[1]] = "CONSUMED"] ELSE grant
       /\ order' = IF k[2] = "CANCEL" THEN order
                   ELSE [order EXCEPT ![k[1]] =
                    [status |-> "PREPARED", body |-> IF IsOrder(k) THEN "ORDER" ELSE "LEVERAGE"]]
    /\ writer' = [writer EXCEPT ![w] =
                    [writer[w] EXCEPT !.pc = "post", !.state = "PREPARED", !.fenced = FALSE]]
    /\ UNCHANGED <<lease, exchange, posts, faults>>

\* Any validation that fails before the request leaves.
Refused(w) ==
    /\ writer[w].pc \in {"unresolved", "leverage", "prepare", "cleanup", "post"}
    /\ Leave(w)
    /\ UNCHANGED <<journal, lease, exchange, posts, faults>>

\* _cleanup_close: a position already gone settles the close.  Otherwise the
\* derived client order id is refused by the trigger, and nothing changes.
CleanupClose(w) ==
    /\ At(w, "cleanup")
    /\ ~position
    /\ writer' = [writer EXCEPT ![w] = [writer[w] EXCEPT
                    !.pc = "record", !.event = "RECONCILE", !.seen = "position_zero"]]
    /\ UNCHANGED <<journal, lease, exchange, posts, faults>>

-----------------------------------------------------------------------------
(* The request and its answer.                                             *)

Post(w) ==
    /\ At(w, "post")
    /\ wire' = wire \cup {writer[w].key}
    /\ posts' = [posts EXCEPT ![writer[w].key] = posts[writer[w].key] + 1]
    /\ Goto(w, "sent")
    /\ UNCHANGED <<journal, lease, answer, market, position, leverage, faults>>

\* An acknowledgement or an explicit rejection arrives.
Answered(w) ==
    /\ At(w, "sent")
    /\ answer[writer[w].key] # "NONE"
    /\ Decide(w, "record", IF answer[writer[w].key] = "ACK" THEN "ACKNOWLEDGE"
                           ELSE "EXPLICIT_REJECTION")
    /\ UNCHANGED <<journal, lease, exchange, posts, faults>>

\* Timeout, transport error or malformed answer: the request may yet arrive.
OutcomeUnknown(w) ==
    /\ At(w, "sent")
    /\ Decide(w, "record", "OUTCOME_UNKNOWN")
    /\ UNCHANGED <<journal, lease, exchange, posts, faults>>

\* The transition after the request; a refused one raises out of the call.
Record(w) ==
    /\ At(w, "record")
    /\ writer[w].fenced
    /\ \/ /\ Transition(w)
          /\ IF NewState(w) \in Unresolved
             THEN writer' = [writer EXCEPT ![w] = [writer[w] EXCEPT
                                !.pc = "get", !.state = NewState(w), !.fenced = FALSE]]
             ELSE Leave(w)
       \/ /\ ~(RowMatches(w) /\ OrderAllows(w))
          /\ Leave(w)
          /\ UNCHANGED <<journal, lease, exchange, posts, faults>>

-----------------------------------------------------------------------------
(* Reconciliation by reads.                                                *)

\* Mutant: an acknowledged cancellation is taken for a terminal order.
ShowsAnyOrder(k) ==
    IF k[2] = "SET_LEVERAGE" THEN k[1] \in leverage ELSE market[k[1]] # "NONE"

\* What the exchange must show before an attempt can be settled.
Shows(k) ==
    CASE k[2] = "SET_LEVERAGE" -> k[1] \in leverage
      [] k[2] = "PLACE" -> market[k[1]] # "NONE"
      [] OTHER -> market[k[1]] \in TerminalOrderStates

\* The next step once the exchange has shown it.
Settling(k, state) ==
    IF state \in {"PREPARED", "DISPATCHED"} THEN "ACKNOWLEDGE" ELSE "RECONCILE"

Get(w) ==
    /\ At(w, "get")
    /\ LET k == writer[w].key
           event == Settling(k, writer[w].state)
       IN
       /\ Shows(k)
       /\ writer' = [writer EXCEPT ![w] = [writer[w] EXCEPT
                        !.pc = IF event = "RECONCILE" /\ k[2] = "CLOSE" THEN "position" ELSE "settle",
                        !.event = event,
                        !.seen = IF k[2] = "SET_LEVERAGE" THEN "leverage_confirmed"
                                 ELSE market[k[1]]]]
    /\ UNCHANGED <<journal, lease, exchange, posts, faults>>

\* Mutant: an order the exchange does not know closes its attempt.
GetFailsAndRejects(w) ==
    /\ writer[w].pc \in {"get", "position"}
    /\ Decide(w, "doubt", IF market[writer[w].key[1]] = "NONE" /\ writer[w].state = "PREPARED"
                          THEN "EXPLICIT_REJECTION" ELSE DoubtEvent(writer[w].state))
    /\ UNCHANGED <<journal, lease, exchange, posts, faults>>

\* The read fails, finds nothing, or finds an order that does not match.
GetFails(w) ==
    /\ writer[w].pc \in {"get", "position"}
    /\ InDoubt(w)
    /\ UNCHANGED <<journal, lease, exchange, posts, faults>>

ReadPosition(w) ==
    /\ At(w, "position")
    /\ Decide(w, "settle", IF position THEN "RESIDUAL_DETECTED" ELSE "RECONCILE")
    /\ UNCHANGED <<journal, lease, exchange, posts, faults>>

\* The transitions inside _reconcile and _reconcile_leverage.  A confirmed
\* leverage lets the place() that asked for it go on to its order.
Settle(w) ==
    /\ At(w, "settle")
    /\ writer[w].fenced
    /\ LET k == writer[w].key IN
       \/ /\ Transition(w)
          /\ IF writer[w].event = "ACKNOWLEDGE"
             THEN writer' = [writer EXCEPT ![w] = [writer[w] EXCEPT
                        !.pc = IF k[2] = "CLOSE" THEN "position" ELSE "settle",
                        !.event = "RECONCILE", !.state = "ACKNOWLEDGED", !.fenced = FALSE]]
             ELSE IF writer[w].goal = "PLACE" /\ k[2] = "SET_LEVERAGE"
             THEN writer' = [writer EXCEPT ![w] = [writer[w] EXCEPT
                        !.pc = "prepare", !.key = OrderKey(k[1]), !.fenced = FALSE]]
             ELSE Leave(w)
       \/ /\ IF ~RowMatches(w) THEN InDoubt(w) ELSE ~OrderAllows(w) /\ Leave(w)
          /\ UNCHANGED <<journal, lease, exchange, posts, faults>>

\* The handler's transition; the attempt stays unresolved either way.
Doubt(w) ==
    /\ At(w, "doubt")
    /\ writer[w].fenced
    /\ \/ Transition(w)
       \/ /\ ~(RowMatches(w) /\ OrderAllows(w))
          /\ UNCHANGED <<journal, lease, exchange, posts, faults>>
    /\ Leave(w)

WriterStep(w) ==
    \/ Fence(w) \/ AdoptUnresolved(w) \/ NothingUnresolved(w) \/ ReadLeverage(w) \/ Prepare(w)
    \/ Refused(w) \/ CleanupClose(w) \/ Post(w) \/ Answered(w) \/ OutcomeUnknown(w) \/ Record(w)
    \/ Get(w) \/ GetFails(w) \/ ReadPosition(w) \/ Settle(w) \/ Doubt(w)

-----------------------------------------------------------------------------
(* Processes, leases and the exchange.                                     *)

\* The keeper thread of a live process renews its own lease, expired or not.
KeepLease(w) ==
    /\ lease.holder = w
    /\ ~lease.live
    /\ lease' = [lease EXCEPT !.live = TRUE]
    /\ UNCHANGED <<journal, writer, exchange, posts, faults>>

\* A restarted process has a new holder token: the old holder is gone.
Crash(w) ==
    /\ faults < MaxFaults
    /\ ~At(w, "down")
    /\ writer' = [writer EXCEPT ![w] = Unassigned("down")]
    /\ lease' = IF lease.holder = w THEN [lease EXCEPT !.holder = Nobody] ELSE lease
    /\ faults' = faults + 1
    /\ UNCHANGED <<journal, exchange, posts>>

\* A restarted process that its startup reconciliation has let in.
Restart(w) ==
    /\ At(w, "down")
    /\ Leave(w)
    /\ UNCHANGED <<journal, lease, exchange, posts, faults>>

AbandonedLeaseLapses ==
    /\ lease.live
    /\ lease.holder = Nobody
    /\ lease' = [lease EXCEPT !.live = FALSE]
    /\ UNCHANGED <<journal, writer, exchange, posts, faults>>

HeldLeaseLapses ==
    /\ faults < MaxFaults
    /\ lease.live
    /\ lease.holder # Nobody
    /\ lease' = [lease EXCEPT !.live = FALSE]
    /\ faults' = faults + 1
    /\ UNCHANGED <<journal, writer, exchange, posts>>

\* An order at the exchange whose row may have the exchange's order id, which no
\* transition into PREPARED writes: runs compare no other.
Identified(a) == market[a] # "NONE" /\ attempt[OrderKey(a)].state \notin {"ABSENT", "PREPARED"}

\* What a run may offer: to cancel an order it saw open, or to reduce a position,
\* under a grant that no unresolved attempt has consumed.
Offerable(a) == ~Pending(RecoveryKey(a)) /\ (a \in Openings => Identified(a))

\* A reconciliation run commits.  It saw some orders, some of them while they were
\* still open, and writes in their rows what it saw: one repair that the trigger
\* refuses rolls the run back.  It offers recovery grants.
ReconciliationCommits ==
    \E seen \in SUBSET {a \in Approvals : Identified(a)} :
    \E open \in SUBSET seen :
    \E offered \in SUBSET {a \in Openings \cup Reductions : Offerable(a)} :
        LET shown(a) == IF a \in open THEN "live" ELSE market[a] IN
        /\ \A a \in seen : TriggerAllows(a, shown(a), order[a].body)
        /\ order' = [a \in Approvals |->
                IF a \in seen THEN [order[a] EXCEPT !.status = shown(a)] ELSE order[a]]
        /\ grant' = [a \in Approvals |-> IF a \in offered THEN "ACTIVE" ELSE grant[a]]
        /\ UNCHANGED <<attempt, lease, writer, exchange, posts, faults>>

ExpireGrant(a) ==
    /\ grant[a] = "ACTIVE"
    /\ grant' = [grant EXCEPT ![a] = "EXPIRED"]
    /\ UNCHANGED <<attempt, order, lease, writer, exchange, posts, faults>>

Arrive(k, reply) ==
    /\ k \in wire
    /\ wire' = wire \ {k}
    /\ answer' = [answer EXCEPT ![k] = reply]
    /\ UNCHANGED <<journal, lease, writer, posts, faults>>

\* The exchange refuses whatever it likes, and must refuse to cancel an order
\* that is not open and to reduce a position that is not there.
ArriveRejected(k) == Arrive(k, "REJECT") /\ UNCHANGED <<market, position, leverage>>

\* A market order that reduces the position may fill in part only.
ArriveAccepted(k) ==
    /\ Arrive(k, "ACK")
    /\ CASE k[2] = "SET_LEVERAGE" ->
                \* other approvals may ask for the same leverage
                /\ leverage' \in {s \in SUBSET Approvals : k[1] \in s}
                /\ UNCHANGED <<market, position>>
         [] k[2] = "PLACE" ->
                /\ market[k[1]] = "NONE"
                /\ market' = [market EXCEPT ![k[1]] = "live"]
                /\ UNCHANGED <<position, leverage>>
         [] k[2] = "CLOSE" ->
                /\ market[k[1]] = "NONE"
                /\ position
                /\ \E s \in TerminalOrderStates :
                        /\ market' = [market EXCEPT ![k[1]] = s]
                        /\ position' = (s # "filled")
                /\ UNCHANGED leverage
         [] k[2] = "CANCEL" ->
                /\ market[k[1]] = "live"
                /\ UNCHANGED <<market, position, leverage>>

\* An open order fills or is canceled.
OrderEnds(a) ==
    /\ market[a] = "live"
    /\ \E s \in TerminalOrderStates :
        /\ market' = [market EXCEPT ![a] = s]
        /\ position' = (position \/ s = "filled")
    /\ UNCHANGED <<journal, lease, writer, wire, answer, leverage, posts, faults>>

\* The take-profit and stop-loss orders attached to an opening close its position.
ProtectionTriggers ==
    /\ position
    /\ position' = FALSE
    /\ UNCHANGED <<journal, lease, writer, wire, answer, market, leverage, posts, faults>>

Next ==
    \/ \E w \in Writers, a \in Approvals : AcquireForPlace(w, a) \/ AcquireForRecovery(w, a)
    \/ \E w \in Writers :
        \/ WriterStep(w) \/ ClaimUnresolved(w)
        \/ KeepLease(w) \/ Crash(w) \/ Restart(w)
    \/ AbandonedLeaseLapses \/ HeldLeaseLapses \/ ProtectionTriggers \/ ReconciliationCommits
    \/ \E k \in Keys : ArriveAccepted(k) \/ ArriveRejected(k)
    \/ \E a \in Approvals : ExpireGrant(a) \/ OrderEnds(a)

Spec == Init /\ [][Next]_vars

\* What any startup reconciliation finds exact: no order open and no position at
\* the exchange, and no row whose repair the trigger refuses.
StartsExact ==
    /\ ~position
    /\ \A a \in Approvals :
        /\ market[a] # "live"
        /\ Identified(a) => TriggerAllows(a, market[a], order[a].body)

\* What the runtime gives: a call in progress goes on, an exited process is
\* restarted and starts if its reconciliation is exact, an abandoned lease runs
\* out, each cycle looks at the journal before anything else and so claims what
\* is unresolved, and a read of the exchange that can show the order does not fail
\* for ever.
Fairness ==
    /\ \A w \in Writers :
        /\ WF_vars(WriterStep(w)) /\ WF_vars(StartsExact /\ Restart(w))
        /\ SF_vars(ClaimUnresolved(w)) /\ SF_vars(Get(w))
    /\ WF_vars(AbandonedLeaseLapses)

FairSpec == Spec /\ Fairness

-----------------------------------------------------------------------------
(* Safety.                                                                 *)

\* "The exchange never sees two POSTs for one operation": timeouts, crashes,
\* takeovers and recoveries included ("recovered by reads and are never
\* reposted blindly").
PostedAtMostOnce == \A k \in Keys : posts[k] <= 1

\* A request to order that may still take effect: a process is about to send
\* it, or it is on its way to the exchange.
MayStillArrive(k) == k \in wire \/ \E w \in Writers : At(w, "post") /\ writer[w].key = k

\* No order is ever at the exchange, or on its way there, unknown to the
\* journal: its attempt is unresolved, and is RECONCILED only after the order
\* was seen.  NOT_FOUND never closes an attempt, for the request may be late.
PlacementIsTracked ==
    \A a \in Approvals :
        /\ MayStillArrive(OrderKey(a)) => Pending(OrderKey(a))
        /\ market[a] # "NONE" => attempt[OrderKey(a)].state \in Unresolved \cup {"RECONCILED"}

\* "The next writer must reconcile before any new operation": at any time, and
\* over any takeover of the lease, at most one order may still arrive.
OneOrderInFlight ==
    \A a, b \in Approvals :
        MayStillArrive(OrderKey(a)) /\ MayStillArrive(OrderKey(b)) => a = b

\* RECONCILED is what the exchange has shown: the placed order exists, the
\* closed or canceled one is in a terminal state; an order row calls itself
\* filled or canceled only when its order is.
ReconciledIsReal ==
    /\ \A k \in Keys :
        attempt[k].state = "RECONCILED" =>
            /\ k[2] = "PLACE" => market[k[1]] # "NONE"
            /\ k[2] \in {"CLOSE", "CANCEL"} => market[k[1]] \in TerminalOrderStates
    /\ \A a \in Approvals :
        order[a].status \in TerminalOrderStates => market[a] = order[a].status

\* Two processes never act under one generation, and a process that still holds
\* the generation of its attempt knows the attempt's state: what transition()
\* refuses as "changed concurrently" is always another process's adoption.
GenerationIsExclusive ==
    \A w \in Writers :
        /\ \A v \in Writers : writer[w].gen = writer[v].gen /\ writer[w].gen # 0 => w = v
        /\ /\ writer[w].pc \in {"post", "sent", "record", "get", "position", "settle", "doubt",
                                 "cleanup"}
           /\ attempt[writer[w].key].gen = writer[w].gen
           => attempt[writer[w].key].state = writer[w].state

-----------------------------------------------------------------------------
(* Liveness, under FairSpec.                                               *)

\* "Timeout queries once and never reposts", and the queries come to an end: an
\* opening order that reached the exchange is found and its attempt RECONCILED,
\* so that the one unresolved attempt does not block all trading for ever; only an
\* open order or position that keeps every crashed process from starting stops it.
PlacementSettles ==
    \A a \in Openings :
        market[a] # "NONE" ~>
            \/ attempt[OrderKey(a)].state = "RECONCILED"
            \/ ~StartsExact /\ \A w \in Writers : At(w, "down")
=============================================================================
