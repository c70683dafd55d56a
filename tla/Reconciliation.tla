---------------------------- MODULE Reconciliation ----------------------------
(***************************************************************************)
(* The runtime's cycle around the order writer: a reconciliation run that  *)
(* reads the exchange over REST, compares what it read with the journal,   *)
(* repairs order rows, copies fills and offers recovery grants, and the    *)
(* choice of the call the writer is given next.                            *)
(*                                                                         *)
(* Reads happen one after the other while the exchange moves on, and the   *)
(* run commits what it concluded from them in one transaction.  Time is    *)
(* abstracted to two sets: the orders filled before a run began, which are *)
(* the fills it asks for, and the orders that ended before the floor of    *)
(* the next reads (five seconds before the last run completed), which no   *)
(* history read returns again.  A run may take longer than that overlap.   *)
(* Controlled canaries, and other instruments and accounts, are left out.  *)
(***************************************************************************)
EXTENDS OrderWriter, Sequences

VARIABLES
    run,      \* [Writers -> the process's cycle: its step and what its run has read]
    known,    \* the orders whose row has the exchange's order id
    bridged,  \* the orders whose fill is in exchange_fills
    past,     \* the orders that ended before the floor of the next reads
    gate      \* the reconciliation state: status, and the orders its last run offered to recover

rvars == <<run, known, bridged, past, gate>>
allVars == <<vars, rvars>>

Steps == {"rest", "read", "commit", "start", "decide", "grants"}

Runs ==
    [at : Steps, done : 0 .. 3, floor : SUBSET Approvals, filled : SUBSET Approvals,
     pending : SUBSET Approvals, history : [Approvals -> TerminalOrderStates \cup {"NONE"}],
     flat : BOOLEAN, todo : SUBSET Approvals]

ReconciliationTypeOK ==
    /\ WriterTypeOK
    /\ run \in [Writers -> Runs]
    /\ known \subseteq Approvals /\ bridged \subseteq known
    /\ past \subseteq Approvals
    /\ gate \in [status : {"UNKNOWN", "RECONCILED", "DRIFTED"}, offered : SUBSET Approvals]

Resting ==
    [at |-> "rest", done |-> 0, floor |-> {}, filled |-> {}, pending |-> {},
     history |-> [a \in Approvals |-> "NONE"], flat |-> TRUE, todo |-> {}]

ReconciliationInit ==
    /\ Init
    /\ run = [w \in Writers |-> Resting]
    /\ known = {} /\ bridged = {} /\ past = {}
    /\ gate = [status |-> "UNKNOWN", offered |-> {}]

-----------------------------------------------------------------------------
(* The reads.                                                              *)

\* Mutant: the history is read before the open orders.
ReadsHistoryFirst == <<"history", "pending", "position">>

\* The order in which a run reads what it compares.
Reads == <<"pending", "history", "position">>

Reading(w, what) == run[w].at = "read" /\ Reads[run[w].done + 1] = what

\* The run with one more read done.
Advanced(w) ==
    [run[w] EXCEPT !.done = @ + 1, !.at = IF run[w].done = 2 THEN "commit" ELSE "read"]

\* A cycle of a live process, or the startup reconciliation of one that is down.
StartRun(w) ==
    /\ run[w].at = "rest"
    /\ writer[w].pc \in {"idle", "down"}
    /\ run' = [run EXCEPT ![w] = [Resting EXCEPT
                !.at = "read", !.floor = past,
                !.filled = {a \in Approvals : market[a] = "filled"}]]
    /\ UNCHANGED <<vars, known, bridged, past, gate>>

ReadPending(w) ==
    /\ Reading(w, "pending")
    /\ run' = [run EXCEPT ![w] = [Advanced(w) EXCEPT
                !.pending = {a \in Approvals : market[a] = "live"}]]
    /\ UNCHANGED <<vars, known, bridged, past, gate>>

ReadHistory(w) ==
    /\ Reading(w, "history")
    /\ run' = [run EXCEPT ![w] = [Advanced(w) EXCEPT
                !.history = [a \in Approvals |->
                    IF market[a] \in TerminalOrderStates /\ a \notin run[w].floor
                    THEN market[a] ELSE "NONE"]]]
    /\ UNCHANGED <<vars, known, bridged, past, gate>>

ReadPositionOfRun(w) ==
    /\ Reading(w, "position")
    /\ run' = [run EXCEPT ![w] = [Advanced(w) EXCEPT !.flat = ~position]]
    /\ UNCHANGED <<vars, known, bridged, past, gate>>

\* A read fails or is refused: the run leaves nothing behind.
ReadFails(w) ==
    /\ run[w].at = "read"
    /\ run' = [run EXCEPT ![w] = Resting]
    /\ UNCHANGED <<vars, known, bridged, past, gate>>

-----------------------------------------------------------------------------
(* What a run concludes.                                                   *)

\* The one event of an order in the run's batch: the history has the last word.
Seen(w, a) ==
    IF run[w].history[a] # "NONE" THEN run[w].history[a]
    ELSE IF a \in run[w].pending THEN "live"
    ELSE "NONE"

\* AUTHORITATIVE_OPEN_ORDER_MISSING_LOCALLY.
Unknown(w) == {a \in Approvals : Seen(w, a) = "live" /\ a \notin known}

\* LOCAL_OPEN_ORDER_MISSING_AUTHORITATIVELY.
Missing(w) ==
    {a \in known : Seen(w, a) = "NONE"
                   /\ order[a].status \notin TerminalOrderStates \cup {"RECONCILED"}}

\* Mutant: every fill that was read is bridged.
FillsOfAnyOrder(w) == run[w].filled \ run[w].floor

\* The fills between the floor and the start of the run, of orders in the journal.
Fills(w) == (run[w].filled \ run[w].floor) \cap known

\* AUTHORITATIVE_FILL_LINEAGE_CONFLICT: bridge_okx_demo_managed_fill compares the
\* evidence of the first reading with this one's, row ids included.
Reread(w) == Fills(w) \cap bridged

\* exchange_positions stays empty, so that any open position is POSITION_DRIFT.
Drifted(w) == Unknown(w) # {} \/ Missing(w) # {} \/ Reread(w) # {} \/ ~run[w].flat

\* _compare_orders: the rows whose status the run overwrites.
Repairs(w) == {a \in known : Seen(w, a) \notin {"NONE", order[a].status}}

\* A row whose attempt is unresolved may hold the exchange's state in its response
\* already, and is then left as it is.
RepairsMade(w) ==
    {made \in SUBSET Repairs(w) :
        \A a \in Repairs(w) \ made : order[a].status \in Unresolved}

\* Mutant: the run trusts what it read over the row, final or not.
RepairAlways(w, a) == TRUE

RepairAllowed(w, a) == TriggerAllows(a, Seen(w, a), order[a].body)

\* _issue_recovery_grants: a drifted run offers to cancel every order of the
\* journal it saw open, and to reduce the position it saw, under a new grant.
Offers(w) ==
    LET cancels == {a \in known : Seen(w, a) = "live" /\ ~Pending(<<a, "CANCEL">>)}
        unused == {a \in Reductions : order[a].status = "ABSENT"}
    IN  IF ~Drifted(w) THEN {{}}
        ELSE IF run[w].flat \/ unused = {} THEN {cancels}
        ELSE {cancels \cup {a} : a \in unused}

\* reconcile() and its commit.  A process that is down starts only if it was exact.
Commit(w) ==
    /\ run[w].at = "commit"
    /\ \A a \in Repairs(w) : RepairAllowed(w, a)
    /\ \E made \in RepairsMade(w), offered \in Offers(w) :
        /\ order' = [a \in Approvals |->
                IF a \in made THEN [order[a] EXCEPT !.status = Seen(w, a)] ELSE order[a]]
        /\ grant' = [a \in Approvals |-> IF a \in offered THEN "ACTIVE" ELSE grant[a]]
        /\ gate' = [status |-> IF Drifted(w) THEN "DRIFTED" ELSE "RECONCILED",
                    offered |-> offered]
    /\ bridged' = bridged \cup Fills(w)
    /\ past' \in {s \in SUBSET {a \in Approvals : market[a] \in TerminalOrderStates} : past \subseteq s}
    /\ run' = [run EXCEPT ![w] = [Resting EXCEPT
                !.at = IF ~At(w, "down") THEN "decide" ELSE IF Drifted(w) THEN "rest" ELSE "start"]]
    /\ UNCHANGED <<attempt, lease, writer, exchange, posts, faults, known>>

\* One repair that the trigger refuses rolls the whole run back.  It also ends the
\* process: that is Crash, which may come at any time.
CommitRefused(w) ==
    /\ run[w].at = "commit"
    /\ \E a \in Repairs(w) : ~RepairAllowed(w, a)
    /\ run' = [run EXCEPT ![w] = Resting]
    /\ UNCHANGED <<vars, known, bridged, past, gate>>

-----------------------------------------------------------------------------
(* run_cycle.                                                              *)

\* Mutant: grants are not bound to the last run.
OfferedEver(a) == grant[a] # "NONE"

\* The grant is one the last run issued.
Current(a) == a \in gate.offered

NothingPending == \A k \in Keys : ~Pending(k)

\* The grants the cycle still has to use: all the current ones, when it finds them.
ToRecover(w) ==
    IF run[w].at = "grants" THEN run[w].todo
    ELSE {a \in Approvals : NothingPending /\ grant[a] = "ACTIVE" /\ Current(a)}

ThenRest(w) == run' = [run EXCEPT ![w] = Resting]

\* The attempt that is unresolved comes first, under its grant if it has one.
CallForUnresolved(w) ==
    /\ run[w].at = "decide"
    /\ \/ ClaimUnresolved(w)
       \/ \E a \in Approvals : Pending(RecoveryKey(a)) /\ AcquireForRecovery(w, a)
    /\ ThenRest(w)
    /\ UNCHANGED <<known, bridged, past, gate>>

CallForGrant(w) ==
    /\ run[w].at \in {"decide", "grants"}
    /\ \E a \in ToRecover(w) :
        /\ AcquireForRecovery(w, a)
        /\ run' = [run EXCEPT ![w] = [Resting EXCEPT
                    !.at = IF ToRecover(w) = {a} THEN "rest" ELSE "grants",
                    !.todo = ToRecover(w) \ {a}]]
    /\ UNCHANGED <<known, bridged, past, gate>>

\* A new approval, once nothing is left to recover and the last run was clean.
CallForPlace(w) ==
    /\ run[w].at = "decide"
    /\ NothingPending /\ ToRecover(w) = {}
    /\ gate.status = "RECONCILED"
    /\ \E a \in Approvals : AcquireForPlace(w, a)
    /\ ThenRest(w)
    /\ UNCHANGED <<known, bridged, past, gate>>

\* There is nothing to do, or a call before or in this one raised.
EndCycle(w) ==
    /\ run[w].at \in {"decide", "grants"}
    /\ At(w, "idle")
    /\ ThenRest(w)
    /\ UNCHANGED <<vars, known, bridged, past, gate>>

-----------------------------------------------------------------------------
(* The writer's own steps, and its surroundings.                           *)

\* _require_reconciliation_allows and claim_recovery_grant, when an attempt is
\* prepared: openings need an unfrozen gate, recoveries the run that is current.
GateAllows(k) ==
    IF IsRecovery(k) THEN gate.status = "DRIFTED" /\ Current(k[1])
    ELSE k[2] = "CLOSE" \/ gate.status = "RECONCILED"

\* Mutant: only an acknowledgement records the exchange's order id.
StatusesOfAcknowledged == {"ACKNOWLEDGED"}

\* The statuses whose transition wrote the exchange's order id.
StatusesWithId == {"ACKNOWLEDGED", "live"} \cup TerminalOrderStates

WriterActs(w) ==
    /\ WriterStep(w)
    /\ \A k \in Keys :
        attempt[k].state = "ABSENT" /\ attempt'[k].state = "PREPARED" => GateAllows(k)
    /\ known' = known \cup
        {a \in Approvals : order'[a].body = "ORDER" /\ order'[a].status \in StatusesWithId}
    /\ UNCHANGED <<run, bridged, past, gate>>

ProcessStops(w) ==
    /\ Crash(w)
    /\ ThenRest(w)
    /\ UNCHANGED <<known, bridged, past, gate>>

ProcessStarts(w) ==
    /\ run[w].at = "start"
    /\ Restart(w)
    /\ ThenRest(w)
    /\ UNCHANGED <<known, bridged, past, gate>>

Surroundings ==
    /\ \/ \E w \in Writers : KeepLease(w)
       \/ AbandonedLeaseLapses \/ HeldLeaseLapses \/ ProtectionTriggers
       \/ \E k \in Keys : ArriveAccepted(k) \/ ArriveRejected(k)
       \/ \E a \in Approvals : ExpireGrant(a) \/ OrderEnds(a)
    /\ UNCHANGED rvars

ReconciliationNext ==
    \/ \E w \in Writers :
        \/ StartRun(w) \/ ReadPending(w) \/ ReadHistory(w) \/ ReadPositionOfRun(w) \/ ReadFails(w)
        \/ Commit(w) \/ CommitRefused(w)
        \/ CallForUnresolved(w) \/ CallForGrant(w) \/ CallForPlace(w) \/ EndCycle(w)
        \/ WriterActs(w) \/ ProcessStops(w) \/ ProcessStarts(w)
    \/ Surroundings

ReconciliationSpec == ReconciliationInit /\ [][ReconciliationNext]_allVars

-----------------------------------------------------------------------------
(* Properties.                                                             *)

\* What the order writer is checked and proved to survive is all that a runtime's
\* cycles do to it: every run's commit is a ReconciliationCommits, every call one of
\* the writer's entries.
ImplementsOrderWriter == [][Next]_vars

\* "Local open order missing": the exchange moves between the reads, and still a
\* run misses no order of the journal but those that ended before its floor.
MissingIsPast == \A w \in Writers : run[w].at = "commit" => Missing(w) \subseteq run[w].floor

\* An open order the run does not find in the journal is the writer's own, and its
\* attempt is still unresolved: the next calls find it, and the drift goes away.
UnknownIsUnresolved ==
    \A w \in Writers : run[w].at = "commit" => \A a \in Unknown(w) : Pending(OrderKey(a))

\* "recovery grant is not bound to the current frozen state": no cancellation is
\* prepared for an order that a run has already shown to have ended.
CancelIsCurrent ==
    [][\A a \in Approvals :
        attempt[<<a, "CANCEL">>].state = "ABSENT" /\ attempt'[<<a, "CANCEL">>].state = "PREPARED"
            => order[a].status \notin TerminalOrderStates]_allVars

\* A run is rolled back by the trigger for one reason only: a cancellation the
\* exchange rejected left REJECTED, which is final, in the row of its order.
RefusedByRejectedCancel ==
    \A w \in Writers : run[w].at = "commit" =>
        \A a \in Repairs(w) :
            RepairAllowed(w, a) \/ attempt[<<a, "CANCEL">>].state = "REJECTED"

\* "Fills are ingested idempotently by exchange fill ID", though the reads of one
\* run overlap those of the one before.
FillsAreIdempotent == \A w \in Writers : run[w].at = "commit" => Reread(w) = {}
=============================================================================
