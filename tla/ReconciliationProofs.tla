-------------------------- MODULE ReconciliationProofs --------------------------
(***************************************************************************)
(* The runtime's cycles implement what the order writer is proved to       *)
(* survive, for any number of approvals, processes and takeovers; and what *)
(* a run concludes is right, with one process where it takes one.          *)
(***************************************************************************)
EXTENDS Reconciliation, OrderWriterProofs

-----------------------------------------------------------------------------
(* The inductive invariant.                                                *)

RunTypes ==
    /\ run \in [Writers -> Runs]
    /\ known \subseteq Approvals /\ bridged \subseteq known
    /\ past \subseteq Approvals
    /\ gate \in [status : {"UNKNOWN", "RECONCILED", "DRIFTED"}, offered : SUBSET Approvals]

\* The row of an order and its attempts: the request that the row took is the one
\* of all its attempts, and only a known order is canceled.
RowsOK(a) ==
    /\ order[a].status = "ABSENT" =>
        attempt[OrderKey(a)].state = "ABSENT" /\ attempt[<<a, "SET_LEVERAGE">>].state = "ABSENT"
    /\ attempt[<<a, "SET_LEVERAGE">>].state # "ABSENT" => order[a].body = "LEVERAGE"
    /\ attempt[OrderKey(a)].state # "ABSENT" => order[a].body = "ORDER"
    /\ attempt[<<a, "CANCEL">>].state # "ABSENT" => a \in known

\* The statuses that the trigger keeps come from a rejected attempt or from the
\* exchange: no row is ever "position_zero", for a residual follows a final status.
StatusOK(a) ==
    /\ order[a].status \notin {"RECONCILED", "position_zero"}
    /\ order[a].status = "REJECTED" => \E k \in Keys : k[1] = a /\ attempt[k].state = "REJECTED"
    /\ a \in Closings /\ attempt[OrderKey(a)].state = "RESIDUAL_CLOSE_REQUIRED" =>
            order[a].status \in TerminalOrderStates

\* What it takes for the row to have the exchange's order id.
KnownOK(a) ==
    /\ a \in known => Identified(a)
    /\ order[a].body = "ORDER" /\ order[a].status \in StatusesWithId => a \in known
    /\ a \in Openings /\ attempt[OrderKey(a)].state = "RECONCILED" => a \in known
    /\ a \in gate.offered => a \in known \/ a \in Reductions
    /\ market[a] = "live" => a \in Openings
    /\ answer[OrderKey(a)] = "ACK" => market[a] # "NONE"

Answering == {"RECONCILE", "RESIDUAL_DETECTED"}

\* What a call in state s may rely on in each phase.
CallOK(s) ==
    /\ s.pc \in {"unresolved", "leverage", "prepare"} /\ s.key[2] = "CANCEL" => s.key[1] \notin Reductions
    /\ s.pc = "record" /\ s.event = "ACKNOWLEDGE" => answer[s.key] = "ACK"
    /\ s.pc = "cleanup" \/ (s.pc = "record" /\ s.event \in Answering) =>
            s.key[2] = "CLOSE" /\ s.state = "RESIDUAL_CLOSE_REQUIRED"
    /\ s.pc = "record" /\ s.event \in Answering => s.event = "RECONCILE" /\ s.seen = "position_zero"
    /\ s.pc \in {"settle", "position"} =>
            /\ s.seen \in {"leverage_confirmed", "live"} \cup TerminalOrderStates
            /\ IsOrder(s.key) => s.seen # "leverage_confirmed"
            /\ s.key[2] = "CLOSE" => s.seen \in TerminalOrderStates

\* What a run has read of the exchange stays true of orders that ended.
RunOK(r) ==
    /\ r.at = "read" => r.done \in 0 .. 2
    /\ \A a \in Approvals : r.history[a] # "NONE" => market[a] = r.history[a]
    /\ \A a \in r.pending : market[a] # "NONE" /\ a \in Openings

JInv ==
    /\ RunTypes
    /\ \A a \in Approvals : RowsOK(a) /\ StatusOK(a) /\ KnownOK(a)
    /\ \A w \in Writers : CallOK(writer[w]) /\ RunOK(run[w])

RInv == IInv /\ JInv

-----------------------------------------------------------------------------
(* A run's commit is what the order writer expects of one.                 *)

\* What an order of the batch showed: the state it ended in, or that it was open.
LEMMA SeenIsShown ==
    ASSUME JInv, NEW w \in Writers, NEW a \in Approvals, Seen(w, a) # "NONE"
    PROVE  /\ Seen(w, a) \in {"live"} \cup TerminalOrderStates
           /\ Seen(w, a) = "live" => a \in Openings
           /\ Seen(w, a) # "live" => market[a] = Seen(w, a)
<1>1. RunOK(run[w]) /\ run[w] \in Runs
  BY DEF JInv, RunTypes
<1>2. run[w].history[a] \in TerminalOrderStates \cup {"NONE"}
  BY <1>1 DEF Runs
<1> QED
  BY <1>1, <1>2 DEF Seen, RunOK, TerminalOrderStates

\* A known order has an id, and its own operation, never a cancellation, is its key.
LEMMA OfferedIsOfferable ==
    ASSUME RInv, NEW w \in Writers, NEW offered \in Offers(w)
    PROVE  /\ offered \subseteq {a \in Openings \cup Reductions : Offerable(a)}
           /\ \A a \in offered : a \in known \/ a \in Reductions
<1> DEFINE cancels == {a \in known : Seen(w, a) = "live" /\ ~Pending(<<a, "CANCEL">>)}
           unused == {a \in Reductions : order[a].status = "ABSENT"}
<1>1. ASSUME NEW a \in cancels
      PROVE  a \in Openings /\ Offerable(a) /\ a \in known
  <2>1. a \in Approvals /\ Seen(w, a) = "live" /\ a \in known
    BY DEF RInv, JInv, RunTypes
  <2>2. a \in Openings
    BY <2>1, SeenIsShown DEF RInv
  <2>3. RecoveryKey(a) = <<a, "CANCEL">>
    BY <2>2, ApprovalsAssumption DEF RecoveryKey
  <2>4. Identified(a)
    BY <2>1 DEF RInv, JInv, KnownOK
  <2> QED
    BY <2>1, <2>2, <2>3, <2>4 DEF Offerable
<1>2. ASSUME NEW a \in unused
      PROVE  a \in Reductions /\ Offerable(a)
  <2>1. a \in Approvals /\ a \notin Openings
    BY ApprovalsAssumption DEF Approvals
  <2>2. RecoveryKey(a) = OrderKey(a)
    BY DEF RecoveryKey
  <2>3. attempt[OrderKey(a)].state = "ABSENT"
    BY <2>1 DEF RInv, JInv, RowsOK
  <2> QED
    BY <2>1, <2>2, <2>3 DEF Offerable, Pending, Unresolved
<1>3. offered = {} \/ offered = cancels \/ \E a \in unused : offered = cancels \cup {a}
  BY DEF Offers
<1> QED
  BY <1>1, <1>2, <1>3

\* reconcile() and its commit are a ReconciliationCommits.
LEMMA CommitImplements ==
    ASSUME RInv, NEW w \in Writers, Commit(w)
    PROVE  ReconciliationCommits
<1>1. PICK made \in RepairsMade(w), offered \in Offers(w) :
        /\ order' = [a \in Approvals |->
                IF a \in made THEN [order[a] EXCEPT !.status = Seen(w, a)] ELSE order[a]]
        /\ grant' = [a \in Approvals |-> IF a \in offered THEN "ACTIVE" ELSE grant[a]]
        /\ gate' = [status |-> IF Drifted(w) THEN "DRIFTED" ELSE "RECONCILED",
                    offered |-> offered]
  BY DEF Commit
<1>2. /\ \A a \in Repairs(w) : RepairAllowed(w, a)
      /\ UNCHANGED <<attempt, lease, writer, exchange, posts, faults>>
  BY DEF Commit
<1>3. ASSUME NEW a \in made
      PROVE  a \in Approvals /\ Identified(a) /\ Seen(w, a) # "NONE"
             /\ TriggerAllows(a, Seen(w, a), order[a].body)
  <2>1. a \in Repairs(w)
    BY DEF RepairsMade
  <2>2. a \in known /\ a \in Approvals /\ Seen(w, a) # "NONE"
    BY <2>1 DEF Repairs, RInv, JInv, RunTypes
  <2>3. Identified(a)
    BY <2>2 DEF RInv, JInv, KnownOK
  <2> QED
    BY <1>2, <2>1, <2>2, <2>3 DEF RepairAllowed
<1>4. PICK open \in SUBSET made : open = {a \in made : Seen(w, a) = "live"}
  OBVIOUS
<1> DEFINE shown(a) == IF a \in open THEN "live" ELSE market[a]
<1>5. ASSUME NEW a \in made
      PROVE  shown(a) = Seen(w, a)
  BY <1>3, <1>4, SeenIsShown DEF RInv
<1>6. made \in SUBSET {a \in Approvals : Identified(a)}
  BY <1>3
<1>7. offered \in SUBSET {a \in Openings \cup Reductions : Offerable(a)}
  BY OfferedIsOfferable
<1>8. \A a \in made : TriggerAllows(a, shown(a), order[a].body)
  BY <1>3, <1>5
<1>9. order' = [a \in Approvals |->
                IF a \in made THEN [order[a] EXCEPT !.status = shown(a)] ELSE order[a]]
  BY <1>1, <1>5
<1>10. /\ \A a \in made : TriggerAllows(a, shown(a), order[a].body)
       /\ order' = [a \in Approvals |->
                IF a \in made THEN [order[a] EXCEPT !.status = shown(a)] ELSE order[a]]
       /\ grant' = [a \in Approvals |-> IF a \in offered THEN "ACTIVE" ELSE grant[a]]
       /\ UNCHANGED <<attempt, lease, writer, exchange, posts, faults>>
  BY <1>1, <1>2, <1>8, <1>9
<1> QED
  BY <1>6, <1>7, <1>10, Zenon DEF ReconciliationCommits

\* Every step of the runtime is a step of the order writer, or leaves it alone.
LEMMA StepImplements ==
    ASSUME RInv, ReconciliationNext
    PROVE  [Next]_vars
<1>1. ASSUME NEW w \in Writers,
             StartRun(w) \/ ReadPending(w) \/ ReadHistory(w) \/ ReadPositionOfRun(w) \/ ReadFails(w)
             \/ CommitRefused(w) \/ EndCycle(w)
      PROVE  UNCHANGED vars
  BY <1>1 DEF StartRun, ReadPending, ReadHistory, ReadPositionOfRun, ReadFails, CommitRefused, EndCycle
<1>2. ASSUME NEW w \in Writers, Commit(w)
      PROVE  Next
  BY <1>2, CommitImplements DEF Next
<1>3. ASSUME NEW w \in Writers, CallForUnresolved(w)
      PROVE  Next
  BY <1>3 DEF CallForUnresolved, Next
<1>4. ASSUME NEW w \in Writers, CallForGrant(w)
      PROVE  Next
  <2>1. PICK a \in ToRecover(w) : AcquireForRecovery(w, a)
    BY <1>4 DEF CallForGrant
  <2>2. a \in Approvals
    BY DEF ToRecover, RInv, JInv, RunTypes, Runs
  <2> QED
    BY <2>1, <2>2 DEF Next
<1>5. ASSUME NEW w \in Writers, CallForPlace(w)
      PROVE  Next
  BY <1>5 DEF CallForPlace, Next
<1>6. ASSUME NEW w \in Writers, WriterActs(w) \/ ProcessStops(w) \/ ProcessStarts(w)
      PROVE  Next
  BY <1>6 DEF WriterActs, ProcessStops, ProcessStarts, Next
<1>7. ASSUME Surroundings
      PROVE  Next
  BY <1>7 DEF Surroundings, Next
<1> QED
  BY <1>1, <1>2, <1>3, <1>4, <1>5, <1>6, <1>7 DEF ReconciliationNext

-----------------------------------------------------------------------------
(* Steps by their footprint.                                               *)

\* No row, order or answer changes.
LEMMA StillStep ==
    ASSUME JInv, \A k \in Keys : attempt'[k].state = attempt[k].state,
           UNCHANGED <<order, market, answer, known, bridged, gate>>, past' \subseteq Approvals,
           run' \in [Writers -> Runs], \A w \in Writers : CallOK(writer[w])' /\ RunOK(run[w])'
    PROVE  JInv'
<1>1. RunTypes'
  BY DEF JInv, RunTypes
<1>2. ASSUME NEW a \in Approvals
      PROVE  RowsOK(a)' /\ StatusOK(a)' /\ KnownOK(a)'
  <2>1. /\ attempt'[OrderKey(a)].state = attempt[OrderKey(a)].state
        /\ attempt'[<<a, "SET_LEVERAGE">>].state = attempt[<<a, "SET_LEVERAGE">>].state
        /\ attempt'[<<a, "CANCEL">>].state = attempt[<<a, "CANCEL">>].state
    BY OrderKeys
  <2>2. RowsOK(a) /\ StatusOK(a) /\ KnownOK(a)
    BY DEF JInv
  <2>3. RowsOK(a)'
    BY <2>1, <2>2 DEF RowsOK
  <2>4. StatusOK(a)'
    BY <2>1, <2>2 DEF StatusOK
  <2>5. KnownOK(a)'
    BY <2>1, <2>2 DEF KnownOK, Identified
  <2> QED
    BY <2>3, <2>4, <2>5
<1> QED
  BY <1>1, <1>2 DEF JInv

\* A step of a run that leaves the writer alone.
LEMMA RunStep ==
    ASSUME RInv, NEW w \in Writers, NEW r \in Runs, RunOK(r), run' = [run EXCEPT ![w] = r],
           UNCHANGED <<vars, known, bridged, past, gate>>
    PROVE  JInv'
<1>1. UNCHANGED <<attempt, order, market, answer, writer>>
  BY DEF vars, journal, exchange
<1>2. /\ run' \in [Writers -> Runs]
      /\ \A v \in Writers : run'[v] = IF v = w THEN r ELSE run[v]
  BY DEF RInv, JInv, RunTypes
<1>3. ASSUME NEW v \in Writers
      PROVE  CallOK(writer[v])' /\ RunOK(run[v])'
  <2>1. CallOK(writer[v]) /\ RunOK(run[v])
    BY DEF RInv, JInv
  <2>2. CallOK(writer[v])'
    BY <1>1, <2>1 DEF CallOK
  <2>3. RunOK(run[v])'
    BY <1>1, <1>2, <2>1 DEF RunOK
  <2> QED
    BY <2>2, <2>3
<1>4. past' \subseteq Approvals
  BY DEF RInv, JInv, RunTypes
<1> QED
  BY <1>1, <1>2, <1>3, <1>4, StillStep DEF RInv

\* A step of a process that changes only what it knows, the lease and generations;
\* its run goes on as r.
LEMMA CallStep ==
    ASSUME RInv, NEW w \in Writers, NEW s, Moved(w, s), CallOK(s),
           \A k \in Keys : attempt'[k].state = attempt[k].state,
           UNCHANGED <<order, market, answer, known, bridged, past, gate>>,
           NEW r \in Runs, RunOK(r), run' = [run EXCEPT ![w] = r]
    PROVE  JInv'
<1>1. /\ run' \in [Writers -> Runs]
      /\ \A v \in Writers : run'[v] = IF v = w THEN r ELSE run[v]
  BY DEF RInv, JInv, RunTypes
<1>2. \A v \in Writers : writer'[v] = IF v = w THEN s ELSE writer[v]
  BY DEF RInv, IInv, WriterTypeOK, Moved
<1>3. ASSUME NEW v \in Writers
      PROVE  CallOK(writer[v])' /\ RunOK(run[v])'
  <2>1. CallOK(writer[v]) /\ RunOK(run[v])
    BY DEF RInv, JInv
  <2>2. CallOK(writer[v])'
    BY <1>2, <2>1 DEF CallOK
  <2>3. RunOK(run[v])'
    BY <1>1, <2>1 DEF RunOK
  <2> QED
    BY <2>2, <2>3
<1>4. past' \subseteq Approvals
  BY DEF RInv, JInv, RunTypes
<1> QED
  BY <1>1, <1>3, <1>4, StillStep DEF RInv

\* A process with no call in hand relies on nothing.
LEMMA UnassignedCall == ASSUME NEW pc \in Idle PROVE CallOK(Unassigned(pc))
BY DEF CallOK, Unassigned, Idle

\* A cycle without a run has read nothing.
LEMMA RestingRun == Resting \in Runs /\ RunOK(Resting)
<1>1. Resting = [at |-> "rest", done |-> 0, floor |-> {}, filled |-> {}, pending |-> {},
                 history |-> [a \in Approvals |-> "NONE"], flat |-> TRUE, todo |-> {}]
  BY DEF Resting
<1>2. [a \in Approvals |-> "NONE"] \in [Approvals -> TerminalOrderStates \cup {"NONE"}]
  OBVIOUS
<1>3. "rest" \in Steps /\ 0 \in 0 .. 3 /\ {} \in SUBSET Approvals /\ TRUE \in BOOLEAN
  BY DEF Steps
<1>4. Resting \in Runs
  BY <1>1, <1>2, <1>3, Zenon DEF Runs
<1>5. RunOK(Resting)
  BY <1>1 DEF RunOK
<1> QED
  BY <1>4, <1>5

\* Nor has it when it waits to decide or goes on with the grants it found.
LEMMA DecidingRun ==
    ASSUME NEW at \in Steps \ {"read"}, NEW todo \in SUBSET Approvals
    PROVE  /\ [Resting EXCEPT !.at = at, !.todo = todo] \in Runs
           /\ RunOK([Resting EXCEPT !.at = at, !.todo = todo])
           /\ [Resting EXCEPT !.at = at] \in Runs
           /\ RunOK([Resting EXCEPT !.at = at])
BY RestingRun DEF Runs, RunOK

-----------------------------------------------------------------------------
(* The steps of a run.                                                     *)

\* A run begins with nothing but its floor and the fills it asks for.
LEMMA StartRunStep ==
    ASSUME RInv, NEW w \in Writers, StartRun(w)
    PROVE  JInv'
<1>1. PICK floor, filled : floor = past /\ filled = {a \in Approvals : market[a] = "filled"}
  OBVIOUS
<1>2. PICK r : r = [Resting EXCEPT !.at = "read", !.floor = floor, !.filled = filled]
  OBVIOUS
<1>3. run' = [run EXCEPT ![w] = r] /\ UNCHANGED <<vars, known, bridged, past, gate>>
  BY <1>1, <1>2 DEF StartRun
<1>4. floor \in SUBSET Approvals /\ filled \in SUBSET Approvals
  BY <1>1 DEF RInv, JInv, RunTypes
<1>5. /\ r \in Runs
      /\ r.at = "read" /\ r.done = Resting.done
      /\ r.history = Resting.history /\ r.pending = Resting.pending
  BY <1>2, <1>4, RestingRun DEF Runs, Steps
<1>6. Resting.done = 0
  BY DEF Resting
<1>7. RunOK(r)
  BY <1>5, <1>6, RestingRun DEF RunOK
<1> QED
  BY <1>3, <1>5, <1>7, RunStep

\* After a read comes the next one, or the commit.
LEMMA AdvancedRun ==
    ASSUME RInv, NEW w \in Writers, run[w].at = "read"
    PROVE  /\ Advanced(w) \in Runs
           /\ Advanced(w).at = IF run[w].done = 2 THEN "commit" ELSE "read"
           /\ Advanced(w).done = run[w].done + 1
           /\ Advanced(w).floor = run[w].floor /\ Advanced(w).filled = run[w].filled
           /\ Advanced(w).pending = run[w].pending /\ Advanced(w).history = run[w].history
           /\ RunOK(Advanced(w))
<1>1. run[w] \in Runs /\ RunOK(run[w]) /\ run[w].done \in 0 .. 2
  BY DEF RInv, JInv, RunTypes, RunOK
<1>2. PICK done, at : /\ done = run[w].done + 1
                      /\ at = IF run[w].done = 2 THEN "commit" ELSE "read"
  OBVIOUS
<1>3. done \in 0 .. 3 /\ at \in Steps /\ (at = "read" => done \in 0 .. 2)
  BY <1>1, <1>2 DEF Steps
<1>4. Advanced(w) = [run[w] EXCEPT !.done = done, !.at = at]
  BY <1>1, <1>2 DEF Advanced, Runs
<1>5. /\ Advanced(w) \in Runs
      /\ Advanced(w).at = at /\ Advanced(w).done = done
      /\ Advanced(w).floor = run[w].floor /\ Advanced(w).filled = run[w].filled
      /\ Advanced(w).pending = run[w].pending /\ Advanced(w).history = run[w].history
  BY <1>1, <1>3, <1>4 DEF Runs
<1>6. RunOK(Advanced(w))
  BY <1>1, <1>3, <1>5 DEF RunOK
<1> QED
  BY <1>2, <1>5, <1>6

\* The open orders that are read are openings.
LEMMA ReadPendingStep ==
    ASSUME RInv, NEW w \in Writers, ReadPending(w)
    PROVE  JInv'
<1>1. PICK pending : pending = {a \in Approvals : market[a] = "live"}
  OBVIOUS
<1>2. PICK r : r = [Advanced(w) EXCEPT !.pending = pending]
  OBVIOUS
<1>3. /\ run[w].at = "read"
      /\ run' = [run EXCEPT ![w] = r] /\ UNCHANGED <<vars, known, bridged, past, gate>>
  BY <1>1, <1>2 DEF ReadPending, Reading
<1>4. /\ r \in Runs
      /\ r.at = Advanced(w).at /\ r.done = Advanced(w).done /\ r.history = Advanced(w).history
      /\ r.pending = pending
  BY <1>1, <1>2, <1>3, AdvancedRun DEF Runs
<1>5. \A a \in pending : market[a] # "NONE" /\ a \in Openings
  BY <1>1 DEF RInv, JInv, KnownOK
<1>6. RunOK(r)
  BY <1>3, <1>4, <1>5, AdvancedRun DEF RunOK
<1> QED
  BY <1>3, <1>4, <1>6, RunStep

\* The states that the history shows are the orders' own.
LEMMA ReadHistoryStep ==
    ASSUME RInv, NEW w \in Writers, ReadHistory(w)
    PROVE  JInv'
<1>1. PICK history :
        history = [a \in Approvals |->
                    IF market[a] \in TerminalOrderStates /\ a \notin run[w].floor
                    THEN market[a] ELSE "NONE"]
  OBVIOUS
<1>2. PICK r : r = [Advanced(w) EXCEPT !.history = history]
  OBVIOUS
<1>3. /\ run[w].at = "read"
      /\ run' = [run EXCEPT ![w] = r] /\ UNCHANGED <<vars, known, bridged, past, gate>>
  BY <1>1, <1>2 DEF ReadHistory, Reading
<1>4. history \in [Approvals -> TerminalOrderStates \cup {"NONE"}]
  BY <1>1
<1>5. /\ r \in Runs
      /\ r.at = Advanced(w).at /\ r.done = Advanced(w).done /\ r.pending = Advanced(w).pending
      /\ r.history = history
  BY <1>2, <1>3, <1>4, AdvancedRun DEF Runs
<1>6. RunOK(r)
  BY <1>1, <1>3, <1>5, AdvancedRun DEF RunOK
<1> QED
  BY <1>3, <1>5, <1>6, RunStep

\* The position is read last.
LEMMA ReadPositionOfRunStep ==
    ASSUME RInv, NEW w \in Writers, ReadPositionOfRun(w)
    PROVE  JInv'
<1>1. PICK flat : flat = ~position
  OBVIOUS
<1>2. PICK r : r = [Advanced(w) EXCEPT !.flat = flat]
  OBVIOUS
<1>3. /\ run[w].at = "read"
      /\ run' = [run EXCEPT ![w] = r] /\ UNCHANGED <<vars, known, bridged, past, gate>>
  BY <1>1, <1>2 DEF ReadPositionOfRun, Reading
<1>4. flat \in BOOLEAN
  BY <1>1
<1>5. Advanced(w) \in Runs
  BY <1>3, AdvancedRun
<1>6. r \in Runs
  BY <1>2, <1>4, <1>5, Zenon DEF Runs
<1>7. /\ r.at = Advanced(w).at /\ r.done = Advanced(w).done /\ r.pending = Advanced(w).pending
      /\ r.history = Advanced(w).history
  BY <1>2, <1>5 DEF Runs
<1>8. RunOK(r)
  BY <1>3, <1>7, AdvancedRun DEF RunOK
<1> QED
  BY <1>3, <1>6, <1>8, RunStep

\* A run that fails, is refused or has nothing to do leaves nothing behind.
LEMMA AbandonedRunStep ==
    ASSUME RInv, NEW w \in Writers, ReadFails(w) \/ CommitRefused(w) \/ EndCycle(w)
    PROVE  JInv'
<1>1. run' = [run EXCEPT ![w] = Resting] /\ UNCHANGED <<vars, known, bridged, past, gate>>
  BY DEF ReadFails, CommitRefused, EndCycle, ThenRest
<1> QED
  BY <1>1, RestingRun, RunStep

\* What a run commits: repaired rows of known orders, and the orders it offers.
LEMMA CommitFacts ==
    ASSUME RInv, NEW w \in Writers, Commit(w)
    PROVE  \E made \in SUBSET known, offered \in SUBSET Approvals :
            /\ \A a \in made : /\ Seen(w, a) # "NONE"
                               /\ TriggerAllows(a, Seen(w, a), order[a].body)
            /\ \A a \in Approvals : /\ order'[a].body = order[a].body
                                    /\ order'[a].status =
                                        IF a \in made THEN Seen(w, a) ELSE order[a].status
            /\ \A a \in offered : a \in known \/ a \in Reductions
            /\ gate' = [status |-> IF Drifted(w) THEN "DRIFTED" ELSE "RECONCILED",
                        offered |-> offered]
<1>1. PICK made \in RepairsMade(w), offered \in Offers(w) :
        /\ order' = [a \in Approvals |->
                IF a \in made THEN [order[a] EXCEPT !.status = Seen(w, a)] ELSE order[a]]
        /\ gate' = [status |-> IF Drifted(w) THEN "DRIFTED" ELSE "RECONCILED",
                    offered |-> offered]
  BY DEF Commit
<1>2. ASSUME NEW a \in made
      PROVE  /\ a \in known /\ Seen(w, a) # "NONE"
             /\ TriggerAllows(a, Seen(w, a), order[a].body)
  BY DEF RepairsMade, Repairs, Commit, RepairAllowed
<1>3. ASSUME NEW a \in Approvals
      PROVE  /\ order'[a].body = order[a].body
             /\ order'[a].status = IF a \in made THEN Seen(w, a) ELSE order[a].status
  <2>1. order[a] \in OrderRows
    BY DEF RInv, IInv, WriterTypeOK
  <2>2. order'[a] = IF a \in made THEN [order[a] EXCEPT !.status = Seen(w, a)] ELSE order[a]
    BY <1>1
  <2> QED
    BY <2>1, <2>2 DEF OrderRows
<1>4. offered \in SUBSET Approvals /\ \A a \in offered : a \in known \/ a \in Reductions
  BY OfferedIsOfferable, ApprovalsAssumption DEF Approvals
<1>5. made \in SUBSET known
  BY <1>2
<1> QED
  BY <1>1, <1>2, <1>3, <1>4, <1>5

\* A repair writes what the exchange showed of a known order, and offers known orders.
LEMMA CommitStep ==
    ASSUME RInv, NEW w \in Writers, Commit(w)
    PROVE  JInv'
<1>1. PICK made \in SUBSET known, offered \in SUBSET Approvals :
            /\ \A a \in made : /\ Seen(w, a) # "NONE"
                               /\ TriggerAllows(a, Seen(w, a), order[a].body)
            /\ \A a \in Approvals : /\ order'[a].body = order[a].body
                                    /\ order'[a].status =
                                        IF a \in made THEN Seen(w, a) ELSE order[a].status
            /\ \A a \in offered : a \in known \/ a \in Reductions
            /\ gate' = [status |-> IF Drifted(w) THEN "DRIFTED" ELSE "RECONCILED",
                        offered |-> offered]
  BY CommitFacts
<1>2. UNCHANGED <<attempt, market, answer, writer, known>>
  BY DEF Commit, exchange
<1>3. PICK at \in Steps \ {"read"} : run' = [run EXCEPT ![w] = [Resting EXCEPT !.at = at]]
  BY DEF Commit, Steps
<1>4. PICK r : r = [Resting EXCEPT !.at = at]
  OBVIOUS
<1>5. r \in Runs /\ RunOK(r) /\ run' = [run EXCEPT ![w] = r]
  BY <1>3, <1>4, DecidingRun
<1>6. RunTypes'
  <2>1. bridged' \subseteq known
    BY DEF Commit, Fills, RInv, JInv, RunTypes
  <2>2. past' \subseteq Approvals
    BY DEF Commit
  <2>3. gate' \in [status : {"UNKNOWN", "RECONCILED", "DRIFTED"}, offered : SUBSET Approvals]
    BY <1>1
  <2> QED
    BY <1>2, <1>5, <2>1, <2>2, <2>3 DEF RInv, JInv, RunTypes
<1>7. \A v \in Writers : run'[v] = IF v = w THEN r ELSE run[v]
  BY <1>5 DEF RInv, JInv, RunTypes
<1>8. ASSUME NEW v \in Writers
      PROVE  CallOK(writer[v])' /\ RunOK(run[v])'
  <2>1. CallOK(writer[v]) /\ RunOK(run[v])
    BY DEF RInv, JInv
  <2>2. CallOK(writer[v])'
    BY <1>2, <2>1 DEF CallOK
  <2>3. RunOK(run[v])'
    BY <1>2, <1>5, <1>7, <2>1 DEF RunOK
  <2> QED
    BY <2>2, <2>3
<1>9. ASSUME NEW a \in Approvals
      PROVE  RowsOK(a)' /\ StatusOK(a)' /\ KnownOK(a)'
  <2>1. RowsOK(a) /\ StatusOK(a) /\ KnownOK(a)
    BY DEF RInv, JInv
  <2>2. a \in made =>
            /\ a \in known
            /\ order'[a].status \in {"live", "filled", "canceled"}
            /\ order[a].status \in TerminalOrderStates => order'[a].status = order[a].status
    BY <1>1, SeenIsShown DEF RInv, TerminalOrderStates, TriggerAllows
  <2>3. order'[a].body = order[a].body
        /\ (a \notin made => order'[a].status = order[a].status)
    BY <1>1
  <2>4. RowsOK(a)'
    BY <1>2, <2>1, <2>2, <2>3 DEF RowsOK
  <2>5. StatusOK(a)'
    BY <1>2, <2>1, <2>2, <2>3 DEF StatusOK, TerminalOrderStates
  <2>6. KnownOK(a)'
    BY <1>1, <1>2, <2>1, <2>2, <2>3 DEF KnownOK, Identified
  <2> QED
    BY <2>4, <2>5, <2>6
<1> QED
  BY <1>6, <1>8, <1>9 DEF JInv

-----------------------------------------------------------------------------
(* The calls, and the ends of a process.                                   *)

\* A call to recover an order never cancels a reduction.
LEMMA AcquireForRecoveryCall ==
    ASSUME RInv, NEW w \in Writers, NEW a \in Approvals, AcquireForRecovery(w, a),
           UNCHANGED <<known, bridged, past, gate>>,
           NEW r \in Runs, RunOK(r), run' = [run EXCEPT ![w] = r]
    PROVE  JInv'
<1>1. PICK s : s = [Unassigned("unresolved") EXCEPT
                    !.key = RecoveryKey(a), !.goal = "RECOVER", !.gen = Acquired(w).gen]
  OBVIOUS
<1>2. s.pc = "unresolved" /\ s.key = RecoveryKey(a)
  BY <1>1 DEF Unassigned
<1>3. CallOK(s)
  <2>1. s.key[2] = "CANCEL" => s.key[1] = a /\ a \notin Reductions
    BY <1>2 DEF RecoveryKey, OrderKey
  <2> QED
    BY <1>2, <2>1 DEF CallOK
<1>4. Moved(w, s) /\ UNCHANGED <<attempt, order, market, answer>>
  BY <1>1 DEF AcquireForRecovery, Moved, journal, exchange
<1> QED
  BY <1>3, <1>4, CallStep

\* The call for what is unresolved takes no phase but a read.
LEMMA CallForUnresolvedStep ==
    ASSUME RInv, NEW w \in Writers, CallForUnresolved(w)
    PROVE  JInv'
<1>1. run' = [run EXCEPT ![w] = Resting] /\ UNCHANGED <<known, bridged, past, gate>>
  BY DEF CallForUnresolved, ThenRest
<1>2. CASE ClaimUnresolved(w)
  <2>1. PICK k \in Keys :
        /\ attempt' = [attempt EXCEPT ![k].gen = Acquired(w).gen]
        /\ writer' = [writer EXCEPT ![w] = [Unassigned("get") EXCEPT
                        !.key = k, !.goal = "RECONCILE", !.gen = Acquired(w).gen,
                        !.state = attempt[k].state]]
    BY <1>2 DEF ClaimUnresolved
  <2>2. PICK s : s = [Unassigned("get") EXCEPT
                        !.key = k, !.goal = "RECONCILE", !.gen = Acquired(w).gen,
                        !.state = attempt[k].state]
    OBVIOUS
  <2>3. Moved(w, s)
    BY <2>1, <2>2 DEF Moved
  <2>4. CallOK(s)
    BY <2>2 DEF CallOK, Unassigned
  <2>5. Acquired(w).gen \in 0 .. MaxGeneration
    BY <1>2, Acquisition DEF ClaimUnresolved, RInv
  <2>6. \A j \in Keys : attempt'[j].state = attempt[j].state
    BY <2>1, <2>5, Rebound DEF RInv
  <2>7. UNCHANGED <<order, market, answer>>
    BY <1>2 DEF ClaimUnresolved, exchange
  <2> QED
    BY <1>1, <2>3, <2>4, <2>6, <2>7, RestingRun, CallStep
<1>3. CASE \E a \in Approvals : AcquireForRecovery(w, a)
  BY <1>1, <1>3, RestingRun, AcquireForRecoveryCall
<1> QED
  BY <1>2, <1>3 DEF CallForUnresolved

\* The call for a grant leaves the others to the rest of the cycle.
LEMMA CallForGrantStep ==
    ASSUME RInv, NEW w \in Writers, CallForGrant(w)
    PROVE  JInv'
<1>1. PICK a \in ToRecover(w) :
        /\ AcquireForRecovery(w, a)
        /\ run' = [run EXCEPT ![w] = [Resting EXCEPT
                    !.at = IF ToRecover(w) = {a} THEN "rest" ELSE "grants",
                    !.todo = ToRecover(w) \ {a}]]
  BY DEF CallForGrant
<1>2. ToRecover(w) \subseteq Approvals
  BY DEF ToRecover, RInv, JInv, RunTypes, Runs
<1>3. PICK at, todo : /\ at = IF ToRecover(w) = {a} THEN "rest" ELSE "grants"
                      /\ todo = ToRecover(w) \ {a}
  OBVIOUS
<1>4. PICK r : r = [Resting EXCEPT !.at = at, !.todo = todo]
  OBVIOUS
<1>5. at \in Steps \ {"read"} /\ todo \in SUBSET Approvals
  BY <1>2, <1>3 DEF Steps
<1>6. r \in Runs /\ RunOK(r) /\ run' = [run EXCEPT ![w] = r]
  BY <1>1, <1>3, <1>4, <1>5, DecidingRun
<1>7. UNCHANGED <<known, bridged, past, gate>>
  BY DEF CallForGrant
<1> QED
  BY <1>1, <1>2, <1>6, <1>7, AcquireForRecoveryCall

\* place() begins with the order's own key.
LEMMA CallForPlaceStep ==
    ASSUME RInv, NEW w \in Writers, CallForPlace(w)
    PROVE  JInv'
<1>1. PICK a \in Approvals : AcquireForPlace(w, a)
  BY DEF CallForPlace
<1>2. PICK s : s = [Unassigned("unresolved") EXCEPT
                    !.key = OrderKey(a), !.goal = "PLACE", !.gen = Acquired(w).gen]
  OBVIOUS
<1>3. s.pc = "unresolved" /\ s.key[2] # "CANCEL"
  BY <1>2 DEF Unassigned, OrderKey
<1>4. CallOK(s)
  BY <1>3 DEF CallOK
<1>5. Moved(w, s) /\ UNCHANGED <<attempt, order, market, answer>>
  BY <1>1, <1>2 DEF AcquireForPlace, Moved, journal, exchange
<1>6. run' = [run EXCEPT ![w] = Resting] /\ UNCHANGED <<known, bridged, past, gate>>
  BY DEF CallForPlace, ThenRest
<1> QED
  BY <1>4, <1>5, <1>6, RestingRun, CallStep

\* A process that stops or starts has no call and no run.
LEMMA StopOrStartStep ==
    ASSUME RInv, NEW w \in Writers, ProcessStops(w) \/ ProcessStarts(w)
    PROVE  JInv'
<1>1. run' = [run EXCEPT ![w] = Resting] /\ UNCHANGED <<known, bridged, past, gate>>
  BY DEF ProcessStops, ProcessStarts, ThenRest
<1>2. PICK pc \in Idle : Moved(w, Unassigned(pc))
  BY DEF ProcessStops, ProcessStarts, Crash, Restart, Leave, Moved, Idle
<1>3. UNCHANGED <<attempt, order, market, answer>>
  BY DEF ProcessStops, ProcessStarts, Crash, Restart, journal, exchange
<1> QED
  BY <1>1, <1>2, <1>3, UnassignedCall, RestingRun, CallStep

-----------------------------------------------------------------------------
(* The steps of a call.                                                    *)

\* A step of a call that changes only what its process knows, and generations.
LEMMA MoveKeeps ==
    ASSUME RInv, NEW w \in Writers, WriterActs(w), NEW s, Moved(w, s), CallOK(s),
           \A k \in Keys : attempt'[k].state = attempt[k].state,
           UNCHANGED <<order, market, answer>>
    PROVE  JInv'
<1>1. known' = known
  <2>1. known' = known \cup
            {a \in Approvals : order[a].body = "ORDER" /\ order[a].status \in StatusesWithId}
    BY DEF WriterActs
  <2> QED
    BY <2>1 DEF RInv, JInv, KnownOK
<1>2. run[w] \in Runs /\ RunOK(run[w]) /\ run' = [run EXCEPT ![w] = run[w]]
  BY DEF WriterActs, RInv, JInv, RunTypes
<1>3. UNCHANGED <<bridged, past, gate>>
  BY DEF WriterActs
<1> QED
  BY <1>1, <1>2, <1>3, CallStep

\* The call ends.
LEMMA LeaveKeeps ==
    ASSUME RInv, NEW w \in Writers, WriterActs(w), Leave(w),
           UNCHANGED <<journal, lease, exchange, posts, faults>>
    PROVE  JInv'
<1>1. Moved(w, Unassigned("idle")) /\ "idle" \in Idle
  BY DEF Leave, Moved, Idle
<1>2. UNCHANGED <<attempt, order, market, answer>>
  BY DEF journal, exchange
<1> QED
  BY <1>1, <1>2, UnassignedCall, MoveKeeps

\* What is to be recorded is decided.
LEMMA DecideKeeps ==
    ASSUME RInv, NEW w \in Writers, WriterActs(w), NEW pc, NEW event, Decide(w, pc, event),
           pc \in {"record", "settle", "doubt"},
           UNCHANGED <<journal, lease, exchange, posts, faults>>,
           pc = "record" => event \notin Answering
                            /\ (event = "ACKNOWLEDGE" => answer[writer[w].key] = "ACK"),
           pc = "settle" => writer[w].pc = "position"
    PROVE  JInv'
<1>1. PICK s : s = [writer[w] EXCEPT !.pc = pc, !.event = event, !.fenced = FALSE]
  OBVIOUS
<1>2. writer[w] \in WriterStates /\ CallOK(writer[w])
  BY DEF RInv, JInv, IInv, WriterTypeOK
<1>3. /\ s.pc = pc /\ s.event = event /\ s.key = writer[w].key /\ s.seen = writer[w].seen
      /\ s.state = writer[w].state
  BY <1>1, <1>2 DEF WriterStates
<1>4. CallOK(s)
  BY <1>2, <1>3 DEF CallOK
<1>5. Moved(w, s) /\ UNCHANGED <<attempt, order, market, answer>>
  BY <1>1 DEF Decide, Moved, journal, exchange
<1> QED
  BY <1>4, <1>5, MoveKeeps

\* The steps that change no row: those before a request is prepared ...
LEMMA PreparingKeeps ==
    ASSUME RInv, NEW w \in Writers, WriterActs(w),
           NothingUnresolved(w) \/ ReadLeverage(w) \/ Refused(w) \/ CleanupClose(w)
    PROVE  JInv'
<1>1. writer[w] \in WriterStates /\ CallOK(writer[w])
  BY DEF RInv, JInv, IInv, WriterTypeOK
<1>2. CASE NothingUnresolved(w)
  <2>1. PICK pc : pc = IF writer[w].goal = "PLACE" THEN "leverage" ELSE "prepare"
    OBVIOUS
  <2>2. PICK s : s = [writer[w] EXCEPT !.pc = pc, !.fenced = FALSE]
    OBVIOUS
  <2>3. s.pc = pc /\ s.key = writer[w].key
    BY <1>1, <2>2 DEF WriterStates
  <2>4. CallOK(s)
    BY <1>1, <1>2, <2>1, <2>3 DEF CallOK, NothingUnresolved, At
  <2>5. Moved(w, s) /\ UNCHANGED <<attempt, order, market, answer>>
    BY <1>2, <2>1, <2>2 DEF NothingUnresolved, Goto, Moved, journal, exchange
  <2> QED
    BY <2>4, <2>5, MoveKeeps
<1>3. CASE ReadLeverage(w)
  <2>1. PICK key : key = IF writer[w].key[1] \in leverage THEN OrderKey(writer[w].key[1])
                         ELSE <<writer[w].key[1], "SET_LEVERAGE">>
    OBVIOUS
  <2>2. PICK s : s = [writer[w] EXCEPT !.pc = "prepare", !.key = key]
    OBVIOUS
  <2>3. s.pc = "prepare" /\ s.key = key
    BY <1>1, <2>2 DEF WriterStates
  <2>4. key[2] # "CANCEL"
    BY <2>1 DEF OrderKey
  <2>5. CallOK(s)
    BY <2>3, <2>4 DEF CallOK
  <2>6. Moved(w, s) /\ UNCHANGED <<attempt, order, market, answer>>
    BY <1>3, <2>1, <2>2 DEF ReadLeverage, Moved, journal, exchange
  <2> QED
    BY <2>5, <2>6, MoveKeeps
<1>4. CASE Refused(w)
  BY <1>4, LeaveKeeps DEF Refused
<1>5. CASE CleanupClose(w)
  <2>1. PICK s : s = [writer[w] EXCEPT !.pc = "record", !.event = "RECONCILE",
                                       !.seen = "position_zero"]
    OBVIOUS
  <2>2. /\ s.pc = "record" /\ s.event = "RECONCILE" /\ s.seen = "position_zero"
        /\ s.key = writer[w].key /\ s.state = writer[w].state
    BY <1>1, <2>1 DEF WriterStates
  <2>3. CallOK(s)
    BY <1>1, <1>5, <2>2 DEF CallOK, CleanupClose, At
  <2>4. Moved(w, s) /\ UNCHANGED <<attempt, order, market, answer>>
    BY <1>5, <2>1 DEF CleanupClose, Moved, journal, exchange
  <2> QED
    BY <2>3, <2>4, MoveKeeps
<1> QED
  BY <1>2, <1>3, <1>4, <1>5

\* ... the adoption of what was unresolved, and the lease check ...
LEMMA AdoptingKeeps ==
    ASSUME RInv, NEW w \in Writers, WriterActs(w), Fence(w) \/ AdoptUnresolved(w)
    PROVE  JInv'
<1>1. writer[w] \in WriterStates /\ CallOK(writer[w])
  BY DEF RInv, JInv, IInv, WriterTypeOK
<1>2. CASE Fence(w)
  <2>1. UNCHANGED <<journal, lease, exchange, posts, faults>>
    BY <1>2 DEF Fence
  <2>2. CASE Moved(w, [writer[w] EXCEPT !.fenced = TRUE])
    <3>1. PICK s : s = [writer[w] EXCEPT !.fenced = TRUE]
      OBVIOUS
    <3>2. /\ s.pc = writer[w].pc /\ s.event = writer[w].event /\ s.seen = writer[w].seen
          /\ s.key = writer[w].key /\ s.state = writer[w].state
      BY <1>1, <3>1 DEF WriterStates
    <3>3. CallOK(s)
      BY <1>1, <3>2 DEF CallOK
    <3>4. Moved(w, s) /\ UNCHANGED <<attempt, order, market, answer>>
      BY <2>1, <2>2, <3>1 DEF journal, exchange
    <3> QED
      BY <3>3, <3>4, MoveKeeps
  <2>3. CASE InDoubt(w)
    BY <2>1, <2>3, DecideKeeps DEF InDoubt
  <2>4. CASE Leave(w)
    BY <2>1, <2>4, LeaveKeeps
  <2> QED
    BY <1>2, <2>2, <2>3, <2>4, Zenon DEF Fence, Moved
<1>3. CASE AdoptUnresolved(w)
  <2>1. PICK k \in Keys :
        /\ Pending(k)
        /\ attempt' = [attempt EXCEPT ![k].gen = writer[w].gen]
        /\ IF ~MayRecover(w, k) THEN Leave(w)
           ELSE Moved(w, [writer[w] EXCEPT
                    !.pc = IF /\ writer[w].goal = "PLACE"
                              /\ k[2] = "CLOSE"
                              /\ attempt[k].state = "RESIDUAL_CLOSE_REQUIRED"
                           THEN "cleanup" ELSE "get",
                    !.key = k, !.goal = "RECONCILE", !.state = attempt[k].state,
                    !.fenced = FALSE])
    BY <1>3 DEF AdoptUnresolved, Moved
  <2>2. \A j \in Keys : attempt'[j].state = attempt[j].state
    BY <1>1, <2>1, Rebound DEF RInv, WriterStates
  <2>3. UNCHANGED <<order, market, answer>>
    BY <1>3 DEF AdoptUnresolved, exchange
  <2>4. CASE ~MayRecover(w, k)
    <3>1. Moved(w, Unassigned("idle")) /\ "idle" \in Idle
      BY <2>1, <2>4 DEF Leave, Moved, Idle
    <3> QED
      BY <2>2, <2>3, <3>1, UnassignedCall, MoveKeeps
  <2>5. CASE MayRecover(w, k)
    <3>1. PICK pc : pc = IF /\ writer[w].goal = "PLACE"
                            /\ k[2] = "CLOSE"
                            /\ attempt[k].state = "RESIDUAL_CLOSE_REQUIRED"
                         THEN "cleanup" ELSE "get"
      OBVIOUS
    <3>2. PICK s : s = [writer[w] EXCEPT !.pc = pc, !.key = k, !.goal = "RECONCILE",
                                         !.state = attempt[k].state, !.fenced = FALSE]
      OBVIOUS
    <3>3. s.pc = pc /\ s.key = k /\ s.state = attempt[k].state
      BY <1>1, <3>2 DEF WriterStates
    <3>4. CallOK(s)
      BY <3>1, <3>3 DEF CallOK
    <3>5. Moved(w, s)
      BY <2>1, <2>5, <3>1, <3>2
    <3> QED
      BY <2>2, <2>3, <3>4, <3>5, MoveKeeps
  <2> QED
    BY <2>4, <2>5
<1> QED
  BY <1>2, <1>3

\* ... the request itself and the reads that follow it.
LEMMA RequestingKeeps ==
    ASSUME RInv, NEW w \in Writers, WriterActs(w),
           Post(w) \/ Answered(w) \/ OutcomeUnknown(w) \/ GetFails(w) \/ ReadPosition(w)
    PROVE  JInv'
<1>1. writer[w] \in WriterStates /\ CallOK(writer[w]) /\ writer[w].key \in Keys
  BY DEF RInv, JInv, IInv, WriterTypeOK, WriterStates
<1>2. CASE Post(w)
  <2>1. PICK s : s = [writer[w] EXCEPT !.pc = "sent", !.fenced = FALSE]
    OBVIOUS
  <2>2. s.pc = "sent"
    BY <1>1, <2>1 DEF WriterStates
  <2>3. CallOK(s)
    BY <2>2 DEF CallOK
  <2>4. Moved(w, s) /\ UNCHANGED <<attempt, order, market, answer>>
    BY <1>2, <2>1 DEF Post, Goto, Moved, journal
  <2> QED
    BY <2>3, <2>4, MoveKeeps
<1>3. CASE Answered(w)
  <2>1. answer[writer[w].key] \in {"NONE", "ACK", "REJECT"}
    BY <1>1 DEF RInv, IInv, WriterTypeOK
  <2>2. PICK event : event = IF answer[writer[w].key] = "ACK" THEN "ACKNOWLEDGE"
                             ELSE "EXPLICIT_REJECTION"
    OBVIOUS
  <2>3. /\ Decide(w, "record", event)
        /\ UNCHANGED <<journal, lease, exchange, posts, faults>>
    BY <1>3, <2>2 DEF Answered
  <2>4. event \notin Answering /\ (event = "ACKNOWLEDGE" => answer[writer[w].key] = "ACK")
    BY <2>2 DEF Answering
  <2> QED
    BY <2>3, <2>4, DecideKeeps
<1>4. CASE OutcomeUnknown(w)
  <2>1. "OUTCOME_UNKNOWN" \notin Answering
    BY DEF Answering
  <2> QED
    BY <1>4, <2>1, DecideKeeps DEF OutcomeUnknown
<1>5. CASE GetFails(w)
  BY <1>5, DecideKeeps DEF GetFails, InDoubt
<1>6. CASE ReadPosition(w)
  BY <1>6, DecideKeeps DEF ReadPosition, At
<1> QED
  BY <1>2, <1>3, <1>4, <1>5, <1>6

\* What a read of the exchange shows before an attempt is settled.
LEMMA GetKeeps ==
    ASSUME RInv, NEW w \in Writers, WriterActs(w), Get(w)
    PROVE  JInv'
<1> DEFINE k == writer[w].key
<1>1. writer[w] \in WriterStates /\ k \in Keys /\ k[1] \in Approvals /\ k[2] \in Operations
  BY OrderKeys DEF RInv, IInv, WriterTypeOK, WriterStates, Keys
<1>2. PICK pc, event, seen :
        /\ event = Settling(k, writer[w].state)
        /\ pc = IF event = "RECONCILE" /\ k[2] = "CLOSE" THEN "position" ELSE "settle"
        /\ seen = IF k[2] = "SET_LEVERAGE" THEN "leverage_confirmed" ELSE market[k[1]]
  OBVIOUS
<1>3. PICK s : s = [writer[w] EXCEPT !.pc = pc, !.event = event, !.seen = seen]
  OBVIOUS
<1>4. Moved(w, s) /\ UNCHANGED <<attempt, order, market, answer>>
  BY <1>2, <1>3 DEF Get, Moved, journal, exchange
<1>5. s.pc = pc /\ s.seen = seen /\ s.key = k
  BY <1>1, <1>3 DEF WriterStates
<1>6. Shown(k) /\ market[k[1]] \in {"NONE", "live", "filled", "canceled"}
  BY <1>1, ShowsShown DEF Get, RInv, IInv, WriterTypeOK
<1>7. /\ seen \in {"leverage_confirmed", "live"} \cup TerminalOrderStates
      /\ IsOrder(k) => seen # "leverage_confirmed"
      /\ k[2] = "CLOSE" => seen \in TerminalOrderStates
  BY <1>1, <1>2, <1>6 DEF Shown, TerminalOrderStates, IsOrder, Operations
<1>8. pc \in {"settle", "position"}
  BY <1>2
<1>9. CallOK(s)
  BY <1>5, <1>7, <1>8 DEF CallOK
<1> QED
  BY <1>4, <1>9, MoveKeeps

\* Which events lead to the states that a transition may write.
LEMMA Outcomes ==
    ASSUME NEW state, NEW event, After(state, event) # "INVALID"
    PROVE  /\ After(state, event) \notin {"ABSENT", "PREPARED"}
           /\ After(state, event) = "ACKNOWLEDGED" => event = "ACKNOWLEDGE"
           /\ After(state, event) \notin {"live"} \cup TerminalOrderStates
           /\ After(state, event) # "position_zero"
BY DEF After, TerminalOrderStates

\* The status that a transition writes: a refused request's, or what was seen.
LEMMA StatusWritten ==
    ASSUME RInv, NEW w \in Writers, Transition(w), writer[w].pc \in {"record", "settle", "doubt"},
           NEW k \in Keys, k = writer[w].key, NEW a \in Approvals, a = k[1]
    PROVE  /\ NewStatus(w) \notin {"ABSENT", "RECONCILED", "position_zero"}
           /\ NewStatus(w) = "REJECTED" => NewState(w) = "REJECTED"
           /\ order[a].status \in TerminalOrderStates => NewStatus(w) = order[a].status
           /\ k = OrderKey(a) /\ a \in Closings /\ NewState(w) = "RESIDUAL_CLOSE_REQUIRED" =>
                  NewStatus(w) \in TerminalOrderStates
           /\ k = OrderKey(a) /\ a \in Openings /\ NewState(w) = "RECONCILED" =>
                  NewStatus(w) \in StatusesWithId
           /\ k = OrderKey(a) /\ NewStatus(w) \in StatusesWithId => market[a] # "NONE"
<1>1. /\ CallOK(writer[w]) /\ PhaseOK(writer[w])
      /\ RowsOK(a) /\ StatusOK(a) /\ KnownOK(a)
  BY DEF RInv, JInv, IInv
<1>2. /\ attempt[k].state = writer[w].state
      /\ After(writer[w].state, writer[w].event) # "INVALID"
      /\ TriggerAllows(a, NewStatus(w), order[a].body)
  BY DEF Transition, RowMatches, OrderAllows
<1>3. /\ NewState(w) \in WriteStates
      /\ NewState(w) \notin {"ABSENT", "PREPARED", "live", "position_zero"} \cup TerminalOrderStates
      /\ NewState(w) = "ACKNOWLEDGED" => writer[w].event = "ACKNOWLEDGE"
      /\ NewState(w) = "RECONCILED" => writer[w].event = "RECONCILE"
      /\ NewState(w) = "RESIDUAL_CLOSE_REQUIRED" =>
             writer[w].event = "RESIDUAL_DETECTED" \/ attempt[k].state = "RESIDUAL_CLOSE_REQUIRED"
  BY <1>2, Transitions, Outcomes DEF NewState
<1>4. order[a].status \in TerminalOrderStates => NewStatus(w) = order[a].status
  BY <1>2 DEF TriggerAllows, TerminalOrderStates
<1>5. k[2] = "CLOSE" => k = OrderKey(a) /\ a \in Closings
  BY OrderKeys DEF IsOrder, OrderKey
<1>6. writer[w].event \in Answering => writer[w].pc = "settle" /\ NewStatus(w) = writer[w].seen
  <2>1. ASSUME writer[w].event \in Answering, writer[w].pc = "record"
        PROVE  FALSE
    <3>1. /\ k[2] = "CLOSE" /\ attempt[k].state = "RESIDUAL_CLOSE_REQUIRED"
          /\ NewStatus(w) = "position_zero"
      BY <1>1, <1>2, <2>1 DEF CallOK, NewStatus, Answering
    <3>2. order[a].status \in TerminalOrderStates
      BY <1>1, <1>5, <3>1 DEF StatusOK
    <3> QED
      BY <1>4, <3>1, <3>2 DEF TerminalOrderStates
  <2>2. writer[w].event \in Answering => writer[w].pc # "doubt"
    BY <1>1 DEF PhaseOK, Undecided, Answering
  <2> QED
    BY <2>1, <2>2 DEF NewStatus, Answering
<1>7. writer[w].event \notin Answering => NewStatus(w) = NewState(w)
  BY DEF NewStatus, Answering
<1>8. writer[w].pc = "settle" =>
          /\ writer[w].seen \in {"leverage_confirmed", "live"} \cup TerminalOrderStates
          /\ IsOrder(k) => writer[w].seen # "leverage_confirmed"
          /\ k[2] = "CLOSE" => writer[w].seen \in TerminalOrderStates
          /\ Shown(k)
  BY <1>1 DEF CallOK, PhaseOK
<1>9. NewStatus(w) \notin {"ABSENT", "RECONCILED", "position_zero"}
  BY <1>3, <1>6, <1>7, <1>8 DEF Answering, TerminalOrderStates
<1>10. NewStatus(w) = "REJECTED" => NewState(w) = "REJECTED"
  BY <1>6, <1>7, <1>8 DEF TerminalOrderStates
<1>11. ASSUME k = OrderKey(a), a \in Closings, NewState(w) = "RESIDUAL_CLOSE_REQUIRED"
       PROVE  NewStatus(w) \in TerminalOrderStates
  <2>1. k[2] = "CLOSE"
    BY <1>11 DEF OrderKey
  <2>2. CASE writer[w].event = "RESIDUAL_DETECTED"
    BY <1>6, <1>8, <2>1, <2>2 DEF Answering
  <2>3. CASE attempt[k].state = "RESIDUAL_CLOSE_REQUIRED"
    BY <1>1, <1>4, <1>11, <2>3 DEF StatusOK
  <2> QED
    BY <1>3, <1>11, <2>2, <2>3
<1>12. IsOrder(OrderKey(a))
  BY OrderKeys
<1>13. ASSUME k = OrderKey(a), a \in Openings, NewState(w) = "RECONCILED"
       PROVE  NewStatus(w) \in StatusesWithId
  BY <1>3, <1>6, <1>8, <1>12, <1>13 DEF Answering, StatusesWithId
<1>14. ASSUME k = OrderKey(a), NewStatus(w) \in StatusesWithId
       PROVE  market[a] # "NONE"
  <2>1. k[2] \in {"PLACE", "CLOSE"}
    BY <1>14 DEF OrderKey
  <2>2. CASE writer[w].pc = "settle"
    BY <1>8, <2>1, <2>2 DEF Shown, TerminalOrderStates
  <2>3. CASE writer[w].pc # "settle"
    <3>1. NewStatus(w) = "ACKNOWLEDGED" /\ writer[w].event = "ACKNOWLEDGE"
      BY <1>3, <1>6, <1>7, <1>14, <2>3 DEF StatusesWithId
    <3>2. writer[w].pc = "record"
      BY <1>1, <2>3, <3>1 DEF PhaseOK, Undecided
    <3>3. answer[OrderKey(a)] = "ACK"
      BY <1>1, <1>14, <3>1, <3>2 DEF CallOK
    <3> QED
      BY <1>1, <3>3 DEF KnownOK
  <2> QED
    BY <2>2, <2>3
<1> QED
  BY <1>4, <1>9, <1>10, <1>11, <1>13, <1>14

\* What a transition changes.
LEMMA TransitionFacts ==
    ASSUME RInv, NEW w \in Writers, Transition(w), NEW k \in Keys, k = writer[w].key
    PROVE  /\ attempt[k].state \in Unresolved
           /\ NewState(w) \notin {"ABSENT", "PREPARED"}
           /\ \A j \in Keys : attempt'[j].state = IF j = k THEN NewState(w) ELSE attempt[j].state
           /\ \A b \in Approvals :
                /\ order'[b].body = order[b].body
                /\ order'[b].status = IF b = k[1] THEN NewStatus(w) ELSE order[b].status
           /\ UNCHANGED <<market, answer>>
<1>1. /\ attempt[k].state = writer[w].state
      /\ After(writer[w].state, writer[w].event) # "INVALID"
      /\ attempt' = [attempt EXCEPT ![k].state = NewState(w)]
      /\ order' = [order EXCEPT ![k[1]].status = NewStatus(w)]
      /\ UNCHANGED <<market, answer>>
  BY DEF Transition, RowMatches, exchange
<1>2. attempt \in [Keys -> Rows] /\ order \in [Approvals -> OrderRows] /\ k[1] \in Approvals
  BY OrderKeys DEF RInv, IInv, WriterTypeOK
<1>3. attempt[k].state \in Unresolved /\ NewState(w) \notin {"ABSENT", "PREPARED"}
  BY <1>1, Transitions, Outcomes DEF NewState
<1>4. PICK state, status : state = NewState(w) /\ status = NewStatus(w)
  OBVIOUS
<1>5. ASSUME NEW j \in Keys
      PROVE  attempt'[j].state = IF j = k THEN state ELSE attempt[j].state
  <2>1. attempt' = [attempt EXCEPT ![k] = [attempt[k] EXCEPT !.state = state]]
    BY <1>1, <1>2, <1>4
  <2>2. [attempt[k] EXCEPT !.state = state].state = state
    BY <1>2 DEF Rows
  <2> QED
    BY <1>2, <2>1, <2>2
<1>6. ASSUME NEW b \in Approvals
      PROVE  /\ order'[b].body = order[b].body
             /\ order'[b].status = IF b = k[1] THEN status ELSE order[b].status
  <2>1. order' = [order EXCEPT ![k[1]] = [order[k[1]] EXCEPT !.status = status]]
    BY <1>1, <1>2, <1>4
  <2>2. /\ [order[k[1]] EXCEPT !.status = status].status = status
        /\ [order[k[1]] EXCEPT !.status = status].body = order[k[1]].body
    BY <1>2 DEF OrderRows
  <2> QED
    BY <1>2, <2>1, <2>2
<1> QED
  BY <1>1, <1>3, <1>4, <1>5, <1>6

\* A transition writes an id only for an order that is at the exchange.
LEMMA TransitionKeeps ==
    ASSUME RInv, NEW w \in Writers, WriterActs(w), Transition(w),
           writer[w].pc \in {"record", "settle", "doubt"}, NEW s, Moved(w, s), CallOK(s)
    PROVE  JInv'
<1>1. PICK k \in Keys, a \in Approvals : k = writer[w].key /\ a = k[1]
  BY OrderKeys DEF RInv, IInv, WriterTypeOK, WriterStates
<1>2. PICK state, status : state = NewState(w) /\ status = NewStatus(w)
  OBVIOUS
<1>3. /\ attempt[k].state \in Unresolved
      /\ state \notin {"ABSENT", "PREPARED"}
      /\ \A j \in Keys : attempt'[j].state = IF j = k THEN state ELSE attempt[j].state
      /\ \A b \in Approvals : /\ order'[b].body = order[b].body
                              /\ order'[b].status = IF b = a THEN status ELSE order[b].status
      /\ UNCHANGED <<market, answer>>
  BY <1>1, <1>2, TransitionFacts
<1>4. /\ status \notin {"ABSENT", "RECONCILED", "position_zero"}
      /\ status = "REJECTED" => state = "REJECTED"
      /\ order[a].status \in TerminalOrderStates => status = order[a].status
      /\ k = OrderKey(a) /\ a \in Closings /\ state = "RESIDUAL_CLOSE_REQUIRED" =>
             status \in TerminalOrderStates
      /\ k = OrderKey(a) /\ a \in Openings /\ state = "RECONCILED" => status \in StatusesWithId
      /\ k = OrderKey(a) /\ status \in StatusesWithId => market[a] # "NONE"
  BY <1>1, <1>2, StatusWritten
<1>5. UNCHANGED <<run, bridged, past, gate>>
  BY DEF WriterActs
<1>6. PICK ids : ids = {b \in Approvals : order'[b].body = "ORDER" /\ order'[b].status \in StatusesWithId}
  OBVIOUS
<1>7. known' = known \cup ids
  BY <1>6 DEF WriterActs
<1>8. RunTypes'
  BY <1>5, <1>6, <1>7 DEF RInv, JInv, RunTypes
<1>9. ASSUME NEW v \in Writers
      PROVE  CallOK(writer[v])' /\ RunOK(run[v])'
  <2>1. writer'[v] = IF v = w THEN s ELSE writer[v]
    BY DEF RInv, IInv, WriterTypeOK, Moved
  <2>2. CallOK(writer[v]) /\ RunOK(run[v])
    BY DEF RInv, JInv
  <2>3. CallOK(writer[v])'
    BY <1>3, <2>1, <2>2 DEF CallOK
  <2>4. RunOK(run[v])'
    BY <1>3, <1>5, <2>2 DEF RunOK
  <2> QED
    BY <2>3, <2>4
<1>10. /\ k = OrderKey(a) \/ k = <<a, "CANCEL">> \/ k = <<a, "SET_LEVERAGE">>
       /\ attempt[k].state # "ABSENT"
  <2>1. k[2] \in Operations
    BY DEF Keys
  <2>2. k = <<a, k[2]>>
    BY <1>1 DEF Keys
  <2>3. k = OrderKey(a) \/ k[2] \in {"CANCEL", "SET_LEVERAGE"}
    BY <1>1, <2>1, OrderKeys DEF IsOrder, Operations
  <2>4. attempt[k].state # "ABSENT"
    BY <1>3 DEF Unresolved
  <2> QED
    BY <2>2, <2>3, <2>4
<1>11. ASSUME NEW b \in Approvals
       PROVE  /\ <<b, "CANCEL">> \in Keys /\ <<b, "SET_LEVERAGE">> \in Keys /\ OrderKey(b) \in Keys
              /\ <<b, "CANCEL">> # OrderKey(b) /\ <<b, "SET_LEVERAGE">> # OrderKey(b)
              /\ b # a => k # OrderKey(b) /\ k # <<b, "CANCEL">> /\ k # <<b, "SET_LEVERAGE">>
  BY <1>1, OrderKeys DEF OrderKey
<1>12. ASSUME NEW b \in Approvals
       PROVE  RowsOK(b)' /\ StatusOK(b)' /\ KnownOK(b)'
  <2>1. RowsOK(b) /\ StatusOK(b) /\ KnownOK(b)
    BY DEF RInv, JInv
  <2>2. RowsOK(b)'
    BY <1>3, <1>4, <1>7, <1>10, <1>11, <2>1 DEF RowsOK
  <2>3. StatusOK(b)'
    <3>1. CASE b = a
      BY <1>1, <1>3, <1>4, <1>10, <1>11, <2>1, <3>1 DEF StatusOK
    <3>2. CASE b # a
      <4>1. \A j \in Keys : j[1] = b => j # k
        BY <1>1, <3>2
      <4> QED
        BY <1>3, <1>11, <2>1, <3>2, <4>1 DEF StatusOK
    <3> QED
      BY <3>1, <3>2
  <2>4. CASE b # a
    <3>1. /\ order'[b].body = order[b].body /\ order'[b].status = order[b].status
          /\ attempt'[OrderKey(b)].state = attempt[OrderKey(b)].state
      BY <1>3, <1>11, <2>4
    <3>2. b \in known' <=> b \in known
      BY <1>6, <1>7, <2>1, <3>1 DEF KnownOK
    <3>3. KnownOK(b)'
      BY <1>3, <1>5, <2>1, <3>1, <3>2 DEF KnownOK, Identified
    <3> QED
      BY <2>2, <2>3, <3>3
  <2>5. CASE b = a
    <3>1. order'[a].body = order[a].body /\ order'[a].status = status
      BY <1>3
    <3>2. a \in known' <=> a \in known \/ (order[a].body = "ORDER" /\ status \in StatusesWithId)
      BY <1>6, <1>7, <3>1
    <3>3. Identified(a) => Identified(a)'
      BY <1>3, <1>11 DEF Identified
    <3>4. ASSUME order[a].body = "ORDER", status \in StatusesWithId
          PROVE  Identified(a)'
      <4>1. CASE k = OrderKey(a)
        BY <1>3, <1>4, <3>4, <4>1 DEF Identified
      <4>2. CASE k = <<a, "CANCEL">>
        BY <1>10, <2>1, <2>5, <3>3, <4>2 DEF RowsOK, KnownOK
      <4>3. CASE k = <<a, "SET_LEVERAGE">>
        BY <1>10, <2>1, <2>5, <3>4, <4>3 DEF RowsOK
      <4> QED
        BY <1>10, <4>1, <4>2, <4>3
    <3>5. ASSUME a \in Openings, attempt'[OrderKey(a)].state = "RECONCILED"
          PROVE  a \in known'
      <4>1. CASE k = OrderKey(a)
        BY <1>3, <1>4, <1>10, <2>1, <2>5, <3>2, <3>5, <4>1 DEF RowsOK
      <4>2. CASE k # OrderKey(a)
        BY <1>3, <1>11, <2>1, <2>5, <3>2, <3>5, <4>2 DEF KnownOK
      <4> QED
        BY <4>1, <4>2
    <3>6. KnownOK(a)'
      BY <1>3, <1>5, <2>1, <2>5, <3>1, <3>2, <3>3, <3>4, <3>5 DEF KnownOK
    <3> QED
      BY <2>2, <2>3, <2>5, <3>6
  <2> QED
    BY <2>4, <2>5
<1> QED
  BY <1>8, <1>9, <1>12 DEF JInv

\* A transition whose call then ends.
LEMMA TransitionAndLeaveKeeps ==
    ASSUME RInv, NEW w \in Writers, WriterActs(w), Transition(w),
           writer[w].pc \in {"record", "settle", "doubt"}, Leave(w)
    PROVE  JInv'
<1>1. Moved(w, Unassigned("idle")) /\ "idle" \in Idle
  BY DEF Leave, Moved, Idle
<1> QED
  BY <1>1, UnassignedCall, TransitionKeeps

\* The steps that write a transition, or find that they may not.
LEMMA RecordKeeps ==
    ASSUME RInv, NEW w \in Writers, WriterActs(w), Record(w)
    PROVE  JInv'
<1>1. writer[w].pc = "record" /\ writer[w] \in WriterStates
  BY DEF Record, At, RInv, IInv, WriterTypeOK
<1>2. CASE Transition(w)
           /\ IF NewState(w) \in Unresolved
              THEN Moved(w, [writer[w] EXCEPT !.pc = "get", !.state = NewState(w), !.fenced = FALSE])
              ELSE Leave(w)
  <2>1. CASE NewState(w) \in Unresolved
    <3>1. PICK s : s = [writer[w] EXCEPT !.pc = "get", !.state = NewState(w), !.fenced = FALSE]
      OBVIOUS
    <3>2. s.pc = "get"
      BY <1>1, <3>1 DEF WriterStates
    <3>3. CallOK(s)
      BY <3>2 DEF CallOK
    <3> QED
      BY <1>1, <1>2, <2>1, <3>1, <3>3, TransitionKeeps
  <2>2. CASE NewState(w) \notin Unresolved
    BY <1>1, <1>2, <2>2, TransitionAndLeaveKeeps
  <2> QED
    BY <2>1, <2>2
<1>3. CASE Leave(w) /\ UNCHANGED <<journal, lease, exchange, posts, faults>>
  BY <1>3, LeaveKeeps
<1> QED
  BY <1>2, <1>3 DEF Record, Moved

LEMMA SettleKeeps ==
    ASSUME RInv, NEW w \in Writers, WriterActs(w), Settle(w)
    PROVE  JInv'
<1> DEFINE k == writer[w].key
<1>1. /\ writer[w].pc = "settle"
      /\ writer[w] \in WriterStates
      /\ CallOK(writer[w])
  BY DEF Settle, At, RInv, JInv, IInv, WriterTypeOK
<1>2. CASE Transition(w) /\ writer[w].event = "ACKNOWLEDGE"
           /\ Moved(w, [writer[w] EXCEPT !.pc = IF k[2] = "CLOSE" THEN "position" ELSE "settle",
                        !.event = "RECONCILE", !.state = "ACKNOWLEDGED", !.fenced = FALSE])
  <2>1. PICK pc : pc = IF k[2] = "CLOSE" THEN "position" ELSE "settle"
    OBVIOUS
  <2>2. PICK s : s = [writer[w] EXCEPT !.pc = pc, !.event = "RECONCILE",
                                       !.state = "ACKNOWLEDGED", !.fenced = FALSE]
    OBVIOUS
  <2>3. s.pc \in {"position", "settle"} /\ s.seen = writer[w].seen /\ s.key = k
    BY <1>1, <2>1, <2>2 DEF WriterStates
  <2>4. CallOK(s)
    BY <1>1, <2>3 DEF CallOK
  <2>5. Moved(w, s)
    BY <1>2, <2>1, <2>2
  <2> QED
    BY <1>1, <1>2, <2>4, <2>5, TransitionKeeps
<1>3. CASE Transition(w)
           /\ Moved(w, [writer[w] EXCEPT !.pc = "prepare", !.key = OrderKey(k[1]), !.fenced = FALSE])
  <2>1. PICK j : j = OrderKey(k[1])
    OBVIOUS
  <2>2. PICK s : s = [writer[w] EXCEPT !.pc = "prepare", !.key = j, !.fenced = FALSE]
    OBVIOUS
  <2>3. s.pc = "prepare" /\ s.key = j /\ j[2] # "CANCEL"
    BY <1>1, <2>1, <2>2 DEF WriterStates, OrderKey
  <2>4. CallOK(s)
    BY <2>3 DEF CallOK
  <2>5. Moved(w, s)
    BY <1>3, <2>1, <2>2
  <2> QED
    BY <1>1, <1>3, <2>4, <2>5, TransitionKeeps
<1>4. CASE Transition(w) /\ Leave(w)
  BY <1>1, <1>4, TransitionAndLeaveKeeps
<1>5. CASE InDoubt(w) /\ UNCHANGED <<journal, lease, exchange, posts, faults>>
  BY <1>5, DecideKeeps DEF InDoubt
<1>6. CASE Leave(w) /\ UNCHANGED <<journal, lease, exchange, posts, faults>>
  BY <1>6, LeaveKeeps
<1>7. \/ Transition(w) /\ writer[w].event = "ACKNOWLEDGE"
         /\ Moved(w, [writer[w] EXCEPT !.pc = IF k[2] = "CLOSE" THEN "position" ELSE "settle",
                      !.event = "RECONCILE", !.state = "ACKNOWLEDGED", !.fenced = FALSE])
      \/ Transition(w)
         /\ Moved(w, [writer[w] EXCEPT !.pc = "prepare", !.key = OrderKey(k[1]), !.fenced = FALSE])
      \/ Transition(w) /\ Leave(w)
      \/ (InDoubt(w) \/ Leave(w)) /\ UNCHANGED <<journal, lease, exchange, posts, faults>>
  BY Zenon DEF Settle, Moved
<1> QED
  BY <1>2, <1>3, <1>4, <1>5, <1>6, <1>7

LEMMA DoubtKeeps ==
    ASSUME RInv, NEW w \in Writers, WriterActs(w), Doubt(w)
    PROVE  JInv'
<1>1. writer[w].pc = "doubt" /\ Leave(w)
  BY DEF Doubt, At
<1>2. CASE Transition(w)
  BY <1>1, <1>2, TransitionAndLeaveKeeps
<1>3. CASE UNCHANGED <<journal, lease, exchange, posts, faults>>
  BY <1>1, <1>3, LeaveKeeps
<1> QED
  BY <1>2, <1>3 DEF Doubt

\* A cancellation is prepared only for an order that the current run offered.
LEMMA PrepareKeeps ==
    ASSUME RInv, NEW w \in Writers, WriterActs(w), Prepare(w)
    PROVE  JInv'
<1>1. PICK k \in Keys, a \in Approvals : k = writer[w].key /\ a = k[1]
  BY OrderKeys DEF RInv, IInv, WriterTypeOK, WriterStates
<1>2. /\ writer[w] \in WriterStates /\ CallOK(writer[w]) /\ writer[w].pc = "prepare"
      /\ attempt \in [Keys -> Rows] /\ order \in [Approvals -> OrderRows]
  BY DEF Prepare, At, RInv, JInv, IInv, WriterTypeOK
<1>3. /\ CanPrepare(k)
      /\ attempt' = [attempt EXCEPT ![k] = [state |-> "PREPARED", gen |-> writer[w].gen]]
      /\ order' = IF k[2] = "CANCEL" THEN order
                  ELSE [order EXCEPT ![a] =
                    [status |-> "PREPARED", body |-> IF IsOrder(k) THEN "ORDER" ELSE "LEVERAGE"]]
      /\ UNCHANGED <<market, answer>>
  BY <1>1 DEF Prepare, exchange
<1>4. PICK s : s = [writer[w] EXCEPT !.pc = "post", !.state = "PREPARED", !.fenced = FALSE]
  OBVIOUS
<1>5. Moved(w, s) /\ s.pc = "post"
  BY <1>2, <1>4 DEF Prepare, Moved, WriterStates
<1>6. CallOK(s)
  BY <1>5 DEF CallOK
<1>7. \A j \in Keys : attempt'[j].state = IF j = k THEN "PREPARED" ELSE attempt[j].state
  BY <1>2, <1>3
<1>8. ASSUME NEW b \in Approvals
      PROVE  /\ k[2] = "CANCEL" \/ b # a => order'[b] = order[b]
             /\ k[2] # "CANCEL" /\ b = a =>
                    /\ order'[b].status = "PREPARED"
                    /\ order'[b].body = IF IsOrder(k) THEN "ORDER" ELSE "LEVERAGE"
  BY <1>2, <1>3
<1>9. UNCHANGED <<run, bridged, past, gate>>
  BY DEF WriterActs
<1>10. known' = known
  <2>1. known' = known \cup
            {b \in Approvals : order'[b].body = "ORDER" /\ order'[b].status \in StatusesWithId}
    BY DEF WriterActs
  <2>2. ASSUME NEW b \in Approvals, order'[b].body = "ORDER", order'[b].status \in StatusesWithId
        PROVE  b \in known
    <3>1. order'[b] = order[b]
      BY <1>8, <2>2 DEF StatusesWithId, TerminalOrderStates
    <3> QED
      BY <2>2, <3>1 DEF RInv, JInv, KnownOK
  <2> QED
    BY <2>1, <2>2
<1>11. RunTypes'
  BY <1>9, <1>10 DEF RInv, JInv, RunTypes
<1>12. ASSUME NEW v \in Writers
      PROVE  CallOK(writer[v])' /\ RunOK(run[v])'
  <2>1. writer'[v] = IF v = w THEN s ELSE writer[v]
    BY <1>5 DEF RInv, IInv, WriterTypeOK, Moved
  <2>2. CallOK(writer[v]) /\ RunOK(run[v])
    BY DEF RInv, JInv
  <2>3. CallOK(writer[v])'
    BY <1>3, <1>6, <2>1, <2>2 DEF CallOK
  <2>4. RunOK(run[v])'
    BY <1>3, <1>9, <2>2 DEF RunOK
  <2> QED
    BY <2>3, <2>4
<1>13. /\ k = OrderKey(a) \/ k = <<a, "CANCEL">> \/ k = <<a, "SET_LEVERAGE">>
       /\ k[2] = "CANCEL" <=> k = <<a, "CANCEL">>
       /\ k[2] \in Operations
  <2>1. k[2] \in Operations /\ k = <<a, k[2]>>
    BY <1>1 DEF Keys
  <2>2. k = OrderKey(a) \/ k[2] \in {"CANCEL", "SET_LEVERAGE"}
    BY <1>1, <2>1, OrderKeys DEF IsOrder, Operations
  <2> QED
    BY <2>1, <2>2
<1>14. ASSUME NEW b \in Approvals
       PROVE  /\ <<b, "CANCEL">> \in Keys /\ <<b, "SET_LEVERAGE">> \in Keys /\ OrderKey(b) \in Keys
              /\ OrderKey(b)[2] \in {"PLACE", "CLOSE"} /\ IsOrder(OrderKey(b))
              /\ b # a => k # OrderKey(b) /\ k # <<b, "CANCEL">> /\ k # <<b, "SET_LEVERAGE">>
  BY <1>1, OrderKeys DEF OrderKey
<1>15. k = <<a, "CANCEL">> => a \in known
  <2>1. ASSUME k = <<a, "CANCEL">>
        PROVE  a \in known
    <3>1. a \notin Reductions
      BY <1>1, <1>2, <2>1 DEF CallOK
    <3>2. IsRecovery(k)
      BY <2>1, <3>1 DEF IsRecovery, RecoveryKey
    <3>3. attempt[k].state = "ABSENT" /\ attempt'[k].state = "PREPARED"
      BY <1>3, <1>7 DEF CanPrepare
    <3>4. a \in gate.offered
      BY <2>1, <3>2, <3>3 DEF WriterActs, GateAllows, Current
    <3> QED
      BY <3>1, <3>4 DEF RInv, JInv, KnownOK
  <2> QED
    BY <2>1
<1>16. k # <<a, "CANCEL">> =>
          /\ attempt[OrderKey(a)].state = "ABSENT"
          /\ order[a].status = "ABSENT"
             \/ order[a].body = IF IsOrder(k) THEN "ORDER" ELSE "LEVERAGE"
  BY <1>1, <1>3, <1>13 DEF CanPrepare, TriggerAllows, OrderKey
<1>17. ASSUME NEW b \in Approvals
       PROVE  RowsOK(b)' /\ StatusOK(b)' /\ KnownOK(b)'
  <2>1. RowsOK(b) /\ StatusOK(b) /\ KnownOK(b)
    BY DEF RInv, JInv
  <2>2. CASE b # a
    <3>1. order'[b] = order[b]
      BY <1>8, <2>2
    <3>2. RowsOK(b)'
      BY <1>7, <1>10, <1>14, <2>1, <2>2, <3>1 DEF RowsOK
    <3>3. StatusOK(b)'
      <4>1. \A j \in Keys : j[1] = b => attempt'[j].state = attempt[j].state
        BY <1>1, <1>7, <2>2
      <4> QED
        BY <1>7, <1>14, <2>1, <2>2, <3>1, <4>1 DEF StatusOK
    <3>4. KnownOK(b)'
      BY <1>3, <1>7, <1>9, <1>10, <1>14, <2>1, <2>2, <3>1 DEF KnownOK, Identified
    <3> QED
      BY <3>2, <3>3, <3>4
  <2>3. CASE b = a /\ k = <<a, "CANCEL">>
    <3>1. order'[a] = order[a] /\ k # OrderKey(a) /\ k # <<a, "SET_LEVERAGE">>
      <4>1. k[2] = "CANCEL"
        BY <1>13, <2>3
      <4> QED
        BY <1>8, <1>14, <2>3, <4>1
    <3>2. RowsOK(a)'
      BY <1>7, <1>10, <1>14, <1>15, <2>1, <2>3, <3>1 DEF RowsOK
    <3>3. StatusOK(a)'
      <4>1. \A j \in Keys : attempt[j].state = "REJECTED" => attempt'[j].state = "REJECTED"
        BY <1>3, <1>7 DEF CanPrepare
      <4> QED
        BY <1>7, <1>14, <2>1, <2>3, <3>1, <4>1 DEF StatusOK
    <3>4. KnownOK(a)'
      BY <1>3, <1>7, <1>9, <1>10, <1>14, <2>1, <2>3, <3>1 DEF KnownOK, Identified
    <3> QED
      BY <2>3, <3>2, <3>3, <3>4
  <2>4. CASE b = a /\ k # <<a, "CANCEL">>
    <3>1. k[2] # "CANCEL"
      BY <1>13, <2>4
    <3>2. /\ order'[a].status = "PREPARED"
          /\ order'[a].body = IF IsOrder(k) THEN "ORDER" ELSE "LEVERAGE"
      BY <1>8, <3>1
    <3>3. IsOrder(k) <=> k = OrderKey(a)
      <4>1. k = OrderKey(a) => IsOrder(k)
        BY <1>14
      <4>2. IsOrder(k) => k = OrderKey(a)
        BY <1>1, OrderKeys
      <4> QED
        BY <4>1, <4>2
    <3>4. a \notin known
      BY <1>16, <2>1, <2>4 DEF KnownOK, Identified
    <3>5. RowsOK(a)'
      BY <1>7, <1>10, <1>13, <1>14, <1>16, <2>1, <2>4, <3>2, <3>3, <3>4 DEF RowsOK
    <3>6. StatusOK(a)'
      BY <1>7, <1>13, <1>14, <1>16, <2>4, <3>2 DEF StatusOK
    <3>7. KnownOK(a)'
      BY <1>3, <1>7, <1>9, <1>10, <1>13, <1>14, <1>16, <2>1, <2>4, <3>2, <3>4
         DEF KnownOK, StatusesWithId, TerminalOrderStates
    <3> QED
      BY <2>4, <3>5, <3>6, <3>7
  <2> QED
    BY <2>2, <2>3, <2>4
<1> QED
  BY <1>11, <1>12, <1>17 DEF JInv

-----------------------------------------------------------------------------
(* The exchange, the lease and time.                                       *)

\* Orders arrive and end; what a run has read of those that ended stays true.
LEMMA MarketStep ==
    ASSUME RInv, UNCHANGED <<attempt, order, writer, rvars>>,
           \A a \in Approvals : market'[a] # market[a] =>
                /\ market[a] \notin TerminalOrderStates /\ market'[a] # "NONE"
                /\ market'[a] = "live" => a \in Openings,
           \A k \in Keys : answer[k] = "ACK" => answer'[k] = "ACK",
           \A a \in Approvals : answer'[OrderKey(a)] = "ACK" => market'[a] # "NONE"
    PROVE  JInv'
<1>1. UNCHANGED <<run, known, bridged, past, gate>>
  BY DEF rvars
<1>2. RunTypes'
  BY <1>1 DEF RInv, JInv, RunTypes
<1>3. ASSUME NEW a \in Approvals
      PROVE  RowsOK(a)' /\ StatusOK(a)' /\ KnownOK(a)'
  <2>1. RowsOK(a) /\ StatusOK(a) /\ KnownOK(a)
    BY DEF RInv, JInv
  <2>2. RowsOK(a)'
    BY <1>1, <2>1 DEF RowsOK
  <2>3. StatusOK(a)'
    BY <2>1 DEF StatusOK
  <2>4. KnownOK(a)'
    BY <1>1, <2>1 DEF KnownOK, Identified
  <2> QED
    BY <2>2, <2>3, <2>4
<1>4. ASSUME NEW v \in Writers
      PROVE  CallOK(writer[v])' /\ RunOK(run[v])'
  <2>1. CallOK(writer[v]) /\ RunOK(run[v]) /\ writer[v].key \in Keys /\ run[v] \in Runs
    BY DEF RInv, JInv, IInv, WriterTypeOK, WriterStates, RunTypes
  <2>2. CallOK(writer[v])'
    BY <2>1 DEF CallOK
  <2>3. \A a \in Approvals : run[v].history[a] # "NONE" => run[v].history[a] \in TerminalOrderStates
    BY <2>1 DEF Runs
  <2>4. RunOK(run[v])'
    <3>1. \A a \in Approvals : run[v].history[a] # "NONE" => market'[a] = run[v].history[a]
      BY <2>1, <2>3 DEF RunOK
    <3>2. run[v].pending \subseteq Approvals
      BY <2>1 DEF Runs
    <3>3. \A a \in run[v].pending : market'[a] # "NONE" /\ a \in Openings
      BY <2>1, <3>2 DEF RunOK
    <3> QED
      BY <1>1, <2>1, <3>1, <3>3 DEF RunOK
  <2> QED
    BY <2>2, <2>4
<1> QED
  BY <1>2, <1>3, <1>4 DEF JInv

\* A request that arrives gets its first answer, and a placed order is an opening.
LEMMA ArrivalKeeps ==
    ASSUME RInv, NEW k \in Keys, ArriveAccepted(k) \/ ArriveRejected(k), UNCHANGED rvars
    PROVE  JInv'
<1>1. PICK reply : Arrive(k, reply) /\ reply = IF ArriveAccepted(k) THEN "ACK" ELSE "REJECT"
  BY DEF ArriveAccepted, ArriveRejected
<1>2. /\ k \in wire /\ answer' = [answer EXCEPT ![k] = reply]
      /\ UNCHANGED <<attempt, order, writer>>
  BY <1>1 DEF Arrive, journal
<1>3. /\ answer \in [Keys -> {"NONE", "ACK", "REJECT"}]
      /\ market \in [Approvals -> {"NONE", "live", "filled", "canceled"}]
      /\ k[1] \in Approvals /\ k[2] \in Operations
      /\ IsOrder(k) => k = OrderKey(k[1])
      /\ answer[k] = "NONE"
  BY <1>2, OrderKeys DEF RInv, IInv, WriterTypeOK, RowOK, Keys
<1>4. \A j \in Keys : answer'[j] = IF j = k THEN reply ELSE answer[j]
  BY <1>2, <1>3
<1>5. /\ \A a \in Approvals : market'[a] # market[a] =>
            /\ a = k[1] /\ market[a] = "NONE" /\ market'[a] # "NONE"
            /\ market'[a] = "live" => a \in Openings
      /\ IsOrder(k) /\ reply = "ACK" => market'[k[1]] # "NONE"
  <2>1. CASE ~ArriveAccepted(k)
    BY <1>1, <2>1 DEF ArriveRejected
  <2>2. CASE ArriveAccepted(k) /\ k[2] \in {"SET_LEVERAGE", "CANCEL"}
    <3>1. UNCHANGED market
      <4>1. CASE k[2] = "SET_LEVERAGE"
        BY <2>2, <4>1 DEF ArriveAccepted
      <4>2. CASE k[2] = "CANCEL"
        BY <2>2, <4>2 DEF ArriveAccepted
      <4> QED
        BY <2>2, <4>1, <4>2
    <3> QED
      BY <2>2, <3>1 DEF IsOrder
  <2>3. CASE ArriveAccepted(k) /\ k[2] = "PLACE"
    <3>1. market[k[1]] = "NONE" /\ market' = [market EXCEPT ![k[1]] = "live"]
      BY <2>3 DEF ArriveAccepted
    <3>2. k = OrderKey(k[1])
      BY <1>3, <2>3 DEF IsOrder
    <3>3. k[1] \notin Closings
      BY <2>3, <3>2 DEF OrderKey
    <3>4. k[1] \in Openings
      BY <1>3, <3>3 DEF Approvals
    <3> QED
      BY <1>3, <3>1, <3>4
  <2>4. CASE ArriveAccepted(k) /\ k[2] = "CLOSE"
    <3>1. PICK st \in TerminalOrderStates : market' = [market EXCEPT ![k[1]] = st]
      BY <2>4 DEF ArriveAccepted
    <3>2. market[k[1]] = "NONE"
      BY <2>4 DEF ArriveAccepted
    <3> QED
      BY <1>3, <3>1, <3>2 DEF TerminalOrderStates
  <2> QED
    BY <1>3, <2>1, <2>2, <2>3, <2>4 DEF Operations
<1>6. \A a \in Approvals : answer'[OrderKey(a)] = "ACK" => market'[a] # "NONE"
  <2>1. ASSUME NEW a \in Approvals, answer'[OrderKey(a)] = "ACK"
        PROVE  market'[a] # "NONE"
    <3>1. OrderKey(a) \in Keys /\ IsOrder(OrderKey(a)) /\ OrderKey(a)[1] = a
      BY OrderKeys
    <3>2. CASE OrderKey(a) = k
      BY <1>4, <1>5, <2>1, <3>1, <3>2
    <3>3. CASE OrderKey(a) # k
      <4>1. market[a] # "NONE"
        BY <1>4, <2>1, <3>1, <3>3 DEF RInv, JInv, KnownOK
      <4> QED
        BY <1>5, <4>1
    <3> QED
      BY <3>2, <3>3
  <2> QED
    BY <2>1
<1>7. \A j \in Keys : answer[j] = "ACK" => answer'[j] = "ACK"
  BY <1>3, <1>4
<1>8. "NONE" \notin TerminalOrderStates
  BY DEF TerminalOrderStates
<1> QED
  BY <1>2, <1>5, <1>6, <1>7, <1>8, MarketStep

\* An order ends once.
LEMMA OrderEndsKeeps ==
    ASSUME RInv, NEW a \in Approvals, OrderEnds(a), UNCHANGED rvars
    PROVE  JInv'
<1>1. PICK st \in TerminalOrderStates : market' = [market EXCEPT ![a] = st]
  BY DEF OrderEnds
<1>2. /\ market[a] = "live" /\ UNCHANGED <<attempt, order, writer, answer>>
      /\ market \in [Approvals -> {"NONE", "live", "filled", "canceled"}]
  BY DEF OrderEnds, journal, RInv, IInv, WriterTypeOK
<1>3. \A b \in Approvals : market'[b] # market[b] =>
            /\ market[b] \notin TerminalOrderStates /\ market'[b] # "NONE"
            /\ market'[b] # "live"
  BY <1>1, <1>2 DEF TerminalOrderStates
<1>4. \A b \in Approvals : answer'[OrderKey(b)] = "ACK" => market'[b] # "NONE"
  BY <1>2, <1>3 DEF RInv, JInv, KnownOK
<1> QED
  BY <1>2, <1>3, <1>4, MarketStep

\* Leases, grants and the protection of a position concern no row.
LEMMA SurroundingsStep ==
    ASSUME RInv, Surroundings
    PROVE  JInv'
<1>1. UNCHANGED rvars
  BY DEF Surroundings
<1>2. ASSUME NEW k \in Keys, ArriveAccepted(k) \/ ArriveRejected(k)
      PROVE  JInv'
  BY <1>1, <1>2, ArrivalKeeps
<1>3. ASSUME NEW a \in Approvals, OrderEnds(a)
      PROVE  JInv'
  BY <1>1, <1>3, OrderEndsKeeps
<1>4. CASE \/ \E w \in Writers : KeepLease(w)
           \/ AbandonedLeaseLapses \/ HeldLeaseLapses \/ ProtectionTriggers
           \/ \E a \in Approvals : ExpireGrant(a)
  <2>1. UNCHANGED <<attempt, order, writer, market, answer>>
    BY <1>4 DEF KeepLease, AbandonedLeaseLapses, HeldLeaseLapses, ProtectionTriggers, ExpireGrant,
                journal, exchange
  <2>2. \A a \in Approvals : answer'[OrderKey(a)] = "ACK" => market'[a] # "NONE"
    BY <2>1 DEF RInv, JInv, KnownOK
  <2> QED
    BY <1>1, <2>1, <2>2, MarketStep
<1> QED
  BY <1>2, <1>3, <1>4 DEF Surroundings

-----------------------------------------------------------------------------
(* Every step.                                                             *)

\* A step inside a call.
LEMMA WriterActsStep ==
    ASSUME RInv, NEW w \in Writers, WriterActs(w)
    PROVE  JInv'
<1>1. WriterStep(w)
  BY DEF WriterActs
<1>2. CASE Fence(w) \/ AdoptUnresolved(w)
  BY <1>2, AdoptingKeeps
<1>3. CASE NothingUnresolved(w) \/ ReadLeverage(w) \/ Refused(w) \/ CleanupClose(w)
  BY <1>3, PreparingKeeps
<1>4. CASE Prepare(w)
  BY <1>4, PrepareKeeps
<1>5. CASE Post(w) \/ Answered(w) \/ OutcomeUnknown(w) \/ GetFails(w) \/ ReadPosition(w)
  BY <1>5, RequestingKeeps
<1>6. CASE Get(w)
  BY <1>6, GetKeeps
<1>7. CASE Record(w)
  BY <1>7, RecordKeeps
<1>8. CASE Settle(w)
  BY <1>8, SettleKeeps
<1>9. CASE Doubt(w)
  BY <1>9, DoubtKeeps
<1> QED
  BY <1>1, <1>2, <1>3, <1>4, <1>5, <1>6, <1>7, <1>8, <1>9 DEF WriterStep

\* The invariant holds before any run.
LEMMA InitRInv == ReconciliationInit => RInv
<1> SUFFICES ASSUME ReconciliationInit PROVE RInv
  OBVIOUS
<1>1. Init /\ IInv
  BY InitIInv DEF ReconciliationInit
<1>2. RunTypes
  BY RestingRun DEF ReconciliationInit, RunTypes
<1>3. ASSUME NEW a \in Approvals
      PROVE  RowsOK(a) /\ StatusOK(a) /\ KnownOK(a)
  <2>1. /\ OrderKey(a) \in Keys /\ <<a, "CANCEL">> \in Keys /\ <<a, "SET_LEVERAGE">> \in Keys
    BY OrderKeys
  <2>2. /\ \A k \in Keys : attempt[k].state = "ABSENT" /\ answer[k] = "NONE"
        /\ order[a].status = "ABSENT" /\ order[a].body = "NONE" /\ market[a] = "NONE"
        /\ known = {} /\ gate.offered = {}
    BY <1>1 DEF Init, ReconciliationInit
  <2>3. RowsOK(a) /\ StatusOK(a)
    BY <2>1, <2>2 DEF RowsOK, StatusOK
  <2>4. KnownOK(a)
    BY <2>1, <2>2 DEF KnownOK
  <2> QED
    BY <2>3, <2>4
<1>4. ASSUME NEW w \in Writers
      PROVE  CallOK(writer[w]) /\ RunOK(run[w])
  <2>1. writer[w] = Unassigned("idle") /\ "idle" \in Idle /\ run[w] = Resting
    BY <1>1 DEF Init, ReconciliationInit, Idle
  <2> QED
    BY <2>1, UnassignedCall, RestingRun
<1> QED
  BY <1>1, <1>2, <1>3, <1>4 DEF RInv, JInv

\* The invariant is inductive.
LEMMA NextRInv == RInv /\ [ReconciliationNext]_allVars => RInv'
<1> SUFFICES ASSUME RInv, [ReconciliationNext]_allVars PROVE RInv'
  OBVIOUS
<1>1. [Next]_vars
  BY StepImplements DEF allVars
<1>2. IInv'
  BY <1>1, NextIInv DEF RInv
<1>3. ASSUME NEW w \in Writers,
             StartRun(w) \/ ReadPending(w) \/ ReadHistory(w) \/ ReadPositionOfRun(w)
      PROVE  JInv'
  BY <1>3, StartRunStep, ReadPendingStep, ReadHistoryStep, ReadPositionOfRunStep
<1>4. ASSUME NEW w \in Writers, ReadFails(w) \/ CommitRefused(w) \/ EndCycle(w)
      PROVE  JInv'
  BY <1>4, AbandonedRunStep
<1>5. ASSUME NEW w \in Writers, Commit(w)
      PROVE  JInv'
  BY <1>5, CommitStep
<1>6. ASSUME NEW w \in Writers, CallForUnresolved(w) \/ CallForGrant(w) \/ CallForPlace(w)
      PROVE  JInv'
  BY <1>6, CallForUnresolvedStep, CallForGrantStep, CallForPlaceStep
<1>7. ASSUME NEW w \in Writers, WriterActs(w)
      PROVE  JInv'
  BY <1>7, WriterActsStep
<1>8. ASSUME NEW w \in Writers, ProcessStops(w) \/ ProcessStarts(w)
      PROVE  JInv'
  BY <1>8, StopOrStartStep
<1>9. ASSUME Surroundings
      PROVE  JInv'
  BY <1>9, SurroundingsStep
<1>10. ASSUME UNCHANGED allVars
       PROVE  JInv'
  <2>1. UNCHANGED <<attempt, order, writer, market, answer, rvars>>
    BY <1>10 DEF allVars, vars, journal, exchange
  <2>2. \A a \in Approvals : answer'[OrderKey(a)] = "ACK" => market'[a] # "NONE"
    BY <2>1 DEF RInv, JInv, KnownOK
  <2> QED
    BY <2>1, <2>2, MarketStep
<1>11. JInv'
  BY <1>3, <1>4, <1>5, <1>6, <1>7, <1>8, <1>9, <1>10 DEF ReconciliationNext
<1> QED
  BY <1>2, <1>11 DEF RInv

\* The invariant holds in every reachable state of the runtime.
THEOREM RuntimeInvariance == ReconciliationSpec => []RInv
<1>1. ReconciliationInit => RInv
  BY InitRInv
<1>2. RInv /\ [ReconciliationNext]_allVars => RInv'
  BY NextRInv
<1> QED
  BY <1>1, <1>2, PTL DEF ReconciliationSpec

-----------------------------------------------------------------------------
(* The theorems.                                                           *)

\* Every row, run and gate keeps its type, for every constant.
THEOREM ReconciliationTypeCorrect == ReconciliationSpec => []ReconciliationTypeOK
<1>1. RInv => ReconciliationTypeOK
  BY DEF RInv, JInv, IInv, RunTypes, ReconciliationTypeOK
<1> QED
  BY <1>1, RuntimeInvariance, PTL

\* Whatever its cycles read and repair, every step of the runtime is one that the
\* order writer expects, or leaves the writer alone.
THEOREM RuntimeImplementsOrderWriter == ReconciliationSpec => ImplementsOrderWriter
<1>1. RInv /\ [ReconciliationNext]_allVars => [Next]_vars
  BY StepImplements DEF allVars
<1> QED
  BY <1>1, RuntimeInvariance, PTL DEF ReconciliationSpec, ImplementsOrderWriter

\* So that what is proved of the order writer holds of the runtime.
THEOREM RuntimeIsSafe ==
    ReconciliationSpec => [](/\ PostedAtMostOnce /\ PlacementIsTracked /\ OneOrderInFlight
                             /\ GenerationIsExclusive /\ ReconciledIsReal)
<1>1. ReconciliationInit => Init
  BY DEF ReconciliationInit
<1>2. ReconciliationSpec => Spec
  BY <1>1, RuntimeImplementsOrderWriter, PTL DEF ReconciliationSpec, ImplementsOrderWriter, Spec
<1> QED
  BY <1>2, NeverReposted, OrdersAreTracked, SingleOrderInFlight, GenerationsAreExclusive,
     ReconciliationIsReal, PTL

\* An open order that a run does not find in the journal is the writer's own: had its
\* attempt been resolved, the transition that did it had written the order's id.
THEOREM UnknownOrdersAreUnresolved == ReconciliationSpec => []UnknownIsUnresolved
<1>1. RInv => UnknownIsUnresolved
  <2>1. ASSUME RInv, NEW w \in Writers, NEW a \in Unknown(w)
        PROVE  Pending(OrderKey(a))
    <3>1. a \in Approvals /\ Seen(w, a) = "live" /\ a \notin known
      BY DEF Unknown
    <3>2. RunOK(run[w]) /\ run[w] \in Runs /\ KnownOK(a) /\ RowOK(OrderKey(a))
      BY <2>1, <3>1, OrderKeys DEF RInv, JInv, IInv, RunTypes
    <3>3. a \in run[w].pending
      BY <3>1, <3>2 DEF Seen, Runs, TerminalOrderStates
    <3>4. market[a] # "NONE" /\ a \in Openings
      BY <3>2, <3>3 DEF RunOK
    <3>5. attempt[OrderKey(a)].state # "RECONCILED"
      BY <3>1, <3>2, <3>4 DEF KnownOK
    <3>6. /\ OrderKey(a) \in Keys /\ IsOrder(OrderKey(a)) /\ OrderKey(a)[1] = a
          /\ attempt[OrderKey(a)].state \in WriteStates \cup {"ABSENT"}
      BY <2>1, <3>1, OrderKeys DEF RInv, IInv, WriterTypeOK, Rows
    <3>7. answer[OrderKey(a)] = "ACK" /\ posts[OrderKey(a)] = 1
      BY <3>2, <3>4, <3>6 DEF RowOK
    <3>8. attempt[OrderKey(a)].state \notin {"ABSENT", "REJECTED"}
      BY <3>2, <3>7 DEF RowOK
    <3> QED
      BY <3>5, <3>6, <3>8, Names DEF Pending
  <2> QED
    BY <2>1 DEF UnknownIsUnresolved
<1> QED
  BY <1>1, RuntimeInvariance, PTL

-----------------------------------------------------------------------------
(* What holds when one process reads, repairs and calls.                   *)

OneProcess == \A v, w \in Writers : v = w

\* A process reads, and decides, between its calls.
BetweenCalls(w) == run[w].at \in {"read", "commit", "decide", "start"} => writer[w].pc \in Idle

\* What the reads of a run tell of the orders whose ids are known: nothing changes
\* their rows while the run goes on.
ReadsOK(r) ==
    /\ \A a \in r.floor : market[a] \in TerminalOrderStates
    /\ r.at = "commit" => r.done = 3
    /\ r.at \in {"read", "commit"} /\ r.done >= 1 =>
        /\ \A a \in known \ r.pending : market[a] \in TerminalOrderStates
        /\ \A a \in r.pending : order[a].status \notin TerminalOrderStates
    /\ r.at \in {"read", "commit"} /\ r.done >= 2 =>
        \A a \in known \ r.pending : r.history[a] # "NONE" \/ a \in r.floor

\* The orders that may yet be canceled in this cycle have not ended.
OffersOK(w) ==
    /\ run[w].at = "decide" =>
        \A a \in gate.offered \ Reductions : order[a].status \notin TerminalOrderStates
    /\ run[w].at = "grants" =>
        /\ \A a \in run[w].todo \ Reductions : order[a].status \notin TerminalOrderStates
        /\ writer[w].pc \notin Idle => writer[w].key[1] \notin run[w].todo
    /\ /\ writer[w].pc \in {"unresolved", "prepare"} /\ writer[w].key[2] = "CANCEL"
       /\ attempt[writer[w].key].state = "ABSENT"
       => order[writer[w].key[1]].status \notin TerminalOrderStates

SInv ==
    /\ \A w \in Writers : BetweenCalls(w) /\ ReadsOK(run[w]) /\ OffersOK(w)
    /\ \A a \in past : market[a] \in TerminalOrderStates

\* Where a step of a call may lead: its order stays the same, no other row changes,
\* and a cancellation is on its way to be prepared only if it was before.
Footprint(w, s) ==
    /\ Moved(w, s)
    /\ s.pc \notin Idle => s.key[1] = writer[w].key[1]
    /\ s.pc \in {"unresolved", "prepare"} /\ s.key[2] = "CANCEL" =>
           /\ writer[w].pc \in {"unresolved", "prepare"} /\ s.key = writer[w].key
           /\ order' = order
    /\ \A b \in Approvals \ {writer[w].key[1]} : order'[b] = order[b]
    /\ \A k \in Keys : attempt'[k].state = "ABSENT" => attempt[k].state = "ABSENT"
    /\ UNCHANGED market

\* A cancellation comes to be only where it is prepared.
Prepares(w) ==
    \A k \in Keys : attempt[k].state = "ABSENT" /\ attempt'[k].state # "ABSENT" =>
        writer[w].pc = "prepare" /\ k = writer[w].key

\* A step that keeps the states of all rows.
LEMMA KeepingFootprint ==
    ASSUME RInv, NEW w \in Writers, NEW s, Moved(w, s),
           \A k \in Keys : attempt'[k].state = attempt[k].state, UNCHANGED <<order, market>>,
           s.pc \notin Idle => s.key[1] = writer[w].key[1],
           s.pc \in {"unresolved", "prepare"} /\ s.key[2] = "CANCEL" =>
               writer[w].pc \in {"unresolved", "prepare"} /\ s.key = writer[w].key
    PROVE  (\E t : Footprint(w, t)) /\ Prepares(w)
<1>1. Footprint(w, s)
  BY DEF Footprint
<1>2. Prepares(w)
  BY DEF Prepares
<1> QED
  BY <1>1, <1>2

\* The call ends.
LEMMA LeavingFootprint ==
    ASSUME RInv, NEW w \in Writers, Leave(w), UNCHANGED <<order, market>>,
           \A k \in Keys : attempt'[k].state = attempt[k].state
    PROVE  (\E t : Footprint(w, t)) /\ Prepares(w)
<1>1. PICK s : s = Unassigned("idle")
  OBVIOUS
<1>2. Moved(w, s) /\ s.pc \in Idle /\ s.pc \notin {"unresolved", "prepare"}
  BY <1>1 DEF Leave, Moved, Unassigned, Idle
<1> QED
  BY <1>2, KeepingFootprint

\* What is to be recorded is decided.
LEMMA DecidingFootprint ==
    ASSUME RInv, NEW w \in Writers, NEW pc, NEW event, Decide(w, pc, event),
           pc \notin {"unresolved", "prepare"},
           UNCHANGED <<journal, lease, exchange, posts, faults>>
    PROVE  (\E t : Footprint(w, t)) /\ Prepares(w)
<1>1. PICK s : s = [writer[w] EXCEPT !.pc = pc, !.event = event, !.fenced = FALSE]
  OBVIOUS
<1>2. writer[w] \in WriterStates
  BY DEF RInv, IInv, WriterTypeOK
<1>3. s.pc = pc /\ s.key = writer[w].key
  BY <1>1, <1>2 DEF WriterStates
<1>4. Moved(w, s) /\ UNCHANGED <<attempt, order, market>>
  BY <1>1 DEF Decide, Moved, journal, exchange
<1> QED
  BY <1>3, <1>4, KeepingFootprint

\* A transition resolves an attempt that was there.
LEMMA TransitionFootprint ==
    ASSUME RInv, NEW w \in Writers, Transition(w), NEW s, Moved(w, s),
           s.pc \notin Idle => s.key[1] = writer[w].key[1],
           s.pc \in {"unresolved", "prepare"} => s.key[2] # "CANCEL"
    PROVE  (\E t : Footprint(w, t)) /\ Prepares(w)
<1>1. PICK k \in Keys : k = writer[w].key
  BY DEF RInv, IInv, WriterTypeOK, WriterStates
<1>2. /\ attempt[k].state # "ABSENT"
      /\ \A j \in Keys : attempt'[j].state = IF j = k THEN NewState(w) ELSE attempt[j].state
      /\ NewState(w) # "ABSENT"
      /\ UNCHANGED market
  BY <1>1, TransitionFacts DEF Unresolved
<1>3. /\ order \in [Approvals -> OrderRows] /\ k[1] \in Approvals
      /\ order' = [order EXCEPT ![k[1]].status = NewStatus(w)]
  BY <1>1, OrderKeys DEF Transition, RInv, IInv, WriterTypeOK
<1>4. \A b \in Approvals \ {k[1]} : order'[b] = order[b]
  BY <1>3
<1>5. Footprint(w, s)
  BY <1>1, <1>2, <1>4 DEF Footprint
<1>6. Prepares(w)
  BY <1>2 DEF Prepares
<1> QED
  BY <1>5, <1>6

\* Every step of a call has a footprint.
LEMMA CallFootprint ==
    ASSUME RInv, NEW w \in Writers, WriterStep(w)
    PROVE  (\E s : Footprint(w, s)) /\ Prepares(w) /\ writer[w].pc \notin Idle
<1> DEFINE Goal == (\E s : Footprint(w, s)) /\ Prepares(w)
<1> HIDE DEF Goal
<1>1. writer[w] \in WriterStates /\ writer[w].key \in Keys
  BY DEF RInv, IInv, WriterTypeOK, WriterStates
<1>2. ASSUME Fence(w)
      PROVE  Goal
  <2>1. UNCHANGED <<journal, lease, exchange, posts, faults>>
    BY <1>2 DEF Fence
  <2>2. CASE Moved(w, [writer[w] EXCEPT !.fenced = TRUE])
    <3>1. PICK s : s = [writer[w] EXCEPT !.fenced = TRUE]
      OBVIOUS
    <3>2. s.pc = writer[w].pc /\ s.key = writer[w].key
      BY <1>1, <3>1 DEF WriterStates
    <3>3. Moved(w, s) /\ UNCHANGED <<attempt, order, market>>
      BY <2>1, <2>2, <3>1 DEF journal, exchange
    <3> QED
      BY <3>2, <3>3, KeepingFootprint DEF Goal
  <2>3. CASE InDoubt(w)
    BY <2>1, <2>3, DecidingFootprint DEF InDoubt, Goal
  <2>4. CASE Leave(w)
    BY <2>1, <2>4, LeavingFootprint DEF journal, exchange, Goal
  <2> QED
    BY <1>2, <2>2, <2>3, <2>4, Zenon DEF Fence, Moved
<1>3. ASSUME AdoptUnresolved(w)
      PROVE  Goal
  <2>1. PICK k \in Keys :
        /\ attempt' = [attempt EXCEPT ![k].gen = writer[w].gen]
        /\ IF ~MayRecover(w, k) THEN Leave(w)
           ELSE Moved(w, [writer[w] EXCEPT
                    !.pc = IF /\ writer[w].goal = "PLACE"
                              /\ k[2] = "CLOSE"
                              /\ attempt[k].state = "RESIDUAL_CLOSE_REQUIRED"
                           THEN "cleanup" ELSE "get",
                    !.key = k, !.goal = "RECONCILE", !.state = attempt[k].state,
                    !.fenced = FALSE])
    BY <1>3 DEF AdoptUnresolved, Moved
  <2>2. \A j \in Keys : attempt'[j].state = attempt[j].state
    BY <1>1, <2>1, Rebound DEF RInv, WriterStates
  <2>3. UNCHANGED <<order, market>>
    BY <1>3 DEF AdoptUnresolved, exchange
  <2>4. CASE ~MayRecover(w, k)
    BY <2>1, <2>2, <2>3, <2>4, LeavingFootprint DEF Goal
  <2>5. CASE MayRecover(w, k)
    <3>1. PICK pc : pc = IF /\ writer[w].goal = "PLACE"
                            /\ k[2] = "CLOSE"
                            /\ attempt[k].state = "RESIDUAL_CLOSE_REQUIRED"
                         THEN "cleanup" ELSE "get"
      OBVIOUS
    <3>2. PICK s : s = [writer[w] EXCEPT !.pc = pc, !.key = k, !.goal = "RECONCILE",
                                         !.state = attempt[k].state, !.fenced = FALSE]
      OBVIOUS
    <3>3. s.pc \in {"cleanup", "get"} /\ s.key = k
      BY <1>1, <3>1, <3>2 DEF WriterStates
    <3>4. k[1] = writer[w].key[1]
      BY <2>5 DEF MayRecover
    <3>5. Moved(w, s)
      BY <2>1, <2>5, <3>1, <3>2
    <3> QED
      BY <2>2, <2>3, <3>3, <3>4, <3>5, KeepingFootprint DEF Goal
  <2> QED
    BY <2>4, <2>5
<1>4. ASSUME NothingUnresolved(w)
      PROVE  Goal
  <2>1. PICK pc : pc = IF writer[w].goal = "PLACE" THEN "leverage" ELSE "prepare"
    OBVIOUS
  <2>2. PICK s : s = [writer[w] EXCEPT !.pc = pc, !.fenced = FALSE]
    OBVIOUS
  <2>3. s.key = writer[w].key /\ writer[w].pc = "unresolved"
    BY <1>1, <1>4, <2>2 DEF WriterStates, NothingUnresolved, At
  <2>4. Moved(w, s) /\ UNCHANGED <<attempt, order, market>>
    BY <1>4, <2>1, <2>2 DEF NothingUnresolved, Goto, Moved, journal, exchange
  <2> QED
    BY <2>3, <2>4, KeepingFootprint DEF Goal
<1>5. ASSUME ReadLeverage(w)
      PROVE  Goal
  <2>1. PICK key : key = IF writer[w].key[1] \in leverage THEN OrderKey(writer[w].key[1])
                         ELSE <<writer[w].key[1], "SET_LEVERAGE">>
    OBVIOUS
  <2>2. PICK s : s = [writer[w] EXCEPT !.pc = "prepare", !.key = key]
    OBVIOUS
  <2>3. s.pc = "prepare" /\ s.key = key
    BY <1>1, <2>2 DEF WriterStates
  <2>4. key[1] = writer[w].key[1] /\ key[2] # "CANCEL"
    BY <2>1 DEF OrderKey
  <2>5. Moved(w, s) /\ UNCHANGED <<attempt, order, market>>
    BY <1>5, <2>1, <2>2 DEF ReadLeverage, Moved, journal, exchange
  <2> QED
    BY <2>3, <2>4, <2>5, KeepingFootprint DEF Goal
<1>6. ASSUME Prepare(w)
      PROVE  Goal
  <2>1. PICK k \in Keys : k = writer[w].key
    BY <1>1
  <2>2. /\ writer[w].pc = "prepare"
        /\ attempt' = [attempt EXCEPT ![k] = [state |-> "PREPARED", gen |-> writer[w].gen]]
        /\ order' = IF k[2] = "CANCEL" THEN order
                    ELSE [order EXCEPT ![k[1]] =
                      [status |-> "PREPARED", body |-> IF IsOrder(k) THEN "ORDER" ELSE "LEVERAGE"]]
        /\ UNCHANGED market
    BY <1>6, <2>1 DEF Prepare, At, exchange
  <2>3. PICK s : s = [writer[w] EXCEPT !.pc = "post", !.state = "PREPARED", !.fenced = FALSE]
    OBVIOUS
  <2>4. Moved(w, s) /\ s.pc = "post" /\ s.key = k
    BY <1>1, <1>6, <2>1, <2>3 DEF Prepare, Moved, WriterStates
  <2>5. \A j \in Keys : attempt'[j].state = IF j = k THEN "PREPARED" ELSE attempt[j].state
    BY <2>2 DEF RInv, IInv, WriterTypeOK
  <2>6. \A b \in Approvals \ {k[1]} : order'[b] = order[b]
    BY <2>2 DEF RInv, IInv, WriterTypeOK
  <2>7. Footprint(w, s)
    BY <2>1, <2>2, <2>4, <2>5, <2>6 DEF Footprint
  <2>8. Prepares(w)
    BY <2>1, <2>2, <2>5 DEF Prepares
  <2> QED
    BY <2>7, <2>8 DEF Goal
<1>7. ASSUME Refused(w)
      PROVE  Goal
  BY <1>7, LeavingFootprint DEF Refused, journal, exchange, Goal
<1>8. ASSUME CleanupClose(w)
      PROVE  Goal
  <2>1. PICK s : s = [writer[w] EXCEPT !.pc = "record", !.event = "RECONCILE",
                                       !.seen = "position_zero"]
    OBVIOUS
  <2>2. s.pc = "record" /\ s.key = writer[w].key
    BY <1>1, <2>1 DEF WriterStates
  <2>3. Moved(w, s) /\ UNCHANGED <<attempt, order, market>>
    BY <1>8, <2>1 DEF CleanupClose, Moved, journal, exchange
  <2> QED
    BY <2>2, <2>3, KeepingFootprint DEF Goal
<1>9. ASSUME Post(w)
      PROVE  Goal
  <2>1. PICK s : s = [writer[w] EXCEPT !.pc = "sent", !.fenced = FALSE]
    OBVIOUS
  <2>2. s.pc = "sent" /\ s.key = writer[w].key
    BY <1>1, <2>1 DEF WriterStates
  <2>3. Moved(w, s) /\ UNCHANGED <<attempt, order, market>>
    BY <1>9, <2>1 DEF Post, Goto, Moved, journal
  <2> QED
    BY <2>2, <2>3, KeepingFootprint DEF Goal
<1>10. ASSUME Answered(w) \/ OutcomeUnknown(w) \/ GetFails(w) \/ ReadPosition(w)
       PROVE  Goal
  BY <1>10, DecidingFootprint DEF Answered, OutcomeUnknown, GetFails, InDoubt, ReadPosition, Goal
<1>11. ASSUME Get(w)
       PROVE  Goal
  <2>1. PICK pc \in {"settle", "position"} : \E event, seen :
            Moved(w, [writer[w] EXCEPT !.pc = pc, !.event = event, !.seen = seen])
    BY <1>11 DEF Get, Moved
  <2>2. PICK event, seen :
            Moved(w, [writer[w] EXCEPT !.pc = pc, !.event = event, !.seen = seen])
    BY <2>1
  <2>3. PICK s : s = [writer[w] EXCEPT !.pc = pc, !.event = event, !.seen = seen]
    OBVIOUS
  <2>4. s.pc \in {"settle", "position"} /\ s.key = writer[w].key
    BY <1>1, <2>3 DEF WriterStates
  <2>5. Moved(w, s) /\ UNCHANGED <<attempt, order, market>>
    BY <1>11, <2>2, <2>3 DEF Get, journal, exchange
  <2> QED
    BY <2>4, <2>5, KeepingFootprint DEF Goal
<1>12. ASSUME Record(w) \/ Settle(w) \/ Doubt(w)
       PROVE  Goal
  <2>1. \/ Transition(w) /\ \E s : Moved(w, s) /\ s.pc \notin {"unresolved", "prepare"}
                                 /\ s.key = writer[w].key
        \/ Transition(w) /\ Moved(w, [writer[w] EXCEPT !.pc = "prepare",
                                        !.key = OrderKey(writer[w].key[1]), !.fenced = FALSE])
        \/ Transition(w) /\ Leave(w)
        \/ (InDoubt(w) \/ Leave(w)) /\ UNCHANGED <<journal, lease, exchange, posts, faults>>
    <3>1. CASE Record(w)
      <4>1. PICK s : s = [writer[w] EXCEPT !.pc = "get", !.state = NewState(w), !.fenced = FALSE]
        OBVIOUS
      <4>2. s.pc = "get" /\ s.key = writer[w].key
        BY <1>1, <4>1 DEF WriterStates
      <4>3. \/ Transition(w) /\ Moved(w, s)
            \/ Transition(w) /\ Leave(w)
            \/ Leave(w) /\ UNCHANGED <<journal, lease, exchange, posts, faults>>
        BY <3>1, <4>1 DEF Record, Moved
      <4> QED
        BY <4>2, <4>3
    <3>2. CASE Settle(w)
      <4>1. PICK pc : pc = IF writer[w].key[2] = "CLOSE" THEN "position" ELSE "settle"
        OBVIOUS
      <4>2. PICK s : s = [writer[w] EXCEPT !.pc = pc, !.event = "RECONCILE",
                                           !.state = "ACKNOWLEDGED", !.fenced = FALSE]
        OBVIOUS
      <4>3. s.pc \in {"position", "settle"} /\ s.key = writer[w].key
        BY <1>1, <4>1, <4>2 DEF WriterStates
      <4>4. \/ Transition(w) /\ Moved(w, [writer[w] EXCEPT
                    !.pc = IF writer[w].key[2] = "CLOSE" THEN "position" ELSE "settle",
                    !.event = "RECONCILE", !.state = "ACKNOWLEDGED", !.fenced = FALSE])
            \/ Transition(w) /\ Moved(w, [writer[w] EXCEPT !.pc = "prepare",
                                            !.key = OrderKey(writer[w].key[1]), !.fenced = FALSE])
            \/ Transition(w) /\ Leave(w)
            \/ (InDoubt(w) \/ Leave(w)) /\ UNCHANGED <<journal, lease, exchange, posts, faults>>
        BY <3>2, Zenon DEF Settle, Moved
      <4> QED
        BY <4>1, <4>2, <4>3, <4>4
    <3>3. CASE Doubt(w)
      BY <3>3, Zenon DEF Doubt
    <3> QED
      BY <1>12, <3>1, <3>2, <3>3
  <2>2. ASSUME Transition(w), NEW s, Moved(w, s), s.pc \notin {"unresolved", "prepare"},
               s.key = writer[w].key
        PROVE  Goal
    BY <2>2, TransitionFootprint DEF Goal
  <2>3. ASSUME Transition(w), Moved(w, [writer[w] EXCEPT !.pc = "prepare",
                                          !.key = OrderKey(writer[w].key[1]), !.fenced = FALSE])
        PROVE  Goal
    <3>1. PICK key : key = OrderKey(writer[w].key[1])
      OBVIOUS
    <3>2. PICK s : s = [writer[w] EXCEPT !.pc = "prepare", !.key = key, !.fenced = FALSE]
      OBVIOUS
    <3>3. s.key = key /\ key[1] = writer[w].key[1] /\ key[2] # "CANCEL"
      BY <1>1, <3>1, <3>2 DEF WriterStates, OrderKey
    <3>4. Moved(w, s)
      BY <2>3, <3>1, <3>2
    <3> QED
      BY <2>3, <3>3, <3>4, TransitionFootprint DEF Goal
  <2>4. ASSUME Transition(w), Leave(w)
        PROVE  Goal
    <3>1. PICK s : s = Unassigned("idle")
      OBVIOUS
    <3>2. Moved(w, s) /\ s.pc \in Idle /\ s.pc \notin {"unresolved", "prepare"}
      BY <2>4, <3>1 DEF Leave, Moved, Unassigned, Idle
    <3> QED
      BY <2>4, <3>2, TransitionFootprint DEF Goal
  <2>5. ASSUME InDoubt(w) \/ Leave(w), UNCHANGED <<journal, lease, exchange, posts, faults>>
        PROVE  Goal
    BY <2>5, LeavingFootprint, DecidingFootprint DEF InDoubt, journal, exchange, Goal
  <2> QED
    BY <2>1, <2>2, <2>3, <2>4, <2>5
<1>13. writer[w].pc \notin Idle
  BY DEF WriterStep, Fence, AdoptUnresolved, NothingUnresolved, ReadLeverage, Prepare, Refused,
         CleanupClose, Post, Answered, OutcomeUnknown, Record, Get, GetFails, ReadPosition, Settle,
         Doubt, At, Idle, FencedPhases
<1>14. Goal
  BY <1>2, <1>3, <1>4, <1>5, <1>6, <1>7, <1>8, <1>9, <1>10, <1>11, <1>12 DEF WriterStep
<1> QED
  BY <1>13, <1>14 DEF Goal

\* With one process, a step keeps the invariant when it keeps that process's part.
LEMMA OneProcessStep ==
    ASSUME OneProcess, NEW w \in Writers,
           BetweenCalls(w)', ReadsOK(run[w])', OffersOK(w)',
           (\A a \in past : market[a] \in TerminalOrderStates)'
    PROVE  SInv'
<1>1. \A v \in Writers : v = w
  BY DEF OneProcess
<1> QED
  BY <1>1 DEF SInv

\* A step of a run on its way to the commit.
LEMMA ReadingStep ==
    ASSUME OneProcess, RInv, SInv, NEW w \in Writers, NEW r,
           r.at = "rest" \/ (r.at \in {"read", "commit"} /\ writer[w].pc \in Idle),
           ReadsOK(r), run' = [run EXCEPT ![w] = r], UNCHANGED <<vars, known, bridged, past, gate>>
    PROVE  SInv'
<1>1. UNCHANGED <<attempt, order, market, writer, known, past, gate>>
  BY DEF vars, journal, exchange
<1>2. run'[w] = r
  BY DEF RInv, JInv, RunTypes
<1>3. BetweenCalls(w)'
  BY <1>1, <1>2 DEF BetweenCalls
<1>4. ReadsOK(run[w])'
  BY <1>1, <1>2 DEF ReadsOK
<1>5. OffersOK(w)'
  BY <1>1, <1>2 DEF OffersOK, SInv
<1>6. (\A a \in past : market[a] \in TerminalOrderStates)'
  BY <1>1 DEF SInv
<1> QED
  BY <1>3, <1>4, <1>5, <1>6, OneProcessStep

\* No cycle, nothing read.
LEMMA RestingReads == ReadsOK(Resting) /\ Resting.at = "rest"
<1>1. Resting.floor = {} /\ Resting.at = "rest"
  BY DEF Resting
<1> QED
  BY <1>1 DEF ReadsOK

\* Nor when the cycle decides, or goes on with its grants.
LEMMA DecidingReads ==
    ASSUME NEW at \in Steps \ {"read", "commit"}, NEW todo, NEW r,
           r = [Resting EXCEPT !.at = at] \/ r = [Resting EXCEPT !.at = at, !.todo = todo]
    PROVE  ReadsOK(r)
<1>1. r.at = at /\ r.floor = {}
  BY DEF Resting
<1> QED
  BY <1>1 DEF ReadsOK

\* The floor of a run covers orders that have ended.
LEMMA StartRunReads ==
    ASSUME OneProcess, RInv, SInv, NEW w \in Writers, StartRun(w)
    PROVE  SInv'
<1>1. PICK floor, filled : floor = past /\ filled = {a \in Approvals : market[a] = "filled"}
  OBVIOUS
<1>2. PICK r : r = [Resting EXCEPT !.at = "read", !.floor = floor, !.filled = filled]
  OBVIOUS
<1>3. run' = [run EXCEPT ![w] = r] /\ UNCHANGED <<vars, known, bridged, past, gate>>
  BY <1>1, <1>2 DEF StartRun
<1>4. r.at = "read" /\ r.done = 0 /\ r.floor = past
  BY <1>1, <1>2 DEF Resting
<1>5. ReadsOK(r)
  BY <1>4 DEF ReadsOK, SInv
<1>6. writer[w].pc \in Idle
  BY DEF StartRun, Idle
<1> QED
  BY <1>3, <1>4, <1>5, <1>6, ReadingStep

\* Each read comes in its turn.
LEMMA ReadsInTurn ==
    ASSUME RInv, SInv, NEW w \in Writers
    PROVE  /\ Reading(w, "pending") => run[w].done = 0
           /\ Reading(w, "history") => run[w].done = 1
           /\ Reading(w, "position") => run[w].done = 2
           /\ run[w].at = "read" => run[w].done \in 0 .. 2 /\ writer[w].pc \in Idle
<1>1. RunOK(run[w]) /\ BetweenCalls(w)
  BY DEF RInv, JInv, SInv
<1>2. Reads[1] = "pending" /\ Reads[2] = "history" /\ Reads[3] = "position"
  BY DEF Reads
<1>3. run[w].at = "read" => run[w].done \in 0 .. 2
  BY <1>1 DEF RunOK
<1> QED
  BY <1>1, <1>2, <1>3 DEF Reading, BetweenCalls

\* A known order that is not open has ended; the row of an open one says so.
LEMMA ReadPendingReads ==
    ASSUME OneProcess, RInv, SInv, NEW w \in Writers, ReadPending(w)
    PROVE  SInv'
<1>1. PICK pending : pending = {a \in Approvals : market[a] = "live"}
  OBVIOUS
<1>2. PICK r : r = [Advanced(w) EXCEPT !.pending = pending]
  OBVIOUS
<1>3. /\ run[w].at = "read" /\ run[w].done = 0 /\ writer[w].pc \in Idle
      /\ run' = [run EXCEPT ![w] = r] /\ UNCHANGED <<vars, known, bridged, past, gate>>
  BY <1>1, <1>2, ReadsInTurn DEF ReadPending, Reading
<1>4. r.at = "read" /\ r.done = 1 /\ r.floor = run[w].floor /\ r.pending = pending
  BY <1>1, <1>2, <1>3, AdvancedRun DEF Runs
<1>5. ASSUME NEW a \in known \ pending
      PROVE  market[a] \in TerminalOrderStates
  <2>1. a \in Approvals /\ KnownOK(a) /\ market[a] \in {"NONE", "live", "filled", "canceled"}
    BY DEF RInv, JInv, IInv, RunTypes, WriterTypeOK
  <2> QED
    BY <1>1, <2>1 DEF KnownOK, Identified, TerminalOrderStates
<1>6. ASSUME NEW a \in pending
      PROVE  order[a].status \notin TerminalOrderStates
  BY <1>1 DEF RInv, IInv, Truthful, TerminalOrderStates
<1>7. ReadsOK(r)
  BY <1>4, <1>5, <1>6 DEF ReadsOK, SInv
<1> QED
  BY <1>3, <1>4, <1>7, ReadingStep

\* An order that had ended before is in the history, or ended before the floor.
LEMMA ReadHistoryReads ==
    ASSUME OneProcess, RInv, SInv, NEW w \in Writers, ReadHistory(w)
    PROVE  SInv'
<1>1. PICK history :
        history = [a \in Approvals |->
                    IF market[a] \in TerminalOrderStates /\ a \notin run[w].floor
                    THEN market[a] ELSE "NONE"]
  OBVIOUS
<1>2. PICK r : r = [Advanced(w) EXCEPT !.history = history]
  OBVIOUS
<1>3. /\ run[w].at = "read" /\ run[w].done = 1 /\ writer[w].pc \in Idle
      /\ run' = [run EXCEPT ![w] = r] /\ UNCHANGED <<vars, known, bridged, past, gate>>
  BY <1>1, <1>2, ReadsInTurn DEF ReadHistory, Reading
<1>4. /\ r.at = "read" /\ r.done = 2 /\ r.floor = run[w].floor /\ r.pending = run[w].pending
      /\ r.history = history
  BY <1>2, <1>3, AdvancedRun DEF Runs
<1>5. ReadsOK(run[w]) /\ known \subseteq Approvals
  BY DEF SInv, RInv, JInv, RunTypes
<1>6. ASSUME NEW a \in known \ run[w].pending
      PROVE  market[a] \in TerminalOrderStates /\ (history[a] # "NONE" \/ a \in run[w].floor)
  BY <1>1, <1>3, <1>5 DEF ReadsOK, TerminalOrderStates
<1>7. ReadsOK(r)
  BY <1>3, <1>4, <1>5, <1>6 DEF ReadsOK
<1> QED
  BY <1>3, <1>4, <1>7, ReadingStep

\* The position says nothing of orders.
LEMMA ReadPositionReads ==
    ASSUME OneProcess, RInv, SInv, NEW w \in Writers, ReadPositionOfRun(w)
    PROVE  SInv'
<1>1. PICK r : r = [Advanced(w) EXCEPT !.flat = ~position]
  OBVIOUS
<1>2. /\ run[w].at = "read" /\ run[w].done = 2 /\ writer[w].pc \in Idle
      /\ run' = [run EXCEPT ![w] = r] /\ UNCHANGED <<vars, known, bridged, past, gate>>
  BY <1>1, ReadsInTurn DEF ReadPositionOfRun, Reading
<1>3. /\ r.at = "commit" /\ r.done = 3 /\ r.floor = run[w].floor /\ r.pending = run[w].pending
      /\ r.history = run[w].history
  BY <1>1, <1>2, AdvancedRun DEF Runs
<1>4. ReadsOK(r)
  BY <1>2, <1>3 DEF ReadsOK, SInv
<1> QED
  BY <1>2, <1>3, <1>4, ReadingStep

\* A run that fails, is refused or has nothing to do.
LEMMA AbandonedRunReads ==
    ASSUME OneProcess, RInv, SInv, NEW w \in Writers,
           ReadFails(w) \/ CommitRefused(w) \/ EndCycle(w)
    PROVE  SInv'
<1>1. run' = [run EXCEPT ![w] = Resting] /\ UNCHANGED <<vars, known, bridged, past, gate>>
  BY DEF ReadFails, CommitRefused, EndCycle, ThenRest
<1>2. ReadsOK(Resting) /\ Resting.at = "rest"
  BY RestingReads
<1> QED
  BY <1>1, <1>2, ReadingStep

\* A commit repairs no row of an order that it offers to cancel, but to "live".
LEMMA CommitReads ==
    ASSUME OneProcess, RInv, SInv, NEW w \in Writers, Commit(w)
    PROVE  SInv'
<1>1. PICK made \in RepairsMade(w), offered \in Offers(w) :
        /\ order' = [a \in Approvals |->
                IF a \in made THEN [order[a] EXCEPT !.status = Seen(w, a)] ELSE order[a]]
        /\ gate' = [status |-> IF Drifted(w) THEN "DRIFTED" ELSE "RECONCILED",
                    offered |-> offered]
  BY DEF Commit
<1>2. /\ run[w].at = "commit"
      /\ UNCHANGED <<attempt, market, writer, known>>
      /\ past' \subseteq {a \in Approvals : market[a] \in TerminalOrderStates}
  BY DEF Commit, exchange
<1>3. PICK at : /\ at = IF ~At(w, "down") THEN "decide" ELSE IF Drifted(w) THEN "rest" ELSE "start"
                /\ run' = [run EXCEPT ![w] = [Resting EXCEPT !.at = at]]
  BY DEF Commit
<1>4. PICK r : r = [Resting EXCEPT !.at = at]
  OBVIOUS
<1>5. at \in {"decide", "rest", "start"} /\ at \in Steps \ {"read", "commit"}
  BY <1>3 DEF Steps
<1>6. run'[w] = r /\ r.at = at /\ r.floor = {}
  BY <1>3, <1>4 DEF RInv, JInv, RunTypes, Resting
<1>7. writer[w].pc \in Idle
  BY <1>2 DEF SInv, BetweenCalls
<1>8. BetweenCalls(w)'
  BY <1>2, <1>7 DEF BetweenCalls
<1>9. ReadsOK(run[w])'
  BY <1>5, <1>6 DEF ReadsOK
<1>10. ASSUME NEW a \in offered \ Reductions
       PROVE  order'[a].status \notin TerminalOrderStates
  <2>1. a \in known /\ a \in Approvals /\ Seen(w, a) = "live"
    BY DEF Offers, RInv, JInv, RunTypes
  <2>2. order[a] \in OrderRows
    BY <2>1 DEF RInv, IInv, WriterTypeOK
  <2>3. CASE a \in made
    <3>1. order'[a].status = "live"
      BY <1>1, <2>1, <2>2, <2>3 DEF OrderRows
    <3> QED
      BY <3>1 DEF TerminalOrderStates
  <2>4. CASE a \notin made
    <3>1. order'[a] = order[a]
      BY <1>1, <2>1, <2>4
    <3>2. order[a].status = "live" \/ order[a].status \in Unresolved
      BY <2>1, <2>4 DEF Repairs, RepairsMade
    <3> QED
      BY <3>1, <3>2 DEF TerminalOrderStates, Unresolved
  <2> QED
    BY <2>3, <2>4
<1>11. gate'.offered = offered
  BY <1>1
<1>12. writer'[w].pc \notin {"unresolved", "prepare"}
  BY <1>2, <1>7 DEF Idle
<1>13. OffersOK(w)'
  BY <1>5, <1>6, <1>10, <1>11, <1>12 DEF OffersOK
<1>14. (\A a \in past : market[a] \in TerminalOrderStates)'
  BY <1>2
<1> QED
  BY <1>8, <1>9, <1>13, <1>14, OneProcessStep

\* A call begins: its order is none that the cycle still has to recover, and if it is
\* to cancel, its row is not final.
LEMMA CallReads ==
    ASSUME OneProcess, RInv, SInv, NEW w \in Writers, NEW s, Moved(w, s),
           UNCHANGED <<order, market, past>>,
           NEW r, ReadsOK(r), r.at \in {"rest", "grants"}, run' = [run EXCEPT ![w] = r],
           r.at = "grants" =>
                /\ \A a \in r.todo \ Reductions : order[a].status \notin TerminalOrderStates
                /\ s.key[1] \notin r.todo,
           s.pc \in {"unresolved", "prepare"} /\ s.key[2] = "CANCEL"
                /\ attempt'[s.key].state = "ABSENT"
                => order[s.key[1]].status \notin TerminalOrderStates
    PROVE  SInv'
<1>1. writer'[w] = s /\ run'[w] = r
  BY DEF Moved, RInv, JInv, RunTypes, IInv, WriterTypeOK
<1>2. BetweenCalls(w)'
  BY <1>1 DEF BetweenCalls
<1>3. ReadsOK(run[w])'
  BY <1>1 DEF ReadsOK
<1>4. OffersOK(w)'
  BY <1>1 DEF OffersOK
<1>5. (\A a \in past : market[a] \in TerminalOrderStates)'
  BY DEF SInv
<1> QED
  BY <1>2, <1>3, <1>4, <1>5, OneProcessStep

\* The call for what is unresolved cancels nothing anew.
LEMMA CallForUnresolvedReads ==
    ASSUME OneProcess, RInv, SInv, NEW w \in Writers, CallForUnresolved(w)
    PROVE  SInv'
<1>1. /\ run' = [run EXCEPT ![w] = Resting] /\ UNCHANGED past
      /\ ReadsOK(Resting) /\ Resting.at = "rest"
  BY RestingReads DEF CallForUnresolved, ThenRest
<1>2. ASSUME ClaimUnresolved(w)
      PROVE  SInv'
  <2>1. PICK k \in Keys :
        writer' = [writer EXCEPT ![w] = [Unassigned("get") EXCEPT
                        !.key = k, !.goal = "RECONCILE", !.gen = Acquired(w).gen,
                        !.state = attempt[k].state]]
    BY <1>2 DEF ClaimUnresolved
  <2>2. PICK s : s = [Unassigned("get") EXCEPT
                        !.key = k, !.goal = "RECONCILE", !.gen = Acquired(w).gen,
                        !.state = attempt[k].state]
    OBVIOUS
  <2>3. Moved(w, s) /\ s.pc = "get"
    BY <2>1, <2>2 DEF Moved, Unassigned
  <2>4. UNCHANGED <<order, market>>
    BY <1>2 DEF ClaimUnresolved, exchange
  <2> QED
    BY <1>1, <2>3, <2>4, CallReads
<1>3. ASSUME NEW a \in Approvals, Pending(RecoveryKey(a)), AcquireForRecovery(w, a)
      PROVE  SInv'
  <2>1. PICK s : s = [Unassigned("unresolved") EXCEPT
                        !.key = RecoveryKey(a), !.goal = "RECOVER", !.gen = Acquired(w).gen]
    OBVIOUS
  <2>2. Moved(w, s) /\ s.key = RecoveryKey(a)
    BY <1>3, <2>1 DEF AcquireForRecovery, Moved, Unassigned
  <2>3. UNCHANGED <<attempt, order, market>>
    BY <1>3 DEF AcquireForRecovery, journal, exchange
  <2>4. attempt[s.key].state # "ABSENT"
    BY <1>3, <2>2 DEF Pending, Unresolved
  <2> QED
    BY <1>1, <2>2, <2>3, <2>4, CallReads
<1> QED
  BY <1>2, <1>3 DEF CallForUnresolved

\* The call for a grant takes one that the last run offered.
LEMMA CallForGrantReads ==
    ASSUME OneProcess, RInv, SInv, NEW w \in Writers, CallForGrant(w)
    PROVE  SInv'
<1>1. PICK a \in ToRecover(w) :
        /\ AcquireForRecovery(w, a)
        /\ run' = [run EXCEPT ![w] = [Resting EXCEPT
                    !.at = IF ToRecover(w) = {a} THEN "rest" ELSE "grants",
                    !.todo = ToRecover(w) \ {a}]]
  BY DEF CallForGrant
<1>2. PICK at, todo : /\ at = IF ToRecover(w) = {a} THEN "rest" ELSE "grants"
                      /\ todo = ToRecover(w) \ {a}
  OBVIOUS
<1>3. PICK r : r = [Resting EXCEPT !.at = at, !.todo = todo]
  OBVIOUS
<1>4. at \in {"rest", "grants"} /\ at \in Steps \ {"read", "commit"}
  BY <1>2 DEF Steps
<1>5. r.at = at /\ r.todo = todo /\ ReadsOK(r) /\ run' = [run EXCEPT ![w] = r]
  <2>1. ReadsOK(r)
    BY <1>3, <1>4, DecidingReads
  <2> QED
    BY <1>1, <1>2, <1>3, <2>1 DEF Resting
<1>6. PICK s : s = [Unassigned("unresolved") EXCEPT
                      !.key = RecoveryKey(a), !.goal = "RECOVER", !.gen = Acquired(w).gen]
  OBVIOUS
<1>7. Moved(w, s) /\ s.key = RecoveryKey(a) /\ UNCHANGED <<attempt, order, market, past>>
  BY <1>1, <1>6 DEF CallForGrant, AcquireForRecovery, Moved, Unassigned, journal, exchange
<1>8. \A b \in ToRecover(w) \ Reductions : order[b].status \notin TerminalOrderStates
  BY DEF CallForGrant, ToRecover, Current, SInv, OffersOK
<1>9. s.key[1] = a /\ (s.key[2] = "CANCEL" => a \notin Reductions)
  BY <1>7 DEF RecoveryKey, OrderKey
<1> QED
  BY <1>1, <1>2, <1>4, <1>5, <1>7, <1>8, <1>9, CallReads

\* place() cancels nothing.
LEMMA CallForPlaceReads ==
    ASSUME OneProcess, RInv, SInv, NEW w \in Writers, CallForPlace(w)
    PROVE  SInv'
<1>1. PICK a \in Approvals : AcquireForPlace(w, a)
  BY DEF CallForPlace
<1>2. PICK s : s = [Unassigned("unresolved") EXCEPT
                    !.key = OrderKey(a), !.goal = "PLACE", !.gen = Acquired(w).gen]
  OBVIOUS
<1>3. s.key[2] # "CANCEL"
  BY <1>2 DEF Unassigned, OrderKey
<1>4. Moved(w, s) /\ UNCHANGED <<order, market, past>>
  BY <1>1, <1>2 DEF CallForPlace, AcquireForPlace, Moved, journal, exchange
<1>5. run' = [run EXCEPT ![w] = Resting] /\ ReadsOK(Resting) /\ Resting.at = "rest"
  BY RestingReads DEF CallForPlace, ThenRest
<1> QED
  BY <1>3, <1>4, <1>5, CallReads

\* A process that stops or starts has no call and no run.
LEMMA StopOrStartReads ==
    ASSUME OneProcess, RInv, SInv, NEW w \in Writers, ProcessStops(w) \/ ProcessStarts(w)
    PROVE  SInv'
<1>1. run' = [run EXCEPT ![w] = Resting] /\ ReadsOK(Resting) /\ Resting.at = "rest"
  BY RestingReads DEF ProcessStops, ProcessStarts, ThenRest
<1>2. PICK pc \in Idle : Moved(w, Unassigned(pc))
  BY DEF ProcessStops, ProcessStarts, Crash, Restart, Leave, Moved, Idle
<1>3. PICK s : s = Unassigned(pc)
  OBVIOUS
<1>4. Moved(w, s) /\ s.pc \notin {"unresolved", "prepare"}
  BY <1>2, <1>3 DEF Unassigned, Idle
<1>5. UNCHANGED <<order, market, past>>
  BY DEF ProcessStops, ProcessStarts, Crash, Restart, journal, exchange
<1> QED
  BY <1>1, <1>4, <1>5, CallReads

\* A step of a call touches one row, and that is not one the cycle still has to recover.
LEMMA WriterActsReads ==
    ASSUME OneProcess, RInv, SInv, NEW w \in Writers, WriterActs(w)
    PROVE  SInv'
<1>1. writer[w].pc \notin Idle /\ UNCHANGED <<run, past, gate>>
  BY CallFootprint DEF WriterActs
<1>2. PICK s : Footprint(w, s)
  BY CallFootprint DEF WriterActs
<1>3. writer'[w] = s /\ UNCHANGED market
  BY <1>2 DEF Footprint, Moved, RInv, IInv, WriterTypeOK
<1>4. run[w].at \notin {"read", "commit", "decide", "start"}
  BY <1>1 DEF SInv, BetweenCalls
<1>5. BetweenCalls(w)'
  BY <1>1, <1>4 DEF BetweenCalls
<1>6. ReadsOK(run[w])'
  BY <1>1, <1>3, <1>4 DEF ReadsOK, SInv
<1>7. run[w].at = "grants" =>
        /\ run[w].todo \subseteq Approvals /\ writer[w].key[1] \notin run[w].todo
        /\ \A a \in run[w].todo \ Reductions : order[a].status \notin TerminalOrderStates
  BY <1>1 DEF SInv, OffersOK, RInv, JInv, RunTypes, Runs
<1>8. \A b \in Approvals \ {writer[w].key[1]} : order'[b] = order[b]
  BY <1>2 DEF Footprint
<1>9. run[w].at = "grants" =>
        /\ s.pc \notin Idle => s.key[1] \notin run[w].todo
        /\ \A a \in run[w].todo \ Reductions : order'[a].status \notin TerminalOrderStates
  BY <1>2, <1>7, <1>8 DEF Footprint
<1>10. ASSUME s.pc \in {"unresolved", "prepare"}, s.key[2] = "CANCEL", attempt'[s.key].state = "ABSENT"
       PROVE  order'[s.key[1]].status \notin TerminalOrderStates
  <2>1. /\ writer[w].pc \in {"unresolved", "prepare"} /\ s.key = writer[w].key
        /\ order' = order
    BY <1>2, <1>10 DEF Footprint
  <2>2. writer[w].key \in Keys
    BY DEF RInv, IInv, WriterTypeOK, WriterStates
  <2>3. attempt[s.key].state = "ABSENT"
    BY <1>2, <1>10, <2>1, <2>2 DEF Footprint
  <2> QED
    BY <1>10, <2>1, <2>3 DEF SInv, OffersOK
<1>11. OffersOK(w)'
  BY <1>1, <1>3, <1>4, <1>9, <1>10 DEF OffersOK
<1>12. (\A a \in past : market[a] \in TerminalOrderStates)'
  BY <1>1, <1>3 DEF SInv
<1> QED
  BY <1>5, <1>6, <1>11, <1>12, OneProcessStep

\* An order that has ended stays so.
LEMMA EndedStays ==
    ASSUME IInv, Surroundings, NEW a \in Approvals, market[a] \in TerminalOrderStates
    PROVE  market'[a] = market[a]
<1>1. ASSUME NEW k \in Keys, ArriveAccepted(k)
      PROVE  market'[a] = market[a]
  <2>1. k[2] \in Operations /\ market \in [Approvals -> {"NONE", "live", "filled", "canceled"}]
    BY DEF Keys, IInv, WriterTypeOK
  <2>2. CASE k[2] = "SET_LEVERAGE" \/ k[2] = "CANCEL"
    BY <1>1, <2>2 DEF ArriveAccepted
  <2>3. CASE k[2] = "PLACE"
    BY <1>1, <2>1, <2>3 DEF ArriveAccepted, TerminalOrderStates
  <2>4. CASE k[2] = "CLOSE"
    BY <1>1, <2>1, <2>4 DEF ArriveAccepted, TerminalOrderStates
  <2> QED
    BY <2>1, <2>2, <2>3, <2>4 DEF Operations
<1>2. ASSUME NEW b \in Approvals, OrderEnds(b)
      PROVE  market'[a] = market[a]
  BY <1>2 DEF OrderEnds, TerminalOrderStates, IInv, WriterTypeOK
<1>3. CASE \/ \E w \in Writers : KeepLease(w)
           \/ AbandonedLeaseLapses \/ HeldLeaseLapses \/ ProtectionTriggers
           \/ \E b \in Approvals : ExpireGrant(b) \/ \E k \in Keys : ArriveRejected(k)
  BY <1>3 DEF KeepLease, AbandonedLeaseLapses, HeldLeaseLapses, ProtectionTriggers, ExpireGrant,
              ArriveRejected, journal, exchange
<1> QED
  BY <1>1, <1>2, <1>3 DEF Surroundings

\* The surroundings may end an order, and touch no row but its grant.
LEMMA SurroundingsReads ==
    ASSUME RInv, SInv, Surroundings
    PROVE  SInv'
<1>1. UNCHANGED <<run, known, past, gate>>
  BY DEF Surroundings, rvars
<1>2. UNCHANGED <<attempt, order, writer>>
  BY DEF Surroundings, KeepLease, AbandonedLeaseLapses, HeldLeaseLapses, ProtectionTriggers,
         ArriveAccepted, ArriveRejected, Arrive, ExpireGrant, OrderEnds, journal, exchange
<1>3. \A a \in Approvals : market[a] \in TerminalOrderStates => market'[a] = market[a]
  BY EndedStays DEF RInv
<1>4. ASSUME NEW w \in Writers
      PROVE  BetweenCalls(w)' /\ ReadsOK(run[w])' /\ OffersOK(w)'
  <2>1. BetweenCalls(w) /\ ReadsOK(run[w]) /\ OffersOK(w) /\ run[w] \in Runs
    BY DEF SInv, RInv, JInv, RunTypes
  <2>2. run[w].floor \subseteq Approvals /\ known \subseteq Approvals
    BY <2>1 DEF Runs, RInv, JInv, RunTypes
  <2>3. BetweenCalls(w)'
    BY <1>1, <1>2, <2>1 DEF BetweenCalls
  <2>4. ReadsOK(run[w])'
    BY <1>1, <1>2, <1>3, <2>1, <2>2 DEF ReadsOK
  <2>5. OffersOK(w)'
    BY <1>1, <1>2, <2>1 DEF OffersOK
  <2> QED
    BY <2>3, <2>4, <2>5
<1>5. (\A a \in past : market[a] \in TerminalOrderStates)'
  BY <1>1, <1>3 DEF SInv, RInv, JInv, RunTypes
<1> QED
  BY <1>4, <1>5 DEF SInv

\* Before any run nothing has been read, and nothing offered.
LEMMA InitSInv == ReconciliationInit => SInv
<1> SUFFICES ASSUME ReconciliationInit PROVE SInv
  OBVIOUS
<1>1. ASSUME NEW w \in Writers
      PROVE  BetweenCalls(w) /\ ReadsOK(run[w]) /\ OffersOK(w)
  <2>1. run[w] = Resting /\ writer[w] = Unassigned("idle")
    BY DEF ReconciliationInit, Init
  <2>2. run[w].at = "rest" /\ ReadsOK(run[w]) /\ writer[w].pc = "idle"
    BY <2>1, RestingReads DEF Unassigned
  <2> QED
    BY <2>2 DEF BetweenCalls, OffersOK
<1>2. past = {}
  BY DEF ReconciliationInit
<1> QED
  BY <1>1, <1>2 DEF SInv

\* Every step of the runtime keeps both invariants.
LEMMA NextSInv ==
    ASSUME OneProcess
    PROVE  RInv /\ SInv /\ [ReconciliationNext]_allVars => SInv'
<1> SUFFICES ASSUME RInv, SInv, [ReconciliationNext]_allVars
    PROVE  SInv'
  OBVIOUS
<1>1. ASSUME NEW w \in Writers,
             StartRun(w) \/ ReadPending(w) \/ ReadHistory(w) \/ ReadPositionOfRun(w)
      PROVE  SInv'
  BY <1>1, StartRunReads, ReadPendingReads, ReadHistoryReads, ReadPositionReads
<1>2. ASSUME NEW w \in Writers, ReadFails(w) \/ CommitRefused(w) \/ EndCycle(w)
      PROVE  SInv'
  BY <1>2, AbandonedRunReads
<1>3. ASSUME NEW w \in Writers, Commit(w)
      PROVE  SInv'
  BY <1>3, CommitReads
<1>4. ASSUME NEW w \in Writers, CallForUnresolved(w) \/ CallForGrant(w) \/ CallForPlace(w)
      PROVE  SInv'
  BY <1>4, CallForUnresolvedReads, CallForGrantReads, CallForPlaceReads
<1>5. ASSUME NEW w \in Writers, WriterActs(w)
      PROVE  SInv'
  BY <1>5, WriterActsReads
<1>6. ASSUME NEW w \in Writers, ProcessStops(w) \/ ProcessStarts(w)
      PROVE  SInv'
  BY <1>6, StopOrStartReads
<1>7. ASSUME Surroundings
      PROVE  SInv'
  BY <1>7, SurroundingsReads
<1>8. ASSUME UNCHANGED allVars
      PROVE  SInv'
  <2>1. UNCHANGED <<attempt, order, writer, market, run, known, past, gate>>
    BY <1>8 DEF allVars, vars, journal, exchange, rvars
  <2> QED
    BY <2>1 DEF SInv, BetweenCalls, ReadsOK, OffersOK
<1> QED
  BY <1>1, <1>2, <1>3, <1>4, <1>5, <1>6, <1>7, <1>8 DEF ReconciliationNext

\* With one process, both invariants hold in every reachable state.
THEOREM OneProcessInvariance ==
    ASSUME OneProcess
    PROVE  ReconciliationSpec => [](RInv /\ SInv)
<1>1. ReconciliationInit => RInv /\ SInv
  BY InitRInv, InitSInv
<1>2. RInv /\ SInv /\ [ReconciliationNext]_allVars => RInv' /\ SInv'
  BY NextRInv, NextSInv
<1> QED
  BY <1>1, <1>2, PTL DEF ReconciliationSpec

\* With one process, what a run finds missing at the exchange is only what ended
\* before its floor: an order that ends between two reads is in the second.
THEOREM MissingOrdersArePast ==
    ASSUME OneProcess
    PROVE  ReconciliationSpec => []MissingIsPast
<1>1. RInv /\ SInv => MissingIsPast
  <2>1. ASSUME RInv, SInv, NEW w \in Writers, run[w].at = "commit", NEW a \in Missing(w)
        PROVE  a \in run[w].floor
    <3>1. a \in known /\ Seen(w, a) = "NONE"
      BY DEF Missing
    <3>2. run[w].history[a] = "NONE" /\ a \notin run[w].pending
      BY <3>1 DEF Seen
    <3>3. ReadsOK(run[w])
      BY <2>1 DEF SInv
    <3> QED
      BY <2>1, <3>1, <3>2, <3>3 DEF ReadsOK
  <2> QED
    BY <2>1 DEF MissingIsPast
<1> QED
  BY <1>1, OneProcessInvariance, PTL

\* With one process, no cancellation is prepared for an order that a run has shown to
\* have ended: the grants that a cycle finds are those of the run it began with.
THEOREM CancellationsAreCurrent ==
    ASSUME OneProcess
    PROVE  ReconciliationSpec => CancelIsCurrent
<1>1. RInv /\ SInv /\ [ReconciliationNext]_allVars =>
        [\A a \in Approvals :
            attempt[<<a, "CANCEL">>].state = "ABSENT" /\ attempt'[<<a, "CANCEL">>].state = "PREPARED"
                => order[a].status \notin TerminalOrderStates]_allVars
  <2> SUFFICES ASSUME RInv, SInv, ReconciliationNext, NEW a \in Approvals,
                      attempt[<<a, "CANCEL">>].state = "ABSENT",
                      attempt'[<<a, "CANCEL">>].state = "PREPARED"
      PROVE  order[a].status \notin TerminalOrderStates
    OBVIOUS
  <2>1. <<a, "CANCEL">> \in Keys
    BY OrderKeys
  <2>2. ASSUME NEW w \in Writers, WriterActs(w)
        PROVE  order[a].status \notin TerminalOrderStates
    <3>1. writer[w].pc = "prepare" /\ writer[w].key = <<a, "CANCEL">>
      BY <2>1, <2>2, CallFootprint DEF WriterActs, Prepares
    <3> QED
      BY <3>1 DEF SInv, OffersOK
  <2>3. ASSUME NEW w \in Writers, ClaimUnresolved(w)
        PROVE  FALSE
    <3>1. PICK k \in Keys : attempt' = [attempt EXCEPT ![k].gen = Acquired(w).gen]
      BY <2>3 DEF ClaimUnresolved
    <3>2. Acquired(w).gen \in 0 .. MaxGeneration
      BY <2>3, Acquisition DEF ClaimUnresolved, RInv
    <3> QED
      BY <2>1, <3>1, <3>2, Rebound DEF RInv
  <2>4. ASSUME NEW w \in Writers, CallForUnresolved(w)
        PROVE  FALSE
    <3>1. ClaimUnresolved(w) \/ \E b \in Approvals : AcquireForRecovery(w, b)
      BY <2>4 DEF CallForUnresolved
    <3> QED
      BY <2>3, <3>1 DEF AcquireForRecovery, journal
  <2>5. ASSUME NEW w \in Writers,
               StartRun(w) \/ ReadPending(w) \/ ReadHistory(w) \/ ReadPositionOfRun(w) \/ ReadFails(w)
               \/ Commit(w) \/ CommitRefused(w) \/ EndCycle(w)
        PROVE  UNCHANGED attempt
    BY <2>5 DEF StartRun, ReadPending, ReadHistory, ReadPositionOfRun, ReadFails, Commit,
                CommitRefused, EndCycle, vars, journal
  <2>6. ASSUME NEW w \in Writers,
               CallForGrant(w) \/ CallForPlace(w) \/ ProcessStops(w) \/ ProcessStarts(w)
        PROVE  UNCHANGED attempt
    BY <2>6 DEF CallForGrant, CallForPlace, ProcessStops, ProcessStarts, AcquireForRecovery,
                AcquireForPlace, Crash, Restart, journal
  <2>7. ASSUME Surroundings
        PROVE  UNCHANGED attempt
    BY <2>7 DEF Surroundings, KeepLease, AbandonedLeaseLapses, HeldLeaseLapses, ProtectionTriggers,
                ArriveAccepted, ArriveRejected, Arrive, ExpireGrant, OrderEnds, journal
  <2> QED
    BY <2>2, <2>4, <2>5, <2>6, <2>7 DEF ReconciliationNext
<1> QED
  BY <1>1, OneProcessInvariance, PTL DEF ReconciliationSpec, CancelIsCurrent

\* With one process, the trigger refuses a repair for one reason only: a cancellation
\* that was rejected left a final status in the row of its order.
THEOREM RefusalsFollowRejectedCancels ==
    ASSUME OneProcess
    PROVE  ReconciliationSpec => []RefusedByRejectedCancel
<1>1. RInv /\ SInv => RefusedByRejectedCancel
  <2>1. ASSUME RInv, SInv, NEW w \in Writers, run[w].at = "commit", NEW a \in Repairs(w),
               ~RepairAllowed(w, a)
        PROVE  attempt[<<a, "CANCEL">>].state = "REJECTED"
    <3>1. a \in known /\ a \in Approvals /\ Seen(w, a) \notin {"NONE", order[a].status}
      BY <2>1 DEF Repairs, RInv, JInv, RunTypes
    <3>2. RowsOK(a) /\ StatusOK(a) /\ KnownOK(a) /\ ReadsOK(run[w]) /\ RunOK(run[w])
      BY <2>1, <3>1 DEF RInv, JInv, SInv
    <3>3. order[a].status \in {"REJECTED", "RECONCILED", "position_zero"} \cup TerminalOrderStates
      BY <2>1 DEF RepairAllowed, TriggerAllows
    <3>4. order[a].status \notin {"RECONCILED", "position_zero"}
      BY <3>2 DEF StatusOK
    <3>5. order[a].status \notin TerminalOrderStates
      <4>1. CASE Seen(w, a) = "live"
        <5>1. run[w].history[a] \in TerminalOrderStates \cup {"NONE"}
          BY <2>1, <3>1 DEF RInv, JInv, RunTypes, Runs
        <5>2. a \in run[w].pending
          BY <4>1, <5>1 DEF Seen, TerminalOrderStates
        <5> QED
          BY <2>1, <3>2, <5>2 DEF ReadsOK
      <4>2. CASE Seen(w, a) # "live"
        <5>1. market[a] = Seen(w, a)
          BY <2>1, <3>1, <4>2, SeenIsShown DEF RInv
        <5>2. Truthful(a, order[a].status)
          BY <2>1, <3>1 DEF RInv, IInv
        <5> QED
          BY <3>1, <5>1, <5>2 DEF Truthful
      <4> QED
        BY <4>1, <4>2
    <3>6. PICK k \in Keys : k[1] = a /\ attempt[k].state = "REJECTED"
      BY <3>2, <3>3, <3>4, <3>5 DEF StatusOK
    <3>7. k[2] # "SET_LEVERAGE"
      <4>1. attempt[OrderKey(a)].state # "ABSENT"
        BY <3>1, <3>2 DEF KnownOK, Identified
      <4>2. order[a].body = "ORDER"
        BY <3>2, <4>1 DEF RowsOK
      <4>3. attempt[<<a, "SET_LEVERAGE">>].state = "ABSENT"
        BY <3>2, <4>2 DEF RowsOK
      <4>4. k = <<k[1], k[2]>>
        BY DEF Keys
      <4> QED
        BY <3>6, <4>3, <4>4
    <3>8. ~IsOrder(k)
      <4>1. ASSUME IsOrder(k)
            PROVE  FALSE
        <5>1. k = OrderKey(a)
          BY <3>6, <4>1, OrderKeys
        <5>2. market[a] # "NONE" /\ RowOK(k)
          BY <2>1, <3>1, <3>2 DEF KnownOK, Identified, RInv, IInv
        <5> QED
          BY <3>6, <4>1, <5>2 DEF RowOK
      <4> QED
        BY <4>1
    <3> QED
      BY <3>6, <3>7, <3>8 DEF Keys, Operations, IsOrder
  <2> QED
    BY <2>1 DEF RefusedByRejectedCancel
<1> QED
  BY <1>1, OneProcessInvariance, PTL
================================================================================
