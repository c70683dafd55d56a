------------------------- MODULE SignalExecutionProofs -------------------------
(***************************************************************************)
(* What SignalExecution promises of orders, budget and owners, proved for  *)
(* any deployments, candles, runtimes, policies and faults.                *)
(***************************************************************************)
EXTENDS SignalExecution, FiniteSetTheorems, TLAPS

-----------------------------------------------------------------------------
(* The inductive invariant.                                                *)

Leases == [status : {"NONE", "PENDING", "LEASED"} \cup Ended, fence : Nat,
           live : BOOLEAN, checkpoint : Decisions]

Stages == [signal : StageStatuses, fence : Nat, risk : StageStatuses]

States == [pc : Phases, e : Evals, fence : Nat, late : BOOLEAN,
           clock : SUBSET Evals, todo : SUBSET Deployments, decision : Decisions,
           prepared : {"NONE", "SIGNAL", "RISK"}, open : BOOLEAN, mine : BOOLEAN,
           seen : ChainStatuses \cup {"UNREAD"}]

\* The types, without a bound on the fences.
Typed ==
    /\ active \in SUBSET Deployments
    /\ candle \in 0 .. MaxCandle
    /\ eval \in [Evals -> Leases]
    /\ fresh \in SUBSET Evals
    /\ chain \in [Evals -> ChainRows]
    /\ stage \in [Evals -> Stages]
    /\ approval \in [Evals -> {"NONE", "ACTIVE", "REJECTED", "EXPIRED"}]
    /\ attempt \in [Evals -> {"NONE", "OPEN", "DONE"}]
    /\ budget \in Int
    /\ holder \in Runtimes
    /\ rt \in [Runtimes -> States]
    /\ faults \in 0 .. MaxFaults

\* What the rows of an evaluation tell of each other.  A former owner may still write
\* that the chain of an order is BLOCKED, and no more of it.
RowOK(e) ==
    /\ stage[e].risk # "NONE" => stage[e].signal = "SUCCESS"
    /\ stage[e].signal = "SUCCESS" => chain[e].signal = TRUE
    /\ attempt[e] # "NONE" =>
        /\ eval[e].status = "ACTIONABLE" /\ approval[e] = "ACTIVE"
        /\ chain[e].status \in {"EXECUTING", "BLOCKED"}
        /\ chain[e].at = "EXECUTION" /\ chain[e].bound = TRUE
        /\ stage[e].risk = "SUCCESS"

\* The phases after the SIGNAL stage was prepared, with the fence of who prepared it.
Begun == {"RECORD_SIGNAL", "COMPLETE_SIGNAL", "BOUNDARY", "PREPARE_RISK", "RISK",
          "COMPLETE_RISK", "COMPLETE"}

\* What a runtime in state s may rely on, whoever owns its evaluation by now.
PhaseOK(s) ==
    /\ s.pc \in {"CAPTURE", "CHECKPOINT"} => s.seen # "UNREAD"
    /\ s.pc \in Begun => stage[s.e].signal # "NONE" /\ stage[s.e].fence = s.fence
    /\ s.pc = "COMPLETE_SIGNAL" => chain[s.e].signal = TRUE
    /\ s.pc = "PLACE" => eval[s.e].status = "ACTIONABLE"

OneOpen == \A e, f \in Evals : attempt[e] = "OPEN" /\ attempt[f] = "OPEN" => e = f

Counted == {e \in Evals : approval[e] = "ACTIVE"}

Covered == IsFiniteSet(Counted) /\ Cardinality(Counted) <= budget /\ budget <= MaxPositions

Inv ==
    /\ Typed
    /\ \A e \in Evals : RowOK(e)
    /\ \A r \in Runtimes : PhaseOK(rt[r])
    /\ OneOpen
    /\ Covered

-----------------------------------------------------------------------------
(* Steps by their footprint.                                               *)

\* Runtime r goes on as s.
Moved(r, s) == rt' = [rt EXCEPT ![r] = s]

\* A row that a step leaves alone.
Same(e) ==
    eval'[e] = eval[e] /\ chain'[e] = chain[e] /\ stage'[e] = stage[e]
    /\ approval'[e] = approval[e] /\ attempt'[e] = attempt[e]

\* What a row never loses.
Lasting(e) ==
    /\ eval[e].status = "ACTIONABLE" => eval'[e].status = "ACTIONABLE"
    /\ chain[e].signal = TRUE => chain'[e].signal = TRUE
    /\ stage[e].signal # "NONE" => stage'[e].signal # "NONE" /\ stage'[e].fence = stage[e].fence

RowTypes ==
    eval \in [Evals -> Leases] /\ chain \in [Evals -> ChainRows] /\ stage \in [Evals -> Stages]

\* There is an evaluation.
LEMMA SomeEval == /\ (CHOOSE e \in Evals : TRUE) \in Evals
                  /\ \A e \in Evals : e[1] \in Deployments /\ e[2] \in 1 .. MaxCandle /\ e = <<e[1], e[2]>>
<1>1. PICK d \in Deployments : TRUE
  BY DeploymentsAssumption
<1>2. 1 \in 1 .. MaxCandle
  BY MaxCandleAssumption
<1>3. <<d, 1>> \in Evals
  BY <1>1, <1>2 DEF Evals
<1> QED
  BY <1>3 DEF Evals

\* A runtime that has read nothing.
LEMMA IdleState ==
    /\ Idle \in States /\ Idle.pc = "IDLE" /\ Idle.fence = 0 /\ Idle.late = FALSE
    /\ Idle.e = CHOOSE e \in Evals : TRUE
    /\ Idle.seen = "UNREAD"
<1>1. /\ "IDLE" \in Phases /\ 0 \in Nat /\ FALSE \in BOOLEAN /\ "NONE" \in Decisions
      /\ {} \in SUBSET Evals /\ {} \in SUBSET Deployments /\ "NONE" \in {"NONE", "SIGNAL", "RISK"}
      /\ "UNREAD" \in ChainStatuses \cup {"UNREAD"}
  BY DEF Phases, Decisions
<1>2. Idle \in States
  BY <1>1, SomeEval, Zenon DEF Idle, States
<1> QED
  BY <1>2 DEF Idle

\* It relies on nothing, in any phase but PLACE and those of an evaluation.
LEMMA IdlePhase ==
    ASSUME NEW pc \in {"IDLE", "DOWN"}, NEW s, s = [Idle EXCEPT !.pc = pc] \/ s = Idle
    PROVE  s \in States /\ PhaseOK(s) /\ s.pc \in {"IDLE", "DOWN"} /\ s.seen = "UNREAD"
<1>1. s \in States /\ s.pc \in {"IDLE", "DOWN"} /\ s.seen = "UNREAD"
  BY IdleState DEF States, Phases
<1> QED
  BY <1>1 DEF PhaseOK, Begun

\* A row that is left alone keeps what it told.
LEMMA SameRow ==
    ASSUME NEW e \in Evals, RowOK(e), Same(e)
    PROVE  RowOK(e)' /\ Lasting(e)
BY DEF RowOK, Same, Lasting

\* A fault more.
LEMMA OneFault ==
    ASSUME Inv, faults < MaxFaults, faults' = faults + 1
    PROVE  faults' \in 0 .. MaxFaults
BY MaxFaultsAssumption DEF Inv, Typed

\* What one runtime relies on, nobody takes from it.
LEMMA LastingPhase ==
    ASSUME NEW s \in States, PhaseOK(s), \A e \in Evals : Lasting(e)
    PROVE  PhaseOK(s)'
<1>1. s.e \in Evals
  BY DEF States
<1> QED
  BY <1>1 DEF PhaseOK, Lasting

\* A step of one runtime that touches the rows of its evaluation only.
LEMMA RuntimeStep ==
    ASSUME Inv, NEW r \in Runtimes, NEW s \in States, Moved(r, s), RowTypes',
           \A e \in Evals : RowOK(e)' /\ Lasting(e), PhaseOK(s)',
           active' \in SUBSET Deployments, candle' \in 0 .. MaxCandle, fresh' \in SUBSET Evals,
           UNCHANGED <<approval, budget, attempt>>, holder' \in Runtimes, faults' \in 0 .. MaxFaults
    PROVE  Inv'
<1>1. rt' \in [Runtimes -> States] /\ \A q \in Runtimes : rt'[q] = IF q = r THEN s ELSE rt[q]
  BY DEF Moved, Inv, Typed
<1>2. Typed'
  BY <1>1 DEF Inv, Typed, RowTypes
<1>3. ASSUME NEW q \in Runtimes
      PROVE  PhaseOK(rt[q])'
  <2>1. CASE q = r
    BY <1>1, <2>1 DEF PhaseOK
  <2>2. CASE q # r
    <3>1. PICK t \in States : t = rt[q] /\ PhaseOK(t)
      BY DEF Inv, Typed
    <3>2. PhaseOK(t)'
      BY <3>1, LastingPhase
    <3> QED
      BY <1>1, <2>2, <3>1, <3>2 DEF PhaseOK
  <2> QED
    BY <2>1, <2>2
<1>4. OneOpen'
  BY DEF Inv, OneOpen
<1>5. Covered'
  BY DEF Inv, Covered, Counted
<1> QED
  BY <1>2, <1>3, <1>4, <1>5 DEF Inv

\* A step of one runtime that touches no row.
LEMMA StillStep ==
    ASSUME Inv, NEW r \in Runtimes, NEW s \in States, Moved(r, s), PhaseOK(s),
           UNCHANGED <<eval, execution, risk, attempt>>,
           active' \in SUBSET Deployments, candle' \in 0 .. MaxCandle, fresh' \in SUBSET Evals,
           holder' \in Runtimes, faults' \in 0 .. MaxFaults
    PROVE  Inv'
<1>1. UNCHANGED <<eval, chain, stage, approval, budget, attempt>>
  BY DEF execution, risk
<1>2. \A e \in Evals : RowOK(e)' /\ Lasting(e)
  BY <1>1, SameRow DEF Inv, Same
<1>3. RowTypes'
  BY <1>1 DEF Inv, Typed, RowTypes
<1>4. PhaseOK(s)'
  BY <1>2, LastingPhase
<1> QED
  BY <1>1, <1>2, <1>3, <1>4, RuntimeStep

\* What a runtime knows of its evaluation when it goes on to phase pc.
LEMMA GotoMoves ==
    ASSUME Inv, NEW r \in Runtimes, NEW pc \in Phases, Goto(r, pc)
    PROVE  \E s \in States : /\ Moved(r, s) /\ s.pc = pc /\ s.e = rt[r].e
                             /\ s.fence = rt[r].fence /\ s.late = rt[r].late /\ s.seen = rt[r].seen
<1>1. rt[r] \in States
  BY DEF Inv, Typed
<1>2. PICK s : s = [rt[r] EXCEPT !.pc = pc]
  OBVIOUS
<1>3. /\ s \in States /\ s.pc = pc /\ s.e = rt[r].e
      /\ s.fence = rt[r].fence /\ s.late = rt[r].late /\ s.seen = rt[r].seen
  BY <1>1, <1>2, Zenon DEF States
<1>4. Moved(r, s)
  BY <1>1, <1>2 DEF Goto, Moved
<1> QED
  BY <1>3, <1>4

\* Failing relies on nothing.
LEMMA FailMoves ==
    ASSUME Inv, NEW r \in Runtimes, Fail(r)
    PROVE  \E s \in States : /\ Moved(r, s) /\ s.pc = "FAIL_STAGE" /\ s.e = rt[r].e
                             /\ s.fence = rt[r].fence /\ s.late = rt[r].late /\ s.seen = "UNREAD"
<1>1. /\ rt[r] \in States /\ "FAIL_STAGE" \in Phases /\ "NONE" \in Decisions
      /\ {} \in SUBSET Evals /\ "UNREAD" \in ChainStatuses \cup {"UNREAD"}
  BY DEF Inv, Typed, Phases, Failing, Decisions
<1>2. PICK s : s = [rt[r] EXCEPT !.pc = "FAIL_STAGE", !.decision = "NONE", !.clock = {},
                                 !.seen = "UNREAD"]
  OBVIOUS
<1>3. /\ s \in States /\ s.pc = "FAIL_STAGE" /\ s.e = rt[r].e
      /\ s.fence = rt[r].fence /\ s.late = rt[r].late /\ s.seen = "UNREAD"
  BY <1>1, <1>2, Zenon DEF States
<1>4. Moved(r, s)
  BY <1>1, <1>2 DEF Fail, Moved
<1> QED
  BY <1>3, <1>4

\* A runtime that forgets what it read.
LEMMA IdleMoves ==
    ASSUME Inv, NEW r \in Runtimes, EndCycle(r) \/ GoDown(r)
    PROVE  \E s \in States : /\ Moved(r, s) /\ PhaseOK(s) /\ s.pc \in {"IDLE", "DOWN"}
                             /\ s.seen = "UNREAD"
<1>1. CASE EndCycle(r)
  <2>1. PICK s : s = Idle
    OBVIOUS
  <2> QED
    BY <1>1, <2>1, IdlePhase DEF EndCycle, Moved
<1>2. CASE GoDown(r)
  <2>1. PICK s : s = [Idle EXCEPT !.pc = "DOWN"]
    OBVIOUS
  <2> QED
    BY <1>2, <2>1, IdlePhase DEF GoDown, Moved
<1> QED
  BY <1>1, <1>2

\* A runtime fails or forgets, and nothing else changes but time and the holder.
LEMMA LettingGoStep ==
    ASSUME Inv, NEW r \in Runtimes, Fail(r) \/ EndCycle(r) \/ GoDown(r),
           UNCHANGED <<queue, execution, risk, attempt>>, holder' \in Runtimes,
           faults' \in 0 .. MaxFaults
    PROVE  Inv'
<1>1. /\ UNCHANGED eval /\ active' \in SUBSET Deployments
      /\ candle' \in 0 .. MaxCandle /\ fresh' \in SUBSET Evals
  BY DEF queue, Inv, Typed
<1>2. PICK s \in States : Moved(r, s) /\ PhaseOK(s)
  <2>1. CASE Fail(r)
    BY <2>1, FailMoves DEF PhaseOK, Begun
  <2>2. CASE EndCycle(r) \/ GoDown(r)
    BY <2>2, IdleMoves
  <2> QED
    BY <2>1, <2>2
<1> QED
  BY <1>1, <1>2, StillStep

-----------------------------------------------------------------------------
(* The queue.                                                              *)

\* A cycle begins with the time and the deployments.
LEMMA BeginCycleStep ==
    ASSUME Inv, NEW r \in Runtimes, BeginCycle(r)
    PROVE  Inv'
<1>1. rt[r] \in States
  BY DEF Inv, Typed
<1>2. PICK clock \in SUBSET Evals : clock = {e \in fresh : eval[e].checkpoint # "NONE"}
  BY DEF Inv, Typed
<1>3. PICK s : s = [rt[r] EXCEPT !.pc = "ENQUEUE", !.todo = active, !.clock = clock]
  OBVIOUS
<1>4. active \in SUBSET Deployments
  BY DEF Inv, Typed
<1>5. s \in States /\ s.pc = "ENQUEUE"
  BY <1>1, <1>2, <1>3, <1>4 DEF States, Phases
<1>6. Moved(r, s)
  BY <1>1, <1>2, <1>3 DEF BeginCycle, Moved
<1>7. PhaseOK(s)
  BY <1>5 DEF PhaseOK, Begun
<1>8. /\ UNCHANGED <<eval, execution, risk, attempt>> /\ active' \in SUBSET Deployments
      /\ candle' \in 0 .. MaxCandle /\ fresh' \in SUBSET Evals
      /\ holder' \in Runtimes /\ faults' \in 0 .. MaxFaults
  BY DEF BeginCycle, queue, Inv, Typed
<1> QED
  BY <1>5, <1>6, <1>7, <1>8, StillStep

Waiting == {"NONE", "PENDING", "LEASED"}

\* What the queue may do to a row: ACTIONABLE is final.
Queued(e) == eval[e].status = "ACTIONABLE" => eval'[e].status = "ACTIONABLE"

\* A step that changes rows of the queue only.
LEMMA QueueStep ==
    ASSUME Inv, NEW r \in Runtimes, NEW s \in States, Moved(r, s), PhaseOK(s) \/ PhaseOK(s)',
           eval' \in [Evals -> Leases], \A e \in Evals : Queued(e),
           UNCHANGED <<execution, risk, attempt>>,
           active' \in SUBSET Deployments, candle' \in 0 .. MaxCandle, fresh' \in SUBSET Evals,
           holder' \in Runtimes, faults' \in 0 .. MaxFaults
    PROVE  Inv'
<1>1. UNCHANGED <<chain, stage, approval, budget, attempt>>
  BY DEF execution, risk
<1>2. ASSUME NEW e \in Evals
      PROVE  RowOK(e)' /\ Lasting(e)
  <2>1. RowOK(e) /\ Queued(e) /\ eval[e].status \in {"NONE", "PENDING", "LEASED"} \cup Ended
    BY DEF Inv, Typed, Leases
  <2>2. RowOK(e)'
    BY <1>1, <2>1 DEF RowOK, Queued, Waiting, Ended
  <2>3. Lasting(e)
    BY <1>1, <2>1 DEF Lasting, Queued, Waiting, Ended
  <2> QED
    BY <2>2, <2>3
<1>3. RowTypes'
  BY <1>1 DEF Inv, Typed, RowTypes
<1>4. PhaseOK(s)'
  BY <1>2, LastingPhase
<1> QED
  BY <1>1, <1>2, <1>3, <1>4, RuntimeStep

\* A row that changes in the queue.
LEMMA LeaseTypes ==
    ASSUME Inv, NEW e \in Evals
    PROVE  /\ eval[e] \in Leases
           /\ \A status \in {"NONE", "PENDING", "LEASED"} \cup Ended, fence \in Nat, live \in BOOLEAN,
                 checkpoint \in Decisions :
                /\ [eval[e] EXCEPT !.status = status] \in Leases
                /\ [eval[e] EXCEPT !.status = status].status = status
                /\ [eval[e] EXCEPT !.status = status].checkpoint = eval[e].checkpoint
                /\ [eval[e] EXCEPT !.status = status].fence = eval[e].fence
                /\ [eval[e] EXCEPT !.status = status, !.live = live] \in Leases
                /\ [eval[e] EXCEPT !.status = status, !.live = live].status = status
                /\ [eval[e] EXCEPT !.status = status, !.live = live].checkpoint = eval[e].checkpoint
                /\ [eval[e] EXCEPT !.live = live] \in Leases
                /\ [eval[e] EXCEPT !.live = live].status = eval[e].status
                /\ [eval[e] EXCEPT !.live = live].checkpoint = eval[e].checkpoint
                /\ [eval[e] EXCEPT !.checkpoint = checkpoint] \in Leases
                /\ [eval[e] EXCEPT !.checkpoint = checkpoint].status = eval[e].status
                /\ [eval[e] EXCEPT !.checkpoint = checkpoint].checkpoint = checkpoint
<1>1. eval[e] \in Leases
  BY DEF Inv, Typed
<1> QED
  BY <1>1 DEF Leases

\* The closed candles are enqueued.
LEMMA EnqueueStep ==
    ASSUME Inv, NEW r \in Runtimes, Enqueue(r)
    PROVE  Inv'
<1>1. /\ UNCHANGED <<active, candle, fresh, execution, risk, attempt, holder, faults>>
      /\ active' \in SUBSET Deployments /\ candle' \in 0 .. MaxCandle /\ fresh' \in SUBSET Evals
      /\ holder' \in Runtimes /\ faults' \in 0 .. MaxFaults /\ rt[r] \in States
  BY DEF Enqueue, Inv, Typed
<1>2. CASE Goto(r, "CLAIM") /\ UNCHANGED eval
  <2>1. PICK s \in States : Moved(r, s) /\ s.pc = "CLAIM"
    BY <1>2, GotoMoves DEF Phases
  <2> QED
    BY <1>1, <1>2, <2>1, StillStep DEF PhaseOK, Begun
<1>3. ASSUME NEW d \in rt[r].todo, candle > 0, At(r, "ENQUEUE"),
             eval' = IF eval[<<d, candle>>].status = "NONE"
                     THEN [eval EXCEPT ![<<d, candle>>].status = "PENDING"] ELSE eval,
             rt' = [rt EXCEPT ![r].todo = @ \ {d}]
      PROVE  Inv'
  <2>1. PICK e \in Evals : e = <<d, candle>>
    BY <1>1, <1>3 DEF Evals, Inv, Typed, States
  <2>2. PICK todo \in SUBSET Deployments : todo = rt[r].todo \ {d}
    BY <1>1 DEF States
  <2>3. PICK s : s = [rt[r] EXCEPT !.todo = todo]
    OBVIOUS
  <2>4. s \in States /\ s.pc = "ENQUEUE"
    BY <1>1, <1>3, <2>2, <2>3 DEF States, At
  <2>5. Moved(r, s) /\ PhaseOK(s)
    <3>1. Moved(r, s)
      BY <1>1, <1>3, <2>2, <2>3 DEF Moved
    <3> QED
      BY <2>4, <3>1 DEF PhaseOK, Begun
  <2>6. eval' \in [Evals -> Leases] /\ \A f \in Evals : Queued(f)
    <3>1. eval \in [Evals -> Leases]
      BY DEF Inv, Typed
    <3>2. CASE eval[e].status # "NONE"
      BY <1>3, <2>1, <3>1, <3>2 DEF Queued
    <3>3. CASE eval[e].status = "NONE"
      <4>1. eval' = [eval EXCEPT ![e] = [eval[e] EXCEPT !.status = "PENDING"]]
        BY <1>3, <2>1, <3>1, <3>3
      <4>2. /\ [eval[e] EXCEPT !.status = "PENDING"] \in Leases
            /\ [eval[e] EXCEPT !.status = "PENDING"].status = "PENDING"
            /\ [eval[e] EXCEPT !.status = "PENDING"].checkpoint = eval[e].checkpoint
        BY LeaseTypes DEF Leases
      <4>3. eval' \in [Evals -> Leases]
        BY <3>1, <4>1, <4>2
      <4>4. \A f \in Evals : Queued(f)
        BY <3>1, <3>3, <4>1, <4>2 DEF Queued, Waiting
      <4> QED
        BY <4>3, <4>4
    <3> QED
      BY <3>2, <3>3
  <2> QED
    BY <1>1, <2>4, <2>5, <2>6, QueueStep
<1>4. CASE GoDown(r) /\ UNCHANGED eval
  BY <1>1, <1>4, LettingGoStep DEF queue
<1> QED
  BY <1>2, <1>3, <1>4 DEF Enqueue

\* A lease that has run out is returned, and nothing of it is lost.
LEMMA ReclaimedRows ==
    ASSUME Inv
    PROVE  /\ Reclaimed \in [Evals -> Leases]
           /\ \A e \in Evals :
                /\ Reclaimed[e].fence = eval[e].fence /\ Reclaimed[e].checkpoint = eval[e].checkpoint
                /\ Reclaimed[e].live = eval[e].live
                /\ Reclaimed[e].status =
                    IF eval[e].status = "LEASED" /\ ~eval[e].live /\ Deployed(e)
                    THEN "PENDING" ELSE eval[e].status
<1>1. ASSUME NEW e \in Evals
      PROVE  /\ eval[e] \in Leases /\ [eval[e] EXCEPT !.status = "PENDING"] \in Leases
             /\ [eval[e] EXCEPT !.status = "PENDING"].fence = eval[e].fence
             /\ [eval[e] EXCEPT !.status = "PENDING"].live = eval[e].live
             /\ [eval[e] EXCEPT !.status = "PENDING"].checkpoint = eval[e].checkpoint
             /\ [eval[e] EXCEPT !.status = "PENDING"].status = "PENDING"
  <2>1. eval[e] \in Leases
    BY DEF Inv, Typed
  <2> QED
    BY <2>1 DEF Leases
<1>2. ASSUME NEW e \in Evals
      PROVE  Reclaimed[e] = IF eval[e].status = "LEASED" /\ ~eval[e].live /\ Deployed(e)
                            THEN [eval[e] EXCEPT !.status = "PENDING"] ELSE eval[e]
  BY DEF Reclaimed
<1>3. Reclaimed \in [Evals -> Leases]
  BY <1>1 DEF Reclaimed
<1> QED
  BY <1>1, <1>2, <1>3

\* Runtime r claims evaluation e.
Claims(r, e) ==
    /\ Reclaimed[e].status = "PENDING"
    /\ eval' = [Reclaimed EXCEPT ![e].status = "LEASED", ![e].live = TRUE, ![e].fence = @ + 1]
    /\ rt' = [rt EXCEPT ![r].pc = "START", ![r].e = e, ![r].fence = eval[e].fence + 1,
                        ![r].clock = @ \cap {e}]

\* What a claim leaves in the queue and in its runtime.
LEMMA ClaimRows ==
    ASSUME Inv, NEW r \in Runtimes, NEW e \in Evals, Claims(r, e)
    PROVE  /\ eval' \in [Evals -> Leases]
           /\ \A f \in Evals \ {e} : eval'[f] = Reclaimed[f]
           /\ eval'[e].status = "LEASED" /\ eval'[e].live = TRUE /\ eval'[e].fence = eval[e].fence + 1
           /\ eval'[e].checkpoint = eval[e].checkpoint
           /\ \E s \in States : /\ Moved(r, s) /\ s.pc = "START" /\ s.e = e
                                /\ s.fence = eval[e].fence + 1 /\ s.late = rt[r].late
<1>1. Reclaimed \in [Evals -> Leases] /\ Reclaimed[e] \in Leases /\ rt[r] \in States
      /\ Reclaimed[e].checkpoint = eval[e].checkpoint /\ Reclaimed[e].fence = eval[e].fence
  BY ReclaimedRows DEF Inv, Typed
<1>2. PICK fence \in Nat : fence = eval[e].fence + 1
  BY <1>1 DEF Leases
<1>3. PICK row : row = [Reclaimed[e] EXCEPT !.status = "LEASED", !.live = TRUE, !.fence = fence]
  OBVIOUS
<1>4. /\ row \in Leases /\ row.status = "LEASED" /\ row.live = TRUE /\ row.fence = fence
      /\ row.checkpoint = eval[e].checkpoint
  BY <1>1, <1>3 DEF Leases
<1>5. eval' = [Reclaimed EXCEPT ![e] = row]
  BY <1>1, <1>2, <1>3 DEF Claims
<1>6. /\ eval' \in [Evals -> Leases] /\ eval'[e] = row
      /\ \A f \in Evals \ {e} : eval'[f] = Reclaimed[f]
  BY <1>1, <1>4, <1>5
<1>7. PICK clock \in SUBSET Evals : clock = rt[r].clock \cap {e}
  BY <1>1 DEF States
<1>8. PICK s : s = [rt[r] EXCEPT !.pc = "START", !.e = e, !.fence = fence, !.clock = clock]
  OBVIOUS
<1>9. "START" \in Phases
  BY DEF Phases, Processing
<1>10. s \in States /\ s.pc = "START" /\ s.e = e /\ s.fence = fence /\ s.late = rt[r].late
  BY <1>1, <1>8, <1>9, Zenon DEF States
<1>11. Moved(r, s)
  BY <1>1, <1>2, <1>7, <1>8 DEF Claims, Moved
<1> QED
  BY <1>2, <1>4, <1>6, <1>10, <1>11

\* A runtime finds nothing to claim.
LEMMA NoClaimMoves ==
    ASSUME Inv, NEW r \in Runtimes, rt' = [rt EXCEPT ![r].pc = "OPENING", ![r].clock = {}]
    PROVE  \E s \in States : /\ Moved(r, s) /\ s.pc = "OPENING" /\ s.e = rt[r].e
                             /\ s.fence = rt[r].fence /\ s.late = rt[r].late
<1>1. rt[r] \in States /\ "OPENING" \in Phases /\ {} \in SUBSET Evals
  BY DEF Inv, Typed, Phases
<1>2. PICK s : s = [rt[r] EXCEPT !.pc = "OPENING", !.clock = {}]
  OBVIOUS
<1>3. s \in States /\ s.pc = "OPENING" /\ s.e = rt[r].e /\ s.fence = rt[r].fence /\ s.late = rt[r].late
  BY <1>1, <1>2, Zenon DEF States
<1>4. Moved(r, s)
  BY <1>1, <1>2 DEF Moved
<1> QED
  BY <1>3, <1>4

\* A claim returns what ran out and leases the oldest evaluation.
LEMMA ClaimStep ==
    ASSUME Inv, NEW r \in Runtimes, Claim(r)
    PROVE  Inv'
<1>1. /\ UNCHANGED <<active, candle, fresh, execution, risk, attempt, holder, faults>>
      /\ active' \in SUBSET Deployments /\ candle' \in 0 .. MaxCandle /\ fresh' \in SUBSET Evals
      /\ holder' \in Runtimes /\ faults' \in 0 .. MaxFaults
  BY DEF Claim, Inv, Typed
<1>2. CASE eval' = Reclaimed /\ rt' = [rt EXCEPT ![r].pc = "OPENING", ![r].clock = {}]
  <2>1. PICK s \in States : Moved(r, s) /\ s.pc = "OPENING"
    BY <1>2, NoClaimMoves
  <2>2. eval' \in [Evals -> Leases] /\ \A e \in Evals : Queued(e)
    BY <1>2, ReclaimedRows DEF Queued, Waiting
  <2> QED
    BY <1>1, <2>1, <2>2, QueueStep DEF PhaseOK, Begun
<1>3. ASSUME NEW e \in Evals, Claims(r, e)
      PROVE  Inv'
  <2>1. PICK s \in States : Moved(r, s) /\ s.pc = "START"
    BY <1>3, ClaimRows
  <2>2. /\ eval' \in [Evals -> Leases] /\ eval'[e].status = "LEASED"
        /\ eval'[e].checkpoint = eval[e].checkpoint
        /\ \A f \in Evals \ {e} : eval'[f] = Reclaimed[f]
    BY <1>3, ClaimRows
  <2>3. eval[e].status \in {"PENDING", "LEASED"}
    BY <1>3, ReclaimedRows DEF Claims
  <2>4. \A f \in Evals : Queued(f)
    BY <2>2, <2>3, ReclaimedRows DEF Queued, Waiting
  <2> QED
    BY <1>1, <2>1, <2>2, <2>4, QueueStep DEF PhaseOK, Begun
<1> QED
  BY <1>2, <1>3 DEF Claim, Claims

-----------------------------------------------------------------------------
(* From the claim to the checkpoint.                                       *)

\* The phase a runtime starts with, and what it read for it.
LEMMA StartMoves ==
    ASSUME Inv, NEW r \in Runtimes, Start(r)
    PROVE  \/ EndCycle(r) /\ eval[rt[r].e].status \in Ended
           \/ Fail(r)
           \/ \E s \in States : /\ Moved(r, s) /\ PhaseOK(s) /\ Owns(r)
                                /\ s.pc \in {"CAPTURE", "NO_ACTION", "OPEN"} /\ s.e = rt[r].e
                                /\ s.fence = rt[r].fence /\ s.late = rt[r].late
<1>1. rt[r] \in States /\ {"CAPTURE", "NO_ACTION", "OPEN"} \subseteq Phases
  BY DEF Inv, Typed, Phases, Processing
<1>2. ASSUME NEW pc \in {"CAPTURE", "NO_ACTION", "OPEN"}, NEW decision \in Decisions,
             NEW seen \in ChainStatuses \cup {"UNREAD"}, pc = "CAPTURE" => seen # "UNREAD", Owns(r),
             rt' = [rt EXCEPT ![r].pc = pc, ![r].decision = decision, ![r].seen = seen]
      PROVE  \E s \in States : /\ Moved(r, s) /\ PhaseOK(s) /\ Owns(r)
                               /\ s.pc \in {"CAPTURE", "NO_ACTION", "OPEN"} /\ s.e = rt[r].e
                               /\ s.fence = rt[r].fence /\ s.late = rt[r].late
  <2>1. PICK s : s = [rt[r] EXCEPT !.pc = pc, !.decision = decision, !.seen = seen]
    OBVIOUS
  <2>2. pc \in Phases
    BY <1>1
  <2>3. /\ s \in States /\ s.pc = pc /\ s.e = rt[r].e /\ s.fence = rt[r].fence
        /\ s.late = rt[r].late /\ s.seen = seen
    BY <1>1, <2>1, <2>2, Zenon DEF States
  <2>4. Moved(r, s)
    BY <1>1, <1>2, <2>1 DEF Moved
  <2>5. PhaseOK(s)
    BY <1>2, <2>3 DEF PhaseOK, Begun
  <2> QED
    BY <1>2, <2>3, <2>4, <2>5
<1>3. "NONE" \in ChainStatuses \cup {"UNREAD"} /\ "NO_ACTION" \in Decisions /\ "ACTIONABLE" \in Decisions
  BY DEF ChainStatuses, Decisions
<1>4. PICK t : t = rt[r] /\ t \in States
  BY <1>1
<1>5. CASE Owns(r) /\ rt' = [rt EXCEPT ![r].pc = "CAPTURE", ![r].seen = "NONE"]
  <2>1. PICK s : s = [t EXCEPT !.pc = "CAPTURE", !.decision = t.decision, !.seen = "NONE"]
    OBVIOUS
  <2>2. s = [t EXCEPT !.pc = "CAPTURE", !.seen = "NONE"]
    BY <1>4, <2>1, Zenon DEF States
  <2>3. rt' = [rt EXCEPT ![r].pc = "CAPTURE", ![r].decision = t.decision, ![r].seen = "NONE"]
    BY <1>4, <1>5, <2>1, <2>2
  <2>4. t.decision \in Decisions
    BY <1>4 DEF States
  <2> QED
    BY <1>2, <1>3, <1>5, <2>3, <2>4
<1>6. CASE Owns(r) /\ rt' = [rt EXCEPT ![r].pc = "NO_ACTION", ![r].decision = "NO_ACTION"]
  <2>1. PICK s : s = [t EXCEPT !.pc = "NO_ACTION", !.decision = "NO_ACTION", !.seen = t.seen]
    OBVIOUS
  <2>2. s = [t EXCEPT !.pc = "NO_ACTION", !.decision = "NO_ACTION"]
    BY <1>4, <2>1, Zenon DEF States
  <2>3. rt' = [rt EXCEPT ![r].pc = "NO_ACTION", ![r].decision = "NO_ACTION", ![r].seen = t.seen]
    BY <1>4, <1>6, <2>1, <2>2
  <2>4. t.seen \in ChainStatuses \cup {"UNREAD"}
    BY <1>4 DEF States
  <2> QED
    BY <1>2, <1>3, <1>6, <2>3, <2>4
<1>7. CASE Owns(r) /\ rt' = [rt EXCEPT ![r].pc = "OPEN", ![r].decision = "ACTIONABLE", ![r].seen = "NONE"]
  BY <1>2, <1>3, <1>7
<1> QED
  BY <1>5, <1>6, <1>7 DEF Start

\* The start of an evaluation, or its replay.
LEMMA StartStep ==
    ASSUME Inv, NEW r \in Runtimes, Start(r)
    PROVE  Inv'
<1>1. /\ UNCHANGED <<queue, execution, risk, attempt, holder, faults>>
      /\ UNCHANGED eval /\ active' \in SUBSET Deployments
      /\ candle' \in 0 .. MaxCandle /\ fresh' \in SUBSET Evals
      /\ holder' \in Runtimes /\ faults' \in 0 .. MaxFaults
  BY DEF Start, queue, Inv, Typed
<1>2. CASE EndCycle(r) \/ Fail(r)
  BY <1>1, <1>2, LettingGoStep
<1>3. CASE \E s \in States : Moved(r, s) /\ PhaseOK(s)
  BY <1>1, <1>3, StillStep
<1> QED
  BY <1>2, <1>3, StartMoves

\* A capture decides something and reads the clock.
LEMMA CaptureMoves ==
    ASSUME Inv, NEW r \in Runtimes, Capture(r)
    PROVE  \E s \in States : /\ Moved(r, s) /\ PhaseOK(s) /\ s.pc = "CHECKPOINT" /\ s.e = rt[r].e
                             /\ s.fence = rt[r].fence /\ s.late = Expired(r) /\ s.seen = rt[r].seen
<1>1. /\ rt[r] \in States /\ rt[r].pc = "CAPTURE" /\ PhaseOK(rt[r]) /\ "CHECKPOINT" \in Phases
      /\ Expired(r) \in BOOLEAN
  BY DEF Inv, Typed, Capture, At, Phases, Processing, Expired
<1>2. PICK decision \in Decisions :
        rt' = [rt EXCEPT ![r].pc = "CHECKPOINT", ![r].decision = decision, ![r].late = Expired(r)]
  BY DEF Capture
<1>3. PICK late \in BOOLEAN : late = Expired(r)
  BY <1>1
<1>4. PICK s : s = [rt[r] EXCEPT !.pc = "CHECKPOINT", !.decision = decision, !.late = late]
  OBVIOUS
<1>5. /\ s \in States /\ s.pc = "CHECKPOINT" /\ s.e = rt[r].e /\ s.fence = rt[r].fence
      /\ s.late = late /\ s.seen = rt[r].seen
  BY <1>1, <1>4, Zenon DEF States
<1>6. Moved(r, s)
  BY <1>1, <1>2, <1>3, <1>4 DEF Moved
<1>7. PhaseOK(s)
  BY <1>1, <1>5 DEF PhaseOK, Begun
<1> QED
  BY <1>3, <1>5, <1>6, <1>7

LEMMA CaptureStep ==
    ASSUME Inv, NEW r \in Runtimes, Capture(r)
    PROVE  Inv'
<1>1. PICK s \in States : Moved(r, s) /\ PhaseOK(s)
  BY CaptureMoves
<1>2. rt[r].e \in Evals
  BY DEF Inv, Typed, States
<1>3. /\ UNCHANGED <<eval, execution, risk, attempt>> /\ active' \in SUBSET Deployments
      /\ candle' \in 0 .. MaxCandle /\ fresh' \in SUBSET Evals
      /\ holder' \in Runtimes /\ faults' \in 0 .. MaxFaults
  BY <1>2 DEF Capture, Inv, Typed
<1> QED
  BY <1>1, <1>3, StillStep

\* Any refusal of a transaction.
LEMMA RefuseStep ==
    ASSUME Inv, NEW r \in Runtimes, Refuse(r), UNCHANGED <<attempt, holder, faults>>
    PROVE  Inv'
<1>1. holder' \in Runtimes /\ faults' \in 0 .. MaxFaults
  BY DEF Inv, Typed
<1> QED
  BY <1>1, LettingGoStep DEF Refuse, queue, execution, risk

\* What a checkpoint leaves of the queue and its runtime.
LEMMA CheckpointMoves ==
    ASSUME Inv, NEW r \in Runtimes, Checkpoint(r), ~Refuse(r)
    PROVE  /\ \E s \in States : /\ Moved(r, s) /\ PhaseOK(s) /\ s.pc \in {"NO_ACTION", "OPEN"}
                                /\ s.e = rt[r].e /\ s.fence = rt[r].fence /\ s.late = rt[r].late
                                /\ s.seen = "UNREAD"
           /\ eval' \in [Evals -> Leases] /\ \A f \in Evals : Queued(f)
           /\ \A f \in Evals : /\ eval'[f].status = eval[f].status /\ eval'[f].fence = eval[f].fence
                               /\ eval'[f].live = eval[f].live
           /\ eval'[rt[r].e] = [eval[rt[r].e] EXCEPT !.checkpoint = eval'[rt[r].e].checkpoint]
           /\ rt[r].seen # "UNREAD"
           /\ UNCHANGED <<active, candle, fresh, execution, risk, attempt, holder, faults>>
<1>1. /\ rt[r] \in States /\ rt[r].pc = "CHECKPOINT" /\ PhaseOK(rt[r])
      /\ eval \in [Evals -> Leases] /\ {"NO_ACTION", "OPEN"} \subseteq Phases
      /\ "UNREAD" \in ChainStatuses \cup {"UNREAD"}
  BY DEF Checkpoint, At, Inv, Typed, Phases, Processing
<1>2. PICK e \in Evals, decision \in Decisions : e = rt[r].e /\ decision = rt[r].decision
  BY <1>1 DEF States
<1>3. PICK pc \in {"NO_ACTION", "OPEN"} : pc = IF decision = "NO_ACTION" THEN "NO_ACTION" ELSE "OPEN"
  OBVIOUS
<1>4. /\ eval' = [eval EXCEPT ![e].checkpoint = decision]
      /\ rt' = [rt EXCEPT ![r].pc = pc, ![r].seen = "UNREAD"]
      /\ UNCHANGED <<active, candle, fresh, execution, risk, attempt, holder, faults>>
  BY <1>2, <1>3 DEF Checkpoint
<1>5. PICK s : s = [rt[r] EXCEPT !.pc = pc, !.seen = "UNREAD"]
  OBVIOUS
<1>6. pc \in Phases
  BY <1>1
<1>7. /\ s \in States /\ s.pc = pc /\ s.e = rt[r].e /\ s.fence = rt[r].fence
      /\ s.late = rt[r].late /\ s.seen = "UNREAD"
  BY <1>1, <1>5, <1>6, Zenon DEF States
<1>8. Moved(r, s)
  BY <1>1, <1>4, <1>5 DEF Moved
<1>9. PhaseOK(s)
  BY <1>3, <1>7 DEF PhaseOK, Begun
<1>10. PICK row : row = [eval[e] EXCEPT !.checkpoint = decision]
  OBVIOUS
<1>11. /\ row \in Leases /\ row.status = eval[e].status /\ row.fence = eval[e].fence
       /\ row.live = eval[e].live /\ row.checkpoint = decision
  BY <1>1, <1>10 DEF Leases
<1>12. eval' = [eval EXCEPT ![e] = row]
  BY <1>1, <1>4, <1>10
<1>13. eval' \in [Evals -> Leases] /\ eval'[e] = row /\ \A f \in Evals \ {e} : eval'[f] = eval[f]
  BY <1>1, <1>11, <1>12
<1>14. \A f \in Evals : /\ eval'[f].status = eval[f].status /\ eval'[f].fence = eval[f].fence
                        /\ eval'[f].live = eval[f].live
  BY <1>11, <1>13
<1>15. rt[r].seen # "UNREAD"
  BY <1>1 DEF PhaseOK
<1>16. eval'[e] = [eval[e] EXCEPT !.checkpoint = eval'[e].checkpoint]
  BY <1>10, <1>11, <1>13
<1> QED
  BY <1>2, <1>4, <1>7, <1>8, <1>9, <1>13, <1>14, <1>15, <1>16 DEF Queued

\* A checkpoint leaves the results alone.
LEMMA CheckpointStep ==
    ASSUME Inv, NEW r \in Runtimes, Checkpoint(r)
    PROVE  Inv'
<1>1. UNCHANGED <<attempt, holder, faults>>
  BY DEF Checkpoint
<1>2. CASE Refuse(r)
  BY <1>1, <1>2, RefuseStep
<1>3. CASE ~Refuse(r)
  <2>1. PICK s \in States : Moved(r, s) /\ PhaseOK(s)
    BY <1>3, CheckpointMoves
  <2>2. /\ eval' \in [Evals -> Leases] /\ \A f \in Evals : Queued(f)
        /\ UNCHANGED <<active, candle, fresh, execution, risk, attempt, holder, faults>>
    BY <1>3, CheckpointMoves
  <2>3. /\ active' \in SUBSET Deployments /\ candle' \in 0 .. MaxCandle /\ fresh' \in SUBSET Evals
        /\ holder' \in Runtimes /\ faults' \in 0 .. MaxFaults
    BY <2>2 DEF Inv, Typed
  <2> QED
    BY <2>1, <2>2, <2>3, QueueStep
<1> QED
  BY <1>2, <1>3

\* An evaluation ends with a result.
LEMMA EndingRow ==
    ASSUME Inv, NEW e \in Evals, NEW status \in Ended, eval[e].status \in Waiting,
           eval' = [eval EXCEPT ![e].status = status, ![e].live = FALSE]
    PROVE  /\ eval' \in [Evals -> Leases] /\ \A f \in Evals : Queued(f)
           /\ eval'[e].status = status
<1>1. eval \in [Evals -> Leases] /\ eval[e] \in Leases
  BY DEF Inv, Typed
<1>2. PICK row : row = [eval[e] EXCEPT !.status = status, !.live = FALSE]
  OBVIOUS
<1>3. status \in {"NONE", "PENDING", "LEASED"} \cup Ended /\ FALSE \in BOOLEAN
  OBVIOUS
<1>4. row \in Leases /\ row.status = status /\ row.checkpoint = eval[e].checkpoint
  BY <1>1, <1>2, <1>3 DEF Leases
<1>5. eval' = [eval EXCEPT ![e] = row]
  BY <1>1, <1>2
<1>6. eval' \in [Evals -> Leases] /\ eval'[e] = row /\ \A f \in Evals \ {e} : eval'[f] = eval[f]
  BY <1>1, <1>4, <1>5
<1> QED
  BY <1>4, <1>6 DEF Queued, Waiting

\* NO_ACTION ends the evaluation.
LEMMA CompleteNoActionStep ==
    ASSUME Inv, NEW r \in Runtimes, CompleteNoAction(r)
    PROVE  Inv'
<1>1. /\ UNCHANGED <<attempt, holder, faults>> /\ rt[r] \in States
      /\ holder' \in Runtimes /\ faults' \in 0 .. MaxFaults
  BY DEF CompleteNoAction, Inv, Typed
<1>2. PICK e \in Evals : e = rt[r].e
  BY <1>1 DEF States
<1>3. CASE Refuse(r)
  BY <1>1, <1>3, RefuseStep
<1>4. CASE ~Refuse(r)
  <2>1. /\ eval[e].status = "LEASED" /\ EndCycle(r)
        /\ eval' = [eval EXCEPT ![e].status = "NO_ACTION", ![e].live = FALSE]
        /\ UNCHANGED <<active, candle, fresh, execution, risk>>
    BY <1>2, <1>4 DEF CompleteNoAction, OwnsRow
  <2>2. PICK s \in States : Moved(r, s) /\ PhaseOK(s)
    BY <2>1, IdleMoves
  <2>3. eval' \in [Evals -> Leases] /\ \A f \in Evals : Queued(f)
    BY <2>1, EndingRow DEF Ended, Waiting
  <2>4. active' \in SUBSET Deployments /\ candle' \in 0 .. MaxCandle /\ fresh' \in SUBSET Evals
    BY <2>1 DEF Inv, Typed
  <2> QED
    BY <1>1, <2>1, <2>2, <2>3, <2>4, QueueStep
<1> QED
  BY <1>3, <1>4

-----------------------------------------------------------------------------
(* A runtime at work on its evaluation: the actions that write the chain   *)
(* and the stages, whoever owns the evaluation by now, and those that only *)
(* read.                                                                   *)

Busy == Processing \cup Failing

\* What a writer with the given fence leaves of the chain and the stages of e.
Follows(e, fence) ==
    /\ chain' \in [Evals -> ChainRows] /\ stage' \in [Evals -> Stages]
    /\ \A f \in Evals \ {e} : chain'[f] = chain[f] /\ stage'[f] = stage[f]
    /\ chain[e].signal = TRUE => chain'[e].signal = TRUE
    /\ stage'[e].risk # "NONE" => stage'[e].signal = "SUCCESS"
    /\ stage'[e].signal = "SUCCESS" => chain'[e].signal = TRUE
    /\ stage[e].risk = "SUCCESS" /\ chain[e].status \in {"EXECUTING", "BLOCKED"} =>
        /\ stage'[e].risk = "SUCCESS" /\ chain'[e].status \in {"EXECUTING", "BLOCKED"}
        /\ chain'[e].at = chain[e].at /\ chain'[e].bound = chain[e].bound
    /\ stage[e].signal # "NONE" => stage'[e].signal # "NONE" /\ stage'[e].fence = stage[e].fence
    /\ stage'[e].fence = stage[e].fence \/ stage'[e].fence = fence

\* What r writes of e without the lease: what it had loaded, once, of its own stage.
Contained(r, s, e) ==
    /\ s.seen # "UNREAD" => rt[r].seen # "UNREAD"
    /\ UNCHANGED <<chain, stage>> \/ (rt[r].seen # "UNREAD" /\ s.seen = "UNREAD")
    /\ \/ stage'[e] = stage[e]
       \/ /\ stage'[e].fence = rt[r].fence
          /\ stage[e].signal = "NONE" \/ stage[e].fence = rt[r].fence

\* Runtime r goes on with e as s.
GoesOn(r, s, e) ==
    /\ Moved(r, s) /\ s.pc \in Busy /\ s.e = e /\ s.fence = rt[r].fence
    /\ s.late = rt[r].late \/ s.late = Expired(r)
    /\ PhaseOK(s)'
    /\ Follows(e, rt[r].fence)
    /\ OwnsRow(r) \/ Contained(r, s, e)
    /\ UNCHANGED <<queue, risk, attempt, holder>>
    /\ faults' = faults \/ (faults < MaxFaults /\ faults' = faults + 1)

\* The evaluation of a runtime and its rows.
LEMMA StageOf ==
    ASSUME Inv, NEW r \in Runtimes
    PROVE  /\ rt[r] \in States /\ rt[r].e \in Evals /\ RowOK(rt[r].e) /\ PhaseOK(rt[r])
           /\ stage \in [Evals -> Stages] /\ chain \in [Evals -> ChainRows]
           /\ stage[rt[r].e] \in Stages /\ chain[rt[r].e] \in ChainRows
<1>1. rt[r] \in States /\ stage \in [Evals -> Stages] /\ chain \in [Evals -> ChainRows]
  BY DEF Inv, Typed
<1>2. rt[r].e \in Evals
  BY <1>1 DEF States
<1> QED
  BY <1>1, <1>2 DEF Inv

\* What an action makes of one chain, column by column.
ChainIs(e, status, at, signal, bound) ==
    /\ chain' \in [Evals -> ChainRows] /\ \A f \in Evals \ {e} : chain'[f] = chain[f]
    /\ chain'[e].status = status /\ chain'[e].at = at
    /\ chain'[e].signal = signal /\ chain'[e].bound = bound

\* One row of the chains is replaced.
LEMMA ChainRow ==
    ASSUME Inv, NEW e \in Evals, NEW row \in ChainRows, chain' = [chain EXCEPT ![e] = row]
    PROVE  ChainIs(e, row.status, row.at, row.signal, row.bound)
BY DEF ChainIs, Inv, Typed

\* The ways the actions write a chain.
LEMMA ChainForms ==
    ASSUME Inv, NEW e \in Evals, NEW x \in ChainStatuses
    PROVE  LET c == chain[e] IN
           /\ UNCHANGED chain => ChainIs(e, c.status, c.at, c.signal, c.bound)
           /\ chain' = [chain EXCEPT ![e].status = x] => ChainIs(e, x, c.at, c.signal, c.bound)
           /\ chain' = [chain EXCEPT ![e].at = "SIGNAL"] => ChainIs(e, c.status, "SIGNAL", c.signal, c.bound)
           /\ chain' = [chain EXCEPT ![e].at = "RISK"] => ChainIs(e, c.status, "RISK", c.signal, c.bound)
           /\ chain' = [chain EXCEPT ![e].signal = TRUE] =>
                ChainIs(e, c.status, c.at, TRUE, c.bound) /\ (c.signal => UNCHANGED chain)
           /\ chain' = [chain EXCEPT ![e].status = x, ![e].at = "RISK"] =>
                ChainIs(e, x, "RISK", c.signal, c.bound)
           /\ chain' = [chain EXCEPT ![e].status = x, ![e].at = "EXECUTION", ![e].bound = TRUE] =>
                ChainIs(e, x, "EXECUTION", c.signal, TRUE)
<1>1. chain \in [Evals -> ChainRows] /\ chain[e] \in ChainRows
      /\ "SIGNAL" \in {"SIGNAL", "RISK", "EXECUTION"} /\ TRUE \in BOOLEAN
  BY DEF Inv, Typed
<1>2. ASSUME UNCHANGED chain
      PROVE  ChainIs(e, chain[e].status, chain[e].at, chain[e].signal, chain[e].bound)
  BY <1>1, <1>2, Zenon DEF ChainIs
<1>3. ASSUME chain' = [chain EXCEPT ![e].status = x]
      PROVE  ChainIs(e, x, chain[e].at, chain[e].signal, chain[e].bound)
  <2>1. PICK row : row = [chain[e] EXCEPT !.status = x]
    OBVIOUS
  <2>2. /\ row \in ChainRows /\ row.status = x /\ row.at = chain[e].at
        /\ row.signal = chain[e].signal /\ row.bound = chain[e].bound
    BY <1>1, <2>1, Zenon DEF ChainRows
  <2>3. chain' = [chain EXCEPT ![e] = row]
    BY <1>1, <1>3, <2>1
  <2>4. ChainIs(e, row.status, row.at, row.signal, row.bound)
    BY <2>2, <2>3, ChainRow
  <2> QED
    BY <2>2, <2>4
<1>4. ASSUME NEW at \in {"SIGNAL", "RISK"}, chain' = [chain EXCEPT ![e].at = at]
      PROVE  ChainIs(e, chain[e].status, at, chain[e].signal, chain[e].bound)
  <2>1. PICK row : row = [chain[e] EXCEPT !.at = at]
    OBVIOUS
  <2>2. /\ row \in ChainRows /\ row.at = at /\ row.status = chain[e].status
        /\ row.signal = chain[e].signal /\ row.bound = chain[e].bound
    BY <1>1, <2>1, Zenon DEF ChainRows
  <2>3. chain' = [chain EXCEPT ![e] = row]
    BY <1>1, <1>4, <2>1
  <2>4. ChainIs(e, row.status, row.at, row.signal, row.bound)
    BY <2>2, <2>3, ChainRow
  <2> QED
    BY <2>2, <2>4
<1>5. ASSUME chain' = [chain EXCEPT ![e].signal = TRUE]
      PROVE  /\ ChainIs(e, chain[e].status, chain[e].at, TRUE, chain[e].bound)
             /\ chain[e].signal => UNCHANGED chain
  <2>1. PICK row : row = [chain[e] EXCEPT !.signal = TRUE]
    OBVIOUS
  <2>2. /\ row \in ChainRows /\ row.at = chain[e].at /\ row.status = chain[e].status
        /\ row.signal = TRUE /\ row.bound = chain[e].bound
    BY <1>1, <2>1, Zenon DEF ChainRows
  <2>3. chain' = [chain EXCEPT ![e] = row]
    BY <1>1, <1>5, <2>1
  <2>4. ChainIs(e, row.status, row.at, row.signal, row.bound)
    BY <2>2, <2>3, ChainRow
  <2>5. chain[e].signal => row = chain[e]
    <3>1. chain[e].signal \in BOOLEAN
      BY <1>1 DEF ChainRows
    <3>2. chain[e].signal = TRUE => row = chain[e]
      BY <1>1, <2>1, Zenon DEF ChainRows
    <3> QED
      BY <3>1, <3>2
  <2> QED
    BY <1>1, <2>2, <2>3, <2>4, <2>5
<1>6. ASSUME chain' = [chain EXCEPT ![e].status = x, ![e].at = "RISK"]
      PROVE  ChainIs(e, x, "RISK", chain[e].signal, chain[e].bound)
  <2>1. PICK row : row = [chain[e] EXCEPT !.status = x, !.at = "RISK"]
    OBVIOUS
  <2>2. /\ row \in ChainRows /\ row.at = "RISK" /\ row.status = x
        /\ row.signal = chain[e].signal /\ row.bound = chain[e].bound
    BY <1>1, <2>1, Zenon DEF ChainRows
  <2>3. chain' = [chain EXCEPT ![e] = row]
    BY <1>1, <1>6, <2>1
  <2>4. ChainIs(e, row.status, row.at, row.signal, row.bound)
    BY <2>2, <2>3, ChainRow
  <2> QED
    BY <2>2, <2>4
<1>7. ASSUME chain' = [chain EXCEPT ![e].status = x, ![e].at = "EXECUTION", ![e].bound = TRUE]
      PROVE  ChainIs(e, x, "EXECUTION", chain[e].signal, TRUE)
  <2>1. PICK row : row = [chain[e] EXCEPT !.status = x, !.at = "EXECUTION", !.bound = TRUE]
    OBVIOUS
  <2>2. /\ row \in ChainRows /\ row.at = "EXECUTION" /\ row.status = x
        /\ row.signal = chain[e].signal /\ row.bound = TRUE
    BY <1>1, <2>1, Zenon DEF ChainRows
  <2>3. chain' = [chain EXCEPT ![e] = row]
    BY <1>1, <1>7, <2>1
  <2>4. ChainIs(e, row.status, row.at, row.signal, row.bound)
    BY <2>2, <2>3, ChainRow
  <2> QED
    BY <2>2, <2>4
<1> QED
  BY <1>2, <1>3, <1>4, <1>5, <1>6, <1>7, Zenon

\* What an action makes of the stages of one chain.
StageIs(e, signal, fence, risks) ==
    /\ stage' \in [Evals -> Stages] /\ \A f \in Evals \ {e} : stage'[f] = stage[f]
    /\ stage'[e].signal = signal /\ stage'[e].fence = fence /\ stage'[e].risk = risks

\* One row of the stages is replaced.
LEMMA StageRow ==
    ASSUME Inv, NEW e \in Evals, NEW row \in Stages, stage' = [stage EXCEPT ![e] = row]
    PROVE  StageIs(e, row.signal, row.fence, row.risk)
BY DEF StageIs, Inv, Typed

\* The ways the actions write the stages.
LEMMA StageForms ==
    ASSUME Inv, NEW e \in Evals, NEW x \in StageStatuses, NEW fence \in Nat
    PROVE  LET t == stage[e] IN
           /\ UNCHANGED stage => StageIs(e, t.signal, t.fence, t.risk)
           /\ stage' = [stage EXCEPT ![e].signal = x, ![e].fence = fence] => StageIs(e, x, fence, t.risk)
           /\ stage' = [stage EXCEPT ![e].signal = x] =>
                StageIs(e, x, t.fence, t.risk) /\ (t.signal = x => UNCHANGED stage)
           /\ stage' = [stage EXCEPT ![e].risk = x] =>
                StageIs(e, t.signal, t.fence, x) /\ (t.risk = x => UNCHANGED stage)
<1>1. stage \in [Evals -> Stages] /\ stage[e] \in Stages
  BY DEF Inv, Typed
<1>2. UNCHANGED stage => StageIs(e, stage[e].signal, stage[e].fence, stage[e].risk)
  BY <1>1 DEF StageIs
<1>3. ASSUME stage' = [stage EXCEPT ![e].signal = x, ![e].fence = fence]
      PROVE  StageIs(e, x, fence, stage[e].risk)
  <2>1. PICK row : row = [stage[e] EXCEPT !.signal = x, !.fence = fence]
    OBVIOUS
  <2>2. row \in Stages /\ row.signal = x /\ row.fence = fence /\ row.risk = stage[e].risk
    BY <1>1, <2>1 DEF Stages
  <2>3. stage' = [stage EXCEPT ![e] = row]
    BY <1>1, <1>3, <2>1
  <2>4. StageIs(e, row.signal, row.fence, row.risk)
    BY <2>2, <2>3, StageRow
  <2> QED
    BY <2>2, <2>4
<1>4. ASSUME stage' = [stage EXCEPT ![e].signal = x]
      PROVE  StageIs(e, x, stage[e].fence, stage[e].risk) /\ (stage[e].signal = x => UNCHANGED stage)
  <2>1. PICK row : row = [stage[e] EXCEPT !.signal = x]
    OBVIOUS
  <2>2. row \in Stages /\ row.signal = x /\ row.fence = stage[e].fence /\ row.risk = stage[e].risk
    BY <1>1, <2>1 DEF Stages
  <2>3. stage' = [stage EXCEPT ![e] = row]
    BY <1>1, <1>4, <2>1
  <2>4. StageIs(e, row.signal, row.fence, row.risk)
    BY <2>2, <2>3, StageRow
  <2>5. stage[e].signal = x => row = stage[e]
    BY <1>1, <2>1, Zenon DEF Stages
  <2> QED
    BY <1>1, <2>2, <2>3, <2>4, <2>5
<1>5. ASSUME stage' = [stage EXCEPT ![e].risk = x]
      PROVE  StageIs(e, stage[e].signal, stage[e].fence, x) /\ (stage[e].risk = x => UNCHANGED stage)
  <2>1. PICK row : row = [stage[e] EXCEPT !.risk = x]
    OBVIOUS
  <2>2. row \in Stages /\ row.signal = stage[e].signal /\ row.fence = stage[e].fence /\ row.risk = x
    BY <1>1, <2>1 DEF Stages
  <2>3. stage' = [stage EXCEPT ![e] = row]
    BY <1>1, <1>5, <2>1
  <2>4. StageIs(e, row.signal, row.fence, row.risk)
    BY <2>2, <2>3, StageRow
  <2>5. stage[e].risk = x => row = stage[e]
    BY <1>1, <2>1, Zenon DEF Stages
  <2> QED
    BY <1>1, <2>2, <2>3, <2>4, <2>5
<1> QED
  BY <1>2, <1>3, <1>4, <1>5

\* A step that writes neither.
LEMMA StillFollows ==
    ASSUME Inv, NEW e \in Evals, NEW fence \in Nat, UNCHANGED <<chain, stage>>
    PROVE  Follows(e, fence)
<1>1. RowOK(e)
  BY DEF Inv
<1> QED
  BY <1>1 DEF Follows, Inv, Typed, RowOK

\* A runtime that fails.
LEMMA FailGoes ==
    ASSUME Inv, NEW r \in Runtimes, Fail(r), rt[r].pc \in Busy, NEW e \in Evals, e = rt[r].e,
           Follows(e, rt[r].fence), UNCHANGED <<queue, risk, attempt, holder, faults>>,
           UNCHANGED <<chain, stage>> \/ (rt[r].seen # "UNREAD" /\ UNCHANGED stage)
    PROVE  \E s \in States : GoesOn(r, s, e)
<1>1. PICK s \in States : /\ Moved(r, s) /\ s.pc = "FAIL_STAGE" /\ s.e = e
                          /\ s.fence = rt[r].fence /\ s.late = rt[r].late /\ s.seen = "UNREAD"
  BY FailMoves
<1>2. PhaseOK(s)'
  BY <1>1 DEF PhaseOK, Begun
<1>3. Contained(r, s, e)
  BY <1>1 DEF Contained
<1> QED
  BY <1>1, <1>2, <1>3 DEF GoesOn, Busy, Failing

\* A transaction loads its rows.
LEMMA LoadGoes ==
    ASSUME Inv, NEW r \in Runtimes, Load(r)
    PROVE  \E s \in States : GoesOn(r, s, rt[r].e)
<1>1. /\ UNCHANGED <<queue, risk, attempt, holder, faults>> /\ UNCHANGED <<chain, stage>>
      /\ rt[r].pc \in Reading /\ rt[r].pc \in Busy
  BY DEF Load, execution, Reading, Busy, Processing
<1>2. PICK e \in Evals, fence \in Nat : e = rt[r].e /\ fence = rt[r].fence /\ rt[r] \in States
  BY StageOf DEF States
<1>3. Follows(e, rt[r].fence)
  BY <1>1, <1>2, StillFollows
<1>4. CASE Fail(r)
  BY <1>1, <1>2, <1>3, <1>4, FailGoes
<1>5. CASE ~Fail(r)
  <2>1. Owns(r) /\ rt' = [rt EXCEPT ![r].seen = IF At(r, "OPEN") THEN "NONE" ELSE chain[e].status]
    BY <1>2, <1>5 DEF Load
  <2>2. PICK seen \in ChainStatuses \cup {"UNREAD"} :
            seen = IF At(r, "OPEN") THEN "NONE" ELSE chain[e].status
    BY StageOf DEF ChainRows, ChainStatuses
  <2>3. PICK s : s = [rt[r] EXCEPT !.seen = seen]
    OBVIOUS
  <2>4. /\ s \in States /\ s.pc = rt[r].pc /\ s.e = e /\ s.fence = rt[r].fence /\ s.late = rt[r].late
        /\ s.seen = seen
    BY <1>2, <2>3, Zenon DEF States
  <2>5. Moved(r, s)
    BY <1>2, <2>1, <2>2, <2>3 DEF Moved
  <2>6. PhaseOK(s)'
    <3>1. s.pc \in Reading
      BY <1>1, <2>4
    <3>2. PhaseOK(rt[r]) /\ UNCHANGED <<chain, stage>>
      BY <1>1, StageOf
    <3> QED
      BY <1>2, <2>4, <3>1, <3>2 DEF PhaseOK, Reading
  <2>7. GoesOn(r, s, e)
    BY <1>1, <1>3, <2>1, <2>4, <2>5, <2>6 DEF GoesOn, Owns
  <2> QED
    BY <1>2, <2>4, <2>7
<1> QED
  BY <1>4, <1>5

\* A state of r with other things read.
ReadBy(r, row) ==
    /\ row \in States /\ row.e = rt[r].e /\ row.fence = rt[r].fence /\ row.late = rt[r].late

\* A transaction that is refused with no stage prepared blocks the chain it loaded.
LEMMA BlocksGoes ==
    ASSUME Inv, NEW r \in Runtimes, NEW row, ReadBy(r, row), BlockedAtOnce(r, row),
           rt[r].pc \in Busy, rt[r].seen # "UNREAD", UNCHANGED <<queue, risk, attempt, holder, faults>>
    PROVE  \E s \in States : GoesOn(r, s, rt[r].e)
<1>1. /\ rt[r] \in States /\ "FAIL_EVALUATION" \in Phases /\ "NONE" \in Decisions
      /\ {} \in SUBSET Evals /\ "UNREAD" \in ChainStatuses \cup {"UNREAD"}
      /\ UNCHANGED stage
  BY StageOf DEF Phases, Failing, Decisions, BlockedAtOnce
<1>2. PICK e \in Evals, fence \in Nat : e = rt[r].e /\ fence = rt[r].fence
  BY StageOf DEF States
<1>3. PICK s : s = [row EXCEPT !.pc = "FAIL_EVALUATION", !.decision = "NONE", !.clock = {},
                               !.seen = "UNREAD"]
  OBVIOUS
<1>4. /\ s \in States /\ s.pc = "FAIL_EVALUATION" /\ s.e = e /\ s.fence = fence
      /\ s.late = rt[r].late /\ s.seen = "UNREAD"
  BY <1>1, <1>2, <1>3, Zenon DEF States, ReadBy
<1>5. Moved(r, s)
  BY <1>3 DEF BlockedAtOnce, Moved
<1>6. PhaseOK(s)'
  BY <1>4 DEF PhaseOK, Begun
<1>7. Follows(e, fence)
  <2>1. "BLOCKED" \in ChainStatuses /\ RowOK(e) /\ "BLOCKED" \in StageStatuses
    BY DEF ChainStatuses, StageStatuses, Inv
  <2>2. UNCHANGED chain \/ chain' = [chain EXCEPT ![e].status = "BLOCKED"]
    BY <1>2 DEF BlockedAtOnce, ReadBy
  <2>3. PICK c, t : c = chain[e] /\ t = stage[e]
    OBVIOUS
  <2>4. StageIs(e, t.signal, t.fence, t.risk)
    BY <1>1, <1>2, <2>1, <2>3, StageForms
  <2>5. ChainIs(e, c.status, c.at, c.signal, c.bound) \/ ChainIs(e, "BLOCKED", c.at, c.signal, c.bound)
    BY <2>1, <2>2, <2>3, ChainForms
  <2> QED
    BY <2>1, <2>3, <2>4, <2>5 DEF RowOK, ChainIs, StageIs, Follows
<1>8. Contained(r, s, e)
  BY <1>1, <1>4 DEF Contained
<1>9. GoesOn(r, s, e)
  BY <1>2, <1>4, <1>5, <1>6, <1>7, <1>8 DEF GoesOn, Busy, Failing
<1> QED
  BY <1>2, <1>4, <1>9

\* The SIGNAL stage is prepared with the fence of its writer, or resumed.
LEMMA SignalGoes ==
    ASSUME Inv, NEW r \in Runtimes, NEW row, ReadBy(r, row), SignalPrepared(r, row),
           rt[r].pc \in Busy, rt[r].seen # "UNREAD", UNCHANGED <<queue, risk, attempt, holder, faults>>
    PROVE  \E s \in States : GoesOn(r, s, rt[r].e)
<1>1. /\ rt[r] \in States /\ "RECORD_SIGNAL" \in Phases /\ "SIGNAL" \in {"NONE", "SIGNAL", "RISK"}
      /\ {} \in SUBSET Evals /\ "UNREAD" \in ChainStatuses \cup {"UNREAD"}
  BY StageOf DEF Phases, Processing
<1>2. PICK e \in Evals, fence \in Nat : e = rt[r].e /\ fence = rt[r].fence
  BY StageOf DEF States
<1>3. row.e = e /\ row.fence = fence /\ row.seen \in ChainStatuses \cup {"UNREAD"}
  BY <1>2 DEF ReadBy, States
<1>4. PICK resumes \in BOOLEAN :
        resumes = (stage[e].signal \in {"PREPARED", "SUCCESS"} /\ stage[e].fence = fence)
  OBVIOUS
<1>5. CASE BlockedAtOnce(r, row)
  BY <1>5, BlocksGoes
<1>6. CASE ~BlockedAtOnce(r, row)
  <2>1. /\ stage[e].signal = "NONE" \/ resumes
        /\ rt' = [rt EXCEPT ![r] =
                     [row EXCEPT !.pc = "RECORD_SIGNAL", !.prepared = "SIGNAL", !.clock = {},
                                 !.seen = IF resumes THEN @ ELSE "UNREAD"]]
        /\ stage' = IF resumes THEN stage
                    ELSE [stage EXCEPT ![e].signal = "PREPARED", ![e].fence = fence]
        /\ chain' = IF resumes THEN chain ELSE [chain EXCEPT ![e].at = "SIGNAL"]
    BY <1>3, <1>4, <1>6 DEF SignalPrepared
  <2>2. PICK seen \in ChainStatuses \cup {"UNREAD"} : seen = IF resumes THEN row.seen ELSE "UNREAD"
    BY <1>3
  <2>3. PICK s : s = [row EXCEPT !.pc = "RECORD_SIGNAL", !.prepared = "SIGNAL", !.clock = {}, !.seen = seen]
    OBVIOUS
  <2>4. /\ s \in States /\ s.pc = "RECORD_SIGNAL" /\ s.e = e /\ s.fence = fence
        /\ s.late = rt[r].late /\ s.seen = seen
    BY <1>1, <1>2, <2>3, Zenon DEF States, ReadBy
  <2>5. Moved(r, s)
    BY <2>1, <2>2, <2>3 DEF Moved
  <2>6. /\ RowOK(e) /\ "PREPARED" \in StageStatuses /\ "NONE" \in ChainStatuses
        /\ stage[e] \in Stages
    BY DEF Inv, Typed, StageStatuses, ChainStatuses
  <2>7. CASE resumes
    <3>1. UNCHANGED <<chain, stage>>
      BY <2>1, <2>7
    <3>2. Follows(e, fence)
      BY <3>1, StillFollows
    <3>3. PhaseOK(s)'
      BY <1>4, <2>4, <2>7, <3>1 DEF PhaseOK
    <3>4. Contained(r, s, e)
      BY <3>1 DEF Contained
    <3>5. GoesOn(r, s, e)
      BY <1>2, <2>4, <2>5, <3>2, <3>3, <3>4 DEF GoesOn, Busy, Processing
    <3> QED
      BY <1>2, <2>4, <3>5
  <2>8. CASE ~resumes
    <3>1. PICK c, t : c = chain[e] /\ t = stage[e]
      OBVIOUS
    <3>2. StageIs(e, "PREPARED", fence, t.risk)
      BY <2>1, <2>6, <2>8, <3>1, StageForms
    <3>3. ChainIs(e, c.status, "SIGNAL", c.signal, c.bound)
      BY <2>1, <2>6, <2>8, <3>1, ChainForms
    <3>4. t.signal = "NONE" /\ t.risk = "NONE"
      BY <2>1, <2>6, <2>8, <3>1 DEF RowOK
    <3>5. Follows(e, fence)
      BY <2>6, <3>1, <3>2, <3>3, <3>4 DEF RowOK, ChainIs, StageIs, Follows
    <3>6. PhaseOK(s)'
      BY <2>4, <3>2 DEF PhaseOK, StageIs
    <3>7. Contained(r, s, e)
      BY <1>2, <2>2, <2>4, <2>8, <3>1, <3>2, <3>4 DEF Contained, StageIs
    <3>8. GoesOn(r, s, e)
      BY <1>2, <2>4, <2>5, <3>5, <3>6, <3>7 DEF GoesOn, Busy, Processing
    <3> QED
      BY <1>2, <2>4, <3>8
  <2> QED
    BY <2>7, <2>8
<1> QED
  BY <1>5, <1>6

\* A chain is opened, resumed or found blocked.
LEMMA OpenChainGoes ==
    ASSUME Inv, NEW r \in Runtimes, OpenChain(r)
    PROVE  \E s \in States : GoesOn(r, s, rt[r].e)
<1>1. /\ UNCHANGED <<queue, risk, attempt, holder, faults>> /\ rt[r].pc \in Busy
      /\ rt[r].seen # "UNREAD" /\ rt[r] \in States
  BY StageOf DEF OpenChain, At, Loaded, Busy, Processing
<1>2. PICK e \in Evals, fence \in Nat : e = rt[r].e /\ fence = rt[r].fence
  BY StageOf DEF States
<1>3. PICK seen \in ChainStatuses : seen = chain[e].status
  BY DEF Inv, Typed, ChainRows
<1>4. PICK row : row = [rt[r] EXCEPT !.open = TRUE, !.decision = "NONE", !.seen = seen]
  OBVIOUS
<1>5. /\ TRUE \in BOOLEAN /\ "NONE" \in Decisions /\ seen \in ChainStatuses \cup {"UNREAD"}
      /\ "PREPARE_SIGNAL" \in Phases /\ {} \in SUBSET Evals /\ "UNREAD" \in ChainStatuses \cup {"UNREAD"}
  BY <1>3 DEF Decisions, Phases, Processing
<1>6. ReadBy(r, row)
  BY <1>1, <1>4, <1>5, Zenon DEF States, ReadBy
<1>7. PICK next : next = [row EXCEPT !.pc = "PREPARE_SIGNAL", !.clock = {}, !.seen = "UNREAD"]
  OBVIOUS
<1>8. /\ next \in States /\ next.pc = "PREPARE_SIGNAL" /\ next.e = e /\ next.fence = fence
      /\ next.late = rt[r].late /\ next.seen = "UNREAD"
  BY <1>2, <1>5, <1>6, <1>7, Zenon DEF States, ReadBy
<1>9. \/ /\ rt' = [rt EXCEPT ![r] = next] /\ UNCHANGED stage
         /\ UNCHANGED chain \/ (chain[e].status = "NONE" /\ chain' = [chain EXCEPT ![e].status = "APPROVED"])
      \/ SignalPrepared(r, row)
      \/ BlockedAtOnce(r, row)
  BY <1>2, <1>3, <1>4, <1>7 DEF OpenChain, execution
<1>10. CASE SignalPrepared(r, row)
  BY <1>1, <1>6, <1>10, SignalGoes
<1>11. CASE BlockedAtOnce(r, row)
  BY <1>1, <1>6, <1>11, BlocksGoes
<1>12. CASE /\ rt' = [rt EXCEPT ![r] = next] /\ UNCHANGED stage
            /\ UNCHANGED chain \/ (chain[e].status = "NONE" /\ chain' = [chain EXCEPT ![e].status = "APPROVED"])
  <2>1. Moved(r, next)
    BY <1>12 DEF Moved
  <2>2. PhaseOK(next)'
    BY <1>8 DEF PhaseOK, Begun
  <2>3. "APPROVED" \in ChainStatuses /\ RowOK(e) /\ "NONE" \in StageStatuses
    BY DEF ChainStatuses, StageStatuses, Inv
  <2>4. PICK c, t : c = chain[e] /\ t = stage[e]
    OBVIOUS
  <2>5. StageIs(e, t.signal, t.fence, t.risk)
    BY <1>2, <1>12, <2>3, <2>4, StageForms
  <2>6. \/ ChainIs(e, c.status, c.at, c.signal, c.bound)
        \/ c.status = "NONE" /\ ChainIs(e, "APPROVED", c.at, c.signal, c.bound)
    BY <1>12, <2>3, <2>4, ChainForms
  <2>7. Follows(e, fence)
    BY <2>3, <2>4, <2>5, <2>6 DEF RowOK, ChainIs, StageIs, Follows
  <2>8. Contained(r, next, e)
    BY <1>1, <1>8, <1>12 DEF Contained
  <2>9. GoesOn(r, next, e)
    BY <1>1, <1>2, <1>8, <2>1, <2>2, <2>7, <2>8 DEF GoesOn, Busy, Processing
  <2> QED
    BY <1>2, <1>8, <2>9
<1> QED
  BY <1>9, <1>10, <1>11, <1>12

\* The SIGNAL stage by itself.
LEMMA PrepareSignalGoes ==
    ASSUME Inv, NEW r \in Runtimes, PrepareSignal(r)
    PROVE  \E s \in States : GoesOn(r, s, rt[r].e)
<1>1. PICK row : row = rt[r]
  OBVIOUS
<1>2. /\ ReadBy(r, row) /\ SignalPrepared(r, row) /\ rt[r].pc \in Busy /\ rt[r].seen # "UNREAD"
      /\ UNCHANGED <<queue, risk, attempt, holder, faults>>
  BY <1>1, StageOf DEF PrepareSignal, At, Loaded, ReadBy, Busy, Processing
<1> QED
  BY <1>2, SignalGoes

\* The signal is recorded, or blocks its chain.
LEMMA RecordSignalGoes ==
    ASSUME Inv, NEW r \in Runtimes, RecordSignal(r)
    PROVE  \E s \in States : GoesOn(r, s, rt[r].e)
<1>1. /\ UNCHANGED <<queue, risk, attempt, holder, faults>> /\ rt[r].pc \in Busy /\ UNCHANGED stage
      /\ rt[r].seen # "UNREAD" /\ rt[r] \in States /\ rt[r].pc = "RECORD_SIGNAL" /\ PhaseOK(rt[r])
  BY StageOf DEF RecordSignal, At, Loaded, Busy, Processing
<1>2. PICK e \in Evals, fence \in Nat : e = rt[r].e /\ fence = rt[r].fence
  BY StageOf DEF States
<1>3. "BLOCKED" \in ChainStatuses /\ "NONE" \in StageStatuses /\ RowOK(e)
      /\ "COMPLETE_SIGNAL" \in Phases
  BY DEF ChainStatuses, StageStatuses, Inv, Phases, Processing
<1>4. PICK c, t : c = chain[e] /\ t = stage[e]
  OBVIOUS
<1>5. StageIs(e, t.signal, t.fence, t.risk)
  BY <1>1, <1>2, <1>3, <1>4, StageForms
<1>6. CASE Fail(r) /\ (UNCHANGED chain \/ chain' = [chain EXCEPT ![e].status = "BLOCKED"])
  <2>1. \/ ChainIs(e, c.status, c.at, c.signal, c.bound)
        \/ ChainIs(e, "BLOCKED", c.at, c.signal, c.bound)
    BY <1>3, <1>4, <1>6, ChainForms
  <2>2. Follows(e, fence)
    BY <1>3, <1>4, <1>5, <2>1 DEF RowOK, ChainIs, StageIs, Follows
  <2> QED
    BY <1>1, <1>2, <1>6, <2>2, FailGoes
<1>7. CASE /\ chain' = [chain EXCEPT ![e].signal = TRUE]
           /\ rt' = [rt EXCEPT ![r].pc = "COMPLETE_SIGNAL",
                               ![r].seen = IF chain[e].signal THEN @ ELSE "UNREAD"]
  <2>1. PICK seen \in ChainStatuses \cup {"UNREAD"} :
            seen = IF chain[e].signal THEN rt[r].seen ELSE "UNREAD"
    BY <1>1 DEF States
  <2>2. PICK s : s = [rt[r] EXCEPT !.pc = "COMPLETE_SIGNAL", !.seen = seen]
    OBVIOUS
  <2>3. /\ s \in States /\ s.pc = "COMPLETE_SIGNAL" /\ s.e = e /\ s.fence = fence
        /\ s.late = rt[r].late /\ s.seen = seen
    BY <1>1, <1>2, <1>3, <2>2, Zenon DEF States
  <2>4. Moved(r, s)
    BY <1>1, <1>7, <2>1, <2>2 DEF Moved
  <2>5. ChainIs(e, c.status, c.at, TRUE, c.bound) /\ (c.signal => UNCHANGED chain)
    BY <1>3, <1>4, <1>7, ChainForms
  <2>6. Follows(e, fence)
    BY <1>3, <1>4, <1>5, <2>5 DEF RowOK, ChainIs, StageIs, Follows
  <2>7. PhaseOK(s)'
    BY <1>1, <1>2, <2>3, <2>5 DEF PhaseOK, Begun, ChainIs
  <2>8. Contained(r, s, e)
    BY <1>1, <1>4, <2>1, <2>3, <2>5 DEF Contained
  <2>9. GoesOn(r, s, e)
    BY <1>1, <1>2, <2>3, <2>4, <2>6, <2>7, <2>8 DEF GoesOn, Busy, Processing
  <2> QED
    BY <1>2, <2>3, <2>9
<1> QED
  BY <1>2, <1>6, <1>7 DEF RecordSignal

\* What a chain's status may become.
LEMMA ExecutingType ==
    ASSUME Inv, NEW r \in Runtimes
    PROVE  Executing(r) \in ChainStatuses /\ "SUCCESS" \in StageStatuses /\ "PREPARED" \in StageStatuses
BY StageOf DEF Executing, ChainStatuses, ChainRows, StageStatuses

\* The SIGNAL stage ends.
LEMMA CompleteSignalGoes ==
    ASSUME Inv, NEW r \in Runtimes, CompleteSignal(r)
    PROVE  \E s \in States : GoesOn(r, s, rt[r].e)
<1>1. /\ UNCHANGED <<queue, risk, attempt, holder, faults>> /\ rt[r].pc \in Busy
      /\ rt[r].seen # "UNREAD" /\ rt[r] \in States /\ rt[r].pc = "COMPLETE_SIGNAL" /\ PhaseOK(rt[r])
      /\ "BOUNDARY" \in Phases /\ "NONE" \in {"NONE", "SIGNAL", "RISK"}
  BY StageOf DEF CompleteSignal, At, Loaded, Busy, Processing, Phases
<1>2. PICK e \in Evals, fence \in Nat : e = rt[r].e /\ fence = rt[r].fence
  BY StageOf DEF States
<1>3. RowOK(e) /\ chain[e].signal = TRUE /\ stage[e].signal # "NONE" /\ stage[e].fence = fence
      /\ stage[e] \in Stages
  BY <1>1, <1>2, StageOf DEF PhaseOK, Begun
<1>4. PICK c, t : c = chain[e] /\ t = stage[e]
  OBVIOUS
<1>5. CASE Fail(r) /\ UNCHANGED execution
  <2>1. UNCHANGED <<chain, stage>>
    BY <1>5 DEF execution
  <2>2. Follows(e, fence)
    BY <2>1, StillFollows
  <2> QED
    BY <1>1, <1>2, <1>5, <2>1, <2>2, FailGoes
<1>6. CASE ~(Fail(r) /\ UNCHANGED execution)
  <2>1. PICK done \in BOOLEAN : done = (t.signal = "SUCCESS")
    OBVIOUS
  <2>2. PICK x \in ChainStatuses : x = Executing(r)
    BY ExecutingType
  <2>3. /\ t.signal \in {"PREPARED", "SUCCESS"}
        /\ rt' = [rt EXCEPT ![r].pc = "BOUNDARY", ![r].prepared = "NONE",
                            ![r].seen = IF done THEN @ ELSE "UNREAD"]
        /\ stage' = [stage EXCEPT ![e].signal = "SUCCESS"]
        /\ chain' = IF done THEN chain ELSE [chain EXCEPT ![e].status = x, ![e].at = "RISK"]
    BY <1>2, <1>4, <1>6, <2>1, <2>2 DEF CompleteSignal
  <2>4. PICK seen \in ChainStatuses \cup {"UNREAD"} : seen = IF done THEN rt[r].seen ELSE "UNREAD"
    BY <1>1 DEF States
  <2>5. PICK s : s = [rt[r] EXCEPT !.pc = "BOUNDARY", !.prepared = "NONE", !.seen = seen]
    OBVIOUS
  <2>6. /\ s \in States /\ s.pc = "BOUNDARY" /\ s.e = e /\ s.fence = fence
        /\ s.late = rt[r].late /\ s.seen = seen
    BY <1>1, <1>2, <2>5, Zenon DEF States
  <2>7. Moved(r, s)
    BY <1>1, <2>3, <2>4, <2>5 DEF Moved
  <2>8. /\ StageIs(e, "SUCCESS", t.fence, t.risk)
        /\ t.signal = "SUCCESS" => UNCHANGED stage
    BY <1>2, <1>4, <2>3, StageForms, ExecutingType
  <2>9. IF done THEN ChainIs(e, c.status, c.at, c.signal, c.bound) /\ UNCHANGED chain
        ELSE ChainIs(e, x, "RISK", c.signal, c.bound)
    BY <1>4, <2>2, <2>3, ChainForms
  <2>10. Follows(e, fence)
    <3>1. t.signal # "SUCCESS" => t.risk = "NONE"
      BY <1>3, <1>4 DEF RowOK
    <3>2. CASE done
      BY <1>3, <1>4, <2>1, <2>8, <2>9, <3>2 DEF RowOK, ChainIs, StageIs, Follows
    <3>3. CASE ~done
      BY <1>3, <1>4, <2>1, <2>8, <2>9, <3>1, <3>3 DEF ChainIs, StageIs, Follows
    <3> QED
      BY <3>2, <3>3
  <2>11. PhaseOK(s)'
    BY <1>3, <1>4, <2>6, <2>8 DEF PhaseOK, StageIs
  <2>12. Contained(r, s, e)
    BY <1>1, <1>2, <1>3, <1>4, <2>1, <2>4, <2>6, <2>8, <2>9 DEF Contained, StageIs
  <2>13. GoesOn(r, s, e)
    BY <1>1, <1>2, <2>6, <2>7, <2>10, <2>11, <2>12 DEF GoesOn, Busy, Processing
  <2> QED
    BY <1>2, <2>6, <2>13
<1> QED
  BY <1>5, <1>6

\* The clock is read again.
LEMMA BoundaryGoes ==
    ASSUME Inv, NEW r \in Runtimes, Boundary(r)
    PROVE  \E s \in States : GoesOn(r, s, rt[r].e)
<1>1. /\ UNCHANGED <<queue, risk, attempt, holder, faults>> /\ UNCHANGED <<chain, stage>>
      /\ rt[r] \in States /\ rt[r].pc = "BOUNDARY" /\ PhaseOK(rt[r])
      /\ {"PREPARE_RISK", "FAIL_STAGE"} \subseteq Phases /\ "NONE" \in Decisions
      /\ {} \in SUBSET Evals /\ "UNREAD" \in ChainStatuses \cup {"UNREAD"}
  BY StageOf DEF Boundary, At, execution, Phases, Processing, Failing, Decisions
<1>2. PICK e \in Evals, fence \in Nat : e = rt[r].e /\ fence = rt[r].fence
  BY StageOf DEF States
<1>3. PICK late \in BOOLEAN : late = Expired(r)
  BY DEF Expired
<1>4. Follows(e, fence)
  BY <1>1, StillFollows
<1>5. ASSUME NEW s \in States, Moved(r, s), s.pc \in {"PREPARE_RISK", "FAIL_STAGE"}, s.e = e,
             s.fence = fence, s.late = late, s.seen = "UNREAD"
      PROVE  \E u \in States : GoesOn(r, u, rt[r].e)
  <2>1. PhaseOK(s)'
    BY <1>1, <1>2, <1>5 DEF PhaseOK, Begun
  <2>2. Contained(r, s, e)
    BY <1>1, <1>5 DEF Contained
  <2>3. GoesOn(r, s, e)
    BY <1>1, <1>2, <1>3, <1>4, <1>5, <2>1, <2>2 DEF GoesOn, Busy, Processing, Failing
  <2> QED
    BY <1>2, <2>3
<1>6. CASE rt' = [[rt EXCEPT ![r].late = late, ![r].seen = "UNREAD"] EXCEPT ![r].pc = "PREPARE_RISK"]
  <2>1. PICK s : s = [rt[r] EXCEPT !.late = late, !.seen = "UNREAD", !.pc = "PREPARE_RISK"]
    OBVIOUS
  <2>2. "PREPARE_RISK" \in Phases
    BY <1>1
  <2>3. /\ s \in States /\ s.pc = "PREPARE_RISK" /\ s.e = e /\ s.fence = fence
        /\ s.late = late /\ s.seen = "UNREAD"
    BY <1>1, <1>2, <2>1, <2>2, Zenon DEF States
  <2>4. Moved(r, s)
    BY <1>1, <1>6, <2>1 DEF Moved
  <2> QED
    BY <1>5, <2>3, <2>4
<1>7. CASE rt' = [[rt EXCEPT ![r].late = late, ![r].seen = "UNREAD"] EXCEPT
                    ![r].pc = "FAIL_STAGE", ![r].decision = "NONE", ![r].clock = {}]
  <2>1. PICK s : s = [rt[r] EXCEPT !.late = late, !.seen = "UNREAD", !.pc = "FAIL_STAGE",
                                   !.decision = "NONE", !.clock = {}]
    OBVIOUS
  <2>2. "FAIL_STAGE" \in Phases
    BY <1>1
  <2>3. /\ s \in States /\ s.pc = "FAIL_STAGE" /\ s.e = e /\ s.fence = fence
        /\ s.late = late /\ s.seen = "UNREAD"
    BY <1>1, <1>2, <2>1, <2>2, Zenon DEF States
  <2>4. Moved(r, s)
    BY <1>1, <1>7, <2>1 DEF Moved
  <2> QED
    BY <1>5, <2>3, <2>4
<1> QED
  BY <1>3, <1>6, <1>7 DEF Boundary

\* The RISK stage is prepared or resumed.
LEMMA PrepareRiskGoes ==
    ASSUME Inv, NEW r \in Runtimes, PrepareRisk(r)
    PROVE  \E s \in States : GoesOn(r, s, rt[r].e)
<1>1. /\ UNCHANGED <<queue, risk, attempt, holder, faults>> /\ rt[r].pc \in Busy
      /\ rt[r].seen # "UNREAD" /\ rt[r] \in States /\ rt[r].pc = "PREPARE_RISK" /\ PhaseOK(rt[r])
      /\ "RISK" \in Phases /\ "RISK" \in {"NONE", "SIGNAL", "RISK"}
      /\ "UNREAD" \in ChainStatuses \cup {"UNREAD"}
  BY StageOf DEF PrepareRisk, At, Loaded, Busy, Processing, Phases
<1>2. PICK e \in Evals, fence \in Nat : e = rt[r].e /\ fence = rt[r].fence
  BY StageOf DEF States
<1>3. RowOK(e) /\ stage[e].signal # "NONE" /\ stage[e].fence = fence /\ "NONE" \in ChainStatuses
  BY <1>1, <1>2, StageOf DEF PhaseOK, Begun, ChainStatuses
<1>4. PICK c, t : c = chain[e] /\ t = stage[e]
  OBVIOUS
<1>5. CASE BlockedAtOnce(r, rt[r])
  <2>1. PICK row : row = rt[r] /\ BlockedAtOnce(r, row)
    BY <1>5
  <2>2. ReadBy(r, row)
    BY <1>1, <2>1 DEF ReadBy
  <2> QED
    BY <1>1, <2>1, <2>2, BlocksGoes
<1>6. CASE ~BlockedAtOnce(r, rt[r])
  <2>1. /\ t.signal = "SUCCESS"
        /\ rt' = [rt EXCEPT ![r].pc = "RISK", ![r].prepared = "RISK", ![r].seen = "UNREAD"]
        /\ stage' = IF t.risk = "NONE" THEN [stage EXCEPT ![e].risk = "PREPARED"] ELSE stage
        /\ chain' = IF t.risk = "NONE" THEN [chain EXCEPT ![e].at = "RISK"] ELSE chain
    BY <1>2, <1>4, <1>6 DEF PrepareRisk
  <2>2. PICK s : s = [rt[r] EXCEPT !.pc = "RISK", !.prepared = "RISK", !.seen = "UNREAD"]
    OBVIOUS
  <2>3. /\ s \in States /\ s.pc = "RISK" /\ s.e = e /\ s.fence = fence
        /\ s.late = rt[r].late /\ s.seen = "UNREAD"
    BY <1>1, <1>2, <2>2, Zenon DEF States
  <2>4. Moved(r, s)
    BY <1>1, <2>1, <2>2 DEF Moved
  <2>5. IF t.risk = "NONE" THEN StageIs(e, t.signal, t.fence, "PREPARED")
        ELSE StageIs(e, t.signal, t.fence, t.risk)
    BY <1>2, <1>4, <2>1, StageForms, ExecutingType
  <2>6. IF t.risk = "NONE" THEN ChainIs(e, c.status, "RISK", c.signal, c.bound)
        ELSE ChainIs(e, c.status, c.at, c.signal, c.bound)
    BY <1>3, <1>4, <2>1, ChainForms
  <2>7. Follows(e, fence)
    <3>1. CASE t.risk = "NONE"
      BY <1>3, <1>4, <2>1, <2>5, <2>6, <3>1 DEF RowOK, ChainIs, StageIs, Follows
    <3>2. CASE t.risk # "NONE"
      BY <1>3, <1>4, <2>1, <2>5, <2>6, <3>2 DEF RowOK, ChainIs, StageIs, Follows
    <3> QED
      BY <3>1, <3>2
  <2>8. PhaseOK(s)'
    BY <1>3, <1>4, <2>3, <2>5 DEF PhaseOK, StageIs
  <2>9. Contained(r, s, e)
    BY <1>1, <1>2, <1>3, <1>4, <2>3, <2>5 DEF Contained, StageIs
  <2>10. GoesOn(r, s, e)
    BY <1>1, <1>2, <2>3, <2>4, <2>7, <2>8, <2>9 DEF GoesOn, Busy, Processing
  <2> QED
    BY <1>2, <2>3, <2>10
<1> QED
  BY <1>5, <1>6

\* The RISK stage ends.
LEMMA CompleteRiskGoes ==
    ASSUME Inv, NEW r \in Runtimes, CompleteRisk(r)
    PROVE  \E s \in States : GoesOn(r, s, rt[r].e)
<1>1. /\ UNCHANGED <<queue, risk, attempt, holder, faults>> /\ rt[r].pc \in Busy
      /\ rt[r].seen # "UNREAD" /\ rt[r] \in States /\ rt[r].pc = "COMPLETE_RISK" /\ PhaseOK(rt[r])
      /\ "COMPLETE" \in Phases /\ "NONE" \in {"NONE", "SIGNAL", "RISK"}
      /\ "UNREAD" \in ChainStatuses \cup {"UNREAD"}
  BY StageOf DEF CompleteRisk, At, Loaded, Busy, Processing, Phases
<1>2. PICK e \in Evals, fence \in Nat : e = rt[r].e /\ fence = rt[r].fence
  BY StageOf DEF States
<1>3. RowOK(e) /\ stage[e].signal # "NONE" /\ stage[e].fence = fence
  BY <1>1, <1>2, StageOf DEF PhaseOK, Begun
<1>4. PICK c, t : c = chain[e] /\ t = stage[e]
  OBVIOUS
<1>5. CASE Fail(r) /\ UNCHANGED execution
  <2>1. UNCHANGED <<chain, stage>>
    BY <1>5 DEF execution
  <2>2. Follows(e, fence)
    BY <2>1, StillFollows
  <2> QED
    BY <1>1, <1>2, <1>5, <2>1, <2>2, FailGoes
<1>6. CASE ~(Fail(r) /\ UNCHANGED execution)
  <2>1. PICK x \in ChainStatuses : x = Executing(r)
    BY ExecutingType
  <2>2. /\ t.risk \in {"PREPARED", "SUCCESS"}
        /\ rt' = [rt EXCEPT ![r].pc = "COMPLETE", ![r].prepared = "NONE", ![r].seen = "UNREAD"]
        /\ stage' = [stage EXCEPT ![e].risk = "SUCCESS"]
        /\ chain' = IF t.risk = "SUCCESS" THEN chain
                    ELSE [chain EXCEPT ![e].status = x, ![e].at = "EXECUTION", ![e].bound = TRUE]
    BY <1>2, <1>4, <1>6, <2>1 DEF CompleteRisk
  <2>3. PICK s : s = [rt[r] EXCEPT !.pc = "COMPLETE", !.prepared = "NONE", !.seen = "UNREAD"]
    OBVIOUS
  <2>4. /\ s \in States /\ s.pc = "COMPLETE" /\ s.e = e /\ s.fence = fence
        /\ s.late = rt[r].late /\ s.seen = "UNREAD"
    BY <1>1, <1>2, <2>3, Zenon DEF States
  <2>5. Moved(r, s)
    BY <1>1, <2>2, <2>3 DEF Moved
  <2>6. StageIs(e, t.signal, t.fence, "SUCCESS")
    BY <1>2, <1>4, <2>2, StageForms, ExecutingType
  <2>7. IF t.risk = "SUCCESS" THEN ChainIs(e, c.status, c.at, c.signal, c.bound)
        ELSE ChainIs(e, x, "EXECUTION", c.signal, TRUE)
    BY <1>4, <2>1, <2>2, ChainForms
  <2>8. t.signal = "SUCCESS"
    BY <1>3, <1>4, <2>2 DEF RowOK
  <2>9. Follows(e, fence)
    <3>1. CASE t.risk = "SUCCESS"
      BY <1>3, <1>4, <2>6, <2>7, <2>8, <3>1 DEF RowOK, ChainIs, StageIs, Follows
    <3>2. CASE t.risk # "SUCCESS"
      BY <1>3, <1>4, <2>6, <2>7, <2>8, <3>2 DEF RowOK, ChainIs, StageIs, Follows
    <3> QED
      BY <3>1, <3>2
  <2>10. PhaseOK(s)'
    BY <1>3, <1>4, <2>4, <2>6 DEF PhaseOK, StageIs
  <2>11. Contained(r, s, e)
    BY <1>1, <1>2, <1>3, <1>4, <2>4, <2>6 DEF Contained, StageIs
  <2>12. GoesOn(r, s, e)
    BY <1>1, <1>2, <2>4, <2>5, <2>9, <2>10, <2>11 DEF GoesOn, Busy, Processing
  <2> QED
    BY <1>2, <2>4, <2>12
<1> QED
  BY <1>5, <1>6

\* Something is raised.
LEMMA RaiseGoes ==
    ASSUME Inv, NEW r \in Runtimes, Raise(r)
    PROVE  \E s \in States : GoesOn(r, s, rt[r].e)
<1>1. /\ UNCHANGED <<queue, risk, attempt, holder, faults>> /\ UNCHANGED <<chain, stage>>
      /\ rt[r] \in States /\ rt[r].pc \in Busy
      /\ {"FAIL_EVALUATION", "FAIL_CHAIN"} \subseteq Phases /\ "NONE" \in Decisions
      /\ {} \in SUBSET Evals /\ "UNREAD" \in ChainStatuses \cup {"UNREAD"}
  BY StageOf DEF Raise, execution, Busy, Phases, Failing, Decisions
<1>2. PICK e \in Evals, fence \in Nat : e = rt[r].e /\ fence = rt[r].fence
  BY StageOf DEF States
<1>3. Follows(e, fence)
  BY <1>1, StillFollows
<1>4. CASE Fail(r)
  BY <1>1, <1>2, <1>3, <1>4, FailGoes
<1>5. CASE ~Fail(r)
  <2>1. PICK pc \in {"FAIL_EVALUATION", "FAIL_CHAIN"} :
            pc = IF rt[r].prepared = "NONE" THEN "FAIL_EVALUATION" ELSE "FAIL_CHAIN"
    OBVIOUS
  <2>2. rt' = [rt EXCEPT ![r].decision = "NONE", ![r].clock = {}, ![r].seen = "UNREAD", ![r].pc = pc]
    BY <1>5, <2>1 DEF Raise
  <2>3. PICK s : s = [rt[r] EXCEPT !.decision = "NONE", !.clock = {}, !.seen = "UNREAD", !.pc = pc]
    OBVIOUS
  <2>4. pc \in Phases
    BY <1>1, <2>1
  <2>5. /\ s \in States /\ s.pc = pc /\ s.e = e /\ s.fence = fence
        /\ s.late = rt[r].late /\ s.seen = "UNREAD"
    BY <1>1, <1>2, <2>3, <2>4, Zenon DEF States
  <2>6. Moved(r, s)
    BY <1>1, <2>2, <2>3 DEF Moved
  <2>7. PhaseOK(s)'
    BY <2>1, <2>5 DEF PhaseOK, Begun
  <2>8. Contained(r, s, e)
    BY <1>1, <2>5 DEF Contained
  <2>9. GoesOn(r, s, e)
    BY <1>1, <1>2, <1>3, <2>1, <2>5, <2>6, <2>7, <2>8 DEF GoesOn, Busy, Failing
  <2> QED
    BY <1>2, <2>5, <2>9
<1> QED
  BY <1>4, <1>5

\* _fail_closed fails the stage under the lease, then the chain.
LEMMA FailingGoes ==
    ASSUME Inv, NEW r \in Runtimes, FailStage(r) \/ FailChain(r)
    PROVE  \E s \in States : GoesOn(r, s, rt[r].e)
<1>1. /\ UNCHANGED <<queue, risk, attempt, holder>>
      /\ faults' = faults \/ (faults < MaxFaults /\ faults' = faults + 1)
      /\ {"FAIL_CHAIN", "FAIL_EVALUATION"} \subseteq Phases
  BY DEF FailStage, FailChain, Phases, Failing
<1>2. PICK e \in Evals, fence \in Nat : e = rt[r].e /\ fence = rt[r].fence
  BY StageOf DEF States
<1>3. PICK pc \in {"FAIL_CHAIN", "FAIL_EVALUATION"} : Goto(r, pc)
  BY DEF FailStage, FailChain
<1>4. PICK s \in States : /\ Moved(r, s) /\ s.pc = pc /\ s.e = e
                          /\ s.fence = fence /\ s.late = rt[r].late /\ s.seen = rt[r].seen
  BY <1>1, <1>2, <1>3, GotoMoves
<1>5. PhaseOK(s)'
  BY <1>4 DEF PhaseOK, Begun
<1>6. PICK c, t : c = chain[e] /\ t = stage[e]
  OBVIOUS
<1>7. RowOK(e) /\ "BLOCKED" \in ChainStatuses /\ "BLOCKED" \in StageStatuses
  BY DEF Inv, ChainStatuses, StageStatuses
<1>8. \/ UNCHANGED <<chain, stage>>
      \/ /\ Owns(r) /\ chain' = [chain EXCEPT ![e].status = "BLOCKED"]
         /\ \/ UNCHANGED stage
            \/ t.signal = "PREPARED" /\ stage' = [stage EXCEPT ![e].signal = "BLOCKED"]
            \/ t.risk = "PREPARED" /\ stage' = [stage EXCEPT ![e].risk = "BLOCKED"]
  BY <1>2, <1>6 DEF FailStage, FailChain, StageFails, execution
<1>9. CASE UNCHANGED <<chain, stage>>
  <2>1. Follows(e, fence) /\ Contained(r, s, e)
    BY <1>4, <1>9, StillFollows DEF Contained
  <2>2. GoesOn(r, s, e)
    BY <1>1, <1>2, <1>4, <1>5, <2>1 DEF GoesOn, Busy, Failing
  <2> QED
    BY <1>2, <2>2
<1>10. CASE ~UNCHANGED <<chain, stage>>
  <2>1. OwnsRow(r)
    BY <1>8, <1>10 DEF Owns
  <2>2. ChainIs(e, "BLOCKED", c.at, c.signal, c.bound)
    BY <1>6, <1>7, <1>8, <1>10, ChainForms
  <2>3. \/ StageIs(e, t.signal, t.fence, t.risk)
        \/ t.signal = "PREPARED" /\ StageIs(e, "BLOCKED", t.fence, t.risk)
        \/ t.risk = "PREPARED" /\ StageIs(e, t.signal, t.fence, "BLOCKED")
    BY <1>2, <1>6, <1>7, <1>8, <1>10, StageForms
  <2>4. Follows(e, fence)
    BY <1>6, <1>7, <2>2, <2>3 DEF RowOK, ChainIs, StageIs, Follows
  <2>5. GoesOn(r, s, e)
    BY <1>1, <1>2, <1>4, <1>5, <2>1, <2>4 DEF GoesOn, Busy, Failing
  <2> QED
    BY <1>2, <2>5
<1> QED
  BY <1>9, <1>10

\* The actions of a runtime at work.
Works(r) ==
    \/ Load(r) \/ OpenChain(r) \/ PrepareSignal(r) \/ RecordSignal(r) \/ CompleteSignal(r)
    \/ Boundary(r) \/ PrepareRisk(r) \/ CompleteRisk(r) \/ FailStage(r) \/ FailChain(r) \/ Raise(r)

\* Each of them goes on with the evaluation.
LEMMA WorkMoves ==
    ASSUME Inv, NEW r \in Runtimes, Works(r)
    PROVE  \E s \in States : GoesOn(r, s, rt[r].e)
BY LoadGoes, OpenChainGoes, PrepareSignalGoes, RecordSignalGoes, CompleteSignalGoes, BoundaryGoes,
   PrepareRiskGoes, CompleteRiskGoes, FailingGoes, RaiseGoes DEF Works

\* What it leaves keeps the invariant.
LEMMA WorkInv ==
    ASSUME Inv, NEW r \in Runtimes, Works(r)
    PROVE  Inv'
<1>1. PICK e \in Evals, fence \in Nat : e = rt[r].e /\ fence = rt[r].fence
  BY StageOf DEF States
<1>2. PICK s \in States : GoesOn(r, s, e)
  BY <1>1, WorkMoves
<1>3. /\ Moved(r, s) /\ PhaseOK(s)' /\ Follows(e, fence)
      /\ UNCHANGED <<active, candle, eval, fresh, approval, budget, attempt, holder>>
      /\ faults' = faults \/ (faults < MaxFaults /\ faults' = faults + 1)
  BY <1>1, <1>2 DEF GoesOn, queue, risk
<1>4. faults' \in 0 .. MaxFaults /\ Typed
  BY <1>3, OneFault DEF Inv, Typed
<1>5. ASSUME NEW f \in Evals
      PROVE  RowOK(f)' /\ Lasting(f)
  <2>1. RowOK(f)
    BY DEF Inv
  <2>2. CASE f = e
    BY <1>3, <2>1, <2>2 DEF Follows, RowOK, Lasting
  <2>3. CASE f # e
    BY <1>3, <2>1, <2>3 DEF Follows, RowOK, Lasting
  <2> QED
    BY <2>2, <2>3
<1>6. /\ RowTypes' /\ active' \in SUBSET Deployments /\ candle' \in 0 .. MaxCandle
      /\ fresh' \in SUBSET Evals /\ holder' \in Runtimes
  BY <1>3, <1>4 DEF Typed, RowTypes, Follows
<1> QED
  BY <1>3, <1>4, <1>5, <1>6, RuntimeStep

\* ACTIONABLE ends the evaluation, and its runtime may place the order.
LEMMA CompleteStep ==
    ASSUME Inv, NEW r \in Runtimes, Complete(r)
    PROVE  Inv'
<1>1. UNCHANGED <<attempt, holder, faults>>
  BY DEF Complete
<1>2. holder' \in Runtimes /\ faults' \in 0 .. MaxFaults
  BY <1>1 DEF Inv, Typed
<1>3. PICK e \in Evals : e = rt[r].e
  BY StageOf
<1>4. CASE Refuse(r)
  BY <1>1, <1>2, <1>4, RefuseStep
<1>5. CASE ~Refuse(r)
  <2>1. /\ eval[e].status = "LEASED"
        /\ eval' = [eval EXCEPT ![e].status = "ACTIONABLE", ![e].live = FALSE]
        /\ rt' = [rt EXCEPT ![r] = [Idle EXCEPT !.pc = "OPENING", !.e = e, !.mine = TRUE]]
        /\ UNCHANGED <<active, candle, fresh, execution, risk>>
    BY <1>3, <1>5 DEF Complete, OwnsRow
  <2>2. PICK s : s = [Idle EXCEPT !.pc = "OPENING", !.e = e, !.mine = TRUE]
    OBVIOUS
  <2>3. "OPENING" \in Phases /\ TRUE \in BOOLEAN
    BY DEF Phases
  <2>4. s \in States
    BY <2>2, <2>3, IdleState, Zenon DEF States
  <2>5. s.pc = "OPENING"
    BY <2>2, IdleState DEF States
  <2>6. Moved(r, s) /\ PhaseOK(s)
    BY <2>1, <2>2, <2>5 DEF Moved, PhaseOK, Begun
  <2>7. eval' \in [Evals -> Leases] /\ \A f \in Evals : Queued(f)
    BY <2>1, EndingRow DEF Ended, Waiting
  <2>8. active' \in SUBSET Deployments /\ candle' \in 0 .. MaxCandle /\ fresh' \in SUBSET Evals
    BY <2>1 DEF Inv, Typed
  <2> QED
    BY <1>1, <1>2, <2>1, <2>4, <2>6, <2>7, <2>8, QueueStep
<1> QED
  BY <1>4, <1>5

\* The evaluation is blocked, or its runtime ends.
LEMMA FailEvaluationStep ==
    ASSUME Inv, NEW r \in Runtimes, FailEvaluation(r)
    PROVE  Inv'
<1>1. /\ UNCHANGED <<execution, risk, attempt>> /\ active' \in SUBSET Deployments
      /\ candle' \in 0 .. MaxCandle /\ fresh' \in SUBSET Evals
      /\ holder' \in Runtimes /\ faults' \in 0 .. MaxFaults
  BY DEF FailEvaluation, Inv, Typed
<1>2. PICK s \in States : Moved(r, s) /\ PhaseOK(s)
  BY IdleMoves DEF FailEvaluation
<1>3. PICK e \in Evals : e = rt[r].e
  BY StageOf
<1>4. eval' \in [Evals -> Leases] /\ \A f \in Evals : Queued(f)
  <2>1. CASE OwnsRow(r)
    <3>1. eval' = [eval EXCEPT ![e].status = "BLOCKED", ![e].live = FALSE]
      BY <1>3, <2>1 DEF FailEvaluation
    <3>2. eval[e].status = "LEASED"
      BY <1>3, <2>1 DEF OwnsRow
    <3> QED
      BY <3>1, <3>2, EndingRow DEF Ended, Waiting
  <2>2. CASE ~OwnsRow(r)
    BY <2>2 DEF FailEvaluation, Inv, Typed, Queued
  <2> QED
    BY <2>1, <2>2
<1> QED
  BY <1>1, <1>2, <1>4, QueueStep

-----------------------------------------------------------------------------
(* The order of an approved execution.                                     *)

\* An approval is selected once its decision is final.
LEMMA OpeningStep ==
    ASSUME Inv, NEW r \in Runtimes, Opening(r)
    PROVE  Inv'
<1>1. UNCHANGED <<queue, execution, risk, attempt, holder, faults>>
  BY DEF Opening
<1>2. /\ UNCHANGED eval /\ active' \in SUBSET Deployments
      /\ candle' \in 0 .. MaxCandle /\ fresh' \in SUBSET Evals
      /\ holder' \in Runtimes /\ faults' \in 0 .. MaxFaults
  BY <1>1 DEF queue, Inv, Typed
<1>3. CASE EndCycle(r)
  BY <1>1, <1>2, <1>3, LettingGoStep
<1>4. ASSUME NEW e \in Evals, Claimable(e),
             rt' = [rt EXCEPT ![r] = [Idle EXCEPT !.pc = "PLACE", !.e = e]]
      PROVE  Inv'
  <2>1. PICK s : s = [Idle EXCEPT !.pc = "PLACE", !.e = e]
    OBVIOUS
  <2>2. s \in States /\ s.pc = "PLACE" /\ s.e = e
    BY <2>1, IdleState DEF States, Phases
  <2>3. Moved(r, s)
    BY <1>4, <2>1 DEF Moved
  <2>4. PhaseOK(s)
    BY <1>4, <2>2 DEF PhaseOK, Begun, Claimable
  <2> QED
    BY <1>1, <1>2, <2>2, <2>3, <2>4, StillStep
<1> QED
  BY <1>3, <1>4 DEF Opening

\* An order is claimed behind its whole chain, and only one at a time.
LEMMA PlaceStep ==
    ASSUME Inv, NEW r \in Runtimes, Place(r)
    PROVE  Inv'
<1>1. UNCHANGED <<queue, execution, risk, holder, faults>> /\ rt[r].pc = "PLACE"
  BY DEF Place, At
<1>2. /\ UNCHANGED <<eval, chain, stage, approval, budget>> /\ Typed
      /\ UNCHANGED <<active, candle, fresh>>
  BY <1>1 DEF queue, execution, risk, Inv
<1>3. CASE GoDown(r) /\ UNCHANGED attempt
  <2>1. holder' \in Runtimes /\ faults' \in 0 .. MaxFaults
    BY <1>1, <1>2 DEF Typed
  <2> QED
    BY <1>1, <1>3, <2>1, LettingGoStep
<1>4. ASSUME MayDispatch(r), attempt' = [attempt EXCEPT ![rt[r].e] = "OPEN"], EndCycle(r)
      PROVE  Inv'
  <2>1. PICK e \in Evals : e = rt[r].e
    BY StageOf
  <2>2. /\ approval[e] = "ACTIVE" /\ chain[e].status = "EXECUTING" /\ chain[e].at = "EXECUTION"
        /\ chain[e].bound /\ stage[e].risk = "SUCCESS" /\ attempt[e] = "NONE" /\ Settled
    BY <1>4, <2>1 DEF MayDispatch, MayOpen
  <2>3. eval[e].status = "ACTIONABLE"
    BY <1>1, <2>1, StageOf DEF PhaseOK
  <2>4. attempt' = [attempt EXCEPT ![e] = "OPEN"] /\ attempt \in [Evals -> {"NONE", "OPEN", "DONE"}]
    BY <1>2, <1>4, <2>1 DEF Typed
  <2>5. attempt' \in [Evals -> {"NONE", "OPEN", "DONE"}] /\ attempt'[e] = "OPEN"
        /\ \A f \in Evals \ {e} : attempt'[f] = attempt[f]
    BY <2>4
  <2>6. PICK s \in States : Moved(r, s) /\ PhaseOK(s)
    BY <1>4, IdleMoves
  <2>7. rt' \in [Runtimes -> States] /\ \A q \in Runtimes : rt'[q] = IF q = r THEN s ELSE rt[q]
    BY <1>2, <2>6 DEF Moved, Typed
  <2>8. Typed'
    BY <1>1, <1>2, <2>5, <2>7 DEF Typed
  <2>9. ASSUME NEW f \in Evals
        PROVE  RowOK(f)'
    <3>1. RowOK(f)
      BY DEF Inv
    <3>2. CASE f = e
      <4>1. chain[e].bound = TRUE
        <5>1. chain[e].bound \in BOOLEAN
          BY <1>2 DEF Typed, ChainRows
        <5> QED
          BY <2>2, <5>1
      <4> QED
        BY <1>2, <2>2, <2>3, <3>1, <3>2, <4>1 DEF RowOK
    <3>3. CASE f # e
      BY <1>2, <2>5, <3>1, <3>3 DEF RowOK
    <3> QED
      BY <3>2, <3>3
  <2>10. ASSUME NEW q \in Runtimes
         PROVE  PhaseOK(rt[q])'
    BY <1>2, <2>6, <2>7 DEF Inv, PhaseOK
  <2>11. OneOpen'
    BY <2>2, <2>5 DEF OneOpen, Settled
  <2>12. Covered'
    BY <1>2 DEF Inv, Covered, Counted
  <2> QED
    BY <2>8, <2>9, <2>10, <2>11, <2>12 DEF Inv
<1> QED
  BY <1>3, <1>4 DEF Place

\* The order writer resolves an attempt.
LEMMA ResolveStep ==
    ASSUME Inv, NEW e \in Evals, Resolve(e)
    PROVE  Inv'
<1>1. /\ UNCHANGED <<queue, execution, risk, holder, rt, faults>> /\ attempt[e] = "OPEN"
      /\ attempt' = [attempt EXCEPT ![e] = "DONE"]
  BY DEF Resolve
<1>2. /\ UNCHANGED <<eval, chain, stage, approval, budget>> /\ Typed
      /\ UNCHANGED <<active, candle, fresh>>
  BY <1>1 DEF queue, execution, risk, Inv
<1>3. attempt' \in [Evals -> {"NONE", "OPEN", "DONE"}] /\ attempt'[e] = "DONE"
      /\ \A f \in Evals \ {e} : attempt'[f] = attempt[f]
  BY <1>1, <1>2 DEF Typed
<1>4. Typed'
  BY <1>1, <1>2, <1>3 DEF Typed
<1>5. \A f \in Evals : RowOK(f)'
  BY <1>1, <1>2, <1>3 DEF Inv, RowOK
<1>6. \A q \in Runtimes : PhaseOK(rt[q])'
  BY <1>1, <1>2 DEF Inv, PhaseOK
<1>7. OneOpen'
  BY <1>3 DEF Inv, OneOpen
<1>8. Covered'
  BY <1>2 DEF Inv, Covered, Counted
<1> QED
  BY <1>4, <1>5, <1>6, <1>7, <1>8 DEF Inv

-----------------------------------------------------------------------------
(* Operators, time and failures.                                           *)

\* A step of no runtime, on the queue or on time.
LEMMA OutsideStep ==
    ASSUME Inv, eval' \in [Evals -> Leases], \A e \in Evals : Queued(e),
           UNCHANGED <<execution, risk, attempt, holder, rt>>,
           active' \in SUBSET Deployments, candle' \in 0 .. MaxCandle, fresh' \in SUBSET Evals,
           faults' \in 0 .. MaxFaults
    PROVE  Inv'
<1>1. rt \in [Runtimes -> States] /\ holder \in Runtimes /\ holder' \in Runtimes
  BY DEF Inv, Typed
<1>2. PICK s \in States : s = rt[holder] /\ PhaseOK(s)
  BY <1>1 DEF Inv
<1>3. Moved(holder, s)
  BY <1>1, <1>2 DEF Moved
<1> QED
  BY <1>1, <1>2, <1>3, QueueStep

\* What the queue does not touch.
LEMMA SameQueue ==
    ASSUME Inv, UNCHANGED eval
    PROVE  eval' \in [Evals -> Leases] /\ \A e \in Evals : Queued(e)
BY DEF Inv, Typed, Queued

\* A disabled deployment takes its open evaluations with it.
LEMMA DisableStep ==
    ASSUME Inv, NEW d \in Deployments, Disable(d)
    PROVE  Inv'
<1>1. /\ UNCHANGED <<execution, risk, attempt, holder, rt>>
      /\ active' \in SUBSET Deployments /\ candle' \in 0 .. MaxCandle
      /\ fresh' \in SUBSET Evals /\ faults' \in 0 .. MaxFaults
  BY DEF Disable, Inv, Typed
<1>2. ASSUME NEW e \in Evals
      PROVE  [eval[e] EXCEPT !.status = "BLOCKED"] \in Leases
  <2>1. eval[e] \in Leases
    BY DEF Inv, Typed
  <2> QED
    BY <2>1 DEF Leases, Ended
<1>3. eval \in [Evals -> Leases]
  BY DEF Inv, Typed
<1>4. ASSUME NEW e \in Evals
      PROVE  eval'[e] \in Leases /\ Queued(e)
  <2>1. CASE e[1] = d /\ eval[e].status \in {"PENDING", "LEASED"}
    <3>1. eval'[e] = [eval[e] EXCEPT !.status = "BLOCKED"]
      BY <2>1 DEF Disable
    <3> QED
      BY <1>2, <2>1, <3>1 DEF Queued, Waiting
  <2>2. CASE ~(e[1] = d /\ eval[e].status \in {"PENDING", "LEASED"})
    <3>1. eval'[e] = eval[e]
      BY <2>2 DEF Disable
    <3> QED
      BY <1>3, <3>1 DEF Queued
  <2> QED
    BY <2>1, <2>2
<1>5. eval' = [e \in Evals |-> eval'[e]]
  BY DEF Disable
<1>6. eval' \in [Evals -> Leases]
  BY <1>4, <1>5
<1> QED
  BY <1>1, <1>4, <1>6, OutsideStep

\* Time passes.
LEMMA TimeStep ==
    ASSUME Inv, NEW e \in Evals, CandleCloses \/ BundleExpires(e)
    PROVE  Inv'
<1>1. /\ UNCHANGED <<eval, execution, risk, attempt, holder, rt>>
      /\ active' \in SUBSET Deployments /\ faults' \in 0 .. MaxFaults
  BY DEF CandleCloses, BundleExpires, Inv, Typed
<1>2. candle' \in 0 .. MaxCandle
  BY MaxCandleAssumption DEF CandleCloses, BundleExpires, Inv, Typed
<1>3. fresh' \in SUBSET Evals
  BY DEF CandleCloses, BundleExpires, Inv, Typed
<1> QED
  BY <1>1, <1>2, <1>3, SameQueue, OutsideStep

\* A lease runs out.
LEMMA LeaseExpiresStep ==
    ASSUME Inv, NEW e \in Evals, LeaseExpires(e)
    PROVE  Inv'
<1>1. /\ UNCHANGED <<execution, risk, attempt, holder, rt>>
      /\ active' \in SUBSET Deployments /\ candle' \in 0 .. MaxCandle /\ fresh' \in SUBSET Evals
  BY DEF LeaseExpires, Inv, Typed
<1>2. faults' \in 0 .. MaxFaults
  BY OneFault DEF LeaseExpires, Inv, Typed
<1>3. eval \in [Evals -> Leases] /\ eval[e] \in Leases
  BY DEF Inv, Typed
<1>4. PICK row : row = [eval[e] EXCEPT !.live = FALSE]
  OBVIOUS
<1>5. row \in Leases /\ row.status = eval[e].status /\ row.checkpoint = eval[e].checkpoint
  BY <1>3, <1>4 DEF Leases
<1>6. eval' = [eval EXCEPT ![e] = row]
  BY <1>3, <1>4 DEF LeaseExpires
<1>7. eval' \in [Evals -> Leases] /\ \A f \in Evals : Queued(f)
  BY <1>3, <1>5, <1>6 DEF Queued
<1> QED
  BY <1>1, <1>2, <1>7, OutsideStep

\* A runtime ends, or another takes over.
LEMMA FaultStep ==
    ASSUME Inv, NEW r \in Runtimes, Crash(r) \/ Takeover(r)
    PROVE  Inv'
<1>1. UNCHANGED <<queue, execution, risk, attempt>> /\ (GoDown(r) \/ EndCycle(r))
  BY DEF Crash, Takeover
<1>2. holder' \in Runtimes
  BY DEF Crash, Takeover, Inv, Typed
<1>3. faults' \in 0 .. MaxFaults
  BY OneFault DEF Crash, Takeover, Inv, Typed
<1> QED
  BY <1>1, <1>2, <1>3, LettingGoStep

-----------------------------------------------------------------------------
(* The owner function.                                                     *)

\* What a decision of r does: the approvals of gone are released, the budget and the
\* approval of r's evaluation follow the decision.
Decides(r, gone, positions, decision) ==
    LET e == rt[r].e
        left == budget - Cardinality(gone)
        projected == Projected(positions, left) IN
    /\ decision = "ACTIVE" /\ approval[e] = "NONE" => projected <= MaxPositions
    /\ approval[e] # "NONE" => decision = approval[e]
    /\ approval' = [f \in Evals |-> IF f \in gone THEN "EXPIRED"
                                    ELSE IF f = e THEN decision ELSE approval[f]]
    /\ budget' = IF decision = "ACTIVE" /\ approval[e] = "NONE" THEN projected ELSE left
    /\ chain' = [f \in Evals |-> IF f \in gone
                                 THEN [chain[f] EXCEPT !.status = "BLOCKED"] ELSE chain[f]]
    /\ IF decision = "ACTIVE" THEN Goto(r, "COMPLETE_RISK") ELSE Fail(r)

\* Released approvals count, and what the budget keeps without them is a number.
LEMMA Released ==
    ASSUME Inv, NEW gone \in SUBSET Releasable
    PROVE  /\ gone \subseteq Counted /\ IsFiniteSet(gone) /\ IsFiniteSet(Counted)
           /\ Cardinality(gone) \in Nat /\ Cardinality(Counted) \in Nat
           /\ budget - Cardinality(gone) \in Int
<1>1. gone \subseteq Counted /\ IsFiniteSet(Counted) /\ budget \in Int
  BY DEF Releasable, Counted, Inv, Covered, Typed
<1>2. IsFiniteSet(gone)
  BY <1>1, FS_Subset
<1>3. Cardinality(gone) \in Nat /\ Cardinality(Counted) \in Nat
  BY <1>1, <1>2, FS_CardinalityType
<1> QED
  BY <1>1, <1>2, <1>3

\* The projection is a number above both that it counts.
LEMMA ProjectedType ==
    ASSUME NEW positions \in Exposures, NEW left \in Int
    PROVE  /\ Projected(positions, left) \in Int
           /\ Projected(positions, left) >= left + 1
<1>1. positions \in Int
  BY ExposuresAssumption, MaxPositionsAssumption
<1> QED
  BY <1>1 DEF Projected

\* Every decision of the owner function is one of these.
LEMMA RiskDecides ==
    ASSUME Inv, NEW r \in Runtimes, Risk(r)
    PROVE  \/ Fail(r) /\ UNCHANGED <<risk, chain>>
           \/ /\ MayDecide(r)
              /\ \E gone \in SUBSET Releasable, positions \in Exposures,
                    decision \in {"NONE", "ACTIVE", "REJECTED", "EXPIRED"} :
                    Decides(r, gone, positions, decision)
<1>1. approval[rt[r].e] \in {"NONE", "ACTIVE", "REJECTED", "EXPIRED"} /\ budget \in Int
  BY StageOf DEF Inv, Typed
<1>2. ASSUME ~(Fail(r) /\ UNCHANGED <<risk, chain>>)
      PROVE  /\ MayDecide(r)
             /\ \E gone \in SUBSET Releasable, positions \in Exposures,
                    decision \in {"NONE", "ACTIVE", "REJECTED", "EXPIRED"} :
                    Decides(r, gone, positions, decision)
  <2>1. PICK gone \in SUBSET Releasable, positions \in Exposures, breach \in BOOLEAN :
            LET e == rt[r].e
                left == budget - Cardinality(gone)
                projected == Projected(positions, left)
                decision == IF approval[e] # "NONE" THEN approval[e]
                            ELSE IF breach \/ projected > MaxPositions THEN "REJECTED"
                            ELSE "ACTIVE" IN
            /\ approval' = [f \in Evals |-> IF f \in gone THEN "EXPIRED"
                                            ELSE IF f = e THEN decision ELSE approval[f]]
            /\ budget' = IF decision = "ACTIVE" /\ approval[e] = "NONE" THEN projected ELSE left
            /\ chain' = [f \in Evals |-> IF f \in gone
                                         THEN [chain[f] EXCEPT !.status = "BLOCKED"] ELSE chain[f]]
            /\ IF decision = "ACTIVE" THEN Goto(r, "COMPLETE_RISK") ELSE Fail(r)
    BY <1>2, Zenon DEF Risk
  <2>2. PICK left \in Int : left = budget - Cardinality(gone)
    BY Released
  <2>3. PICK projected \in Int : projected = Projected(positions, left)
    BY ProjectedType
  <2>4. PICK decision \in {"NONE", "ACTIVE", "REJECTED", "EXPIRED"} :
            decision = IF approval[rt[r].e] # "NONE" THEN approval[rt[r].e]
                       ELSE IF breach \/ projected > MaxPositions THEN "REJECTED" ELSE "ACTIVE"
    BY <1>1
  <2>5. decision = "ACTIVE" /\ approval[rt[r].e] = "NONE" => projected <= MaxPositions
    BY <2>4, MaxPositionsAssumption
  <2>6. Decides(r, gone, positions, decision)
    BY <2>1, <2>2, <2>3, <2>4, <2>5 DEF Decides
  <2> QED
    BY <1>2, <2>6 DEF Risk
<1> QED
  BY <1>2

\* A decision changes its own approval and those it releases.
LEMMA DecideStep ==
    ASSUME Inv, NEW r \in Runtimes, rt[r].pc = "RISK", MayDecide(r),
           NEW gone \in SUBSET Releasable, NEW positions \in Exposures,
           NEW decision \in {"NONE", "ACTIVE", "REJECTED", "EXPIRED"},
           Decides(r, gone, positions, decision),
           UNCHANGED <<queue, stage, attempt, holder, faults>>
    PROVE  Inv'
<1>1. PICK e \in Evals : e = rt[r].e
  BY StageOf
<1>2. /\ eval[e].status = "LEASED" /\ e \in fresh /\ RowOK(e) /\ attempt[e] = "NONE"
  BY <1>1, StageOf DEF MayDecide, RowOK
<1>3. e \notin gone /\ \A f \in gone : f \in Evals /\ attempt[f] = "NONE" /\ approval[f] = "ACTIVE"
  BY <1>2 DEF Releasable
<1>4. /\ chain \in [Evals -> ChainRows] /\ stage \in [Evals -> Stages] /\ budget \in Int
      /\ approval \in [Evals -> {"NONE", "ACTIVE", "REJECTED", "EXPIRED"}]
      /\ UNCHANGED <<eval, stage, attempt>>
      /\ active' \in SUBSET Deployments /\ candle' \in 0 .. MaxCandle /\ fresh' \in SUBSET Evals
      /\ holder' \in Runtimes /\ faults' \in 0 .. MaxFaults
      /\ attempt' \in [Evals -> {"NONE", "OPEN", "DONE"}] /\ eval' \in [Evals -> Leases]
      /\ stage' \in [Evals -> Stages]
  BY DEF queue, Inv, Typed
<1>5. PICK left \in Int : left = budget - Cardinality(gone)
  BY Released
<1>6. PICK projected \in Int : projected = Projected(positions, left) /\ projected >= left + 1
  BY ProjectedType
<1>7. /\ decision = "ACTIVE" /\ approval[e] = "NONE" => projected <= MaxPositions
      /\ approval[e] # "NONE" => decision = approval[e]
      /\ approval' = [f \in Evals |-> IF f \in gone THEN "EXPIRED"
                                      ELSE IF f = e THEN decision ELSE approval[f]]
      /\ budget' = IF decision = "ACTIVE" /\ approval[e] = "NONE" THEN projected ELSE left
      /\ chain' = [f \in Evals |-> IF f \in gone
                                   THEN [chain[f] EXCEPT !.status = "BLOCKED"] ELSE chain[f]]
      /\ IF decision = "ACTIVE" THEN Goto(r, "COMPLETE_RISK") ELSE Fail(r)
  BY <1>1, <1>5, <1>6 DEF Decides
<1>8. ASSUME NEW f \in Evals
      PROVE  /\ chain'[f] \in ChainRows /\ chain'[f].signal = chain[f].signal
             /\ f \notin gone => chain'[f] = chain[f]
             /\ approval'[f] \in {"NONE", "ACTIVE", "REJECTED", "EXPIRED"}
             /\ approval'[f] = IF f \in gone THEN "EXPIRED" ELSE IF f = e THEN decision ELSE approval[f]
  <2>1. approval'[f] = IF f \in gone THEN "EXPIRED" ELSE IF f = e THEN decision ELSE approval[f]
    BY <1>7
  <2>2. approval'[f] \in {"NONE", "ACTIVE", "REJECTED", "EXPIRED"}
    BY <1>4, <2>1
  <2>3. CASE f \in gone
    <3>1. chain'[f] = [chain[f] EXCEPT !.status = "BLOCKED"]
      BY <1>7, <2>3
    <3>2. PICK row : row = [chain[f] EXCEPT !.status = "BLOCKED"]
      OBVIOUS
    <3>3. row \in ChainRows /\ row.signal = chain[f].signal
      <4>1. chain[f] \in ChainRows /\ "BLOCKED" \in ChainStatuses
        BY <1>4 DEF ChainStatuses
      <4> QED
        BY <3>2, <4>1, Zenon DEF ChainRows
    <3> QED
      BY <2>1, <2>2, <2>3, <3>1, <3>2, <3>3
  <2>4. CASE f \notin gone
    <3>1. chain'[f] = chain[f]
      BY <1>7, <2>4
    <3> QED
      BY <1>4, <2>1, <2>2, <2>4, <3>1
  <2> QED
    BY <2>3, <2>4
<1>9. chain' \in [Evals -> ChainRows] /\ approval' \in [Evals -> {"NONE", "ACTIVE", "REJECTED", "EXPIRED"}]
  <2>1. chain' = [f \in Evals |-> chain'[f]] /\ approval' = [f \in Evals |-> approval'[f]]
    BY <1>7
  <2> QED
    BY <1>8, <2>1
<1>10. ASSUME NEW f \in Evals
       PROVE  RowOK(f)' /\ Lasting(f)
  <2>1. RowOK(f)
    BY DEF Inv
  <2>2. CASE f \in gone
    BY <1>3, <1>4, <1>8, <2>1, <2>2 DEF RowOK, Lasting
  <2>3. CASE f = e
    BY <1>2, <1>3, <1>4, <1>8, <2>1, <2>3 DEF RowOK, Lasting
  <2>4. CASE f \notin gone /\ f # e
    BY <1>4, <1>8, <2>1, <2>4 DEF RowOK, Lasting
  <2> QED
    BY <2>2, <2>3, <2>4
<1>11. PICK s \in States : /\ Moved(r, s) /\ s.e = e /\ s.pc \in {"COMPLETE_RISK", "FAIL_STAGE"}
                           /\ s.fence = rt[r].fence
  <2>1. CASE decision = "ACTIVE"
    <3>1. Goto(r, "COMPLETE_RISK") /\ "COMPLETE_RISK" \in Phases
      BY <1>7, <2>1 DEF Phases, Processing
    <3> QED
      BY <1>1, <3>1, GotoMoves
  <2>2. CASE decision # "ACTIVE"
    BY <1>1, <1>7, <2>2, FailMoves
  <2> QED
    BY <2>1, <2>2
<1>12. PhaseOK(s)'
  <2>1. stage[e].signal # "NONE" /\ stage[e].fence = rt[r].fence
    BY <1>1, StageOf DEF PhaseOK, Begun
  <2> QED
    BY <1>4, <1>11, <2>1 DEF PhaseOK, Begun
<1>13. rt' \in [Runtimes -> States] /\ \A q \in Runtimes : rt'[q] = IF q = r THEN s ELSE rt[q]
  BY <1>11 DEF Moved, Inv, Typed
<1>14. ASSUME NEW q \in Runtimes
       PROVE  PhaseOK(rt[q])'
  <2>1. CASE q = r
    BY <1>12, <1>13, <2>1 DEF PhaseOK
  <2>2. CASE q # r
    <3>1. PICK t \in States : t = rt[q] /\ PhaseOK(t)
      BY DEF Inv, Typed
    <3>2. PhaseOK(t)'
      BY <1>10, <3>1, LastingPhase
    <3> QED
      BY <1>13, <2>2, <3>1, <3>2 DEF PhaseOK
  <2> QED
    BY <2>1, <2>2
<1>15. Typed'
  <2>1. budget' \in Int
    BY <1>7
  <2> QED
    BY <1>4, <1>9, <1>13, <2>1 DEF Typed
<1>16. OneOpen'
  BY <1>4 DEF Inv, OneOpen
<1>17. Covered'
  <2>1. PICK rest : rest = Counted \ gone
    OBVIOUS
  <2>2. /\ gone \subseteq Counted /\ IsFiniteSet(gone) /\ IsFiniteSet(Counted)
        /\ Cardinality(gone) \in Nat /\ Cardinality(Counted) \in Nat
    BY Released
  <2>3. IsFiniteSet(rest) /\ Cardinality(rest) = Cardinality(Counted) - Cardinality(gone)
    <3>1. Counted \cap gone = gone
      BY <2>2
    <3> QED
      BY <2>1, <2>2, <3>1, FS_Difference
  <2>4. Cardinality(Counted) <= budget /\ budget <= MaxPositions
    BY DEF Inv, Covered
  <2>5. Cardinality(rest) <= left /\ left <= MaxPositions /\ Cardinality(rest) \in Int
    BY <1>4, <1>5, <2>2, <2>3, <2>4, MaxPositionsAssumption
  <2>6. Counted' = {f \in Evals : approval'[f] = "ACTIVE"}
    BY DEF Counted
  <2>7. CASE decision = "ACTIVE" /\ approval[e] = "NONE"
    <3>1. Counted' = rest \cup {e} /\ e \notin rest
      BY <1>3, <1>8, <2>1, <2>6, <2>7 DEF Counted
    <3>2. IsFiniteSet(Counted') /\ Cardinality(Counted') = Cardinality(rest) + 1
      BY <2>3, <3>1, FS_AddElement
    <3>3. budget' = projected /\ projected <= MaxPositions
      BY <1>7, <2>7
    <3>4. Cardinality(Counted') <= projected
      BY <1>6, <2>5, <3>2
    <3> QED
      BY <3>2, <3>3, <3>4 DEF Covered
  <2>8. CASE ~(decision = "ACTIVE" /\ approval[e] = "NONE")
    <3>1. Counted' = rest
      BY <1>3, <1>7, <1>8, <2>1, <2>6, <2>8 DEF Counted
    <3>2. budget' = left
      BY <1>7, <2>8
    <3> QED
      BY <2>3, <2>5, <3>1, <3>2 DEF Covered
  <2> QED
    BY <2>7, <2>8
<1> QED
  BY <1>10, <1>14, <1>15, <1>16, <1>17 DEF Inv

\* The risk step.
LEMMA RiskStep ==
    ASSUME Inv, NEW r \in Runtimes, Risk(r)
    PROVE  Inv'
<1>1. UNCHANGED <<queue, stage, attempt, holder, faults>> /\ rt[r].pc = "RISK"
  BY DEF Risk, At
<1>2. holder' \in Runtimes /\ faults' \in 0 .. MaxFaults
  BY <1>1 DEF Inv, Typed
<1>3. CASE Fail(r) /\ UNCHANGED <<risk, chain>>
  BY <1>1, <1>2, <1>3, LettingGoStep DEF execution
<1>4. CASE ~(Fail(r) /\ UNCHANGED <<risk, chain>>)
  BY <1>1, <1>4, RiskDecides, DecideStep
<1> QED
  BY <1>3, <1>4

-----------------------------------------------------------------------------
(* The invariant and what follows from it.                                 *)

\* The first states: no row, one runtime.
LEMMA InitInv == Init => Inv
<1> SUFFICES ASSUME Init PROVE Inv
  OBVIOUS
<1>1. ASSUME NEW r \in Runtimes
      PROVE  rt[r] \in States /\ PhaseOK(rt[r])
  <2>1. PICK pc \in {"IDLE", "DOWN"} : pc = IF r = holder THEN "IDLE" ELSE "DOWN"
    OBVIOUS
  <2>2. PICK s : s = [Idle EXCEPT !.pc = pc]
    OBVIOUS
  <2>3. rt[r] = s
    BY <2>1, <2>2 DEF Init
  <2> QED
    BY <2>2, <2>3, IdlePhase
<1>2. rt \in [Runtimes -> States]
  <2>1. rt = [r \in Runtimes |-> rt[r]]
    BY DEF Init
  <2> QED
    BY <1>1, <2>1
<1>3. /\ eval \in [Evals -> Leases] /\ chain \in [Evals -> ChainRows] /\ stage \in [Evals -> Stages]
  <2>1. eval \in [Evals -> Leases]
    BY DEF Init, Leases, Decisions
  <2>2. [status |-> "NONE", at |-> "SIGNAL", signal |-> FALSE, bound |-> FALSE] \in ChainRows
    <3>1. "NONE" \in ChainStatuses
      BY DEF ChainStatuses
    <3> QED
      BY <3>1, Zenon DEF ChainRows
  <2>3. chain \in [Evals -> ChainRows]
    BY <2>2 DEF Init
  <2>4. stage \in [Evals -> Stages]
    BY DEF Init, Stages, StageStatuses
  <2> QED
    BY <2>1, <2>3, <2>4
<1>4. Typed
  BY <1>2, <1>3, MaxCandleAssumption, MaxFaultsAssumption DEF Init, Typed
<1>5. \A e \in Evals : RowOK(e)
  BY DEF Init, RowOK
<1>6. OneOpen
  BY DEF Init, OneOpen
<1>7. Covered
  <2>1. Counted = {}
    BY DEF Init, Counted
  <2>2. IsFiniteSet(Counted) /\ Cardinality(Counted) = 0
    BY <2>1, FS_EmptySet
  <2> QED
    BY <2>2, MaxPositionsAssumption DEF Init, Covered
<1> QED
  BY <1>1, <1>4, <1>5, <1>6, <1>7 DEF Inv

\* Every step keeps it.
LEMMA NextInv == Inv /\ [Next]_vars => Inv'
<1> SUFFICES ASSUME Inv, [Next]_vars PROVE Inv'
  OBVIOUS
<1>1. ASSUME NEW r \in Runtimes, Process(r)
      PROVE  Inv'
  BY <1>1, StartStep, CaptureStep, CheckpointStep, CompleteNoActionStep, WorkInv, RiskStep,
     CompleteStep, FailEvaluationStep DEF Process, Works
<1>2. ASSUME NEW r \in Runtimes, Cycle(r) \/ Raise(r) \/ Crash(r) \/ Takeover(r)
      PROVE  Inv'
  BY <1>1, <1>2, BeginCycleStep, EnqueueStep, ClaimStep, OpeningStep, PlaceStep, WorkInv,
     FaultStep DEF Cycle, Works
<1>3. ASSUME NEW e \in Evals, Resolve(e) \/ BundleExpires(e) \/ LeaseExpires(e)
      PROVE  Inv'
  BY <1>3, ResolveStep, TimeStep, LeaseExpiresStep
<1>4. ASSUME NEW d \in Deployments, Disable(d)
      PROVE  Inv'
  BY <1>4, DisableStep
<1>5. CASE CandleCloses
  BY <1>5, TimeStep, SomeEval
<1>6. CASE UNCHANGED vars
  <2>1. UNCHANGED <<active, candle, eval, fresh, chain, stage, approval, budget, attempt, holder, rt, faults>>
    BY <1>6 DEF vars, queue, execution, risk
  <2>2. /\ active' \in SUBSET Deployments /\ candle' \in 0 .. MaxCandle /\ fresh' \in SUBSET Evals
        /\ faults' \in 0 .. MaxFaults
    BY <2>1 DEF Inv, Typed
  <2>3. UNCHANGED <<execution, risk, attempt, holder, rt>> /\ UNCHANGED eval
    BY <2>1 DEF execution, risk
  <2> QED
    BY <2>2, <2>3, SameQueue, OutsideStep
<1> QED
  BY <1>2, <1>3, <1>4, <1>5, <1>6 DEF Next

\* Along every behaviour.
THEOREM AlwaysInv == Spec => []Inv
BY InitInv, NextInv, PTL DEF Spec

\* Every dispatched order keeps its whole chain behind it
\* (claim_okx_demo_continuous_dispatch).
THEOREM OrdersAreBacked == Spec => []DispatchIsBacked
<1>1. Inv => DispatchIsBacked
  BY DEF Inv, RowOK, DispatchIsBacked
<1> QED
  BY <1>1, AlwaysInv, PTL

\* Whoever is paused or taken over, there is one unresolved order
\* (okx_demo_continuous_opening_allowed).
THEOREM OneOrderAtATime == Spec => []OneUnresolvedOrder
<1>1. Inv => OneUnresolvedOrder
  BY DEF Inv, OneOpen, OneUnresolvedOrder
<1> QED
  BY <1>1, AlwaysInv, PTL

\* The budget covers every approval that counts on it, within the policy
\* (persist_okx_demo_natural_risk_chain).
THEOREM ApprovalsAreCovered == Spec => []BudgetCoversApprovals
<1>1. Inv => BudgetCoversApprovals
  BY DEF Inv, Covered, Counted, BudgetCoversApprovals
<1> QED
  BY <1>1, AlwaysInv, PTL

-----------------------------------------------------------------------------
(* Who changes what.                                                       *)

\* A runtime's step is its own.
LEMMA OwnMove ==
    ASSUME Inv, NEW q \in Runtimes, NEW r \in Runtimes, r # q,
           Cycle(q) \/ Raise(q) \/ Crash(q) \/ Takeover(q)
    PROVE  rt'[r] = rt[r]
<1>1. rt \in [Runtimes -> States]
  BY DEF Inv, Typed
<1>2. CASE Fail(q) \/ EndCycle(q) \/ GoDown(q)
  BY <1>1, <1>2 DEF Fail, EndCycle, GoDown
<1>3. ASSUME NEW pc, Goto(q, pc)
      PROVE  rt'[r] = rt[r]
  BY <1>1, <1>3 DEF Goto
<1>4. ASSUME NEW s, Moved(q, s)
      PROVE  rt'[r] = rt[r]
  BY <1>1, <1>4 DEF Moved
<1>5. CASE BeginCycle(q) \/ Enqueue(q) \/ Claim(q)
  BY <1>1, <1>2, <1>3, <1>5 DEF BeginCycle, Enqueue, Claim
<1>6. CASE Start(q)
  BY <1>2, <1>4, <1>6, StartMoves
<1>7. CASE Capture(q)
  BY <1>4, <1>7, CaptureMoves
<1>8. CASE Checkpoint(q)
  BY <1>2, <1>4, <1>8, CheckpointMoves DEF Refuse
<1>9. CASE CompleteNoAction(q) \/ Crash(q) \/ Takeover(q) \/ FailEvaluation(q)
  BY <1>2, <1>9 DEF CompleteNoAction, Crash, Takeover, FailEvaluation, Refuse
<1>10. CASE Works(q)
  <2>1. PICK s : Moved(q, s)
    BY <1>10, WorkMoves DEF GoesOn
  <2> QED
    BY <1>4, <2>1
<1>11. CASE Risk(q)
  <2>1. Fail(q) \/ Goto(q, "COMPLETE_RISK")
    BY <1>11, RiskDecides DEF Decides
  <2> QED
    BY <1>2, <1>3, <2>1
<1>12. CASE Complete(q)
  BY <1>1, <1>2, <1>12 DEF Complete, Refuse
<1>13. CASE Opening(q) \/ Place(q)
  BY <1>1, <1>2, <1>13 DEF Opening, Place
<1> QED
  BY <1>5, <1>6, <1>7, <1>8, <1>9, <1>10, <1>11, <1>12, <1>13 DEF Cycle, Process, Works

\* What a step of a former owner leaves.
Harmless(r, e) ==
    /\ eval'[e] = [eval[e] EXCEPT !.checkpoint = eval'[e].checkpoint]
    /\ UNCHANGED <<risk, attempt>>
    /\ stage'[e] # stage[e] =>
          /\ stage'[e].fence = rt[r].fence
          /\ stage[e].signal = "NONE" \/ stage[e].fence = rt[r].fence
    /\ Loaded(r)' => Loaded(r)
    /\ <<eval, chain, stage>>' # <<eval, chain, stage>> => Loaded(r) /\ ~Loaded(r)'

\* A step that leaves all rows.
LEMMA StillHarmless ==
    ASSUME Inv, NEW r \in Runtimes, NEW e \in Evals, UNCHANGED <<eval, execution, risk, attempt>>,
           Loaded(r)' => Loaded(r)
    PROVE  Harmless(r, e)
<1>1. eval[e] \in Leases /\ UNCHANGED <<eval, chain, stage>>
  BY DEF Inv, Typed, execution
<1>2. eval'[e] = [eval[e] EXCEPT !.checkpoint = eval'[e].checkpoint]
  BY <1>1 DEF Leases
<1> QED
  BY <1>1, <1>2 DEF Harmless

\* A runtime that has nothing loaded afterwards.
LEMMA NothingLoaded ==
    ASSUME Inv, NEW r \in Runtimes, Fail(r) \/ EndCycle(r) \/ GoDown(r)
    PROVE  ~Loaded(r)'
<1>1. PICK s \in States : Moved(r, s) /\ s.seen = "UNREAD"
  BY FailMoves, IdleMoves
<1>2. rt'[r] = s
  BY <1>1 DEF Moved, Inv, Typed
<1> QED
  BY <1>1, <1>2 DEF Loaded

\* A step of a former owner.
LEMMA FormerOwnerStep ==
    ASSUME Inv, NEW r \in Runtimes, NEW e \in Evals, FormerOwner(r, e),
           Cycle(r) \/ Raise(r) \/ Crash(r) \/ Takeover(r)
    PROVE  Harmless(r, e)
<1>1. ~OwnsRow(r) /\ ~Owns(r) /\ ~MayDecide(r) /\ e = rt[r].e
  BY DEF OwnsRow, Owns, MayDecide, FormerOwner
<1>2. Process(r) \/ Raise(r) \/ Crash(r)
  BY DEF Cycle, BeginCycle, Enqueue, Claim, Opening, Place, Takeover, At, Processing, Failing,
         FormerOwner
<1>3. rt \in [Runtimes -> States] /\ eval[e] \in Leases
  BY DEF Inv, Typed
<1>4. ASSUME Fail(r) \/ EndCycle(r) \/ GoDown(r), UNCHANGED <<eval, execution, risk, attempt>>
      PROVE  Harmless(r, e)
  BY <1>4, NothingLoaded, StillHarmless
<1>5. CASE Refuse(r) /\ UNCHANGED attempt
  BY <1>4, <1>5 DEF Refuse, queue
<1>6. CASE Start(r)
  BY <1>1, <1>4, <1>6, StartMoves DEF Start, queue
<1>7. CASE Capture(r)
  <2>1. PICK s \in States : Moved(r, s) /\ s.seen = rt[r].seen
    BY <1>7, CaptureMoves
  <2>2. rt'[r].seen = rt[r].seen
    BY <1>3, <2>1 DEF Moved
  <2>3. UNCHANGED <<eval, execution, risk, attempt>>
    BY <1>7 DEF Capture
  <2> QED
    BY <2>2, <2>3, StillHarmless DEF Loaded
<1>8. CASE Checkpoint(r) /\ ~Refuse(r)
  <2>1. PICK s \in States : Moved(r, s) /\ s.seen = "UNREAD"
    BY <1>8, CheckpointMoves
  <2>2. rt'[r].seen = "UNREAD"
    BY <1>3, <2>1 DEF Moved
  <2>3. /\ eval'[e] = [eval[e] EXCEPT !.checkpoint = eval'[e].checkpoint]
        /\ rt[r].seen # "UNREAD"
        /\ UNCHANGED <<execution, risk, attempt>>
    BY <1>1, <1>8, CheckpointMoves
  <2> QED
    BY <2>2, <2>3 DEF Harmless, Loaded, execution
<1>9. CASE Checkpoint(r) \/ CompleteNoAction(r) \/ Complete(r)
  BY <1>1, <1>5, <1>8, <1>9 DEF Checkpoint, CompleteNoAction, Complete
<1>10. CASE Works(r)
  <2>1. PICK s \in States : GoesOn(r, s, e)
    BY <1>1, <1>10, WorkMoves
  <2>2. /\ Contained(r, s, e) /\ UNCHANGED <<eval, risk, attempt>>
    BY <1>1, <2>1 DEF GoesOn, queue
  <2>3. rt'[r] = s
    BY <1>3, <2>1 DEF GoesOn, Moved
  <2>4. eval'[e] = [eval[e] EXCEPT !.checkpoint = eval'[e].checkpoint]
    BY <1>3, <2>2 DEF Leases
  <2> QED
    BY <2>2, <2>3, <2>4 DEF Harmless, Contained, Loaded
<1>11. CASE Risk(r)
  BY <1>1, <1>4, <1>11 DEF Risk, queue, execution, risk
<1>12. CASE FailEvaluation(r)
  <2>1. UNCHANGED <<eval, execution, risk, attempt>> /\ (EndCycle(r) \/ GoDown(r))
    BY <1>1, <1>12 DEF FailEvaluation
  <2> QED
    BY <1>4, <2>1
<1>13. CASE Crash(r)
  BY <1>4, <1>13 DEF Crash, queue
<1> QED
  BY <1>2, <1>6, <1>7, <1>9, <1>10, <1>11, <1>12, <1>13 DEF Process, Works

\* A runtime whose evaluation was ended, requeued or leased again decides nothing of it,
\* and writes one transaction of what it had loaded at most, of its own stages
\* (require_active_lease, _expire_stale, disable).
THEOREM FormerOwnersWriteTheirOwn == Spec => FormerOwnersAreContained
<1>1. ASSUME Inv, [Next]_vars, NEW r \in Runtimes, NEW e \in Evals,
             FormerOwner(r, e), rt'[r] # rt[r]
      PROVE  Harmless(r, e)
  <2>1. PICK q \in Runtimes : Cycle(q) \/ Raise(q) \/ Crash(q) \/ Takeover(q)
    BY <1>1 DEF Next, Resolve, BundleExpires, LeaseExpires, Disable, CandleCloses, vars
  <2>2. q = r
    BY <1>1, <2>1, OwnMove
  <2> QED
    BY <1>1, <2>1, <2>2, FormerOwnerStep
<1>2. Inv /\ [Next]_vars =>
        [\A r \in Runtimes, e \in Evals :
          FormerOwner(r, e) /\ rt'[r] # rt[r] =>
              /\ eval'[e] = [eval[e] EXCEPT !.checkpoint = eval'[e].checkpoint]
              /\ UNCHANGED <<risk, attempt>>
              /\ stage'[e] # stage[e] =>
                    /\ stage'[e].fence = rt[r].fence
                    /\ stage[e].signal = "NONE" \/ stage[e].fence = rt[r].fence
              /\ Loaded(r)' => Loaded(r)
              /\ <<eval, chain, stage>>' # <<eval, chain, stage>> => Loaded(r) /\ ~Loaded(r)']_vars
  BY <1>1 DEF Harmless
<1> QED
  BY <1>2, AlwaysInv, PTL DEF Spec, FormerOwnersAreContained

-----------------------------------------------------------------------------
(* How often an evaluation is leased: once, and once more for every fault. *)
(* With it the types of SignalExecution are complete, bounds of the fences *)
(* included.  The inductive invariant counts who may still claim.          *)

Early == {"IDLE", "DOWN", "ENQUEUE", "CLAIM"}

\* Runtimes that were taken over before they claimed: each may claim once more.
Strays == {r \in Runtimes \ {holder} : rt[r].pc \in {"ENQUEUE", "CLAIM"}}

\* An evaluation that may be leased again without a fault.
Vacant(e) ==
    /\ eval[e].status \in Waiting
    /\ ~(eval[e].status = "LEASED" /\ eval[e].live /\ Working(holder, e))

Counts(e) == eval[e].fence + Cardinality(Strays) + (IF Vacant(e) THEN 1 ELSE 0) <= faults + 1

\* What the fence in the hands of a runtime in state s says.
FenceOK(s) ==
    /\ s.fence <= eval[s.e].fence
    /\ s.pc \in Early => s.late = FALSE
    /\ s.late = TRUE /\ eval[s.e].status = "LEASED" /\ eval[s.e].fence = s.fence
        => eval[s.e].live = FALSE

FInv ==
    /\ IsFiniteSet(Strays)
    /\ \A e \in Evals : Counts(e)
    /\ \A r \in Runtimes : FenceOK(rt[r])
    /\ \A e \in Evals : stage[e].fence <= eval[e].fence

-----------------------------------------------------------------------------
(* Steps by what they leave of the leases.                                 *)

\* A lease that no step renews.
NotLater(e) ==
    /\ eval'[e].fence = eval[e].fence
    /\ eval'[e].status = "LEASED" /\ eval'[e].live = TRUE
        => eval[e].status = "LEASED" /\ eval[e].live = TRUE

\* A row whose lease a step leaves alone.
SameLease(e) ==
    eval'[e].fence = eval[e].fence /\ eval'[e].status = eval[e].status /\ eval'[e].live = eval[e].live

\* The types of the rows, before and after.
LEMMA Rowed ==
    ASSUME Inv, NEW e \in Evals
    PROVE  /\ eval[e].fence \in Nat /\ eval[e].live \in BOOLEAN /\ stage[e].fence \in Nat
           /\ eval[e].status \in {"NONE", "PENDING", "LEASED"} \cup Ended
<1>1. eval[e] \in Leases /\ stage[e] \in Stages
  BY DEF Inv, Typed
<1> QED
  BY <1>1 DEF Leases, Stages

\* What a runtime knows of its fence stays true.
LEMMA FenceLasts ==
    ASSUME Inv, Inv', NEW s \in States, FenceOK(s), \A e \in Evals : NotLater(e)
    PROVE  FenceOK(s)'
<1>1. s.e \in Evals
  BY DEF States
<1>2. NotLater(s.e) /\ eval'[s.e].live \in BOOLEAN
  <2>1. eval'[s.e] \in Leases
    BY <1>1 DEF Inv, Typed
  <2> QED
    BY <1>1, <2>1 DEF Leases
<1> QED
  BY <1>1, <1>2 DEF FenceOK, NotLater

\* A step with which nothing becomes vacant, or that is counted for a fault.
LEMMA CountStep ==
    ASSUME Inv, Inv', FInv, Strays' \subseteq Strays, \A e \in Evals : NotLater(e),
           \/ faults' = faults /\ \A e \in Evals : Vacant(e)' => Vacant(e)
           \/ faults' = faults + 1
    PROVE  IsFiniteSet(Strays') /\ \A e \in Evals : Counts(e)'
<1>1. /\ IsFiniteSet(Strays) /\ IsFiniteSet(Strays') /\ Cardinality(Strays) \in Nat
      /\ Cardinality(Strays') \in Nat /\ Cardinality(Strays') <= Cardinality(Strays)
  BY FS_Subset, FS_CardinalityType DEF FInv
<1>2. faults \in Nat
  BY DEF Inv, Typed
<1>3. ASSUME NEW e \in Evals
      PROVE  Counts(e)'
  <2>1. Counts(e) /\ eval'[e].fence = eval[e].fence /\ eval[e].fence \in Nat
    BY Rowed DEF FInv, NotLater
  <2>2. PICK n \in Nat, m \in Nat, f \in Nat :
            n = Cardinality(Strays) /\ m = Cardinality(Strays') /\ f = eval[e].fence
    BY <1>1, <2>1
  <2>3. f + n + (IF Vacant(e) THEN 1 ELSE 0) <= faults + 1 /\ m <= n
    BY <1>1, <2>1, <2>2 DEF Counts
  <2>4. CASE faults' = faults /\ (Vacant(e)' => Vacant(e))
    <3>1. f + m + (IF Vacant(e)' THEN 1 ELSE 0) <= faults' + 1
      BY <1>2, <2>3, <2>4
    <3> QED
      BY <2>1, <2>2, <3>1 DEF Counts
  <2>5. CASE faults' = faults + 1
    <3>1. f + m + (IF Vacant(e)' THEN 1 ELSE 0) <= faults' + 1
      BY <1>2, <2>3, <2>5
    <3> QED
      BY <2>1, <2>2, <3>1 DEF Counts
  <2> QED
    BY <2>4, <2>5
<1> QED
  BY <1>1, <1>3

\* A step of one runtime whose leases are counted.
LEMMA FenceKept ==
    ASSUME Inv, Inv', FInv, NEW r \in Runtimes, NEW s \in States, Moved(r, s), FenceOK(s) \/ FenceOK(s)',
           IsFiniteSet(Strays'), \A e \in Evals : Counts(e)', \A e \in Evals : NotLater(e),
           \A e \in Evals : stage'[e].fence = stage[e].fence \/ stage'[e].fence <= eval[e].fence
    PROVE  FInv'
<1>1. \A q \in Runtimes : rt'[q] = IF q = r THEN s ELSE rt[q]
  BY DEF Moved, Inv, Typed
<1>2. ASSUME NEW q \in Runtimes
      PROVE  FenceOK(rt[q])'
  <2>1. CASE q = r
    BY <1>1, <2>1, FenceLasts DEF FenceOK
  <2>2. CASE q # r
    <3>1. PICK t \in States : t = rt[q] /\ FenceOK(t)
      BY DEF Inv, Typed, FInv
    <3>2. FenceOK(t)'
      BY <3>1, FenceLasts
    <3> QED
      BY <1>1, <2>2, <3>1, <3>2 DEF FenceOK
  <2> QED
    BY <2>1, <2>2
<1>3. \A e \in Evals : stage'[e].fence <= eval'[e].fence
  BY DEF FInv, NotLater
<1> QED
  BY <1>2, <1>3 DEF FInv

\* A step of one runtime, that leases nothing.
LEMMA FenceStep ==
    ASSUME Inv, Inv', FInv, NEW r \in Runtimes, NEW s \in States, Moved(r, s), FenceOK(s) \/ FenceOK(s)',
           Strays' \subseteq Strays, \A e \in Evals : NotLater(e),
           \/ faults' = faults /\ \A e \in Evals : Vacant(e)' => Vacant(e)
           \/ faults' = faults + 1,
           \A e \in Evals : stage'[e].fence = stage[e].fence \/ stage'[e].fence <= eval[e].fence
    PROVE  FInv'
<1>1. IsFiniteSet(Strays') /\ \A e \in Evals : Counts(e)'
  BY CountStep
<1> QED
  BY <1>1, FenceKept

-----------------------------------------------------------------------------
(* A runtime that goes on with its evaluation.                             *)

Keeps(r) ==
    \E s \in States : /\ Moved(r, s) /\ s.pc \in Busy /\ s.e = rt[r].e /\ s.fence = rt[r].fence
                      /\ s.late = TRUE => rt[r].late = TRUE \/ Expired(r)

\* Nothing of its lease changes.
LEMMA WorkStep ==
    ASSUME Inv, Inv', FInv, NEW r \in Runtimes, rt[r].pc \in Busy, Keeps(r),
           \A e \in Evals : SameLease(e), UNCHANGED holder, faults' = faults \/ faults' = faults + 1,
           \A e \in Evals : stage'[e].fence = stage[e].fence \/ stage'[e].fence <= eval[e].fence
    PROVE  FInv'
<1>1. PICK s \in States : /\ Moved(r, s) /\ s.pc \in Busy /\ s.e = rt[r].e /\ s.fence = rt[r].fence
                          /\ s.late = TRUE => rt[r].late = TRUE \/ Expired(r)
  BY DEF Keeps
<1>2. PICK t \in States : t = rt[r] /\ FenceOK(t)
  BY DEF Inv, Typed, FInv
<1>3. \A q \in Runtimes : rt'[q] = IF q = r THEN s ELSE rt[q]
  BY <1>1 DEF Moved, Inv, Typed
<1>4. s.e \in Evals /\ s.late \in BOOLEAN
  BY DEF States
<1>5. FenceOK(s)
  <2>1. s.pc \notin Early
    BY <1>1 DEF Busy, Early, Processing, Failing
  <2>2. eval[s.e].live \in BOOLEAN
    BY <1>4, Rowed
  <2>3. CASE Expired(r)
    BY <1>1, <1>2, <2>1, <2>2, <2>3 DEF FenceOK, Expired
  <2>4. CASE ~Expired(r)
    BY <1>1, <1>2, <2>1, <2>4 DEF FenceOK
  <2> QED
    BY <2>3, <2>4
<1>6. Strays' \subseteq Strays
  BY <1>1, <1>3 DEF Strays, Busy, Processing, Failing
<1>7. ASSUME NEW e \in Evals
      PROVE  NotLater(e) /\ (Vacant(e)' => Vacant(e))
  <2>1. NotLater(e)
    BY DEF SameLease, NotLater
  <2>2. Working(holder, e)' = Working(holder, e)
    <3>1. CASE holder = r
      BY <1>1, <1>3, <3>1 DEF Working, Busy, SameLease
    <3>2. CASE holder # r
      <4>1. rt'[holder] = rt[holder]
        BY <1>3, <3>2 DEF Inv, Typed
      <4> QED
        BY <4>1 DEF Working, SameLease
    <3> QED
      BY <3>1, <3>2
  <2>3. Vacant(e)' => Vacant(e)
    BY <2>2 DEF Vacant, SameLease
  <2> QED
    BY <2>1, <2>3
<1> QED
  BY <1>1, <1>5, <1>6, <1>7, FenceStep

\* Failing keeps the lease.
LEMMA FailKeeps ==
    ASSUME Inv, NEW r \in Runtimes, Fail(r)
    PROVE  Keeps(r)
<1>1. PICK s \in States : /\ Moved(r, s) /\ s.pc = "FAIL_STAGE" /\ s.e = rt[r].e
                          /\ s.fence = rt[r].fence /\ s.late = rt[r].late
  BY FailMoves
<1> QED
  BY <1>1 DEF Keeps, Busy, Failing

\* So does going on.
LEMMA GotoKeeps ==
    ASSUME Inv, NEW r \in Runtimes, NEW pc \in Busy, Goto(r, pc)
    PROVE  Keeps(r)
<1>1. pc \in Phases
  BY DEF Busy, Phases
<1>2. PICK s \in States : /\ Moved(r, s) /\ s.pc = pc /\ s.e = rt[r].e
                          /\ s.fence = rt[r].fence /\ s.late = rt[r].late
  BY <1>1, GotoMoves
<1> QED
  BY <1>2 DEF Keeps

\* A step of a busy runtime that only keeps its lease.
LEMMA StillFence ==
    ASSUME Inv, Inv', FInv, NEW r \in Runtimes, rt[r].pc \in Busy, Keeps(r),
           UNCHANGED <<queue, stage, holder, faults>>
    PROVE  FInv'
<1>1. \A f \in Evals : SameLease(f)
  BY DEF queue, SameLease
<1> QED
  BY <1>1, WorkStep

\* What a refusal leaves.
LEMMA RefuseFence ==
    ASSUME Inv, Inv', FInv, NEW r \in Runtimes, rt[r].pc \in Busy, Refuse(r),
           UNCHANGED <<holder, faults>>
    PROVE  FInv'
BY FailKeeps, StillFence DEF Refuse, execution

-----------------------------------------------------------------------------
(* The steps of an evaluation, before its end.                             *)

\* A capture reads the clock.
LEMMA CaptureFence ==
    ASSUME Inv, Inv', FInv, NEW r \in Runtimes, Capture(r)
    PROVE  FInv'
<1>1. rt[r].pc \in Busy
  BY DEF Capture, At, Busy, Processing
<1>2. PICK s \in States : /\ Moved(r, s) /\ s.pc = "CHECKPOINT" /\ s.e = rt[r].e
                          /\ s.fence = rt[r].fence /\ s.late = Expired(r)
  BY CaptureMoves
<1>3. Keeps(r)
  BY <1>2 DEF Keeps, Busy, Processing
<1>4. UNCHANGED <<eval, stage, holder, faults>>
  BY DEF Capture, execution
<1>5. \A f \in Evals : SameLease(f)
  BY <1>4 DEF SameLease
<1> QED
  BY <1>1, <1>3, <1>4, <1>5, WorkStep

\* A checkpoint leaves the lease alone.
LEMMA CheckpointFence ==
    ASSUME Inv, Inv', FInv, NEW r \in Runtimes, Checkpoint(r)
    PROVE  FInv'
<1>1. UNCHANGED <<holder, faults>> /\ rt[r].pc \in Busy
  BY DEF Checkpoint, At, Busy, Processing
<1>2. CASE Refuse(r)
  BY <1>1, <1>2, RefuseFence
<1>3. CASE ~Refuse(r)
  <2>1. PICK s \in States : /\ Moved(r, s) /\ s.pc \in {"NO_ACTION", "OPEN"} /\ s.e = rt[r].e
                            /\ s.fence = rt[r].fence /\ s.late = rt[r].late
    BY <1>3, CheckpointMoves
  <2>2. Keeps(r)
    BY <2>1 DEF Keeps, Busy, Processing
  <2>3. UNCHANGED stage /\ \A f \in Evals : SameLease(f)
    BY <1>3, CheckpointMoves DEF SameLease, execution
  <2> QED
    BY <1>1, <2>2, <2>3, WorkStep
<1> QED
  BY <1>2, <1>3

\* A runtime at work stamps a stage with its own fence at most.
LEMMA WorkFence ==
    ASSUME Inv, Inv', FInv, NEW r \in Runtimes, Works(r)
    PROVE  FInv'
<1>1. PICK e \in Evals : e = rt[r].e
  BY StageOf
<1>2. PICK s \in States : GoesOn(r, s, e)
  BY <1>1, WorkMoves
<1>3. rt[r].pc \in Busy
  BY DEF Works, Load, OpenChain, PrepareSignal, RecordSignal, CompleteSignal, Boundary, PrepareRisk,
         CompleteRisk, FailStage, FailChain, Raise, At, Reading, Busy, Processing, Failing
<1>4. Keeps(r)
  BY <1>1, <1>2 DEF GoesOn, Keeps
<1>5. UNCHANGED holder /\ (faults' = faults \/ faults' = faults + 1) /\ \A f \in Evals : SameLease(f)
  BY <1>2 DEF GoesOn, queue, SameLease
<1>6. FenceOK(rt[r]) /\ Follows(e, rt[r].fence)
  BY <1>2 DEF FInv, GoesOn
<1>7. \A f \in Evals : stage'[f].fence = stage[f].fence \/ stage'[f].fence <= eval[f].fence
  BY <1>1, <1>6 DEF FenceOK, Follows
<1> QED
  BY <1>3, <1>4, <1>5, <1>7, WorkStep

\* The owner function does not touch the queue.
LEMMA RiskFence ==
    ASSUME Inv, Inv', FInv, NEW r \in Runtimes, Risk(r)
    PROVE  FInv'
<1>1. UNCHANGED <<queue, stage, holder, faults>> /\ rt[r].pc \in Busy /\ "COMPLETE_RISK" \in Busy
  BY DEF Risk, At, Busy, Processing
<1>2. Goto(r, "COMPLETE_RISK") \/ Fail(r)
  BY RiskDecides DEF Decides
<1>3. Keeps(r)
  BY <1>1, <1>2, GotoKeeps, FailKeeps
<1> QED
  BY <1>1, <1>3, StillFence

-----------------------------------------------------------------------------
(* The end of an evaluation, and of a cycle.                               *)

\* A runtime that forgets its fence.
Rests(r) ==
    \E s \in States : /\ Moved(r, s) /\ s.fence = 0 /\ s.late = FALSE
                      /\ s.pc \notin {"ENQUEUE", "CLAIM"}

\* It leaves no lease of its own behind.
LEMMA RestStep ==
    ASSUME Inv, Inv', FInv, NEW r \in Runtimes, Rests(r), UNCHANGED <<stage, holder>>,
           \A e \in Evals : NotLater(e),
           \/ /\ UNCHANGED faults
              /\ \A e \in Evals : eval'[e].status \in Waiting => SameLease(e)
              /\ \A e \in Evals :
                    Working(r, e) /\ eval[e].status = "LEASED" /\ eval[e].live = TRUE
                        => eval'[e].status \in Ended
           \/ faults' = faults + 1
    PROVE  FInv'
<1>1. PICK s \in States : Moved(r, s) /\ s.fence = 0 /\ s.late = FALSE /\ s.pc \notin {"ENQUEUE", "CLAIM"}
  BY DEF Rests
<1>2. FenceOK(s)
  <2>1. s.e \in Evals
    BY DEF States
  <2>2. eval[s.e].fence \in Nat
    BY <2>1, Rowed
  <2> QED
    BY <1>1, <2>2 DEF FenceOK
<1>3. \A q \in Runtimes : rt'[q] = IF q = r THEN s ELSE rt[q]
  BY <1>1 DEF Moved, Inv, Typed
<1>4. Strays' \subseteq Strays
  BY <1>1, <1>3 DEF Strays
<1>5. ASSUME NEW e \in Evals,
             eval'[e].status \in Waiting => SameLease(e),
             Working(r, e) /\ eval[e].status = "LEASED" /\ eval[e].live = TRUE
                => eval'[e].status \in Ended,
             Vacant(e)'
      PROVE  Vacant(e)
  <2>1. eval'[e].status \in Waiting /\ SameLease(e)
    BY <1>5 DEF Vacant
  <2>2. eval[e].live \in BOOLEAN
    BY Rowed
  <2>3. CASE holder = r
    BY <1>5, <2>1, <2>2, <2>3 DEF Vacant, SameLease, Waiting, Ended
  <2>4. CASE holder # r
    <3>1. rt'[holder] = rt[holder]
      BY <1>3, <2>4 DEF Inv, Typed
    <3>2. Working(holder, e)' = Working(holder, e)
      BY <2>1, <3>1 DEF Working, SameLease
    <3> QED
      BY <1>5, <2>1, <3>2 DEF Vacant, SameLease
  <2> QED
    BY <2>3, <2>4
<1> QED
  BY <1>1, <1>2, <1>4, <1>5, FenceStep

\* Ending a cycle or a process is such a rest.
LEMMA IdleRests ==
    ASSUME Inv, NEW r \in Runtimes, EndCycle(r) \/ GoDown(r)
    PROVE  Rests(r)
<1>1. CASE EndCycle(r)
  <2>1. PICK s : s = Idle
    OBVIOUS
  <2>2. Moved(r, s)
    BY <1>1, <2>1 DEF EndCycle, Moved
  <2> QED
    BY <2>1, <2>2, IdleState DEF Rests
<1>2. CASE GoDown(r)
  <2>1. PICK s : s = [Idle EXCEPT !.pc = "DOWN"]
    OBVIOUS
  <2>2. s \in States /\ s.pc = "DOWN"
    BY <2>1, IdleState DEF States, Phases
  <2>3. s.fence = 0 /\ s.late = FALSE
    BY <2>1, IdleState DEF States
  <2>4. Moved(r, s)
    BY <1>2, <2>1 DEF GoDown, Moved
  <2> QED
    BY <2>2, <2>3, <2>4 DEF Rests
<1> QED
  BY <1>1, <1>2

\* So is a rest with another phase and evaluation.
LEMMA FreshRests ==
    ASSUME Inv, NEW r \in Runtimes, NEW e \in Evals, NEW pc \in {"OPENING", "PLACE"}, NEW mine \in BOOLEAN,
           rt' = [rt EXCEPT ![r] = [Idle EXCEPT !.pc = pc, !.e = e, !.mine = mine]]
    PROVE  Rests(r)
<1>1. PICK s : s = [Idle EXCEPT !.pc = pc, !.e = e, !.mine = mine]
  OBVIOUS
<1>2. pc \in Phases
  BY DEF Phases
<1>3. s \in States
  BY <1>1, <1>2, IdleState, Zenon DEF States
<1>4. s.pc = pc /\ s.fence = 0 /\ s.late = FALSE
  BY <1>1, IdleState DEF States
<1>5. Moved(r, s)
  BY <1>1 DEF Moved
<1> QED
  BY <1>3, <1>4, <1>5 DEF Rests

\* An ended evaluation is nobody's.
LEMMA EndedLease ==
    ASSUME Inv, NEW e \in Evals, NEW status \in Ended,
           eval' = [eval EXCEPT ![e].status = status, ![e].live = FALSE]
    PROVE  /\ eval'[e].status = status
           /\ \A f \in Evals : NotLater(f) /\ (eval'[f].status \in Waiting => SameLease(f))
<1>1. eval \in [Evals -> Leases] /\ eval[e] \in Leases
  BY DEF Inv, Typed
<1>2. PICK row : row = [eval[e] EXCEPT !.status = status, !.live = FALSE]
  OBVIOUS
<1>3. row.status = status /\ row.fence = eval[e].fence /\ row.live = FALSE
  BY <1>1, <1>2 DEF Leases
<1>4. eval' = [eval EXCEPT ![e] = row]
  BY <1>1, <1>2
<1>5. eval'[e] = row /\ \A f \in Evals \ {e} : eval'[f] = eval[f]
  BY <1>1, <1>4
<1> QED
  BY <1>3, <1>5 DEF NotLater, SameLease, Waiting, Ended

\* Nothing of the queue changes.
LEMMA SameLeases ==
    ASSUME UNCHANGED eval
    PROVE  \A e \in Evals : NotLater(e) /\ SameLease(e)
BY DEF NotLater, SameLease

\* Only one evaluation is a runtime's.
LEMMA WorkedOn ==
    ASSUME NEW r \in Runtimes, NEW f \in Evals, Working(r, f)
    PROVE  f = rt[r].e
BY DEF Working

\* The start of an evaluation, or its replay.
LEMMA StartFence ==
    ASSUME Inv, Inv', FInv, NEW r \in Runtimes, Start(r)
    PROVE  FInv'
<1>1. UNCHANGED <<queue, execution, holder, faults>> /\ rt[r].pc \in Busy
  BY DEF Start, At, Busy, Processing
<1>2. CASE eval[rt[r].e].status \in Ended /\ EndCycle(r)
  <2>1. UNCHANGED <<eval, stage>>
    BY <1>1 DEF queue, execution
  <2>2. \A f \in Evals : Working(r, f) => eval'[f].status \in Ended
    BY <1>2, <2>1, WorkedOn
  <2> QED
    BY <1>1, <1>2, <2>1, <2>2, SameLeases, IdleRests, RestStep
<1>3. CASE Keeps(r)
  BY <1>1, <1>3, StillFence DEF execution
<1>4. CASE Fail(r)
  BY <1>3, <1>4, FailKeeps
<1>5. ASSUME NEW s \in States, Moved(r, s), s.pc \in {"CAPTURE", "NO_ACTION", "OPEN"}, s.e = rt[r].e,
             s.fence = rt[r].fence, s.late = rt[r].late
      PROVE  Keeps(r)
  BY <1>5 DEF Keeps, Busy, Processing
<1> QED
  BY <1>2, <1>3, <1>4, <1>5, StartMoves

\* A result is the end of its lease.
LEMMA CompleteFence ==
    ASSUME Inv, Inv', FInv, NEW r \in Runtimes, CompleteNoAction(r) \/ Complete(r)
    PROVE  FInv'
<1>1. UNCHANGED <<holder, faults>> /\ rt[r].pc \in Busy
  BY DEF CompleteNoAction, Complete, At, Busy, Processing
<1>2. CASE Refuse(r)
  BY <1>1, <1>2, RefuseFence
<1>3. CASE ~Refuse(r)
  <2>1. PICK e \in Evals : e = rt[r].e
    BY StageOf
  <2>2. PICK status \in Ended :
            /\ eval' = [eval EXCEPT ![e].status = status, ![e].live = FALSE]
            /\ UNCHANGED execution
            /\ \/ EndCycle(r)
               \/ rt' = [rt EXCEPT ![r] = [Idle EXCEPT !.pc = "OPENING", !.e = e, !.mine = TRUE]]
    BY <1>3, <2>1 DEF CompleteNoAction, Complete, Ended
  <2>3. Rests(r)
    BY <2>2, IdleRests, FreshRests
  <2>4. UNCHANGED stage
    BY <2>2 DEF execution
  <2>5. \A f \in Evals : Working(r, f) => eval'[f].status \in Ended
    BY <2>1, <2>2, EndedLease, WorkedOn
  <2> QED
    BY <1>1, <2>2, <2>3, <2>4, <2>5, EndedLease, RestStep
<1> QED
  BY <1>2, <1>3

\* A runtime that could not end its evaluation has lost its lease.
LEMMA FailEvaluationFence ==
    ASSUME Inv, Inv', FInv, NEW r \in Runtimes, FailEvaluation(r)
    PROVE  FInv'
<1>1. UNCHANGED <<stage, holder, faults>> /\ (EndCycle(r) \/ GoDown(r))
  BY DEF FailEvaluation, execution
<1>2. PICK e \in Evals : e = rt[r].e
  BY StageOf
<1>3. CASE OwnsRow(r)
  <2>1. eval' = [eval EXCEPT ![e].status = "BLOCKED", ![e].live = FALSE] /\ "BLOCKED" \in Ended
    BY <1>2, <1>3 DEF FailEvaluation, Ended
  <2>2. \A f \in Evals : Working(r, f) => eval'[f].status \in Ended
    BY <1>2, <2>1, EndedLease, WorkedOn
  <2> QED
    BY <1>1, <2>1, <2>2, EndedLease, IdleRests, RestStep
<1>4. CASE ~OwnsRow(r)
  <2>1. UNCHANGED eval
    BY <1>4 DEF FailEvaluation
  <2>2. \A f \in Evals : ~(Working(r, f) /\ eval[f].status = "LEASED" /\ eval[f].live = TRUE)
    <3>1. FenceOK(rt[r]) /\ rt[r].late \in BOOLEAN
      BY StageOf DEF FInv, States
    <3> QED
      BY <1>2, <1>4, <3>1, WorkedOn DEF OwnsRow, FenceOK, Working
  <2> QED
    BY <1>1, <2>1, <2>2, SameLeases, IdleRests, RestStep
<1> QED
  BY <1>3, <1>4

\* Approvals are selected and dispatched without a lease.
LEMMA OrderFence ==
    ASSUME Inv, Inv', FInv, NEW r \in Runtimes, Opening(r) \/ Place(r)
    PROVE  FInv'
<1>1. UNCHANGED <<eval, stage, holder, faults>>
  BY DEF Opening, Place, queue, execution
<1>2. \A f \in Evals : ~Working(r, f)
  BY DEF Opening, Place, At, Working, Processing, Failing
<1>3. Rests(r)
  <2>1. CASE EndCycle(r) \/ GoDown(r)
    BY <2>1, IdleRests
  <2>2. ASSUME NEW e \in Evals, rt' = [rt EXCEPT ![r] = [Idle EXCEPT !.pc = "PLACE", !.e = e]]
        PROVE  Rests(r)
    <3>1. PICK s : s = [Idle EXCEPT !.pc = "PLACE", !.e = e]
      OBVIOUS
    <3>2. s \in States /\ s.pc = "PLACE"
      BY <3>1, IdleState DEF States, Phases
    <3>3. s.fence = 0 /\ s.late = FALSE
      BY <3>1, IdleState DEF States
    <3>4. Moved(r, s)
      BY <2>2, <3>1 DEF Moved
    <3> QED
      BY <3>2, <3>3, <3>4 DEF Rests
  <2> QED
    BY <2>1, <2>2 DEF Opening, Place
<1> QED
  BY <1>1, <1>2, <1>3, SameLeases, RestStep

-----------------------------------------------------------------------------
(* The queue.                                                              *)

\* A runtime without an evaluation, before it claims.
LEMMA EarlyStep ==
    ASSUME Inv, Inv', FInv, NEW r \in Runtimes, rt[r].pc \in Early, NEW s \in States, Moved(r, s),
           s.pc \in Early \cup {"OPENING"}, s.e = rt[r].e, s.fence = rt[r].fence, s.late = rt[r].late,
           r = holder \/ s.pc \notin {"ENQUEUE", "CLAIM"} \/ rt[r].pc \in {"ENQUEUE", "CLAIM"},
           UNCHANGED <<stage, holder, faults>>, \A e \in Evals : NotLater(e),
           \A e \in Evals : eval'[e].status \in Waiting =>
                /\ eval[e].status \in Waiting
                /\ SameLease(e) \/ ~(eval[e].status = "LEASED" /\ eval[e].live = TRUE)
    PROVE  FInv'
<1>1. FenceOK(s)
  <2>1. FenceOK(rt[r])
    BY DEF FInv
  <2> QED
    BY <2>1 DEF FenceOK
<1>2. \A q \in Runtimes : rt'[q] = IF q = r THEN s ELSE rt[q]
  BY DEF Moved, Inv, Typed
<1>3. Strays' \subseteq Strays
  BY <1>2 DEF Strays
<1>4. ASSUME NEW e \in Evals, Vacant(e)'
      PROVE  Vacant(e)
  <2>1. /\ eval'[e].status \in Waiting /\ eval[e].status \in Waiting
        /\ SameLease(e) \/ ~(eval[e].status = "LEASED" /\ eval[e].live = TRUE)
    BY <1>4 DEF Vacant
  <2>2. eval[e].live \in BOOLEAN
    BY Rowed
  <2>3. ASSUME Working(holder, e), SameLease(e)
        PROVE  Working(holder, e)'
    <3>1. holder # r
      BY <2>3 DEF Working, Early, Processing, Failing
    <3>2. rt'[holder] = rt[holder]
      BY <1>2, <3>1 DEF Inv, Typed
    <3> QED
      BY <2>3, <3>2 DEF Working, SameLease
  <2> QED
    BY <1>4, <2>1, <2>2, <2>3 DEF Vacant, SameLease
<1> QED
  BY <1>1, <1>3, <1>4, FenceStep

\* A cycle is begun by the holder.
LEMMA BeginCycleFence ==
    ASSUME Inv, Inv', FInv, NEW r \in Runtimes, BeginCycle(r)
    PROVE  FInv'
<1>1. rt[r] \in States /\ rt[r].pc \in Early /\ r = holder
  BY DEF Inv, Typed, BeginCycle, At, Early
<1>2. PICK clock \in SUBSET Evals : clock = {e \in fresh : eval[e].checkpoint # "NONE"}
  BY DEF Inv, Typed
<1>3. PICK s : s = [rt[r] EXCEPT !.pc = "ENQUEUE", !.todo = active, !.clock = clock]
  OBVIOUS
<1>4. active \in SUBSET Deployments
  BY DEF Inv, Typed
<1>5. s \in States /\ s.pc = "ENQUEUE" /\ s.e = rt[r].e /\ s.fence = rt[r].fence
  BY <1>1, <1>2, <1>3, <1>4 DEF States, Phases
<1>6. s.late = rt[r].late
  BY <1>1, <1>3 DEF States
<1>7. Moved(r, s)
  BY <1>1, <1>2, <1>3 DEF BeginCycle, Moved
<1>8. UNCHANGED <<eval, stage, holder, faults>>
  BY DEF BeginCycle, queue, execution
<1>9. /\ \A e \in Evals : NotLater(e)
      /\ \A e \in Evals : eval'[e].status \in Waiting => eval[e].status \in Waiting /\ SameLease(e)
  BY <1>8 DEF NotLater, SameLease
<1> QED
  BY <1>1, <1>5, <1>6, <1>7, <1>8, <1>9, EarlyStep DEF Early

\* Enqueueing leases nothing.
LEMMA EnqueueFence ==
    ASSUME Inv, Inv', FInv, NEW r \in Runtimes, Enqueue(r)
    PROVE  FInv'
<1>1. /\ UNCHANGED <<stage, holder, faults>> /\ rt[r] \in States /\ rt[r].pc = "ENQUEUE"
      /\ rt[r].pc \in Early
  BY DEF Enqueue, execution, At, Inv, Typed, Early
<1>2. CASE Goto(r, "CLAIM") /\ UNCHANGED eval
  <2>1. PICK s \in States : /\ Moved(r, s) /\ s.pc = "CLAIM" /\ s.e = rt[r].e /\ s.fence = rt[r].fence
                            /\ s.late = rt[r].late
    BY <1>2, GotoMoves DEF Phases
  <2>2. /\ \A e \in Evals : NotLater(e)
        /\ \A e \in Evals : eval'[e].status \in Waiting => eval[e].status \in Waiting /\ SameLease(e)
    BY <1>2 DEF NotLater, SameLease
  <2> QED
    BY <1>1, <2>1, <2>2, EarlyStep DEF Early
<1>3. ASSUME NEW d \in rt[r].todo, candle > 0,
             eval' = IF eval[<<d, candle>>].status = "NONE"
                     THEN [eval EXCEPT ![<<d, candle>>].status = "PENDING"] ELSE eval,
             rt' = [rt EXCEPT ![r].todo = @ \ {d}]
      PROVE  FInv'
  <2>1. PICK e \in Evals : e = <<d, candle>>
    BY <1>1, <1>3 DEF Evals, Inv, Typed, States
  <2>2. PICK todo \in SUBSET Deployments : todo = rt[r].todo \ {d}
    BY <1>1 DEF States
  <2>3. PICK s : s = [rt[r] EXCEPT !.todo = todo]
    OBVIOUS
  <2>4. s \in States /\ s.pc = "ENQUEUE" /\ s.e = rt[r].e /\ s.fence = rt[r].fence
    BY <1>1, <2>2, <2>3 DEF States
  <2>5. s.late = rt[r].late
    BY <1>1, <2>3 DEF States
  <2>6. Moved(r, s)
    BY <1>1, <1>3, <2>2, <2>3 DEF Moved
  <2>7. /\ \A f \in Evals : NotLater(f)
        /\ \A f \in Evals : eval'[f].status \in Waiting =>
                /\ eval[f].status \in Waiting
                /\ SameLease(f) \/ ~(eval[f].status = "LEASED" /\ eval[f].live = TRUE)
    <3>1. eval \in [Evals -> Leases] /\ eval[e] \in Leases
      BY DEF Inv, Typed
    <3>2. CASE eval[e].status # "NONE"
      BY <1>3, <2>1, <3>2 DEF NotLater, SameLease
    <3>3. CASE eval[e].status = "NONE"
      <4>1. PICK row : row = [eval[e] EXCEPT !.status = "PENDING"]
        OBVIOUS
      <4>2. row.status = "PENDING" /\ row.fence = eval[e].fence
        BY <3>1, <4>1 DEF Leases
      <4>3. eval' = [eval EXCEPT ![e] = row]
        BY <1>3, <2>1, <3>1, <3>3, <4>1
      <4>4. eval'[e] = row /\ \A f \in Evals \ {e} : eval'[f] = eval[f]
        BY <3>1, <4>3
      <4> QED
        BY <3>3, <4>2, <4>4 DEF NotLater, SameLease, Waiting
    <3> QED
      BY <3>2, <3>3
  <2> QED
    BY <1>1, <2>4, <2>5, <2>6, <2>7, EarlyStep DEF Early
<1>4. CASE GoDown(r) /\ UNCHANGED eval
  <2>1. \A f \in Evals : ~Working(r, f)
    BY <1>1 DEF Working, Processing, Failing
  <2> QED
    BY <1>1, <1>4, <2>1, SameLeases, IdleRests, RestStep
<1> QED
  BY <1>2, <1>3, <1>4 DEF Enqueue

\* What _expire_stale leaves of a lease.
LEMMA ReclaimedLeases ==
    ASSUME Inv, NEW e \in Evals
    PROVE  /\ Reclaimed[e].fence = eval[e].fence /\ Reclaimed[e].live = eval[e].live
           /\ Reclaimed[e].status \in Waiting => eval[e].status \in Waiting
           /\ \/ Reclaimed[e].status = eval[e].status
              \/ /\ Reclaimed[e].status = "PENDING"
                 /\ eval[e].status = "LEASED" /\ eval[e].live = FALSE
           /\ Reclaimed[e].status = "PENDING" =>
                eval[e].status = "PENDING" \/ (eval[e].status = "LEASED" /\ eval[e].live = FALSE)
<1>1. eval[e].live \in BOOLEAN
  BY Rowed
<1>2. /\ Reclaimed[e].fence = eval[e].fence /\ Reclaimed[e].live = eval[e].live
      /\ Reclaimed[e].status = IF eval[e].status = "LEASED" /\ ~eval[e].live /\ Deployed(e)
                               THEN "PENDING" ELSE eval[e].status
  BY ReclaimedRows
<1>3. CASE eval[e].status = "LEASED" /\ ~eval[e].live /\ Deployed(e)
  BY <1>1, <1>2, <1>3 DEF Waiting
<1>4. CASE ~(eval[e].status = "LEASED" /\ ~eval[e].live /\ Deployed(e))
  <2>1. Reclaimed[e].status = eval[e].status
    BY <1>2, <1>4
  <2> QED
    BY <1>2, <2>1
<1> QED
  BY <1>3, <1>4

\* A claim uses what its evaluation was vacant for, or what its runtime was astray for.
LEMMA LeasedStep ==
    ASSUME Inv, Inv', FInv, NEW r \in Runtimes, NEW e \in Evals, rt[r].pc = "CLAIM", Claims(r, e),
           UNCHANGED <<stage, holder, faults>>
    PROVE  FInv'
<1>1. /\ \A f \in Evals \ {e} : eval'[f] = Reclaimed[f]
      /\ eval'[e].status = "LEASED" /\ eval'[e].live = TRUE /\ eval'[e].fence = eval[e].fence + 1
  BY ClaimRows
<1>2. PICK s \in States : /\ Moved(r, s) /\ s.pc = "START" /\ s.e = e
                          /\ s.fence = eval[e].fence + 1 /\ s.late = rt[r].late
  BY ClaimRows
<1>3. \A q \in Runtimes : rt'[q] = IF q = r THEN s ELSE rt[q]
  BY <1>2 DEF Moved, Inv, Typed
<1>4. \A f \in Evals : f # e => NotLater(f)
  BY <1>1, ReclaimedLeases DEF NotLater
<1>5. eval[e].fence \in Nat /\ eval'[e].fence \in Nat /\ rt[r].late = FALSE
  <2>1. rt[r].late = FALSE
    BY DEF FInv, FenceOK, Early
  <2> QED
    BY <1>1, <2>1, Rowed
<1>6. ASSUME NEW q \in Runtimes
      PROVE  FenceOK(rt[q])'
  <2>1. CASE q = r
    BY <1>1, <1>2, <1>3, <1>5, <2>1 DEF FenceOK, Early
  <2>2. CASE q # r
    <3>1. PICK t \in States : t = rt[q] /\ FenceOK(t)
      BY DEF Inv, Typed, FInv
    <3>2. rt'[q] = t /\ t.e \in Evals /\ t.fence \in Nat
      BY <1>3, <2>2, <3>1 DEF States
    <3>3. CASE t.e = e
      <4>1. t.fence <= eval'[e].fence /\ t.fence # eval'[e].fence
        BY <1>1, <1>5, <3>1, <3>2, <3>3 DEF FenceOK
      <4> QED
        BY <3>1, <3>2, <3>3, <4>1 DEF FenceOK
    <3>4. CASE t.e # e
      <4>1. NotLater(t.e) /\ eval'[t.e].live \in BOOLEAN
        <5>1. eval'[t.e] \in Leases
          BY <3>2 DEF Inv, Typed
        <5> QED
          BY <1>4, <3>2, <3>4, <5>1 DEF Leases
      <4> QED
        BY <3>1, <3>2, <4>1 DEF FenceOK, NotLater
    <3> QED
      BY <3>3, <3>4
  <2> QED
    BY <2>1, <2>2
<1>7. \A f \in Evals : stage'[f].fence <= eval'[f].fence
  <2>1. ASSUME NEW f \in Evals
        PROVE  stage[f].fence <= eval'[f].fence
    <3>1. stage[f].fence <= eval[f].fence /\ stage[f].fence \in Nat
      BY Rowed DEF FInv
    <3> QED
      BY <1>1, <1>4, <1>5, <3>1 DEF NotLater
  <2> QED
    BY <2>1
<1>8. Strays' = Strays \ {r}
  BY <1>2, <1>3 DEF Strays
<1>9. /\ IsFiniteSet(Strays) /\ IsFiniteSet(Strays') /\ Cardinality(Strays) \in Nat
      /\ Cardinality(Strays') \in Nat
      /\ Cardinality(Strays') = IF r \in Strays THEN Cardinality(Strays) - 1 ELSE Cardinality(Strays)
  BY <1>8, FS_RemoveElement, FS_CardinalityType DEF FInv
<1>10. faults \in Nat
  BY DEF Inv, Typed
<1>11. ASSUME NEW f \in Evals, f # e, Vacant(f)'
       PROVE  Vacant(f)
  <2>1. eval'[f] = Reclaimed[f] /\ eval'[f].status \in Waiting
    BY <1>1, <1>11 DEF Vacant
  <2>2. ASSUME Working(holder, f), eval[f].status = "LEASED", eval[f].live = TRUE
        PROVE  FALSE
    <3>1. holder # r
      BY <2>2 DEF Working, Processing, Failing
    <3>2. rt'[holder] = rt[holder]
      BY <1>3, <3>1 DEF Inv, Typed
    <3>3. eval'[f].status = "LEASED" /\ eval'[f].live = TRUE /\ eval'[f].fence = eval[f].fence
      BY <2>1, <2>2, ReclaimedLeases
    <3>4. Working(holder, f)'
      BY <2>2, <3>2, <3>3 DEF Working
    <3> QED
      BY <1>11, <3>3, <3>4 DEF Vacant
  <2>3. eval[f].live \in BOOLEAN
    BY Rowed
  <2> QED
    BY <2>1, <2>2, <2>3, ReclaimedLeases DEF Vacant
<1>12. Vacant(e)
  <2>1. eval[e].status = "PENDING" \/ (eval[e].status = "LEASED" /\ eval[e].live = FALSE)
    BY ReclaimedLeases DEF Claims
  <2> QED
    BY <2>1 DEF Vacant, Waiting
<1>13. r = holder => ~Vacant(e)'
  <2>1. ASSUME r = holder
        PROVE  Working(holder, e)'
    BY <1>1, <1>2, <1>3, <2>1 DEF Working, Processing
  <2> QED
    BY <1>1, <2>1 DEF Vacant
<1>14. r # holder => r \in Strays
  BY DEF Strays
<1>15. ASSUME NEW f \in Evals
       PROVE  Counts(f)'
  <2>1. PICK n \in Nat, m \in Nat, k \in Nat :
            n = Cardinality(Strays) /\ m = Cardinality(Strays') /\ k = eval[f].fence
    BY <1>9, Rowed
  <2>2. k + n + (IF Vacant(f) THEN 1 ELSE 0) <= faults + 1
    BY <2>1 DEF FInv, Counts
  <2>3. m = IF r \in Strays THEN n - 1 ELSE n
    BY <1>9, <2>1
  <2>4. CASE f = e
    <3>1. eval'[f].fence = k + 1
      BY <1>1, <2>1, <2>4
    <3>2. k + n + 1 <= faults + 1
      BY <1>12, <2>2, <2>4
    <3>3. k + 1 + m + (IF Vacant(f)' THEN 1 ELSE 0) <= faults + 1
      <4>1. CASE r = holder
        <5>1. m <= n
          BY <2>3
        <5> QED
          BY <1>10, <1>13, <2>4, <3>2, <4>1, <5>1
      <4>2. CASE r # holder
        BY <1>10, <1>14, <2>3, <3>2, <4>2
      <4> QED
        BY <4>1, <4>2
    <3> QED
      BY <2>1, <3>1, <3>3 DEF Counts
  <2>5. CASE f # e
    <3>1. eval'[f].fence = k
      BY <1>4, <2>1, <2>5 DEF NotLater
    <3>2. m <= n /\ (Vacant(f)' => Vacant(f))
      BY <1>11, <2>3, <2>5
    <3>3. k + m + (IF Vacant(f)' THEN 1 ELSE 0) <= faults + 1
      BY <1>10, <2>2, <3>2
    <3> QED
      BY <2>1, <3>1, <3>3 DEF Counts
  <2> QED
    BY <2>4, <2>5
<1> QED
  BY <1>6, <1>7, <1>9, <1>15 DEF FInv

\* claim_next.
LEMMA ClaimFence ==
    ASSUME Inv, Inv', FInv, NEW r \in Runtimes, Claim(r)
    PROVE  FInv'
<1>1. UNCHANGED <<stage, holder, faults>> /\ rt[r].pc = "CLAIM" /\ rt[r].pc \in Early
  BY DEF Claim, execution, At, Early
<1>2. CASE eval' = Reclaimed /\ rt' = [rt EXCEPT ![r].pc = "OPENING", ![r].clock = {}]
  <2>1. PICK s \in States : /\ Moved(r, s) /\ s.pc = "OPENING" /\ s.e = rt[r].e
                            /\ s.fence = rt[r].fence /\ s.late = rt[r].late
    BY <1>2, NoClaimMoves
  <2>2. \A e \in Evals : NotLater(e)
    BY <1>2, ReclaimedLeases DEF NotLater
  <2>3. ASSUME NEW e \in Evals, eval'[e].status \in Waiting
        PROVE  /\ eval[e].status \in Waiting
               /\ SameLease(e) \/ ~(eval[e].status = "LEASED" /\ eval[e].live = TRUE)
    BY <1>2, <2>3, ReclaimedLeases DEF SameLease
  <2> QED
    BY <1>1, <2>1, <2>2, <2>3, EarlyStep
<1>3. ASSUME NEW e \in Evals, Claims(r, e)
      PROVE  FInv'
  BY <1>1, <1>3, LeasedStep
<1> QED
  BY <1>2, <1>3 DEF Claim, Claims

-----------------------------------------------------------------------------
(* Operators, time and failures.                                           *)

\* A step of no runtime.
LEMMA OutsideFence ==
    ASSUME Inv, Inv', FInv, UNCHANGED <<rt, holder, stage>>, \A e \in Evals : NotLater(e),
           \/ faults' = faults /\ \A e \in Evals : Vacant(e)' => Vacant(e)
           \/ faults' = faults + 1
    PROVE  FInv'
<1>1. rt \in [Runtimes -> States] /\ holder \in Runtimes
  BY DEF Inv, Typed
<1>2. PICK s \in States : s = rt[holder] /\ FenceOK(s)
  BY <1>1 DEF FInv
<1>3. Moved(holder, s)
  BY <1>1, <1>2 DEF Moved
<1>4. Strays' \subseteq Strays
  BY DEF Strays
<1> QED
  BY <1>1, <1>2, <1>3, <1>4, FenceStep

\* A step that leaves the queue, the runtimes and the stages alone.
LEMMA QuietFence ==
    ASSUME Inv, Inv', FInv, UNCHANGED <<eval, rt, holder, stage, faults>>
    PROVE  FInv'
<1>1. \A e \in Evals : NotLater(e) /\ (Vacant(e)' => Vacant(e))
  BY DEF NotLater, Vacant, Working
<1> QED
  BY <1>1, OutsideFence

\* A disabled deployment has no leases.
LEMMA DisableFence ==
    ASSUME Inv, Inv', FInv, NEW d \in Deployments, Disable(d)
    PROVE  FInv'
<1>1. UNCHANGED <<rt, holder, stage, faults>>
  BY DEF Disable, execution
<1>2. ASSUME NEW e \in Evals
      PROVE  /\ eval'[e].fence = eval[e].fence
             /\ eval'[e] = eval[e] \/ eval'[e].status = "BLOCKED"
  <2>1. eval[e] \in Leases
    BY DEF Inv, Typed
  <2>2. [eval[e] EXCEPT !.status = "BLOCKED"].fence = eval[e].fence
        /\ [eval[e] EXCEPT !.status = "BLOCKED"].status = "BLOCKED"
    BY <2>1 DEF Leases
  <2>3. eval'[e] = IF e[1] = d /\ eval[e].status \in {"PENDING", "LEASED"}
                   THEN [eval[e] EXCEPT !.status = "BLOCKED"] ELSE eval[e]
    BY DEF Disable
  <2> QED
    BY <2>2, <2>3
<1>3. ASSUME NEW e \in Evals
      PROVE  NotLater(e) /\ (Vacant(e)' => Vacant(e))
  BY <1>1, <1>2 DEF NotLater, Vacant, Waiting, Working
<1> QED
  BY <1>1, <1>3, OutsideFence

\* A lease runs out: while its owner works, for a fault.
LEMMA LeaseExpiresFence ==
    ASSUME Inv, Inv', FInv, NEW e \in Evals, LeaseExpires(e)
    PROVE  FInv'
<1>1. UNCHANGED <<rt, holder, stage>>
  BY DEF LeaseExpires, execution
<1>2. eval \in [Evals -> Leases] /\ eval[e] \in Leases
  BY DEF Inv, Typed
<1>3. PICK row : row = [eval[e] EXCEPT !.live = FALSE]
  OBVIOUS
<1>4. row.status = eval[e].status /\ row.live = FALSE /\ row.fence = eval[e].fence
  BY <1>2, <1>3 DEF Leases
<1>5. eval' = [eval EXCEPT ![e] = row]
  BY <1>2, <1>3 DEF LeaseExpires
<1>6. eval'[e] = row /\ \A f \in Evals \ {e} : eval'[f] = eval[f]
  BY <1>2, <1>5
<1>7. \A f \in Evals : NotLater(f)
  BY <1>4, <1>6 DEF NotLater
<1>8. CASE faults' = faults + 1
  BY <1>1, <1>7, <1>8, OutsideFence
<1>9. CASE UNCHANGED faults /\ ~Working(holder, e)
  <2>1. ASSUME NEW f \in Evals, Vacant(f)'
        PROVE  Vacant(f)
    <3>1. CASE f = e
      BY <1>4, <1>6, <1>9, <2>1, <3>1 DEF Vacant
    <3>2. CASE f # e
      BY <1>1, <1>6, <2>1, <3>2 DEF Vacant, Working
    <3> QED
      BY <3>1, <3>2
  <2> QED
    BY <1>1, <1>7, <1>9, <2>1, OutsideFence
<1> QED
  BY <1>8, <1>9 DEF LeaseExpires

\* A crash is a fault.
LEMMA CrashFence ==
    ASSUME Inv, Inv', FInv, NEW r \in Runtimes, Crash(r)
    PROVE  FInv'
<1>1. GoDown(r) /\ UNCHANGED <<eval, stage, holder>> /\ faults' = faults + 1
  BY DEF Crash, queue, execution
<1> QED
  BY <1>1, SameLeases, IdleRests, RestStep

\* A runtime takes over: from one that is down or, for a fault, from one that is paused
\* and may then claim astray.
LEMMA TakeoverFence ==
    ASSUME Inv, Inv', FInv, NEW r \in Runtimes, Takeover(r)
    PROVE  FInv'
<1>1. /\ UNCHANGED <<eval, stage>> /\ rt[r].pc = "DOWN" /\ holder' = r /\ EndCycle(r)
      /\ IF At(holder, "DOWN") THEN UNCHANGED faults ELSE faults' = faults + 1
  BY DEF Takeover, At, queue, execution
<1>2. PICK s \in States : Moved(r, s) /\ s.pc = "IDLE" /\ s.fence = 0 /\ s.late = FALSE
  <2>1. PICK s : s = Idle
    OBVIOUS
  <2> QED
    BY <1>1, <2>1, IdleState DEF EndCycle, Moved
<1>3. \A q \in Runtimes : rt'[q] = IF q = r THEN s ELSE rt[q]
  BY <1>2 DEF Moved, Inv, Typed
<1>4. FenceOK(s)
  <2>1. s.e \in Evals
    BY DEF States
  <2>2. eval[s.e].fence \in Nat
    BY <2>1, Rowed
  <2> QED
    BY <1>2, <2>2 DEF FenceOK
<1>5. \A e \in Evals : NotLater(e)
  BY <1>1, SameLeases
<1>6. Strays' \subseteq Strays \cup {holder}
  BY <1>1, <1>2, <1>3 DEF Strays
<1>7. holder \in Runtimes /\ faults \in Nat
  BY DEF Inv, Typed
<1>8. ASSUME ~(rt[holder].pc \in Busy), NEW e \in Evals, Vacant(e)'
      PROVE  Vacant(e)
  BY <1>1, <1>8 DEF Vacant, Working, Busy
<1>9. CASE rt[holder].pc = "DOWN"
  <2>1. Strays' \subseteq Strays
    BY <1>1, <1>2, <1>3, <1>9 DEF Strays
  <2>2. faults' = faults /\ ~(rt[holder].pc \in Busy)
    BY <1>1, <1>9 DEF At, Busy, Processing, Failing
  <2> QED
    BY <1>1, <1>2, <1>4, <1>5, <1>8, <2>1, <2>2, FenceStep
<1>10. CASE rt[holder].pc \notin {"DOWN", "ENQUEUE", "CLAIM"}
  <2>1. Strays' \subseteq Strays
    BY <1>1, <1>2, <1>3, <1>10 DEF Strays
  <2>2. faults' = faults + 1
    BY <1>1, <1>10 DEF At
  <2> QED
    BY <1>1, <1>2, <1>4, <1>5, <2>1, <2>2, FenceStep
<1>11. CASE rt[holder].pc \in {"ENQUEUE", "CLAIM"}
  <2>1. faults' = faults + 1 /\ ~(rt[holder].pc \in Busy)
    BY <1>1, <1>11 DEF At, Busy, Processing, Failing
  <2>2. /\ IsFiniteSet(Strays) /\ Cardinality(Strays) \in Nat
        /\ IsFiniteSet(Strays \cup {holder}) /\ Cardinality(Strays \cup {holder}) <= Cardinality(Strays) + 1
    <3>1. IsFiniteSet(Strays) /\ Cardinality(Strays) \in Nat
      BY FS_CardinalityType DEF FInv
    <3>2. /\ IsFiniteSet(Strays \cup {holder})
          /\ \/ Cardinality(Strays \cup {holder}) = Cardinality(Strays)
             \/ Cardinality(Strays \cup {holder}) = Cardinality(Strays) + 1
      BY <3>1, FS_AddElement
    <3> QED
      BY <3>1, <3>2
  <2>3. /\ IsFiniteSet(Strays') /\ Cardinality(Strays') \in Nat
        /\ Cardinality(Strays') <= Cardinality(Strays) + 1
    <3>1. /\ IsFiniteSet(Strays') /\ Cardinality(Strays') \in Nat
          /\ Cardinality(Strays \cup {holder}) \in Nat
          /\ Cardinality(Strays') <= Cardinality(Strays \cup {holder})
      BY <1>6, <2>2, FS_Subset, FS_CardinalityType
    <3> QED
      BY <2>2, <3>1
  <2>4. ASSUME NEW e \in Evals
        PROVE  Counts(e)'
    <3>1. PICK n \in Nat, m \in Nat, k \in Nat :
              n = Cardinality(Strays) /\ m = Cardinality(Strays') /\ k = eval[e].fence
      BY <2>2, <2>3, Rowed
    <3>2. k + n + (IF Vacant(e) THEN 1 ELSE 0) <= faults + 1 /\ m <= n + 1
      BY <2>3, <3>1 DEF FInv, Counts
    <3>3. eval'[e].fence = k /\ (Vacant(e)' => Vacant(e))
      BY <1>1, <1>8, <2>1, <3>1
    <3>4. k + m + (IF Vacant(e)' THEN 1 ELSE 0) <= faults' + 1
      BY <1>7, <2>1, <3>2, <3>3
    <3> QED
      BY <3>1, <3>3, <3>4 DEF Counts
  <2> QED
    BY <1>1, <1>2, <1>4, <1>5, <2>3, <2>4, FenceKept
<1> QED
  BY <1>9, <1>10, <1>11

-----------------------------------------------------------------------------
(* What holds of the fences.                                               *)

\* At the start nothing was leased.
LEMMA InitFence == Init => FInv
<1> SUFFICES ASSUME Init PROVE FInv
  OBVIOUS
<1>1. Inv
  BY InitInv
<1>2. /\ \A e \in Evals : eval[e].fence = 0 /\ eval[e].status = "NONE" /\ stage[e].fence = 0
      /\ faults = 0
  BY DEF Init
<1>3. ASSUME NEW r \in Runtimes
      PROVE  rt[r].fence = 0 /\ rt[r].late = FALSE /\ rt[r].pc \in {"IDLE", "DOWN"} /\ rt[r].e \in Evals
  <2>1. PICK pc \in {"IDLE", "DOWN"} : pc = IF r = holder THEN "IDLE" ELSE "DOWN"
    OBVIOUS
  <2>2. PICK s : s = [Idle EXCEPT !.pc = pc]
    OBVIOUS
  <2>3. s.pc = pc /\ s.fence = 0 /\ s.late = FALSE /\ s.e \in Evals
    BY <2>2, IdleState DEF States
  <2>4. rt[r] = s
    BY <2>1, <2>2 DEF Init
  <2> QED
    BY <2>3, <2>4
<1>4. Strays = {}
  BY <1>3 DEF Strays
<1>5. IsFiniteSet(Strays) /\ Cardinality(Strays) = 0
  BY <1>4, FS_EmptySet
<1>6. ASSUME NEW e \in Evals
      PROVE  Counts(e)
  <2>1. eval[e].fence = 0
    BY <1>2
  <2>2. 0 + 0 + (IF Vacant(e) THEN 1 ELSE 0) <= faults + 1
    BY <1>2
  <2> QED
    BY <1>5, <2>1, <2>2 DEF Counts
<1>7. ASSUME NEW r \in Runtimes
      PROVE  FenceOK(rt[r])
  <2>1. rt[r].fence = 0 /\ rt[r].late = FALSE /\ eval[rt[r].e].fence = 0
    BY <1>2, <1>3
  <2> QED
    BY <2>1 DEF FenceOK
<1> QED
  BY <1>2, <1>5, <1>6, <1>7 DEF FInv

\* Every step keeps it.
LEMMA NextFence == Inv /\ FInv /\ [Next]_vars => FInv'
<1> SUFFICES ASSUME Inv, FInv, [Next]_vars PROVE FInv'
  OBVIOUS
<1>1. Inv'
  BY NextInv
<1>2. ASSUME NEW r \in Runtimes, Process(r)
      PROVE  FInv'
  BY <1>1, <1>2, StartFence, CaptureFence, CheckpointFence, CompleteFence, WorkFence, RiskFence,
     FailEvaluationFence DEF Process, Works
<1>3. ASSUME NEW r \in Runtimes, Cycle(r) \/ Raise(r) \/ Crash(r) \/ Takeover(r)
      PROVE  FInv'
  BY <1>1, <1>2, <1>3, BeginCycleFence, EnqueueFence, ClaimFence, OrderFence, WorkFence,
     CrashFence, TakeoverFence DEF Cycle, Works
<1>4. ASSUME NEW e \in Evals, Resolve(e) \/ BundleExpires(e) \/ LeaseExpires(e)
      PROVE  FInv'
  <2>1. CASE Resolve(e) \/ BundleExpires(e)
    <3>1. UNCHANGED <<eval, rt, holder, stage, faults>>
      BY <2>1 DEF Resolve, BundleExpires, queue, execution
    <3> QED
      BY <1>1, <3>1, QuietFence
  <2> QED
    BY <1>1, <1>4, <2>1, LeaseExpiresFence
<1>5. ASSUME NEW d \in Deployments, Disable(d)
      PROVE  FInv'
  BY <1>1, <1>5, DisableFence
<1>6. CASE CandleCloses \/ UNCHANGED vars
  <2>1. UNCHANGED <<eval, rt, holder, stage, faults>>
    BY <1>6 DEF CandleCloses, vars, queue, execution
  <2> QED
    BY <1>1, <2>1, QuietFence
<1> QED
  BY <1>3, <1>4, <1>5, <1>6 DEF Next

\* An evaluation is leased once, and once more for every fault: what is requeued
\* (_expire_stale) is requeued for a reason.
THEOREM LeasedOncePerFault == Spec => [](\A e \in Evals : eval[e].fence <= faults + 1)
<1>1. Inv /\ FInv => \A e \in Evals : eval[e].fence <= faults + 1
  <2> SUFFICES ASSUME Inv, FInv, NEW e \in Evals PROVE eval[e].fence <= faults + 1
    OBVIOUS
  <2>1. eval[e].fence \in Nat /\ Cardinality(Strays) \in Nat /\ faults \in Nat
    BY Rowed, FS_CardinalityType DEF FInv, Inv, Typed
  <2>2. PICK n \in Nat : n = Cardinality(Strays)
    BY <2>1
  <2>3. eval[e].fence + n + (IF Vacant(e) THEN 1 ELSE 0) <= faults + 1
    BY <2>2 DEF FInv, Counts
  <2> QED
    BY <2>1, <2>3
<1> QED
  BY <1>1, InitInv, InitFence, NextInv, NextFence, PTL DEF Spec

\* The type invariant, the bound of every fence included (claim_next,
\* prepare_execution_stage).
THEOREM SignalTypeCorrect == Spec => []SignalTypeOK
<1>1. Inv /\ FInv /\ (\A e \in Evals : eval[e].fence <= faults + 1) => SignalTypeOK
  <2> SUFFICES ASSUME Inv, FInv, \A e \in Evals : eval[e].fence <= faults + 1
               PROVE  SignalTypeOK
    OBVIOUS
  <2>1. MaxFaults \in Nat /\ faults \in 0 .. MaxFaults /\ Typed
    BY MaxFaultsAssumption DEF Inv, Typed
  <2>2. PICK F : F = 0 .. MaxFaults + 1
    OBVIOUS
  <2>3. \A e \in Evals : eval[e].fence \in F /\ stage[e].fence \in F
    BY <2>1, <2>2, Rowed DEF FInv
  <2>4. ASSUME NEW r \in Runtimes
        PROVE  rt[r].fence \in F
    <3>1. rt[r] \in States /\ FenceOK(rt[r])
      BY <2>1 DEF Typed, FInv
    <3>2. rt[r].e \in Evals /\ rt[r].fence \in Nat
      BY <3>1 DEF States
    <3>3. eval[rt[r].e].fence \in F /\ rt[r].fence <= eval[rt[r].e].fence
      BY <2>3, <3>1, <3>2 DEF FenceOK
    <3> QED
      BY <2>1, <2>2, <3>2, <3>3
  <2>5. ASSUME NEW e \in Evals
        PROVE  eval[e] \in EvalRows
    <3>1. eval[e] \in Leases
      BY <2>1 DEF Typed
    <3> QED
      BY <2>2, <2>3, <3>1, Zenon DEF Leases, EvalRows
  <2>6. ASSUME NEW e \in Evals
        PROVE  stage[e] \in StageRows
    <3>1. stage[e] \in Stages
      BY <2>1 DEF Typed
    <3> QED
      BY <2>2, <2>3, <3>1 DEF Stages, StageRows
  <2>7. ASSUME NEW r \in Runtimes
        PROVE  rt[r] \in RuntimeRows
    <3>1. rt[r] \in States
      BY <2>1 DEF Typed
    <3> QED
      BY <2>2, <2>4, <3>1 DEF States, RuntimeRows
  <2> QED
    BY <2>1, <2>5, <2>6, <2>7 DEF Typed, SignalTypeOK
<1> QED
  BY <1>1, LeasedOncePerFault, InitInv, InitFence, NextInv, NextFence, PTL DEF Spec
================================================================================
