-------------------------- MODULE OrderWriterProofs --------------------------
(***************************************************************************)
(* Theorems about the order writer, for any number of approvals, processes *)
(* and takeovers of the lease.                                             *)
(***************************************************************************)
EXTENDS OrderWriter, TLAPS

-----------------------------------------------------------------------------
(* The inductive invariant.                                                *)

Undecided == {"OUTCOME_UNKNOWN", "RECOVERY_STILL_UNKNOWN"}

Idle == {"idle", "down"}

Knowing == {"post", "sent", "record", "get", "position", "settle", "doubt", "cleanup"}

\* The exchange has shown what settles the operation.
Shown(k) ==
    /\ k[2] = "PLACE" => market[k[1]] # "NONE"
    /\ k[2] \in {"CLOSE", "CANCEL"} => market[k[1]] \in TerminalOrderStates

\* A terminal state that was read, or written, is the order's own.
Truthful(a, status) == status \in TerminalOrderStates => market[a] = status

\* What the journal says of an operation, its requests and its answer.
RowOK(k) ==
    /\ posts[k] <= 1
    /\ attempt[k].state = "ABSENT" => posts[k] = 0
    /\ attempt[k].state = "REJECTED" => answer[k] = "REJECT"
    /\ attempt[k].state \in {"RESIDUAL_CLOSE_REQUIRED", "RECONCILED"} => Shown(k)
    /\ k \in wire => posts[k] = 1 /\ answer[k] = "NONE"
    /\ answer[k] # "NONE" => posts[k] = 1
    /\ IsOrder(k) /\ market[k[1]] # "NONE" => answer[k] = "ACK"

\* What a writer in state s may rely on in each phase.
PhaseOK(s) ==
    /\ s.pc = "post" => posts[s.key] = 0 /\ attempt[s.key].state # "ABSENT"
    /\ s.pc = "record" /\ s.event = "EXPLICIT_REJECTION" => answer[s.key] = "REJECT"
    /\ s.pc = "record" /\ s.event \in {"RECONCILE", "RESIDUAL_DETECTED"} =>
            Shown(s.key) /\ Truthful(s.key[1], s.seen) /\ s.seen # "NONE"
    /\ s.pc \in {"settle", "position", "cleanup"} => Shown(s.key)
    /\ s.pc \in {"settle", "position"} => Truthful(s.key[1], s.seen) /\ s.seen # "NONE"
    /\ s.pc = "settle" => s.event \in {"ACKNOWLEDGE", "RECONCILE", "RESIDUAL_DETECTED"}
    /\ s.pc = "doubt" => s.event \in Undecided

\* A writer that still holds its attempt's generation knows the attempt's state.
KnowsOK(s) ==
    s.pc \in Knowing /\ attempt[s.key].gen = s.gen => attempt[s.key].state = s.state

GenOK(w) ==
    /\ writer[w].pc \notin Idle => writer[w].gen # 0
    /\ writer[w].gen <= lease.gen
    /\ writer[w].gen = lease.gen /\ writer[w].gen # 0 => lease.holder = w

LeaseOK == lease.holder # Nobody => lease.gen # 0

OneUnresolved == \A j, k \in Keys : Pending(j) /\ Pending(k) => j = k

OneSender ==
    \A v, w \in Writers : At(v, "post") /\ At(w, "post") /\ writer[v].key = writer[w].key => v = w

OwnGeneration ==
    \A v, w \in Writers : writer[v].gen = writer[w].gen /\ writer[v].gen # 0 => v = w

IInv ==
    /\ WriterTypeOK
    /\ \A k \in Keys : RowOK(k)
    /\ \A a \in Approvals : Truthful(a, order[a].status)
    /\ \A w \in Writers : PhaseOK(writer[w]) /\ KnowsOK(writer[w]) /\ GenOK(w)
    /\ LeaseOK
    /\ OneUnresolved
    /\ OneSender
    /\ OwnGeneration

-----------------------------------------------------------------------------
(* Lemmas about the state.                                                 *)

\* Every approval has an order operation, and a key is a pair.
LEMMA OrderKeys ==
    /\ \A a \in Approvals : OrderKey(a) \in Keys /\ IsOrder(OrderKey(a)) /\ OrderKey(a)[1] = a
    /\ \A k \in Keys : k[1] \in Approvals /\ (IsOrder(k) => k = OrderKey(k[1]))
    /\ \A a \in Approvals : <<a, "CANCEL">> \in Keys /\ <<a, "SET_LEVERAGE">> \in Keys
BY DEF OrderKey, Keys, IsOrder, Operations

\* So is the operation a recovery grant allows.
LEMMA RecoveryKeys == \A a \in Approvals : RecoveryKey(a) \in Keys
BY OrderKeys DEF RecoveryKey

\* The placeholder key of an idle writer is an operation.
LEMMA NoKeyIsKey == NoKey \in Keys
<1>1. PICK a \in Approvals : TRUE
  BY ApprovalsAssumption
<1>2. OrderKey(a) \in Keys
  BY OrderKeys
<1> QED
  BY <1>2 DEF NoKey

\* A writer with no call in hand is a writer state.
LEMMA UnassignedType ==
    ASSUME NEW pc \in Phases
    PROVE  Unassigned(pc) \in WriterStates
<1>1. /\ 0 \in 0 .. MaxGeneration
      /\ "NONE" \in {"NONE", "PLACE", "RECOVER", "RECONCILE"}
      /\ "ABSENT" \in WriteStates \cup {"ABSENT"}
      /\ "NONE" \in Events \cup {"NONE"}
      /\ "NONE" \in OrderStates \cup {"NONE"}
      /\ FALSE \in BOOLEAN
  BY BoundsAssumption
<1> QED
  BY <1>1, NoKeyIsKey, Zenon DEF Unassigned, WriterStates

\* The members of the enumerations that the proofs name.
LEMMA Names ==
    /\ {"idle", "down", "unresolved", "leverage", "prepare", "post", "sent", "record",
        "get", "position", "settle", "doubt", "cleanup"} \subseteq Phases
    /\ {"ACKNOWLEDGE", "EXPLICIT_REJECTION", "OUTCOME_UNKNOWN", "RECOVERY_STILL_UNKNOWN",
        "RESIDUAL_DETECTED", "RECONCILE"} = Events
    /\ {"position_zero", "leverage_confirmed", "live", "filled", "canceled"} \subseteq OrderStates
    /\ WriteStates = Unresolved \cup {"REJECTED", "RECONCILED"}
    /\ Unresolved = {"PREPARED", "DISPATCHED", "ACKNOWLEDGED", "RECOVERY_REQUIRED",
                     "RESIDUAL_CLOSE_REQUIRED"}
BY DEF Phases, Events, OrderStates, TerminalOrderStates, WriteStates, Unresolved

\* transition_write_state starts from an unresolved state and says why it
\* arrives at each of the states that the invariant speaks of.
LEMMA Transitions ==
    ASSUME NEW state, NEW event, After(state, event) # "INVALID"
    PROVE  /\ state \in Unresolved
           /\ After(state, event) \in WriteStates
           /\ After(state, event) = "REJECTED" => event = "EXPLICIT_REJECTION"
           /\ After(state, event) = "RECONCILED" => event = "RECONCILE"
           /\ After(state, event) = "RESIDUAL_CLOSE_REQUIRED" =>
                  event = "RESIDUAL_DETECTED" \/ state = "RESIDUAL_CLOSE_REQUIRED"
BY DEF After, WriteStates, Unresolved

-----------------------------------------------------------------------------
(* Steps by their footprint.                                               *)

Moved(w, s) == writer' = [writer EXCEPT ![w] = s]

\* A writer's new state s keeps its generation or gives it up.
KeepsGen(w, s) == s.gen \in {0, writer[w].gen} /\ (s.pc \notin Idle => s.gen # 0)

\* A step that changes only what one writer knows.
LEMMA LocalStep ==
    ASSUME IInv, NEW w \in Writers, NEW s \in WriterStates, Moved(w, s), KeepsGen(w, s),
           UNCHANGED <<journal, lease, exchange, posts, faults>>,
           s.pc # "post", PhaseOK(s), KnowsOK(s)
    PROVE  IInv'
<1>1. WriterTypeOK'
  BY DEF IInv, WriterTypeOK, Moved, journal, exchange
<1>2. \A k \in Keys : RowOK(k)'
  BY DEF IInv, RowOK, Shown, journal, exchange
<1>3. \A v \in Writers : writer'[v] = IF v = w THEN s ELSE writer[v]
  BY DEF IInv, WriterTypeOK, Moved
<1>4. ASSUME NEW v \in Writers
      PROVE  PhaseOK(writer[v])' /\ KnowsOK(writer[v])' /\ GenOK(v)'
  <2>1. CASE v = w
    <3>1. writer'[v] = s
      BY <1>3, <2>1
    <3>2. PhaseOK(writer[v])' /\ KnowsOK(writer[v])'
      BY <3>1 DEF PhaseOK, KnowsOK, Shown, Truthful, journal, exchange
    <3>3. GenOK(w) /\ writer[w].gen \in Nat /\ lease.gen \in Nat
      BY BoundsAssumption DEF IInv, WriterTypeOK, WriterStates, Leases
    <3>4. GenOK(v)'
      BY <3>1, <3>3, <2>1 DEF GenOK, KeepsGen
    <3> QED
      BY <3>2, <3>4
  <2>2. CASE v # w
    BY <1>3, <2>2 DEF IInv, PhaseOK, KnowsOK, Shown, Truthful, GenOK, journal, exchange
  <2> QED
    BY <2>1, <2>2
<1>5. LeaseOK' /\ OneUnresolved' /\ (\A a \in Approvals : Truthful(a, order[a].status))'
  BY DEF IInv, LeaseOK, OneUnresolved, Pending, Truthful, journal, exchange
<1>6. OneSender'
  BY <1>3 DEF IInv, OneSender, At
<1>7. OwnGeneration'
  BY <1>3 DEF IInv, OwnGeneration, KeepsGen
<1> QED
  BY <1>1, <1>2, <1>4, <1>5, <1>6, <1>7 DEF IInv

\* transition() by a writer that then goes on as s.
LEMMA TransitionStep ==
    ASSUME IInv, NEW w \in Writers, NEW s \in WriterStates, Moved(w, s), KeepsGen(w, s),
           Transition(w), writer[w].pc \in {"record", "settle", "doubt"}, UNCHANGED lease,
           s.pc # "post", PhaseOK(s)',
           s.pc \in Knowing => s.key = writer[w].key /\ s.state = NewState(w)
    PROVE  IInv'
<1> DEFINE k == writer[w].key
<1>1. /\ k \in Keys
      /\ k[1] \in Approvals
      /\ writer[w].state \in WriteStates \cup {"ABSENT"}
      /\ writer[w].gen # 0
      /\ PhaseOK(writer[w])
  BY OrderKeys DEF IInv, WriterTypeOK, WriterStates, GenOK, Idle
<1>2. /\ attempt[k].state = writer[w].state
      /\ attempt[k].gen = writer[w].gen
      /\ After(writer[w].state, writer[w].event) # "INVALID"
      /\ attempt' = [attempt EXCEPT ![k].state = NewState(w)]
      /\ UNCHANGED <<grant, wire, answer, market, position, leverage, posts, faults>>
  BY DEF Transition, RowMatches, exchange
<1>3. /\ attempt[k].state \in Unresolved
      /\ NewState(w) \in WriteStates
      /\ NewState(w) # "ABSENT"
      /\ NewState(w) = "REJECTED" => writer[w].event = "EXPLICIT_REJECTION"
      /\ NewState(w) = "RECONCILED" => writer[w].event = "RECONCILE"
      /\ NewState(w) = "RESIDUAL_CLOSE_REQUIRED" =>
             writer[w].event = "RESIDUAL_DETECTED" \/ attempt[k].state = "RESIDUAL_CLOSE_REQUIRED"
  BY <1>2, Transitions, Names DEF NewState
<1>4. /\ \A j \in Keys : j # k => attempt'[j] = attempt[j]
      /\ attempt'[k] = [attempt[k] EXCEPT !.state = NewState(w)]
      /\ attempt' \in [Keys -> Rows]
  <2>1. attempt \in [Keys -> Rows]
    BY DEF IInv, WriterTypeOK
  <2>2. [attempt[k] EXCEPT !.state = NewState(w)] \in Rows
    <3>1. attempt[k] \in Rows
      BY <1>1, <2>1
    <3>2. NewState(w) \in WriteStates \cup {"ABSENT"}
      BY <1>3
    <3> QED
      BY <3>1, <3>2, Zenon DEF Rows
  <2>3. attempt' = [attempt EXCEPT ![k] = [attempt[k] EXCEPT !.state = NewState(w)]]
    BY <1>2, <1>1, <2>1
  <2> QED
    BY <1>1, <2>1, <2>2, <2>3
<1>5. /\ attempt'[k].state = NewState(w)
      /\ attempt'[k].gen = attempt[k].gen
  BY <1>4, <1>1 DEF IInv, WriterTypeOK, Rows
<1>6. \A v \in Writers : writer'[v] = IF v = w THEN s ELSE writer[v]
  BY DEF IInv, WriterTypeOK, Moved
<1>7. WriterTypeOK'
  <2>1. order' \in [Approvals -> OrderRows]
    <3>1. NewStatus(w) \in WriteStates \cup OrderStates \cup {"ABSENT"}
      <4>1. CASE writer[w].event \in {"RESIDUAL_DETECTED", "RECONCILE"}
        <5>1. writer[w].seen \in OrderStates
          BY <4>1, <1>1 DEF IInv, WriterTypeOK, WriterStates, PhaseOK, Undecided
        <5> QED
          BY <4>1, <5>1 DEF NewStatus
      <4>2. CASE writer[w].event \notin {"RESIDUAL_DETECTED", "RECONCILE"}
        BY <4>2, <1>3 DEF NewStatus
      <4> QED
        BY <4>1, <4>2
    <3>2. order \in [Approvals -> OrderRows] /\ order[k[1]] \in OrderRows
      BY <1>1 DEF IInv, WriterTypeOK
    <3>3. [order[k[1]] EXCEPT !.status = NewStatus(w)] \in OrderRows
      BY <3>1, <3>2, Zenon DEF OrderRows
    <3>4. order' = [order EXCEPT ![k[1]] = [order[k[1]] EXCEPT !.status = NewStatus(w)]]
      BY <3>2, <1>1 DEF Transition
    <3> QED
      BY <3>2, <3>3, <3>4, <1>1
  <2>2. writer' \in [Writers -> WriterStates]
    BY DEF IInv, WriterTypeOK, Moved
  <2> QED
    BY <1>2, <1>4, <2>1, <2>2 DEF IInv, WriterTypeOK
<1>8. ASSUME NEW j \in Keys
      PROVE  RowOK(j)'
  <2>1. RowOK(j)
    BY DEF IInv
  <2>2. CASE j # k
    BY <2>1, <2>2, <1>2, <1>4 DEF RowOK, Shown
  <2>3. CASE j = k
    <3>1. NewState(w) = "REJECTED" => answer[k] = "REJECT"
      BY <1>1, <1>3 DEF PhaseOK, At, Undecided
    <3>2. NewState(w) \in {"RESIDUAL_CLOSE_REQUIRED", "RECONCILED"} => Shown(k)
      BY <1>1, <1>3, <2>1, <2>3 DEF PhaseOK, RowOK, Undecided
    <3> QED
      BY <2>1, <2>3, <3>1, <3>2, <1>2, <1>3, <1>5 DEF RowOK, Shown
  <2> QED
    BY <2>2, <2>3
<1>9. ASSUME NEW v \in Writers
      PROVE  PhaseOK(writer[v])' /\ KnowsOK(writer[v])' /\ GenOK(v)'
  <2>1. CASE v = w
    <3>1. writer'[v] = s
      BY <1>6, <2>1
    <3>2. PhaseOK(writer[v])'
      BY <3>1 DEF PhaseOK, Shown, Truthful
    <3>3. KnowsOK(writer[v])'
      BY <3>1, <1>5 DEF KnowsOK
    <3>4. GenOK(w) /\ writer[w].gen \in Nat /\ lease.gen \in Nat
      BY BoundsAssumption DEF IInv, WriterTypeOK, WriterStates, Leases
    <3>5. GenOK(v)'
      BY <3>1, <3>4, <2>1 DEF GenOK, KeepsGen
    <3> QED
      BY <3>2, <3>3, <3>5
  <2>2. CASE v # w
    <3>1. writer'[v] = writer[v] /\ writer[v].key \in Keys
      BY <1>6, <2>2 DEF IInv, WriterTypeOK, WriterStates
    <3>2. PhaseOK(writer[v]) /\ KnowsOK(writer[v]) /\ GenOK(v)
      BY DEF IInv
    <3>3. PhaseOK(writer[v])'
      BY <3>1, <3>2, <1>2, <1>3, <1>4, <1>5 DEF PhaseOK, Shown, Truthful
    <3>4. writer[v].gen = writer[w].gen => v = w
      BY <1>1 DEF IInv, OwnGeneration
    <3>5. KnowsOK(writer[v])'
      BY <3>1, <3>2, <3>4, <2>2, <1>2, <1>4, <1>5 DEF KnowsOK
    <3>6. GenOK(v)'
      BY <3>1, <3>2 DEF GenOK
    <3> QED
      BY <3>3, <3>5, <3>6
  <2> QED
    BY <2>1, <2>2
<1>10. LeaseOK'
  BY DEF IInv, LeaseOK
<1>11. (\A a \in Approvals : Truthful(a, order[a].status))'
  <2>1. Truthful(k[1], NewStatus(w))
    <3>1. CASE writer[w].event \in {"RESIDUAL_DETECTED", "RECONCILE"}
      BY <1>1, <3>1 DEF NewStatus, PhaseOK, Undecided
    <3>2. CASE writer[w].event \notin {"RESIDUAL_DETECTED", "RECONCILE"}
      BY <1>3, <3>2 DEF NewStatus, Truthful, TerminalOrderStates, WriteStates, Unresolved
    <3> QED
      BY <3>1, <3>2
  <2>2. /\ order \in [Approvals -> OrderRows]
        /\ order' = [order EXCEPT ![k[1]] = [order[k[1]] EXCEPT !.status = NewStatus(w)]]
    BY <1>1 DEF Transition, IInv, WriterTypeOK
  <2>3. [order[k[1]] EXCEPT !.status = NewStatus(w)].status = NewStatus(w)
    BY <1>1, <2>2 DEF OrderRows
  <2>4. \A a \in Approvals : order'[a].status = IF a = k[1] THEN NewStatus(w) ELSE order[a].status
    BY <1>1, <2>2, <2>3
  <2> QED
    BY <1>2, <2>1, <2>4 DEF IInv, Truthful
<1>12. OneUnresolved'
  BY <1>1, <1>3, <1>4, <1>5 DEF IInv, OneUnresolved, Pending
<1>13. OneSender'
  BY <1>6 DEF IInv, OneSender, At
<1>14. OwnGeneration'
  BY <1>6 DEF IInv, OwnGeneration, KeepsGen
<1> QED
  BY <1>7, <1>8, <1>9, <1>10, <1>12, <1>13, <1>14, <1>11 DEF IInv

-----------------------------------------------------------------------------
(* The initial states, and the steps that no writer takes.                 *)

\* The invariant holds before any writer has acquired the lease.
LEMMA InitIInv == Init => IInv
<1> SUFFICES ASSUME Init PROVE IInv
  OBVIOUS
<1>1. \A w \in Writers : writer[w] = Unassigned("idle")
  BY DEF Init
<1>2. WriterTypeOK
  <2>1. attempt \in [Keys -> Rows]
    <3>1. [state |-> "ABSENT", gen |-> 0] \in Rows
      BY BoundsAssumption DEF Rows
    <3> QED
      BY <3>1 DEF Init
  <2>2. order \in [Approvals -> OrderRows]
    BY DEF Init, OrderRows
  <2>3. lease \in Leases
    BY BoundsAssumption DEF Init, Leases
  <2>4. writer \in [Writers -> WriterStates]
    BY Names, UnassignedType DEF Init
  <2> QED
    BY <2>1, <2>2, <2>3, <2>4, BoundsAssumption DEF Init, WriterTypeOK
<1>3. \A k \in Keys : RowOK(k)
  BY OrderKeys DEF Init, RowOK, Rows
<1>4. \A w \in Writers : PhaseOK(writer[w]) /\ KnowsOK(writer[w]) /\ GenOK(w)
  BY <1>1 DEF Init, PhaseOK, KnowsOK, GenOK, Unassigned, Idle, Knowing
<1>5. \A a \in Approvals : Truthful(a, order[a].status)
  BY DEF Init, Truthful, TerminalOrderStates
<1>6. LeaseOK /\ OneUnresolved /\ OneSender /\ OwnGeneration
  BY <1>1 DEF Init, LeaseOK, OneUnresolved, Pending, Unresolved, OneSender, At, Unassigned, OwnGeneration
<1> QED
  BY <1>2, <1>3, <1>4, <1>6, <1>5 DEF IInv

\* Time and the keeper change only whether the lease is in date.
LEMMA LeaseTimeStep ==
    ASSUME IInv, NEW live \in BOOLEAN, lease' = [lease EXCEPT !.live = live],
           UNCHANGED <<journal, writer, exchange, posts>>, faults' \in 0 .. MaxFaults
    PROVE  IInv'
<1>1. lease' \in Leases /\ lease'.gen = lease.gen /\ lease'.holder = lease.holder
  BY DEF IInv, WriterTypeOK, Leases
<1>2. WriterTypeOK'
  BY <1>1 DEF IInv, WriterTypeOK, journal, exchange
<1>3. \A k \in Keys : RowOK(k)'
  BY DEF IInv, RowOK, Shown, journal, exchange
<1>4. \A w \in Writers : (PhaseOK(writer[w]) /\ KnowsOK(writer[w]) /\ GenOK(w))'
  BY <1>1 DEF IInv, PhaseOK, KnowsOK, GenOK, Shown, Truthful, journal, exchange
<1>5. (LeaseOK /\ OneUnresolved /\ OneSender /\ OwnGeneration)'
  BY <1>1 DEF IInv, LeaseOK, OneUnresolved, Pending, OneSender, At, OwnGeneration, journal
<1>6. (\A a \in Approvals : Truthful(a, order[a].status))'
  BY DEF IInv, Truthful, journal, exchange
<1> QED
  BY <1>2, <1>3, <1>4, <1>5, <1>6 DEF IInv

\* Grants and the position are named by no part of the invariant but its type.
LEMMA OutsideStep ==
    ASSUME IInv, grant' \in [Approvals -> {"NONE", "ACTIVE", "CONSUMED", "EXPIRED"}],
           position' \in BOOLEAN,
           UNCHANGED <<attempt, order, lease, writer, wire, answer, market, leverage, posts, faults>>
    PROVE  IInv'
<1>1. WriterTypeOK'
  BY DEF IInv, WriterTypeOK
<1>2. \A k \in Keys : RowOK(k)'
  BY DEF IInv, RowOK, Shown
<1>3. \A w \in Writers : (PhaseOK(writer[w]) /\ KnowsOK(writer[w]) /\ GenOK(w))'
  BY DEF IInv, PhaseOK, KnowsOK, GenOK, Shown, Truthful
<1>4. (\A a \in Approvals : Truthful(a, order[a].status))'
  BY DEF IInv, Truthful
<1>5. (LeaseOK /\ OneUnresolved /\ OneSender /\ OwnGeneration)'
  BY DEF IInv, LeaseOK, OneUnresolved, Pending, OneSender, At, OwnGeneration
<1> QED
  BY <1>1, <1>2, <1>3, <1>5, <1>4 DEF IInv

\* A request arrives: its answer is its first, and the order it may open had
\* not been at the exchange.
LEMMA ArriveStep ==
    ASSUME IInv, NEW k \in Keys, NEW reply \in {"ACK", "REJECT"}, Arrive(k, reply),
           market' \in [Approvals -> {"NONE", "live", "filled", "canceled"}],
           \A a \in Approvals :
               market'[a] # market[a] => reply = "ACK" /\ k = OrderKey(a) /\ market'[a] # "NONE",
           position' \in BOOLEAN, leverage' \in SUBSET Approvals
    PROVE  IInv'
<1>1. /\ k \in wire
      /\ wire' = wire \ {k}
      /\ answer' = [answer EXCEPT ![k] = reply]
      /\ UNCHANGED <<attempt, order, grant, lease, writer, posts, faults>>
  BY DEF Arrive, journal
<1>2. /\ answer[k] = "NONE"
      /\ posts[k] = 1
      /\ \A j \in Keys : RowOK(j)
      /\ answer \in [Keys -> {"NONE", "ACK", "REJECT"}]
  BY <1>1 DEF IInv, RowOK, WriterTypeOK
<1>3. \A j \in Keys : answer'[j] = IF j = k THEN reply ELSE answer[j]
  BY <1>1, <1>2
<1>4. WriterTypeOK'
  BY <1>1, <1>2 DEF IInv, WriterTypeOK
<1>5. \A a \in Approvals : market[a] # "NONE" => market'[a] = market[a]
  BY <1>2, OrderKeys DEF RowOK
<1>6. /\ \A j \in Keys : Shown(j) => Shown(j)'
      /\ \A a \in Approvals, status \in OrderStates \cup WriteStates \cup {"NONE", "ABSENT"} :
             Truthful(a, status) => (market'[a] = status \/ status \notin TerminalOrderStates)
  BY <1>5, OrderKeys DEF Shown, Truthful, TerminalOrderStates
<1>7. ASSUME NEW j \in Keys
      PROVE  RowOK(j)'
  <2>1. /\ posts'[j] <= 1
        /\ attempt'[j].state = "ABSENT" => posts'[j] = 0
        /\ attempt'[j].state = "REJECTED" => answer'[j] = "REJECT"
        /\ j \in wire' => posts'[j] = 1 /\ answer'[j] = "NONE"
        /\ answer'[j] # "NONE" => posts'[j] = 1
    BY <1>1, <1>2, <1>3 DEF RowOK
  <2>2. attempt'[j].state \in {"RESIDUAL_CLOSE_REQUIRED", "RECONCILED"} => Shown(j)'
    BY <1>1, <1>2, <1>6 DEF RowOK
  <2>3. IsOrder(j) /\ market'[j[1]] # "NONE" => answer'[j] = "ACK"
    BY <1>1, <1>2, <1>3, OrderKeys DEF RowOK
  <2> QED
    BY <2>1, <2>2, <2>3 DEF RowOK
<1>8. ASSUME NEW w \in Writers
      PROVE  (PhaseOK(writer[w]) /\ KnowsOK(writer[w]) /\ GenOK(w))'
  <2>1. /\ PhaseOK(writer[w]) /\ KnowsOK(writer[w]) /\ GenOK(w)
        /\ writer[w].key \in Keys /\ writer[w].key[1] \in Approvals
        /\ writer[w].seen \in OrderStates \cup {"NONE"}
    BY OrderKeys DEF IInv, WriterTypeOK, WriterStates
  <2>2. PhaseOK(writer[w])'
    BY <2>1, <1>1, <1>2, <1>3, <1>6 DEF PhaseOK, Truthful
  <2> QED
    BY <2>1, <2>2, <1>1 DEF KnowsOK, GenOK
<1>9. (LeaseOK /\ OneUnresolved /\ OneSender /\ OwnGeneration)'
  BY <1>1 DEF IInv, LeaseOK, OneUnresolved, Pending, OneSender, At, OwnGeneration
<1>10. (\A a \in Approvals : Truthful(a, order[a].status))'
  <2>1. \A a \in Approvals : order[a].status \in OrderStates \cup WriteStates \cup {"ABSENT"}
    BY DEF IInv, WriterTypeOK, OrderRows
  <2> QED
    BY <1>1, <1>6, <2>1 DEF IInv, Truthful
<1> QED
  BY <1>4, <1>7, <1>8, <1>9, <1>10 DEF IInv

\* An order at the exchange stays known to it.
LEMMA OrderEndsStep ==
    ASSUME IInv, NEW a \in Approvals, OrderEnds(a)
    PROVE  IInv'
<1>1. /\ market' \in [Approvals -> {"NONE", "live", "filled", "canceled"}]
      /\ \A b \in Approvals : market'[b] = "NONE" <=> market[b] = "NONE"
      /\ \A b \in Approvals : market[b] \in TerminalOrderStates => market'[b] = market[b]
      /\ position' \in BOOLEAN
      /\ UNCHANGED <<journal, lease, writer, wire, answer, leverage, posts, faults>>
  <2>1. market \in [Approvals -> {"NONE", "live", "filled", "canceled"}] /\ position \in BOOLEAN
    BY DEF IInv, WriterTypeOK
  <2>2. PICK s \in TerminalOrderStates : /\ market' = [market EXCEPT ![a] = s]
                                         /\ position' = (position \/ s = "filled")
    BY DEF OrderEnds
  <2>3. (position \/ s = "filled") \in BOOLEAN
    OBVIOUS
  <2>4. s \in {"filled", "canceled"} /\ market[a] = "live" /\ market[a] \notin TerminalOrderStates
    BY DEF OrderEnds, TerminalOrderStates
  <2> QED
    BY <2>1, <2>2, <2>3, <2>4 DEF OrderEnds
<1>2. WriterTypeOK'
  BY <1>1 DEF IInv, WriterTypeOK, journal
<1>3. \A k \in Keys : RowOK(k)'
  <2>1. ASSUME NEW k \in Keys
        PROVE  RowOK(k)'
    <3>1. RowOK(k) /\ k[1] \in Approvals
      BY OrderKeys DEF IInv
    <3> QED
      BY <1>1, <3>1 DEF RowOK, Shown, journal
  <2> QED
    BY <2>1
<1>4. \A w \in Writers : (PhaseOK(writer[w]) /\ KnowsOK(writer[w]) /\ GenOK(w))'
  <2>1. ASSUME NEW w \in Writers
        PROVE  (PhaseOK(writer[w]) /\ KnowsOK(writer[w]) /\ GenOK(w))'
    <3>1. /\ PhaseOK(writer[w]) /\ KnowsOK(writer[w]) /\ GenOK(w)
          /\ writer[w].key \in Keys /\ writer[w].key[1] \in Approvals
      BY OrderKeys DEF IInv, WriterTypeOK, WriterStates
    <3> QED
      BY <1>1, <3>1 DEF PhaseOK, KnowsOK, GenOK, Shown, Truthful, journal
  <2> QED
    BY <2>1
<1>5. (LeaseOK /\ OneUnresolved /\ OneSender /\ OwnGeneration)'
  BY <1>1 DEF IInv, LeaseOK, OneUnresolved, Pending, OneSender, At, OwnGeneration, journal
<1>6. (\A b \in Approvals : Truthful(b, order[b].status))'
  BY <1>1 DEF IInv, Truthful, journal
<1> QED
  BY <1>2, <1>3, <1>4, <1>5, <1>6 DEF IInv

-----------------------------------------------------------------------------
(* The lease and the attempts it fences.                                   *)

\* Whoever acquires the lease has a generation that no other process has.
LEMMA Acquisition ==
    ASSUME IInv, NEW w \in Writers, CanAcquire(w)
    PROVE  /\ Acquired(w) \in Leases
           /\ Acquired(w).holder = w
           /\ Acquired(w).gen # 0
           /\ Acquired(w).gen \in 0 .. MaxGeneration
           /\ \A v \in Writers : v # w =>
                  writer[v].gen # Acquired(w).gen /\ writer[v].gen <= Acquired(w).gen
<1>1. /\ lease \in Leases
      /\ \A v \in Writers : GenOK(v) /\ writer[v].gen \in 0 .. MaxGeneration
      /\ LeaseOK
      /\ w # Nobody
  BY NobodyAssumption DEF IInv, WriterTypeOK, WriterStates
<1>2. CASE lease.holder = w
  <2>1. Acquired(w) = [lease EXCEPT !.live = TRUE]
    BY <1>2 DEF Acquired
  <2>2. Acquired(w) \in Leases /\ Acquired(w).holder = w /\ Acquired(w).gen = lease.gen
    BY <1>1, <1>2, <2>1 DEF Leases
  <2>3. lease.gen \in 0 .. MaxGeneration /\ lease.gen # 0
    BY <1>1, <1>2 DEF Leases, LeaseOK
  <2> QED
    BY <1>1, <1>2, <2>2, <2>3 DEF GenOK
<1>3. CASE lease.holder # w
  <2>1. Acquired(w) = [holder |-> w, gen |-> lease.gen + 1, live |-> TRUE]
    BY <1>3 DEF Acquired
  <2>2. lease.gen \in 0 .. MaxGeneration /\ lease.gen < MaxGeneration
    BY <1>1, <1>3 DEF Leases, CanAcquire
  <2>3. lease.gen + 1 \in 0 .. MaxGeneration
    BY <2>2, BoundsAssumption
  <2>4. Acquired(w) \in Leases
    BY <2>1, <2>3 DEF Leases
  <2> QED
    BY <1>1, <2>1, <2>2, <2>3, <2>4, BoundsAssumption DEF GenOK
<1> QED
  BY <1>2, <1>3

\* Attempts are rebound to a generation g that is this writer's alone.
LEMMA ClaimStep ==
    ASSUME IInv, NEW w \in Writers, NEW s \in WriterStates, Moved(w, s),
           NEW g, \A v \in Writers : v # w => writer[v].gen # g,
           attempt' \in [Keys -> Rows],
           \A k \in Keys : /\ attempt'[k].state = attempt[k].state
                           /\ attempt'[k].gen \in {attempt[k].gen, g},
           lease' \in Leases, LeaseOK', \A v \in Writers : GenOK(v)',
           s.gen # 0 => \A v \in Writers : v # w => writer[v].gen # s.gen,
           s.pc # "post", PhaseOK(s), KnowsOK(s)',
           UNCHANGED <<order, grant, exchange, posts>>, faults' \in 0 .. MaxFaults
    PROVE  IInv'
<1>1. \A v \in Writers : writer'[v] = IF v = w THEN s ELSE writer[v]
  BY DEF IInv, WriterTypeOK, Moved
<1>2. WriterTypeOK'
  BY DEF IInv, WriterTypeOK, Moved, exchange
<1>3. \A k \in Keys : RowOK(k)'
  BY DEF IInv, RowOK, Shown, exchange
<1>4. ASSUME NEW v \in Writers
      PROVE  PhaseOK(writer[v])' /\ KnowsOK(writer[v])'
  <2>1. /\ PhaseOK(writer[v]) /\ KnowsOK(writer[v])
        /\ writer[v].key \in Keys
        /\ s.key \in Keys
    BY DEF IInv, WriterTypeOK, WriterStates
  <2>2. CASE v = w
    <3>1. PhaseOK(writer[v])'
      BY <1>1, <2>1, <2>2 DEF PhaseOK, Shown, Truthful, exchange
    <3> QED
      BY <1>1, <2>2, <3>1 DEF KnowsOK
  <2>3. CASE v # w
    <3>1. writer'[v] = writer[v]
      BY <1>1, <2>3
    <3>2. PhaseOK(writer[v])'
      BY <3>1, <2>1 DEF PhaseOK, Shown, Truthful, exchange
    <3>3. KnowsOK(writer[v])'
      BY <3>1, <2>1, <2>3 DEF KnowsOK
    <3> QED
      BY <3>2, <3>3
  <2> QED
    BY <2>2, <2>3
<1>5. OneUnresolved' /\ (\A a \in Approvals : Truthful(a, order[a].status))'
  BY DEF IInv, OneUnresolved, Pending, Truthful, exchange
<1>6. OneSender'
  BY <1>1 DEF IInv, OneSender, At
<1>7. OwnGeneration'
  BY <1>1 DEF IInv, OwnGeneration
<1> QED
  BY <1>2, <1>3, <1>4, <1>5, <1>6, <1>7 DEF IInv

\* The lease is acquired, and attempts may be rebound in the same transaction.
LEMMA AcquireStep ==
    ASSUME IInv, NEW w \in Writers, NEW s \in WriterStates, Moved(w, s),
           CanAcquire(w), lease' = Acquired(w), s.gen = Acquired(w).gen,
           attempt' \in [Keys -> Rows],
           \A k \in Keys : /\ attempt'[k].state = attempt[k].state
                           /\ attempt'[k].gen \in {attempt[k].gen, s.gen},
           s.pc \in {"unresolved", "get"}, s.pc = "get" => attempt[s.key].state = s.state,
           UNCHANGED <<order, grant, exchange, posts, faults>>
    PROVE  IInv'
<1>1. /\ Acquired(w) \in Leases
      /\ Acquired(w).holder = w
      /\ Acquired(w).gen # 0
      /\ \A v \in Writers : v # w =>
             writer[v].gen # Acquired(w).gen /\ writer[v].gen <= Acquired(w).gen
  BY Acquisition
<1>2. \A v \in Writers : writer'[v] = IF v = w THEN s ELSE writer[v]
  BY DEF IInv, WriterTypeOK, Moved
<1>3. ASSUME NEW v \in Writers
      PROVE  GenOK(v)'
  <2>1. GenOK(v) /\ s.gen \in Nat
    BY BoundsAssumption DEF IInv, WriterStates
  <2>2. CASE v = w
    BY <1>1, <1>2, <2>1, <2>2 DEF GenOK
  <2>3. CASE v # w
    BY <1>1, <1>2, <2>1, <2>3 DEF GenOK
  <2> QED
    BY <2>2, <2>3
<1>4. PhaseOK(s)
  BY DEF PhaseOK
<1>5. KnowsOK(s)'
  BY DEF KnowsOK, Knowing, WriterStates
<1>6. LeaseOK'
  BY <1>1 DEF LeaseOK
<1>7. faults' \in 0 .. MaxFaults
  BY DEF IInv, WriterTypeOK
<1> QED
  BY <1>1, <1>3, <1>4, <1>5, <1>6, <1>7, ClaimStep

\* place() begins with a generation of its own.
LEMMA AcquireForPlaceStep ==
    ASSUME IInv, NEW w \in Writers, NEW a \in Approvals, AcquireForPlace(w, a)
    PROVE  IInv'
<1> DEFINE s == [Unassigned("unresolved") EXCEPT
                    !.key = OrderKey(a), !.goal = "PLACE", !.gen = Acquired(w).gen]
<1>1. CanAcquire(w) /\ lease' = Acquired(w) /\ Moved(w, s)
  BY DEF AcquireForPlace, Moved
<1>2. Acquired(w).gen \in 0 .. MaxGeneration
  BY <1>1, Acquisition
<1>3. Unassigned("unresolved") \in WriterStates
  BY UnassignedType, Names
<1>4. s \in WriterStates
  BY <1>2, <1>3, OrderKeys DEF WriterStates
<1>5. s.pc = "unresolved" /\ s.gen = Acquired(w).gen
  BY DEF Unassigned
<1>6. UNCHANGED <<attempt, order, grant, exchange, posts, faults>> /\ attempt \in [Keys -> Rows]
  BY DEF AcquireForPlace, journal, IInv, WriterTypeOK
<1> HIDE DEF s
<1> QED
  BY <1>1, <1>4, <1>5, <1>6, AcquireStep

\* So does a call under a recovery grant.
LEMMA AcquireForRecoveryStep ==
    ASSUME IInv, NEW w \in Writers, NEW a \in Approvals, AcquireForRecovery(w, a)
    PROVE  IInv'
<1> DEFINE s == [Unassigned("unresolved") EXCEPT
                    !.key = RecoveryKey(a), !.goal = "RECOVER", !.gen = Acquired(w).gen]
<1>1. CanAcquire(w) /\ lease' = Acquired(w) /\ Moved(w, s)
  BY DEF AcquireForRecovery, Moved
<1>2. Acquired(w).gen \in 0 .. MaxGeneration
  BY <1>1, Acquisition
<1>3. Unassigned("unresolved") \in WriterStates
  BY UnassignedType, Names
<1>4. s \in WriterStates
  BY <1>2, <1>3, RecoveryKeys DEF WriterStates
<1>5. s.pc = "unresolved" /\ s.gen = Acquired(w).gen
  BY DEF Unassigned
<1>6. UNCHANGED <<attempt, order, grant, exchange, posts, faults>> /\ attempt \in [Keys -> Rows]
  BY DEF AcquireForRecovery, journal, IInv, WriterTypeOK
<1> HIDE DEF s
<1> QED
  BY <1>1, <1>4, <1>5, <1>6, AcquireStep

\* The rebinding of one row.
LEMMA Rebound ==
    ASSUME IInv, NEW k \in Keys, NEW g \in 0 .. MaxGeneration,
           attempt' = [attempt EXCEPT ![k].gen = g]
    PROVE  /\ attempt' \in [Keys -> Rows]
           /\ \A j \in Keys : /\ attempt'[j].state = attempt[j].state
                              /\ attempt'[j].gen \in {attempt[j].gen, g}
<1>1. attempt \in [Keys -> Rows] /\ attempt[k] \in Rows
  BY DEF IInv, WriterTypeOK
<1>2. attempt' = [attempt EXCEPT ![k] = [attempt[k] EXCEPT !.gen = g]]
  BY <1>1
<1>3. [attempt[k] EXCEPT !.gen = g] \in Rows
  BY <1>1, Zenon DEF Rows
<1>4. /\ [attempt[k] EXCEPT !.gen = g].state = attempt[k].state
      /\ [attempt[k] EXCEPT !.gen = g].gen = g
  BY <1>1 DEF Rows
<1>5. \A j \in Keys : attempt'[j] = IF j = k THEN [attempt[k] EXCEPT !.gen = g] ELSE attempt[j]
  BY <1>1, <1>2
<1>6. attempt' \in [Keys -> Rows]
  BY <1>1, <1>2, <1>3
<1> QED
  BY <1>4, <1>5, <1>6

\* The reconciliation cycle claims what its process may not have written.
LEMMA ClaimUnresolvedStep ==
    ASSUME IInv, NEW w \in Writers, ClaimUnresolved(w)
    PROVE  IInv'
<1>1. PICK k \in Keys :
        /\ Pending(k)
        /\ attempt' = [attempt EXCEPT ![k].gen = Acquired(w).gen]
        /\ writer' = [writer EXCEPT ![w] = [Unassigned("get") EXCEPT
                        !.key = k, !.goal = "RECONCILE", !.gen = Acquired(w).gen,
                        !.state = attempt[k].state]]
  BY DEF ClaimUnresolved
<1> DEFINE s == [Unassigned("get") EXCEPT
                    !.key = k, !.goal = "RECONCILE", !.gen = Acquired(w).gen,
                    !.state = attempt[k].state]
<1>2. CanAcquire(w) /\ lease' = Acquired(w) /\ Moved(w, s)
  BY <1>1 DEF ClaimUnresolved, Moved
<1>3. Acquired(w).gen \in 0 .. MaxGeneration
  BY <1>2, Acquisition
<1>4. Unassigned("get") \in WriterStates /\ attempt[k].state \in WriteStates \cup {"ABSENT"}
  BY UnassignedType, Names DEF IInv, WriterTypeOK, Rows
<1>5. s \in WriterStates
  BY <1>3, <1>4 DEF WriterStates
<1>6. s.pc = "get" /\ s.gen = Acquired(w).gen /\ s.key = k /\ s.state = attempt[k].state
  BY DEF Unassigned
<1>7. UNCHANGED <<order, grant, exchange, posts, faults>>
  BY DEF ClaimUnresolved
<1>8. /\ attempt' \in [Keys -> Rows]
      /\ \A j \in Keys : /\ attempt'[j].state = attempt[j].state
                         /\ attempt'[j].gen \in {attempt[j].gen, Acquired(w).gen}
  BY <1>1, <1>3, Rebound
<1> HIDE DEF s
<1> QED
  BY <1>2, <1>5, <1>6, <1>7, <1>8, AcquireStep

\* The generations of all writers after a step that leaves the lease alone.
LEMMA GenerationsKept ==
    ASSUME IInv, NEW w \in Writers, NEW s \in WriterStates, Moved(w, s), KeepsGen(w, s),
           UNCHANGED lease
    PROVE  /\ \A v \in Writers : GenOK(v)'
           /\ OwnGeneration'
           /\ LeaseOK'
           /\ \A v \in Writers : writer'[v] = IF v = w THEN s ELSE writer[v]
           /\ s.gen # 0 => \A v \in Writers : v # w => writer[v].gen # s.gen
<1>1. \A v \in Writers : writer'[v] = IF v = w THEN s ELSE writer[v]
  BY DEF IInv, WriterTypeOK, Moved
<1>2. ASSUME NEW v \in Writers
      PROVE  GenOK(v)'
  <2>1. GenOK(v) /\ writer[v].gen \in Nat /\ lease.gen \in Nat
    BY BoundsAssumption DEF IInv, WriterTypeOK, WriterStates, Leases
  <2> QED
    BY <1>1, <2>1 DEF GenOK, KeepsGen
<1>3. OwnGeneration' /\ (s.gen # 0 => \A v \in Writers : v # w => writer[v].gen # s.gen)
  BY <1>1 DEF IInv, OwnGeneration, KeepsGen
<1>4. LeaseOK'
  BY DEF IInv, LeaseOK
<1> QED
  BY <1>1, <1>2, <1>3, <1>4

\* unresolved() rebinds the pending attempt to the caller's generation.
LEMMA AdoptUnresolvedStep ==
    ASSUME IInv, NEW w \in Writers, AdoptUnresolved(w)
    PROVE  IInv'
<1>1. PICK k \in Keys :
        /\ Pending(k)
        /\ attempt' = [attempt EXCEPT ![k].gen = writer[w].gen]
        /\ IF ~MayRecover(w, k) THEN Leave(w)
           ELSE Moved(w, [writer[w] EXCEPT
                    !.pc = IF /\ writer[w].goal = "PLACE"
                              /\ k[2] = "CLOSE"
                              /\ attempt[k].state = "RESIDUAL_CLOSE_REQUIRED"
                           THEN "cleanup" ELSE "get",
                    !.key = k, !.goal = "RECONCILE", !.state = attempt[k].state,
                    !.fenced = FALSE])
  BY DEF AdoptUnresolved, Moved
<1>2. /\ writer[w] \in WriterStates
      /\ writer[w].pc = "unresolved"
      /\ writer[w].gen # 0
      /\ writer[w].gen \in 0 .. MaxGeneration
      /\ attempt[k].state \in WriteStates \cup {"ABSENT"}
      /\ RowOK(k)
  BY DEF AdoptUnresolved, At, IInv, WriterTypeOK, WriterStates, GenOK, Idle, Rows
<1>3. \A v \in Writers : v # w => writer[v].gen # writer[w].gen
  BY <1>2 DEF IInv, OwnGeneration
<1>4. /\ attempt' \in [Keys -> Rows]
      /\ \A j \in Keys : /\ attempt'[j].state = attempt[j].state
                         /\ attempt'[j].gen \in {attempt[j].gen, writer[w].gen}
  BY <1>1, <1>2, Rebound
<1>5. /\ UNCHANGED <<order, grant, exchange, posts, faults>>
      /\ UNCHANGED lease
      /\ lease' \in Leases
      /\ faults' \in 0 .. MaxFaults
  BY DEF AdoptUnresolved, IInv, WriterTypeOK
<1>6. CASE ~MayRecover(w, k)
  <2>1. Moved(w, Unassigned("idle")) /\ Unassigned("idle") \in WriterStates
    BY <1>1, <1>6, UnassignedType, Names DEF Leave, Moved
  <2>2. Unassigned("idle").pc = "idle" /\ Unassigned("idle").gen = 0
    BY DEF Unassigned
  <2>3. KeepsGen(w, Unassigned("idle")) /\ PhaseOK(Unassigned("idle"))
    BY <2>2 DEF KeepsGen, PhaseOK, Idle
  <2>4. KnowsOK(Unassigned("idle"))'
    BY <2>2 DEF KnowsOK, Knowing
  <2>5. (\A v \in Writers : GenOK(v)') /\ LeaseOK'
    BY <1>5, <2>1, <2>3, GenerationsKept
  <2> QED
    BY <1>3, <1>4, <1>5, <2>1, <2>2, <2>3, <2>4, <2>5, ClaimStep
<1>7. CASE MayRecover(w, k)
  <2>1. PICK pc : pc = IF /\ writer[w].goal = "PLACE"
                          /\ k[2] = "CLOSE"
                          /\ attempt[k].state = "RESIDUAL_CLOSE_REQUIRED"
                       THEN "cleanup" ELSE "get"
    OBVIOUS
  <2>2. PICK s : s = [writer[w] EXCEPT !.pc = pc, !.key = k, !.goal = "RECONCILE",
                                       !.state = attempt[k].state, !.fenced = FALSE]
    OBVIOUS
  <2>3. Moved(w, s)
    BY <1>1, <1>7, <2>1, <2>2
  <2>4. /\ pc \in {"cleanup", "get"}
        /\ pc = "cleanup" => attempt[k].state = "RESIDUAL_CLOSE_REQUIRED"
        /\ pc \in Phases
    BY <2>1, Names
  <2>5. s \in WriterStates
    BY <1>2, <2>2, <2>4, Zenon DEF WriterStates
  <2>6. s.pc = pc /\ s.key = k /\ s.gen = writer[w].gen /\ s.state = attempt[k].state
    BY <1>2, <2>2 DEF WriterStates
  <2>7. KeepsGen(w, s)
    BY <1>2, <2>6 DEF KeepsGen
  <2>8. PhaseOK(s)
    BY <1>2, <2>4, <2>6 DEF PhaseOK, RowOK
  <2>9. KnowsOK(s)'
    BY <1>4, <2>6 DEF KnowsOK
  <2>10. (\A v \in Writers : GenOK(v)') /\ LeaseOK'
    BY <1>5, <2>3, <2>5, <2>7, GenerationsKept
  <2>11. /\ s.pc # "post"
         /\ s.gen # 0 => \A v \in Writers : v # w => writer[v].gen # s.gen
    BY <1>3, <2>4, <2>6
  <2> QED
    BY <1>3, <1>4, <1>5, <2>3, <2>5, <2>8, <2>9, <2>10, <2>11, ClaimStep
<1> QED
  BY <1>6, <1>7

-----------------------------------------------------------------------------
(* The attempt and its request.                                            *)

\* The one step by which a row comes to be: its request was never sent.
LEMMA PrepareStep ==
    ASSUME IInv, NEW w \in Writers, Prepare(w)
    PROVE  IInv'
<1> DEFINE k == writer[w].key
           s == [writer[w] EXCEPT !.pc = "post", !.state = "PREPARED", !.fenced = FALSE]
           row == [state |-> "PREPARED", gen |-> writer[w].gen]
<1>1. /\ CanPrepare(k)
      /\ attempt' = [attempt EXCEPT ![k] = row]
      /\ Moved(w, s)
      /\ UNCHANGED <<lease, exchange, posts, faults>>
  BY DEF Prepare, Moved
<1>2. /\ writer[w] \in WriterStates
      /\ writer[w].pc = "prepare"
      /\ writer[w].gen # 0
      /\ writer[w].gen \in 0 .. MaxGeneration
      /\ k \in Keys
      /\ k[1] \in Approvals
  BY OrderKeys DEF Prepare, At, IInv, WriterTypeOK, WriterStates, GenOK, Idle
<1>3. /\ s \in WriterStates
      /\ s.pc = "post" /\ s.state = "PREPARED" /\ s.key = k /\ s.gen = writer[w].gen
  BY <1>2, Names DEF WriterStates
<1>4. /\ attempt[k].state = "ABSENT"
      /\ \A j \in Keys : ~Pending(j)
  BY <1>1 DEF CanPrepare
<1>5. /\ \A j \in Keys : attempt'[j] = IF j = k THEN row ELSE attempt[j]
      /\ attempt' \in [Keys -> Rows]
  <2>1. row \in Rows
    BY <1>2, Names DEF Rows
  <2> QED
    BY <1>1, <2>1 DEF IInv, WriterTypeOK
<1>6. KeepsGen(w, s)
  BY <1>2, <1>3 DEF KeepsGen
<1> HIDE DEF s
<1>7. /\ \A v \in Writers : GenOK(v)'
      /\ OwnGeneration'
      /\ LeaseOK'
      /\ \A v \in Writers : writer'[v] = IF v = w THEN s ELSE writer[v]
      /\ \A v \in Writers : v # w => writer[v].gen # writer[w].gen
  BY <1>1, <1>2, <1>3, <1>6, GenerationsKept
<1>8. WriterTypeOK'
  <2>1. order' \in [Approvals -> OrderRows]
    <3>1. [status |-> "PREPARED", body |-> IF IsOrder(k) THEN "ORDER" ELSE "LEVERAGE"] \in OrderRows
      BY Names DEF OrderRows
    <3> QED
      BY <1>2, <3>1 DEF Prepare, IInv, WriterTypeOK
  <2>2. grant' \in [Approvals -> {"NONE", "ACTIVE", "CONSUMED", "EXPIRED"}]
    BY <1>2 DEF Prepare, IInv, WriterTypeOK
  <2>3. writer' \in [Writers -> WriterStates]
    BY <1>1, <1>3 DEF Moved, IInv, WriterTypeOK
  <2> QED
    BY <1>1, <1>5, <2>1, <2>2, <2>3 DEF IInv, WriterTypeOK, exchange
<1>9. \A j \in Keys : RowOK(j)'
  BY <1>1, <1>2, <1>4, <1>5 DEF IInv, RowOK, Shown, exchange
<1>10. ASSUME NEW v \in Writers
       PROVE  (PhaseOK(writer[v]) /\ KnowsOK(writer[v]))'
  <2>1. /\ PhaseOK(writer[v]) /\ KnowsOK(writer[v])
        /\ writer[v].key \in Keys
        /\ RowOK(k)
    BY <1>2 DEF IInv, WriterTypeOK, WriterStates
  <2>2. CASE v = w
    <3>1. writer'[v] = s /\ attempt'[k] = row
      BY <1>2, <1>5, <1>7, <2>2
    <3>2. PhaseOK(writer[v])'
      BY <1>1, <1>3, <1>4, <2>1, <3>1 DEF PhaseOK, RowOK
    <3> QED
      BY <1>3, <3>1, <3>2 DEF KnowsOK
  <2>3. CASE v # w
    <3>1. writer'[v] = writer[v]
      BY <1>7, <2>3
    <3>2. PhaseOK(writer[v])'
      BY <1>1, <1>5, <2>1, <3>1 DEF PhaseOK, Shown, Truthful, exchange
    <3>3. KnowsOK(writer[v])'
      BY <1>5, <1>7, <2>1, <2>3, <3>1 DEF KnowsOK
    <3> QED
      BY <3>2, <3>3
  <2> QED
    BY <2>2, <2>3
<1>11. OneUnresolved'
  BY <1>4, <1>5 DEF OneUnresolved, Pending
<1>12. (\A a \in Approvals : Truthful(a, order[a].status))'
  <2>1. \A a \in Approvals : order'[a].status \in {order[a].status, "PREPARED"}
    BY <1>2 DEF Prepare, IInv, WriterTypeOK
  <2>2. "PREPARED" \notin TerminalOrderStates
    BY DEF TerminalOrderStates
  <2> QED
    BY <1>1, <2>1, <2>2 DEF IInv, Truthful, exchange
<1>13. OneSender'
  <2>1. \A v \in Writers : v # w /\ At(v, "post") => writer[v].key # k
    BY <1>4 DEF IInv, PhaseOK, At
  <2> QED
    BY <1>3, <1>7, <2>1 DEF IInv, OneSender, At
<1> QED
  BY <1>7, <1>8, <1>9, <1>10, <1>11, <1>13, <1>12 DEF IInv

\* The one step that sends: a second sender of the key does not exist.
LEMMA PostStep ==
    ASSUME IInv, NEW w \in Writers, Post(w)
    PROVE  IInv'
<1> DEFINE k == writer[w].key
           s == [writer[w] EXCEPT !.pc = "sent", !.fenced = FALSE]
<1>1. /\ wire' = wire \cup {k}
      /\ posts' = [posts EXCEPT ![k] = posts[k] + 1]
      /\ Moved(w, s)
      /\ UNCHANGED <<attempt, order, grant, lease, answer, market, position, leverage, faults>>
  BY DEF Post, Goto, Moved, journal
<1>2. /\ writer[w] \in WriterStates
      /\ writer[w].pc = "post"
      /\ writer[w].gen # 0
      /\ k \in Keys
      /\ PhaseOK(writer[w]) /\ KnowsOK(writer[w])
  BY DEF Post, At, IInv, WriterTypeOK, WriterStates, GenOK, Idle
<1>3. /\ s \in WriterStates
      /\ s.pc = "sent" /\ s.key = k /\ s.gen = writer[w].gen /\ s.state = writer[w].state
  BY <1>2, Names DEF WriterStates
<1>4. posts[k] = 0 /\ attempt[k].state # "ABSENT"
  BY <1>2 DEF PhaseOK
<1>5. \A j \in Keys : posts'[j] = IF j = k THEN 1 ELSE posts[j]
  BY <1>1, <1>4 DEF IInv, WriterTypeOK
<1>6. KeepsGen(w, s)
  BY <1>2, <1>3 DEF KeepsGen
<1> HIDE DEF s
<1>7. /\ \A v \in Writers : GenOK(v)'
      /\ OwnGeneration'
      /\ LeaseOK'
      /\ \A v \in Writers : writer'[v] = IF v = w THEN s ELSE writer[v]
  BY <1>1, <1>3, <1>6, GenerationsKept
<1>8. WriterTypeOK'
  BY <1>1, <1>2, <1>3 DEF Moved, IInv, WriterTypeOK
<1>9. ASSUME NEW j \in Keys
      PROVE  RowOK(j)'
  <2>1. RowOK(j) /\ RowOK(k)
    BY <1>2 DEF IInv
  <2>2. answer[k] = "NONE"
    BY <1>4, <2>1 DEF RowOK
  <2> QED
    BY <1>1, <1>4, <1>5, <2>1, <2>2 DEF RowOK, Shown
<1>10. ASSUME NEW v \in Writers
       PROVE  (PhaseOK(writer[v]) /\ KnowsOK(writer[v]))'
  <2>1. PhaseOK(writer[v]) /\ KnowsOK(writer[v]) /\ writer[v].key \in Keys
    BY DEF IInv, WriterTypeOK, WriterStates
  <2>2. CASE v = w
    <3>1. writer'[v] = s
      BY <1>7, <2>2
    <3> QED
      BY <1>1, <1>2, <1>3, <3>1 DEF PhaseOK, KnowsOK, Knowing
  <2>3. CASE v # w
    <3>1. writer'[v] = writer[v]
      BY <1>7, <2>3
    <3>2. writer[v].pc = "post" => writer[v].key # k
      BY <1>2, <2>3 DEF IInv, OneSender, At
    <3>3. PhaseOK(writer[v])'
      BY <1>1, <1>5, <2>1, <3>1, <3>2 DEF PhaseOK, Shown, Truthful
    <3> QED
      BY <1>1, <2>1, <3>1, <3>3 DEF KnowsOK
  <2> QED
    BY <2>2, <2>3
<1>11. OneUnresolved' /\ (\A a \in Approvals : Truthful(a, order[a].status))'
  BY <1>1 DEF IInv, OneUnresolved, Pending, Truthful
<1>12. OneSender'
  BY <1>3, <1>7 DEF IInv, OneSender, At
<1> QED
  BY <1>7, <1>8, <1>9, <1>10, <1>11, <1>12 DEF IInv

-----------------------------------------------------------------------------
(* What one writer learns or decides.                                      *)

\* A state that Unassigned gives relies on nothing.
LEMMA UnassignedOK ==
    ASSUME NEW w \in Writers, NEW pc \in Idle
    PROVE  /\ Unassigned(pc) \in WriterStates
           /\ Unassigned(pc).pc = pc
           /\ Unassigned(pc).gen = 0
           /\ KeepsGen(w, Unassigned(pc))
           /\ PhaseOK(Unassigned(pc)) /\ KnowsOK(Unassigned(pc))
<1>1. pc \in Phases
  BY Names DEF Idle
<1>2. Unassigned(pc).pc = pc /\ Unassigned(pc).gen = 0
  BY DEF Unassigned
<1> QED
  BY <1>1, <1>2, UnassignedType DEF KeepsGen, PhaseOK, KnowsOK, Idle, Knowing

\* A writer that ends its call forgets what it knew.
LEMMA LeaveStep ==
    ASSUME IInv, NEW w \in Writers, Leave(w),
           UNCHANGED <<journal, lease, exchange, posts, faults>>
    PROVE  IInv'
<1>1. Moved(w, Unassigned("idle")) /\ "idle" \in Idle
  BY DEF Leave, Moved, Idle
<1>2. Unassigned("idle").pc # "post"
  BY DEF Unassigned
<1> QED
  BY <1>1, <1>2, UnassignedOK, LocalStep

\* A writer inside a call moves on with what it knows.
LEMMA MoveStep ==
    ASSUME IInv, NEW w \in Writers, NEW s \in WriterStates, Moved(w, s),
           UNCHANGED <<journal, lease, exchange, posts, faults>>,
           writer[w].pc \notin Idle, s.gen = writer[w].gen, s.pc # "post", PhaseOK(s),
           s.pc \in Knowing => /\ writer[w].pc \in Knowing
                               /\ s.key = writer[w].key
                               /\ s.state = writer[w].state
    PROVE  IInv'
<1>1. GenOK(w) /\ KnowsOK(writer[w])
  BY DEF IInv
<1>2. KeepsGen(w, s)
  BY <1>1 DEF KeepsGen, GenOK
<1>3. KnowsOK(s)
  BY <1>1 DEF KnowsOK
<1> QED
  BY <1>2, <1>3, LocalStep

\* An answer or a sight of the exchange becomes the event to record.
LEMMA DecideStep ==
    ASSUME IInv, NEW w \in Writers, NEW pc \in {"record", "settle", "doubt"}, NEW event \in Events,
           Decide(w, pc, event), UNCHANGED <<journal, lease, exchange, posts, faults>>,
           writer[w].pc \in Knowing,
           pc = "record" =>
               /\ event \in {"ACKNOWLEDGE", "EXPLICIT_REJECTION", "OUTCOME_UNKNOWN"}
               /\ event = "EXPLICIT_REJECTION" => answer[writer[w].key] = "REJECT",
           pc = "settle" =>
               /\ event \in {"RECONCILE", "RESIDUAL_DETECTED"}
               /\ Shown(writer[w].key)
               /\ Truthful(writer[w].key[1], writer[w].seen) /\ writer[w].seen # "NONE",
           pc = "doubt" => event \in Undecided
    PROVE  IInv'
<1>1. PICK s : s = [writer[w] EXCEPT !.pc = pc, !.event = event, !.fenced = FALSE]
  OBVIOUS
<1>2. writer[w] \in WriterStates /\ pc \in Phases
  BY Names DEF IInv, WriterTypeOK
<1>3. s \in WriterStates
  BY <1>1, <1>2, Zenon DEF WriterStates
<1>4. /\ s.pc = pc /\ s.event = event /\ s.key = writer[w].key /\ s.gen = writer[w].gen
      /\ s.state = writer[w].state /\ s.seen = writer[w].seen
  BY <1>1, <1>2 DEF WriterStates
<1>5. Moved(w, s)
  BY <1>1 DEF Decide, Moved
<1>6. PhaseOK(s)
  BY <1>4 DEF PhaseOK
<1>7. s.pc # "post" /\ writer[w].pc \notin Idle
  BY <1>4 DEF Idle, Knowing
<1> QED
  BY <1>3, <1>4, <1>5, <1>6, <1>7, MoveStep

\* A call whose outcome it can not tell records no more than that.
LEMMA InDoubtStep ==
    ASSUME IInv, NEW w \in Writers, InDoubt(w), writer[w].pc \in Knowing,
           UNCHANGED <<journal, lease, exchange, posts, faults>>
    PROVE  IInv'
<1>1. PICK event : event = DoubtEvent(writer[w].state)
  OBVIOUS
<1>2. event \in Undecided /\ event \in Events
  BY <1>1, Names DEF DoubtEvent, Undecided
<1>3. Decide(w, "doubt", event)
  BY <1>1 DEF InDoubt
<1> QED
  BY <1>2, <1>3, DecideStep

\* The unlocked lease check changes only what the writer remembers.
LEMMA FenceStep ==
    ASSUME IInv, NEW w \in Writers, Fence(w)
    PROVE  IInv'
<1>1. /\ writer[w].pc \in FencedPhases
      /\ writer[w] \in WriterStates
      /\ PhaseOK(writer[w])
      /\ UNCHANGED <<journal, lease, exchange, posts, faults>>
  BY DEF Fence, IInv, WriterTypeOK
<1>2. CASE lease.holder = w /\ lease.gen = writer[w].gen /\ lease.live
  <2>1. PICK s : s = [writer[w] EXCEPT !.fenced = TRUE]
    OBVIOUS
  <2>2. s \in WriterStates
    BY <1>1, <2>1, Zenon DEF WriterStates
  <2>3. /\ s.pc = writer[w].pc /\ s.event = writer[w].event /\ s.key = writer[w].key
        /\ s.gen = writer[w].gen /\ s.state = writer[w].state /\ s.seen = writer[w].seen
    BY <1>1, <2>1 DEF WriterStates
  <2>4. Moved(w, s)
    BY <1>2, <2>1 DEF Fence, Moved
  <2>5. PhaseOK(s)
    BY <1>1, <2>3 DEF PhaseOK
  <2>6. s.pc # "post" /\ writer[w].pc \notin Idle
    BY <1>1, <2>3 DEF Idle, FencedPhases
  <2> QED
    BY <1>1, <2>2, <2>3, <2>4, <2>5, <2>6, MoveStep
<1>3. CASE ~(lease.holder = w /\ lease.gen = writer[w].gen /\ lease.live)
  <2>1. CASE At(w, "settle")
    <3>1. InDoubt(w) /\ writer[w].pc \in Knowing
      BY <1>3, <2>1 DEF Fence, At, Knowing
    <3> QED
      BY <1>1, <3>1, InDoubtStep
  <2>2. CASE ~At(w, "settle")
    BY <1>1, <1>3, <2>2, LeaveStep DEF Fence
  <2> QED
    BY <2>1, <2>2
<1> QED
  BY <1>2, <1>3

\* A call that finds nothing pending goes on to its own operation.
LEMMA NothingUnresolvedStep ==
    ASSUME IInv, NEW w \in Writers, NothingUnresolved(w)
    PROVE  IInv'
<1>1. PICK s : s = [writer[w] EXCEPT
                    !.pc = IF writer[w].goal = "PLACE" THEN "leverage" ELSE "prepare",
                    !.fenced = FALSE]
  OBVIOUS
<1>2. /\ writer[w] \in WriterStates
      /\ writer[w].pc = "unresolved"
      /\ Moved(w, s)
      /\ UNCHANGED <<journal, lease, exchange, posts, faults>>
  BY <1>1 DEF NothingUnresolved, Goto, Moved, At, IInv, WriterTypeOK
<1>3. s.pc \in {"leverage", "prepare"} /\ s.gen = writer[w].gen
  BY <1>1, <1>2 DEF WriterStates
<1>4. s \in WriterStates
  BY <1>1, <1>2, Names DEF WriterStates
<1>5. PhaseOK(s) /\ s.pc # "post" /\ s.pc \notin Knowing /\ writer[w].pc \notin Idle
  BY <1>2, <1>3 DEF PhaseOK, Knowing, Idle
<1> QED
  BY <1>2, <1>3, <1>4, <1>5, MoveStep

\* The leverage that was read decides which request comes first.
LEMMA ReadLeverageStep ==
    ASSUME IInv, NEW w \in Writers, ReadLeverage(w)
    PROVE  IInv'
<1>1. PICK k : k = IF writer[w].key[1] \in leverage
                   THEN OrderKey(writer[w].key[1]) ELSE <<writer[w].key[1], "SET_LEVERAGE">>
  OBVIOUS
<1>2. PICK s : s = [writer[w] EXCEPT !.pc = "prepare", !.key = k]
  OBVIOUS
<1>3. /\ writer[w] \in WriterStates
      /\ writer[w].pc = "leverage"
      /\ Moved(w, s)
      /\ UNCHANGED <<journal, lease, exchange, posts, faults>>
  BY <1>1, <1>2 DEF ReadLeverage, Moved, At, IInv, WriterTypeOK
<1>4. k \in Keys
  BY <1>1, <1>3, OrderKeys DEF WriterStates
<1>5. s \in WriterStates
  BY <1>2, <1>3, <1>4, Names DEF WriterStates
<1>6. s.pc = "prepare" /\ s.gen = writer[w].gen
  BY <1>2, <1>3 DEF WriterStates
<1>7. PhaseOK(s) /\ s.pc # "post" /\ s.pc \notin Knowing /\ writer[w].pc \notin Idle
  BY <1>3, <1>6 DEF PhaseOK, Knowing, Idle
<1> QED
  BY <1>3, <1>5, <1>6, <1>7, MoveStep

\* A position already gone settles a close whose order was seen ended.
LEMMA CleanupCloseStep ==
    ASSUME IInv, NEW w \in Writers, CleanupClose(w)
    PROVE  IInv'
<1>1. PICK s : s = [writer[w] EXCEPT !.pc = "record", !.event = "RECONCILE", !.seen = "position_zero"]
  OBVIOUS
<1>2. /\ writer[w] \in WriterStates
      /\ writer[w].pc = "cleanup"
      /\ PhaseOK(writer[w])
      /\ Moved(w, s)
      /\ UNCHANGED <<journal, lease, exchange, posts, faults>>
  BY <1>1 DEF CleanupClose, Moved, At, IInv, WriterTypeOK
<1>3. s \in WriterStates
  BY <1>1, <1>2, Names DEF WriterStates
<1>4. /\ s.pc = "record" /\ s.event = "RECONCILE" /\ s.seen = "position_zero"
      /\ s.gen = writer[w].gen /\ s.key = writer[w].key /\ s.state = writer[w].state
  BY <1>1, <1>2 DEF WriterStates
<1>5. PhaseOK(s) /\ s.pc # "post" /\ writer[w].pc \in Knowing /\ writer[w].pc \notin Idle
  BY <1>2, <1>4 DEF PhaseOK, Truthful, TerminalOrderStates, Knowing, Idle
<1> QED
  BY <1>2, <1>3, <1>4, <1>5, MoveStep

\* A rejection is decided only on the answer REJECT of the operation itself.
LEMMA AnsweredStep ==
    ASSUME IInv, NEW w \in Writers, Answered(w)
    PROVE  IInv'
<1>1. PICK event : event = IF answer[writer[w].key] = "ACK" THEN "ACKNOWLEDGE"
                           ELSE "EXPLICIT_REJECTION"
  OBVIOUS
<1>2. /\ Decide(w, "record", event)
      /\ writer[w].pc \in Knowing
      /\ answer[writer[w].key] \in {"ACK", "REJECT"}
      /\ UNCHANGED <<journal, lease, exchange, posts, faults>>
  BY <1>1 DEF Answered, At, Knowing, IInv, WriterTypeOK, WriterStates
<1>3. event \in {"ACKNOWLEDGE", "EXPLICIT_REJECTION"} /\ event \in Events
  BY <1>1, Names
<1>4. event = "EXPLICIT_REJECTION" => answer[writer[w].key] = "REJECT"
  BY <1>1, <1>2
<1> QED
  BY <1>2, <1>3, <1>4, DecideStep

\* A timeout decides nothing about the order.
LEMMA OutcomeUnknownStep ==
    ASSUME IInv, NEW w \in Writers, OutcomeUnknown(w)
    PROVE  IInv'
<1>1. Decide(w, "record", "OUTCOME_UNKNOWN") /\ writer[w].pc \in Knowing
  BY DEF OutcomeUnknown, At, Knowing
<1>2. "OUTCOME_UNKNOWN" \in Events
  BY Names
<1> QED
  BY <1>1, <1>2, DecideStep DEF OutcomeUnknown

\* What settles an attempt has been seen at the exchange.
LEMMA ShowsShown ==
    ASSUME IInv, NEW k \in Keys, Shows(k)
    PROVE  Shown(k) /\ (k[2] # "SET_LEVERAGE" => market[k[1]] \in OrderStates)
<1>1. market[k[1]] \in {"NONE", "live", "filled", "canceled"}
  BY OrderKeys DEF IInv, WriterTypeOK
<1>2. k[2] # "SET_LEVERAGE" => market[k[1]] # "NONE"
  <2>1. CASE k[2] = "SET_LEVERAGE"
    BY <2>1
  <2>2. CASE k[2] = "PLACE"
    BY <2>2 DEF Shows
  <2>3. CASE k[2] \notin {"SET_LEVERAGE", "PLACE"}
    BY <2>3 DEF Shows, TerminalOrderStates
  <2> QED
    BY <2>1, <2>2, <2>3
<1>3. k[2] \in {"CLOSE", "CANCEL"} => market[k[1]] \in TerminalOrderStates
  <2>1. CASE k[2] \in {"CLOSE", "CANCEL"}
    BY <2>1, Zenon DEF Shows
  <2> QED
    BY <2>1
<1> QED
  BY <1>1, <1>2, <1>3, Names DEF Shown

\* A read sees the order as the exchange has it.
LEMMA GetStep ==
    ASSUME IInv, NEW w \in Writers, Get(w)
    PROVE  IInv'
<1> DEFINE k == writer[w].key
<1>1. PICK event : event = Settling(k, writer[w].state)
  OBVIOUS
<1>2. PICK pc : pc = IF event = "RECONCILE" /\ k[2] = "CLOSE" THEN "position" ELSE "settle"
  OBVIOUS
<1>3. PICK seen : seen = IF k[2] = "SET_LEVERAGE" THEN "leverage_confirmed" ELSE market[k[1]]
  OBVIOUS
<1>4. PICK s : s = [writer[w] EXCEPT !.pc = pc, !.event = event, !.seen = seen]
  OBVIOUS
<1>5. /\ Shows(k)
      /\ Moved(w, s)
      /\ UNCHANGED <<journal, lease, exchange, posts, faults>>
  BY <1>1, <1>2, <1>3, <1>4 DEF Get, Moved
<1>6. writer[w] \in WriterStates /\ writer[w].pc = "get" /\ k \in Keys
  BY DEF Get, At, IInv, WriterTypeOK, WriterStates
<1>7. event \in {"ACKNOWLEDGE", "RECONCILE"} /\ event \in Events
  BY <1>1, Names DEF Settling
<1>8. pc \in {"position", "settle"} /\ pc \in Phases
  BY <1>2, Names
<1>9. Shown(k) /\ seen \in OrderStates
  BY <1>3, <1>5, <1>6, ShowsShown, Names
<1>10. seen # "NONE" /\ Truthful(k[1], seen)
  BY <1>3, <1>9 DEF OrderStates, TerminalOrderStates, Truthful
<1>11. s \in WriterStates
  BY <1>4, <1>6, <1>7, <1>8, <1>9 DEF WriterStates
<1>12. /\ s.pc = pc /\ s.event = event /\ s.seen = seen
       /\ s.gen = writer[w].gen /\ s.key = k /\ s.state = writer[w].state
  BY <1>4, <1>6 DEF WriterStates
<1>13. PhaseOK(s) /\ s.pc # "post" /\ writer[w].pc \in Knowing /\ writer[w].pc \notin Idle
  BY <1>6, <1>7, <1>8, <1>9, <1>10, <1>12 DEF PhaseOK, Knowing, Idle
<1> QED
  BY <1>5, <1>11, <1>12, <1>13, MoveStep

\* A read that fails shows nothing.
LEMMA GetFailsStep ==
    ASSUME IInv, NEW w \in Writers, GetFails(w)
    PROVE  IInv'
BY InDoubtStep DEF GetFails, Knowing

\* A close is settled by the position after the order was seen ended.
LEMMA ReadPositionStep ==
    ASSUME IInv, NEW w \in Writers, ReadPosition(w)
    PROVE  IInv'
<1>1. PICK event : event = IF position THEN "RESIDUAL_DETECTED" ELSE "RECONCILE"
  OBVIOUS
<1>2. /\ Decide(w, "settle", event)
      /\ writer[w].pc = "position"
      /\ PhaseOK(writer[w])
      /\ UNCHANGED <<journal, lease, exchange, posts, faults>>
  BY <1>1 DEF ReadPosition, At, IInv
<1>3. event \in {"RECONCILE", "RESIDUAL_DETECTED"} /\ event \in Events
  BY <1>1, Names
<1>4. /\ Shown(writer[w].key) /\ Truthful(writer[w].key[1], writer[w].seen)
      /\ writer[w].seen # "NONE" /\ writer[w].pc \in Knowing
  BY <1>2 DEF PhaseOK, Knowing
<1> QED
  BY <1>2, <1>3, <1>4, DecideStep

-----------------------------------------------------------------------------
(* Transitions.                                                            *)

\* A transition that ends the call.
LEMMA TransitionAndLeaveStep ==
    ASSUME IInv, NEW w \in Writers, Transition(w), Leave(w), UNCHANGED lease,
           writer[w].pc \in {"record", "settle", "doubt"}
    PROVE  IInv'
<1>1. PICK s : s = Unassigned("idle")
  OBVIOUS
<1>2. s \in WriterStates /\ s.pc = "idle" /\ KeepsGen(w, s) /\ Moved(w, s)
  BY <1>1, UnassignedOK DEF Leave, Moved, Idle
<1>3. PhaseOK(s)' /\ s.pc # "post" /\ s.pc \notin Knowing
  BY <1>2 DEF PhaseOK, Knowing
<1> QED
  BY <1>2, <1>3, TransitionStep

\* A transition after which the call goes on.
LEMMA TransitionAndMoveStep ==
    ASSUME IInv, NEW w \in Writers, NEW s \in WriterStates, Transition(w), Moved(w, s),
           UNCHANGED lease, writer[w].pc \in {"record", "settle", "doubt"},
           s.gen = writer[w].gen, s.pc # "post", PhaseOK(s)',
           s.pc \in Knowing => s.key = writer[w].key /\ s.state = NewState(w)
    PROVE  IInv'
<1>1. KeepsGen(w, s)
  BY DEF IInv, GenOK, KeepsGen, Idle
<1> QED
  BY <1>1, TransitionStep

\* The decided event is written, if the row is still the writer's.
LEMMA RecordStep ==
    ASSUME IInv, NEW w \in Writers, Record(w)
    PROVE  IInv'
<1>1. writer[w].pc = "record" /\ writer[w] \in WriterStates
  BY DEF Record, At, IInv, WriterTypeOK
<1>2. CASE Transition(w)
           /\ IF NewState(w) \in Unresolved
              THEN Moved(w, [writer[w] EXCEPT !.pc = "get", !.state = NewState(w), !.fenced = FALSE])
              ELSE Leave(w)
  <2>1. UNCHANGED lease
    BY <1>2 DEF Transition
  <2>2. CASE NewState(w) \in Unresolved
    <3>1. PICK state : state = NewState(w)
      OBVIOUS
    <3>2. PICK s : s = [writer[w] EXCEPT !.pc = "get", !.state = state, !.fenced = FALSE]
      OBVIOUS
    <3>3. Moved(w, s)
      BY <1>2, <2>2, <3>1, <3>2
    <3>4. state \in WriteStates
      BY <2>2, <3>1, Names
    <3>5. s \in WriterStates
      BY <1>1, <3>2, <3>4, Names DEF WriterStates
    <3>6. s.pc = "get" /\ s.gen = writer[w].gen /\ s.key = writer[w].key /\ s.state = NewState(w)
      BY <1>1, <3>1, <3>2 DEF WriterStates
    <3>7. PhaseOK(s)' /\ s.pc # "post"
      BY <3>6 DEF PhaseOK
    <3> QED
      BY <1>1, <1>2, <2>1, <3>3, <3>5, <3>6, <3>7, TransitionAndMoveStep
  <2>3. CASE NewState(w) \notin Unresolved
    BY <1>1, <1>2, <2>1, <2>3, TransitionAndLeaveStep
  <2> QED
    BY <2>2, <2>3
<1>3. CASE Leave(w) /\ UNCHANGED <<journal, lease, exchange, posts, faults>>
  BY <1>3, LeaveStep
<1> QED
  BY <1>2, <1>3 DEF Record, Moved

\* What was seen at the exchange is written, if the row is still the writer's.
LEMMA SettleStep ==
    ASSUME IInv, NEW w \in Writers, Settle(w)
    PROVE  IInv'
<1> DEFINE k == writer[w].key
<1>1. /\ writer[w].pc = "settle"
      /\ writer[w] \in WriterStates
      /\ PhaseOK(writer[w])
      /\ k \in Keys
  BY DEF Settle, At, IInv, WriterTypeOK, WriterStates
<1>2. Shown(k) /\ Truthful(k[1], writer[w].seen) /\ writer[w].seen # "NONE"
  BY <1>1 DEF PhaseOK
<1>3. ASSUME Transition(w)
      PROVE  UNCHANGED lease /\ UNCHANGED market
  BY <1>3 DEF Transition, exchange
<1>4. CASE Transition(w) /\ writer[w].event = "ACKNOWLEDGE"
           /\ Moved(w, [writer[w] EXCEPT !.pc = IF k[2] = "CLOSE" THEN "position" ELSE "settle",
                        !.event = "RECONCILE", !.state = "ACKNOWLEDGED", !.fenced = FALSE])
  <2>1. PICK pc : pc = IF k[2] = "CLOSE" THEN "position" ELSE "settle"
    OBVIOUS
  <2>2. PICK s : s = [writer[w] EXCEPT !.pc = pc, !.event = "RECONCILE",
                                       !.state = "ACKNOWLEDGED", !.fenced = FALSE]
    OBVIOUS
  <2>3. Moved(w, s)
    BY <1>4, <2>1, <2>2
  <2>4. pc \in {"position", "settle"} /\ pc \in Phases
    BY <2>1, Names
  <2>5. s \in WriterStates
    BY <1>1, <2>2, <2>4, Names DEF WriterStates
  <2>6. /\ s.pc = pc /\ s.event = "RECONCILE" /\ s.seen = writer[w].seen
        /\ s.gen = writer[w].gen /\ s.key = k /\ s.state = "ACKNOWLEDGED"
    BY <1>1, <2>2 DEF WriterStates
  <2>7. After(writer[w].state, "ACKNOWLEDGE") # "INVALID"
    BY <1>4 DEF Transition, RowMatches
  <2>8. NewState(w) = "ACKNOWLEDGED"
    BY <1>4, <2>7, Zenon DEF NewState, After
  <2>9. PhaseOK(s)' /\ s.pc # "post"
    BY <1>2, <1>3, <1>4, <2>4, <2>6 DEF PhaseOK, Shown, Truthful
  <2> QED
    BY <1>1, <1>3, <1>4, <2>3, <2>5, <2>6, <2>8, <2>9, TransitionAndMoveStep
<1>5. CASE Transition(w)
           /\ Moved(w, [writer[w] EXCEPT !.pc = "prepare", !.key = OrderKey(k[1]), !.fenced = FALSE])
  <2>1. PICK j : j = OrderKey(k[1])
    OBVIOUS
  <2>2. PICK s : s = [writer[w] EXCEPT !.pc = "prepare", !.key = j, !.fenced = FALSE]
    OBVIOUS
  <2>3. Moved(w, s)
    BY <1>5, <2>1, <2>2
  <2>4. j \in Keys
    BY <1>1, <2>1, OrderKeys
  <2>5. s \in WriterStates
    BY <1>1, <2>2, <2>4, Names DEF WriterStates
  <2>6. s.pc = "prepare" /\ s.gen = writer[w].gen
    BY <1>1, <2>2 DEF WriterStates
  <2>7. PhaseOK(s)' /\ s.pc # "post" /\ s.pc \notin Knowing
    BY <2>6 DEF PhaseOK, Knowing
  <2> QED
    BY <1>1, <1>3, <1>5, <2>3, <2>5, <2>6, <2>7, TransitionAndMoveStep
<1>6. CASE Transition(w) /\ Leave(w)
  BY <1>1, <1>3, <1>6, TransitionAndLeaveStep
<1>7. CASE (InDoubt(w) \/ Leave(w)) /\ UNCHANGED <<journal, lease, exchange, posts, faults>>
  BY <1>1, <1>7, InDoubtStep, LeaveStep DEF Knowing
<1>8. \/ Transition(w) /\ writer[w].event = "ACKNOWLEDGE"
         /\ Moved(w, [writer[w] EXCEPT !.pc = IF k[2] = "CLOSE" THEN "position" ELSE "settle",
                      !.event = "RECONCILE", !.state = "ACKNOWLEDGED", !.fenced = FALSE])
      \/ Transition(w)
         /\ Moved(w, [writer[w] EXCEPT !.pc = "prepare", !.key = OrderKey(k[1]), !.fenced = FALSE])
      \/ Transition(w) /\ Leave(w)
      \/ (InDoubt(w) \/ Leave(w)) /\ UNCHANGED <<journal, lease, exchange, posts, faults>>
  BY Zenon DEF Settle, Moved
<1> QED
  BY <1>4, <1>5, <1>6, <1>7, <1>8

\* The doubt is written, if the row is still the writer's.
LEMMA DoubtStep ==
    ASSUME IInv, NEW w \in Writers, Doubt(w)
    PROVE  IInv'
<1>1. writer[w].pc = "doubt" /\ Leave(w)
  BY DEF Doubt, At
<1>2. CASE Transition(w)
  BY <1>1, <1>2, TransitionAndLeaveStep DEF Transition
<1>3. CASE UNCHANGED <<journal, lease, exchange, posts, faults>>
  BY <1>1, <1>3, LeaveStep
<1> QED
  BY <1>2, <1>3 DEF Doubt

-----------------------------------------------------------------------------
(* Processes, and every step.                                              *)

\* A crash loses only the memory of one process.
LEMMA CrashStep ==
    ASSUME IInv, NEW w \in Writers, Crash(w)
    PROVE  IInv'
<1>1. PICK s : s = Unassigned("down")
  OBVIOUS
<1>2. /\ s \in WriterStates
      /\ s.pc = "down"
      /\ s.gen = 0
      /\ PhaseOK(s)
  BY <1>1, UnassignedOK DEF Idle
<1>3. /\ Moved(w, s)
      /\ lease' = IF lease.holder = w THEN [lease EXCEPT !.holder = Nobody] ELSE lease
      /\ faults' = faults + 1
      /\ faults < MaxFaults
      /\ UNCHANGED <<attempt, order, grant, exchange, posts>>
  BY <1>1 DEF Crash, Moved, journal
<1>4. /\ lease \in Leases /\ LeaseOK
      /\ attempt \in [Keys -> Rows]
      /\ faults \in 0 .. MaxFaults
      /\ \A v \in Writers : GenOK(v) /\ writer[v].gen \in 0 .. MaxGeneration
  BY DEF IInv, WriterTypeOK, WriterStates
<1>5. lease' \in Leases /\ lease'.gen = lease.gen /\ LeaseOK'
      /\ (lease.holder # w => lease' = lease)
  BY <1>3, <1>4 DEF Leases, LeaseOK
<1>6. faults' \in 0 .. MaxFaults
  BY <1>3, <1>4, BoundsAssumption
<1>7. \A v \in Writers : writer'[v] = IF v = w THEN s ELSE writer[v]
  BY <1>3 DEF IInv, WriterTypeOK, Moved
<1>8. ASSUME NEW v \in Writers
      PROVE  GenOK(v)'
  <2>1. lease.gen \in Nat
    BY <1>4, BoundsAssumption DEF Leases
  <2>2. CASE v = w
    BY <1>2, <1>5, <1>7, <2>1, <2>2 DEF GenOK, Idle
  <2>3. CASE v # w
    BY <1>4, <1>5, <1>7, <2>3 DEF GenOK
  <2> QED
    BY <2>2, <2>3
<1>9. KnowsOK(s)' /\ s.pc # "post"
  BY <1>2 DEF KnowsOK, Knowing
<1>10. PICK g : g = MaxGeneration + 1
  OBVIOUS
<1>11. \A v \in Writers : v # w => writer[v].gen # g
  BY <1>4, <1>10, BoundsAssumption
<1>12. /\ attempt' \in [Keys -> Rows]
       /\ \A k \in Keys : /\ attempt'[k].state = attempt[k].state
                          /\ attempt'[k].gen \in {attempt[k].gen, g}
  BY <1>3, <1>4
<1>13. UNCHANGED <<order, grant, exchange, posts>> /\ lease' \in Leases /\ LeaseOK'
  BY <1>3, <1>5
<1>14. /\ s.gen # 0 => \A v \in Writers : v # w => writer[v].gen # s.gen
       /\ Moved(w, s)
       /\ PhaseOK(s)
       /\ s \in WriterStates
  BY <1>2, <1>3
<1> QED
  BY <1>6, <1>8, <1>9, <1>11, <1>12, <1>13, <1>14, ClaimStep

\* A restarted process has no generation until it acquires the lease.
LEMMA RestartStep ==
    ASSUME IInv, NEW w \in Writers, Restart(w)
    PROVE  IInv'
BY LeaveStep DEF Restart

\* Renewal and lapse of the lease.
LEMMA LeaseSteps ==
    ASSUME IInv, \/ \E w \in Writers : KeepLease(w)
                 \/ AbandonedLeaseLapses \/ HeldLeaseLapses
    PROVE  IInv'
<1>1. /\ \/ lease' = [lease EXCEPT !.live = TRUE]
         \/ lease' = [lease EXCEPT !.live = FALSE]
      /\ UNCHANGED <<journal, writer, exchange, posts>>
  BY DEF KeepLease, AbandonedLeaseLapses, HeldLeaseLapses
<1>2. faults' \in 0 .. MaxFaults
  BY BoundsAssumption DEF KeepLease, AbandonedLeaseLapses, HeldLeaseLapses, IInv, WriterTypeOK
<1> QED
  BY <1>1, <1>2, LeaseTimeStep

\* Grants run out.
LEMMA ExpireGrantStep ==
    ASSUME IInv, NEW a \in Approvals, ExpireGrant(a)
    PROVE  IInv'
<1>1. grant' \in [Approvals -> {"NONE", "ACTIVE", "CONSUMED", "EXPIRED"}] /\ position' \in BOOLEAN
  BY DEF ExpireGrant, IInv, WriterTypeOK, exchange
<1>2. UNCHANGED <<attempt, order, lease, writer, wire, answer, market, leverage, posts, faults>>
  BY DEF ExpireGrant, exchange
<1> QED
  BY <1>1, <1>2, OutsideStep

\* A reconciliation run writes what it saw in order rows, and offers grants.
LEMMA ReconciliationStep ==
    ASSUME IInv, ReconciliationCommits
    PROVE  IInv'
<1>1. PICK seen \in SUBSET {a \in Approvals : Identified(a)}, open \in SUBSET Approvals :
        /\ order' = [a \in Approvals |->
              IF a \in seen THEN [order[a] EXCEPT !.status = IF a \in open THEN "live" ELSE market[a]]
              ELSE order[a]]
        /\ \E offered \in SUBSET Approvals :
              grant' = [a \in Approvals |-> IF a \in offered THEN "ACTIVE" ELSE grant[a]]
        /\ UNCHANGED <<attempt, lease, writer, exchange, posts, faults>>
  <2>1. PICK seen \in SUBSET {a \in Approvals : Identified(a)} :
        \E open \in SUBSET seen :
        \E offered \in SUBSET {a \in Openings \cup Reductions : Offerable(a)} :
        LET shown(a) == IF a \in open THEN "live" ELSE market[a] IN
        /\ \A a \in seen : TriggerAllows(a, shown(a), order[a].body)
        /\ order' = [a \in Approvals |->
                IF a \in seen THEN [order[a] EXCEPT !.status = shown(a)] ELSE order[a]]
        /\ grant' = [a \in Approvals |-> IF a \in offered THEN "ACTIVE" ELSE grant[a]]
        /\ UNCHANGED <<attempt, lease, writer, exchange, posts, faults>>
    BY DEF ReconciliationCommits
  <2>2. PICK open \in SUBSET seen :
        \E offered \in SUBSET {a \in Openings \cup Reductions : Offerable(a)} :
        LET shown(a) == IF a \in open THEN "live" ELSE market[a] IN
        /\ \A a \in seen : TriggerAllows(a, shown(a), order[a].body)
        /\ order' = [a \in Approvals |->
                IF a \in seen THEN [order[a] EXCEPT !.status = shown(a)] ELSE order[a]]
        /\ grant' = [a \in Approvals |-> IF a \in offered THEN "ACTIVE" ELSE grant[a]]
        /\ UNCHANGED <<attempt, lease, writer, exchange, posts, faults>>
    BY <2>1
  <2>5. PICK offered \in SUBSET {a \in Openings \cup Reductions : Offerable(a)} :
        LET shown(a) == IF a \in open THEN "live" ELSE market[a] IN
        /\ \A a \in seen : TriggerAllows(a, shown(a), order[a].body)
        /\ order' = [a \in Approvals |->
                IF a \in seen THEN [order[a] EXCEPT !.status = shown(a)] ELSE order[a]]
        /\ grant' = [a \in Approvals |-> IF a \in offered THEN "ACTIVE" ELSE grant[a]]
        /\ UNCHANGED <<attempt, lease, writer, exchange, posts, faults>>
    BY <2>2
  <2>3. Openings \cup Reductions \subseteq Approvals
    BY ApprovalsAssumption DEF Approvals
  <2>4. \A T \in SUBSET {a \in Openings \cup Reductions : Offerable(a)} : T \in SUBSET Approvals
    BY <2>3
  <2> QED
    BY <2>5, <2>4 DEF Identified
<1>2. /\ order \in [Approvals -> OrderRows]
      /\ market \in [Approvals -> {"NONE", "live", "filled", "canceled"}]
      /\ grant \in [Approvals -> {"NONE", "ACTIVE", "CONSUMED", "EXPIRED"}]
  BY DEF IInv, WriterTypeOK
<1>3. \A a \in seen : market[a] \in {"live", "filled", "canceled"}
  BY <1>2 DEF Identified
<1>4. order' \in [Approvals -> OrderRows]
  <2>1. ASSUME NEW a \in Approvals PROVE order'[a] \in OrderRows
    <3>1. order[a] \in OrderRows
      BY <1>2
    <3>2. CASE a \in seen
      <4>1. order'[a] = [order[a] EXCEPT !.status = IF a \in open THEN "live" ELSE market[a]]
        BY <1>1, <3>2
      <4>2. (IF a \in open THEN "live" ELSE market[a]) \in OrderStates
        BY <1>3, <3>2 DEF OrderStates, TerminalOrderStates
      <4> QED
        BY <3>1, <4>1, <4>2 DEF OrderRows
    <3> QED
      BY <1>1, <3>1, <3>2
  <2> QED
    BY <1>1, <2>1
<1>5. grant' \in [Approvals -> {"NONE", "ACTIVE", "CONSUMED", "EXPIRED"}]
  BY <1>1, <1>2
<1>6. WriterTypeOK'
  BY <1>1, <1>4, <1>5 DEF IInv, WriterTypeOK, exchange
<1>7. \A k \in Keys : RowOK(k)'
  BY <1>1 DEF IInv, RowOK, Shown, exchange
<1>8. \A w \in Writers : (PhaseOK(writer[w]) /\ KnowsOK(writer[w]) /\ GenOK(w))'
  BY <1>1 DEF IInv, PhaseOK, KnowsOK, GenOK, Shown, Truthful, exchange
<1>9. (\A a \in Approvals : Truthful(a, order[a].status))'
  <2>1. ASSUME NEW a \in Approvals PROVE Truthful(a, order[a].status)'
    <3>1. Truthful(a, order[a].status) /\ market' = market /\ order[a] \in OrderRows
      BY <1>1, <1>2 DEF IInv, exchange
    <3>2. order'[a].status = order[a].status \/ order'[a].status \in {"live", market[a]}
      BY <1>1, <3>1 DEF OrderRows
    <3> QED
      BY <3>1, <3>2 DEF Truthful, TerminalOrderStates
  <2> QED
    BY <2>1
<1>10. (LeaseOK /\ OneUnresolved /\ OneSender /\ OwnGeneration)'
  BY <1>1 DEF IInv, LeaseOK, OneUnresolved, Pending, OneSender, At, OwnGeneration
<1> QED
  BY <1>6, <1>7, <1>8, <1>9, <1>10 DEF IInv

\* An attached take-profit or stop-loss closes the position.
LEMMA ProtectionStep ==
    ASSUME IInv, ProtectionTriggers
    PROVE  IInv'
<1>1. grant' \in [Approvals -> {"NONE", "ACTIVE", "CONSUMED", "EXPIRED"}] /\ position' \in BOOLEAN
  BY DEF ProtectionTriggers, IInv, WriterTypeOK, journal
<1>2. UNCHANGED <<attempt, order, lease, writer, wire, answer, market, leverage, posts, faults>>
  BY DEF ProtectionTriggers, journal
<1> QED
  BY <1>1, <1>2, OutsideStep

\* The exchange takes a request off the wire once.
LEMMA ArrivalSteps ==
    ASSUME IInv, NEW k \in Keys, ArriveAccepted(k) \/ ArriveRejected(k)
    PROVE  IInv'
<1>1. /\ market \in [Approvals -> {"NONE", "live", "filled", "canceled"}]
      /\ position \in BOOLEAN /\ leverage \in SUBSET Approvals
      /\ k[1] \in Approvals
      /\ IsOrder(k) => k = OrderKey(k[1])
  BY OrderKeys DEF IInv, WriterTypeOK
<1>2. CASE ArriveRejected(k)
  <2>1. Arrive(k, "REJECT") /\ UNCHANGED <<market, position, leverage>>
    BY <1>2 DEF ArriveRejected
  <2> QED
    BY <1>1, <2>1, ArriveStep
<1>3. CASE ArriveAccepted(k)
  <2>1. Arrive(k, "ACK")
    BY <1>3 DEF ArriveAccepted
  <2>2. CASE k[2] = "SET_LEVERAGE"
    <3>1. leverage' \in SUBSET Approvals /\ UNCHANGED <<market, position>>
      BY <1>3, <2>2 DEF ArriveAccepted
    <3> QED
      BY <1>1, <2>1, <3>1, ArriveStep
  <2>3. CASE k[2] = "PLACE"
    <3>1. market' = [market EXCEPT ![k[1]] = "live"] /\ UNCHANGED <<position, leverage>>
      BY <1>3, <2>3 DEF ArriveAccepted
    <3>2. k = OrderKey(k[1])
      BY <1>1, <2>3 DEF IsOrder
    <3>3. /\ market' \in [Approvals -> {"NONE", "live", "filled", "canceled"}]
          /\ \A a \in Approvals : market'[a] # market[a] => a = k[1] /\ market'[a] = "live"
      BY <1>1, <3>1
    <3> QED
      BY <1>1, <2>1, <3>1, <3>2, <3>3, ArriveStep
  <2>4. CASE k[2] = "CLOSE"
    <3>1. PICK s \in TerminalOrderStates : /\ market' = [market EXCEPT ![k[1]] = s]
                                           /\ position' = (s # "filled")
                                           /\ UNCHANGED leverage
      BY <1>3, <2>4 DEF ArriveAccepted
    <3>2. k = OrderKey(k[1])
      BY <1>1, <2>4 DEF IsOrder
    <3>3. s \in {"filled", "canceled"}
      BY DEF TerminalOrderStates
    <3>4. /\ market' \in [Approvals -> {"NONE", "live", "filled", "canceled"}]
          /\ \A a \in Approvals : market'[a] # market[a] => a = k[1] /\ market'[a] # "NONE"
          /\ position' \in BOOLEAN
      BY <1>1, <3>1, <3>3
    <3> QED
      BY <1>1, <2>1, <3>1, <3>2, <3>4, ArriveStep
  <2>5. CASE k[2] = "CANCEL"
    <3>1. UNCHANGED <<market, position, leverage>>
      BY <1>3, <2>5 DEF ArriveAccepted
    <3> QED
      BY <1>1, <2>1, <3>1, ArriveStep
  <2>6. k[2] \in Operations
    BY DEF Keys
  <2> QED
    BY <2>2, <2>3, <2>4, <2>5, <2>6 DEF Operations
<1> QED
  BY <1>2, <1>3

\* Every step inside a call preserves the invariant.
LEMMA WriterStepStep ==
    ASSUME IInv, NEW w \in Writers, WriterStep(w)
    PROVE  IInv'
<1>1. CASE Fence(w)
  BY <1>1, FenceStep
<1>2. CASE AdoptUnresolved(w)
  BY <1>2, AdoptUnresolvedStep
<1>3. CASE NothingUnresolved(w)
  BY <1>3, NothingUnresolvedStep
<1>4. CASE ReadLeverage(w)
  BY <1>4, ReadLeverageStep
<1>5. CASE Prepare(w)
  BY <1>5, PrepareStep
<1>6. CASE Refused(w)
  BY <1>6, LeaveStep DEF Refused
<1>7. CASE CleanupClose(w)
  BY <1>7, CleanupCloseStep
<1>8. CASE Post(w)
  BY <1>8, PostStep
<1>9. CASE Answered(w)
  BY <1>9, AnsweredStep
<1>10. CASE OutcomeUnknown(w)
  BY <1>10, OutcomeUnknownStep
<1>11. CASE Record(w)
  BY <1>11, RecordStep
<1>12. CASE Get(w)
  BY <1>12, GetStep
<1>13. CASE GetFails(w)
  BY <1>13, GetFailsStep
<1>14. CASE ReadPosition(w)
  BY <1>14, ReadPositionStep
<1>15. CASE Settle(w)
  BY <1>15, SettleStep
<1>16. CASE Doubt(w)
  BY <1>16, DoubtStep
<1> QED
  BY <1>1, <1>2, <1>3, <1>4, <1>5, <1>6, <1>7, <1>8, <1>9, <1>10, <1>11, <1>12, <1>13, <1>14,
     <1>15, <1>16 DEF WriterStep

\* The invariant is inductive.
LEMMA NextIInv == IInv /\ [Next]_vars => IInv'
<1> SUFFICES ASSUME IInv, [Next]_vars PROVE IInv'
  OBVIOUS
<1>1. ASSUME NEW w \in Writers, NEW a \in Approvals, AcquireForPlace(w, a) \/ AcquireForRecovery(w, a)
      PROVE  IInv'
  BY <1>1, AcquireForPlaceStep, AcquireForRecoveryStep
<1>2. ASSUME NEW w \in Writers, WriterStep(w)
      PROVE  IInv'
  BY <1>2, WriterStepStep
<1>3. ASSUME NEW w \in Writers, ClaimUnresolved(w)
      PROVE  IInv'
  BY <1>3, ClaimUnresolvedStep
<1>4. ASSUME NEW w \in Writers, Crash(w) \/ Restart(w)
      PROVE  IInv'
  BY <1>4, CrashStep, RestartStep
<1>5. CASE (\E w \in Writers : KeepLease(w)) \/ AbandonedLeaseLapses \/ HeldLeaseLapses
  BY <1>5, LeaseSteps
<1>6. CASE ProtectionTriggers
  BY <1>6, ProtectionStep
<1>7. ASSUME NEW k \in Keys, ArriveAccepted(k) \/ ArriveRejected(k)
      PROVE  IInv'
  BY <1>7, ArrivalSteps
<1>8. ASSUME NEW a \in Approvals, ExpireGrant(a)
      PROVE  IInv'
  BY <1>8, ExpireGrantStep
<1>11. CASE ReconciliationCommits
  BY <1>11, ReconciliationStep
<1>9. ASSUME NEW a \in Approvals, OrderEnds(a)
      PROVE  IInv'
  BY <1>9, OrderEndsStep
<1>10. CASE UNCHANGED vars
  <2>1. /\ grant' \in [Approvals -> {"NONE", "ACTIVE", "CONSUMED", "EXPIRED"}]
        /\ position' \in BOOLEAN
    BY <1>10 DEF vars, journal, exchange, IInv, WriterTypeOK
  <2>2. UNCHANGED <<attempt, order, lease, writer, wire, answer, market, leverage, posts, faults>>
    BY <1>10 DEF vars, journal, exchange
  <2> QED
    BY <2>1, <2>2, OutsideStep
<1> QED
  BY <1>1, <1>2, <1>3, <1>4, <1>5, <1>6, <1>7, <1>8, <1>9, <1>10, <1>11 DEF Next

\* The invariant holds in every reachable state, for every constant.
THEOREM Invariance == Spec => []IInv
<1>1. Init => IInv
  BY InitIInv
<1>2. IInv /\ [Next]_vars => IInv'
  BY NextIInv
<1> QED
  BY <1>1, <1>2, PTL DEF Spec

-----------------------------------------------------------------------------
(* The theorems.                                                           *)

\* Every row, message and writer keeps its type, for every constant.
THEOREM WriterTypeCorrect == Spec => []WriterTypeOK
<1>1. IInv => WriterTypeOK
  BY DEF IInv
<1> QED
  BY <1>1, Invariance, PTL

\* No sequence of timeouts, crashes, takeovers and recoveries makes the writer
\* send the request of an operation twice.
THEOREM NeverReposted == Spec => []PostedAtMostOnce
<1>1. IInv => PostedAtMostOnce
  BY DEF IInv, RowOK, PostedAtMostOnce
<1> QED
  BY <1>1, Invariance, PTL

\* An attempt whose request may yet arrive is unresolved: only its own answer,
\* or the sight of its order, closes it.
LEMMA LateRequestIsPending ==
    ASSUME IInv, NEW k \in Keys, IsOrder(k), MayStillArrive(k)
    PROVE  Pending(k)
<1>1. RowOK(k) /\ attempt[k].state \in WriteStates \cup {"ABSENT"}
  BY OrderKeys DEF IInv, WriterTypeOK, Rows
<1>2. answer[k] = "NONE" /\ attempt[k].state # "ABSENT"
  <2>1. CASE k \in wire
    BY <1>1, <2>1 DEF RowOK
  <2>2. CASE \E w \in Writers : At(w, "post") /\ writer[w].key = k
    <3>1. posts[k] = 0 /\ attempt[k].state # "ABSENT"
      BY <2>2 DEF IInv, PhaseOK, At
    <3> QED
      BY <1>1, <3>1 DEF RowOK
  <2> QED
    BY <2>1, <2>2 DEF MayStillArrive
<1>3. market[k[1]] = "NONE"
  BY <1>1, <1>2 DEF RowOK
<1>4. attempt[k].state \notin {"ABSENT", "REJECTED", "RECONCILED"}
  BY <1>1, <1>2, <1>3 DEF RowOK, Shown, IsOrder, TerminalOrderStates
<1> QED
  BY <1>1, <1>4, Names DEF Pending

\* The journal never loses an order that is, or may come to be, at the exchange.
THEOREM OrdersAreTracked == Spec => []PlacementIsTracked
<1>1. ASSUME IInv
      PROVE  PlacementIsTracked
  <2> SUFFICES ASSUME NEW a \in Approvals
               PROVE  /\ MayStillArrive(OrderKey(a)) => Pending(OrderKey(a))
                      /\ market[a] # "NONE" =>
                             attempt[OrderKey(a)].state \in Unresolved \cup {"RECONCILED"}
    BY DEF PlacementIsTracked
  <2>1. OrderKey(a) \in Keys /\ IsOrder(OrderKey(a)) /\ OrderKey(a)[1] = a
    BY OrderKeys
  <2>2. RowOK(OrderKey(a)) /\ attempt[OrderKey(a)].state \in WriteStates \cup {"ABSENT"}
    BY <1>1, <2>1 DEF IInv, WriterTypeOK, Rows
  <2>3. MayStillArrive(OrderKey(a)) => Pending(OrderKey(a))
    BY <1>1, <2>1, LateRequestIsPending
  <2>4. ASSUME market[a] # "NONE"
        PROVE  attempt[OrderKey(a)].state \in Unresolved \cup {"RECONCILED"}
    <3>1. answer[OrderKey(a)] = "ACK"
      BY <2>1, <2>2, <2>4 DEF RowOK
    <3>2. attempt[OrderKey(a)].state \notin {"ABSENT", "REJECTED"}
      BY <2>2, <3>1 DEF RowOK
    <3> QED
      BY <2>2, <3>2, Names
  <2> QED
    BY <2>3, <2>4
<1> QED
  BY <1>1, Invariance, PTL

\* One order at most may still arrive, over any number of takeovers.
THEOREM SingleOrderInFlight == Spec => []OneOrderInFlight
<1>1. ASSUME IInv
      PROVE  OneOrderInFlight
  <2> SUFFICES ASSUME NEW a \in Approvals, NEW b \in Approvals,
                      MayStillArrive(OrderKey(a)), MayStillArrive(OrderKey(b))
               PROVE  a = b
    BY DEF OneOrderInFlight
  <2>1. /\ OrderKey(a) \in Keys /\ IsOrder(OrderKey(a)) /\ OrderKey(a)[1] = a
        /\ OrderKey(b) \in Keys /\ IsOrder(OrderKey(b)) /\ OrderKey(b)[1] = b
    BY OrderKeys
  <2>2. Pending(OrderKey(a)) /\ Pending(OrderKey(b))
    BY <1>1, <2>1, LateRequestIsPending
  <2>3. OrderKey(a) = OrderKey(b)
    BY <1>1, <2>1, <2>2 DEF IInv, OneUnresolved
  <2> QED
    BY <2>1, <2>3
<1> QED
  BY <1>1, Invariance, PTL

\* Generations identify processes, and only an adoption can surprise a writer.
THEOREM GenerationsAreExclusive == Spec => []GenerationIsExclusive
<1>1. ASSUME IInv
      PROVE  GenerationIsExclusive
  <2>1. \A w \in Writers : KnowsOK(writer[w])
    BY <1>1 DEF IInv
  <2>2. \A w, v \in Writers : writer[w].gen = writer[v].gen /\ writer[w].gen # 0 => w = v
    BY <1>1 DEF IInv, OwnGeneration
  <2> QED
    BY <2>1, <2>2, Zenon DEF GenerationIsExclusive, KnowsOK, Knowing
<1> QED
  BY <1>1, Invariance, PTL

\* What the journal calls done, the exchange has shown and still shows.
THEOREM ReconciliationIsReal == Spec => []ReconciledIsReal
<1>1. IInv => ReconciledIsReal
  BY DEF IInv, RowOK, Shown, Truthful, ReconciledIsReal
<1> QED
  BY <1>1, Invariance, PTL
=============================================================================
