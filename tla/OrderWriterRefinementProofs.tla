---------------------- MODULE OrderWriterRefinementProofs ----------------------
(***************************************************************************)
(* The order writer implements OrderProtocol, for any number of approvals, *)
(* processes and takeovers: every step maps to a step of the protocol or   *)
(* to a stutter.                                                           *)
(***************************************************************************)
EXTENDS OrderWriterRefinement, OrderWriterProofs

-----------------------------------------------------------------------------
(* What a step does to the mapped variables.                               *)

\* The step does not concern the order of a.
Same(a) == Place(a)' = Place(a) /\ Outcome(a)' = Outcome(a)

\* The step is the protocol's for the order of a.
Moves(a) ==
    \/ /\ Outcome(a) = "ABSENT" /\ Outcome(a)' = "OPEN"
       /\ Place(a) = "NOWHERE" /\ Place(a)' = "HAND"
       /\ \A p \in Approvals : Outcome(p) # "OPEN"
    \/ /\ Outcome(a)' = Outcome(a)
       /\ \/ Place(a) = "HAND" /\ Place(a)' \in {"WIRE", "NOWHERE"}
          \/ Place(a) = "WIRE" /\ Place(a)' \in {"EXCHANGE", "NOWHERE"}
    \/ /\ Outcome(a) = "OPEN" /\ Place(a)' = Place(a)
       /\ \/ Outcome(a)' = "RECONCILED" /\ Place(a) = "EXCHANGE"
          \/ Outcome(a)' = "REJECTED" /\ Place(a) = "NOWHERE"

\* A step that concerns no order is a stutter of the protocol.
LEMMA StutterStep ==
    ASSUME \A a \in Approvals : Same(a)
    PROVE  [Protocol!Next]_(Protocol!vars)
BY DEF Same, Protocol!vars

\* A step of one order alone is a step of the protocol.
LEMMA OrderStep ==
    ASSUME NEW a \in Approvals, Moves(a), \A b \in Approvals \ {a} : Same(b)
    PROVE  [Protocol!Next]_(Protocol!vars)
<1> DEFINE where == [b \in Approvals |-> Place(b)]
           said == [b \in Approvals |-> Outcome(b)]
<1>1. \A b \in Approvals : b # a => Place(b)' = Place(b) /\ Outcome(b)' = Outcome(b)
  BY DEF Same
<1>2. where' = [where EXCEPT ![a] = Place(a)'] /\ where[a] = Place(a)
  BY <1>1
<1>3. said' = [said EXCEPT ![a] = Outcome(a)'] /\ said[a] = Outcome(a)
  BY <1>1
<1>4. CASE /\ Outcome(a) = "ABSENT" /\ Outcome(a)' = "OPEN"
           /\ Place(a) = "NOWHERE" /\ Place(a)' = "HAND"
           /\ \A p \in Approvals : Outcome(p) # "OPEN"
  <2>1. \A p \in Approvals : said[p] # "OPEN"
    BY <1>4
  <2>2. Protocol!Open(a)
    BY <1>2, <1>3, <1>4, <2>1 DEF Protocol!Open, Protocol!Move
  <2> QED
    BY <2>2 DEF Protocol!Next
<1>5. CASE Outcome(a)' = Outcome(a)
  <2>1. said' = said
    BY <1>3, <1>5
  <2>2. CASE Place(a) = "HAND" /\ Place(a)' = "WIRE"
    BY <1>2, <2>1, <2>2 DEF Protocol!Next, Protocol!Send, Protocol!Move
  <2>3. CASE Place(a) = "HAND" /\ Place(a)' = "NOWHERE"
    BY <1>2, <2>1, <2>3 DEF Protocol!Next, Protocol!Drop, Protocol!Move
  <2>4. CASE Place(a) = "WIRE" /\ Place(a)' = "EXCHANGE"
    BY <1>2, <2>1, <2>4 DEF Protocol!Next, Protocol!Land, Protocol!Move
  <2>5. CASE Place(a) = "WIRE" /\ Place(a)' = "NOWHERE"
    BY <1>2, <2>1, <2>5 DEF Protocol!Next, Protocol!Bounce, Protocol!Move
  <2> QED
    BY <1>5, <2>2, <2>3, <2>4, <2>5 DEF Moves
<1>6. CASE Outcome(a) = "OPEN" /\ Place(a)' = Place(a)
  <2>1. where' = where
    BY <1>2, <1>6
  <2>2. CASE Outcome(a)' = "RECONCILED" /\ Place(a) = "EXCHANGE"
    BY <1>2, <1>3, <1>6, <2>1, <2>2 DEF Protocol!Next, Protocol!Conclude
  <2>3. CASE Outcome(a)' = "REJECTED" /\ Place(a) = "NOWHERE"
    BY <1>2, <1>3, <1>6, <2>1, <2>3 DEF Protocol!Next, Protocol!Conclude
  <2> QED
    BY <1>5, <1>6, <2>2, <2>3 DEF Moves
<1> QED
  BY <1>4, <1>5, <1>6 DEF Moves

-----------------------------------------------------------------------------
(* What the mapping reads.                                                 *)

\* The rows, requests and orders that the mapping reads are as they were.
RowsKept ==
    /\ \A k \in Keys : attempt'[k].state = attempt[k].state
    /\ wire' = wire
    /\ \A a \in Approvals : (market'[a] = "NONE") = (market[a] = "NONE")

\* The processes about to send are the same.
HandsKept == \A k \in Keys : InHand(k)' = InHand(k)

\* A step that keeps all of it concerns no order.
LEMMA KeptIsStutter ==
    ASSUME RowsKept, HandsKept
    PROVE  [Protocol!Next]_(Protocol!vars)
<1>1. ASSUME NEW a \in Approvals PROVE Same(a)
  BY OrderKeys DEF RowsKept, HandsKept, Same, Place, Outcome, Pending
<1> QED
  BY <1>1, StutterStep

\* A process that is about to send neither before nor after its step.
LEMMA HandsOff ==
    ASSUME IInv, NEW w \in Writers, NEW s, Moved(w, s), ~At(w, "post"), s.pc # "post"
    PROVE  HandsKept
<1>1. \A v \in Writers : writer'[v] = IF v = w THEN s ELSE writer[v]
  BY DEF IInv, WriterTypeOK, Moved
<1> QED
  BY <1>1 DEF HandsKept, InHand, At

\* A step that no process takes.
LEMMA HandsStill ==
    ASSUME UNCHANGED writer
    PROVE  HandsKept
BY DEF HandsKept, InHand, At

\* Where the order is whose process is about to send it.
LEMMA InHandPlace ==
    ASSUME IInv, NEW w \in Writers, At(w, "post"), NEW a \in Approvals,
           writer[w].key = OrderKey(a)
    PROVE  /\ Place(a) = "HAND"
           /\ market[a] = "NONE"
           /\ OrderKey(a) \notin wire
           /\ \A v \in Writers : At(v, "post") /\ writer[v].key = OrderKey(a) => v = w
<1>1. OrderKey(a) \in Keys /\ IsOrder(OrderKey(a)) /\ OrderKey(a)[1] = a
  BY OrderKeys
<1>2. posts[OrderKey(a)] = 0 /\ RowOK(OrderKey(a))
  BY <1>1 DEF IInv, PhaseOK, At
<1>3. market[a] = "NONE" /\ OrderKey(a) \notin wire
  BY <1>1, <1>2 DEF RowOK
<1>4. InHand(OrderKey(a))
  BY DEF InHand
<1>5. \A v \in Writers : At(v, "post") /\ writer[v].key = OrderKey(a) => v = w
  BY DEF IInv, OneSender
<1> QED
  BY <1>3, <1>4, <1>5 DEF Place

\* An order that was posted is in nobody's hand.
LEMMA PostedIsOutOfHand ==
    ASSUME IInv, NEW k \in Keys, posts[k] = 1
    PROVE  ~InHand(k)
BY DEF IInv, PhaseOK, InHand, At

-----------------------------------------------------------------------------
(* Steps of a process.                                                     *)

\* A process that was about to send gives up or dies: the request never leaves.
LEMMA DropStep ==
    ASSUME IInv, NEW w \in Writers, NEW s, Moved(w, s), At(w, "post"), s.pc # "post",
           UNCHANGED <<attempt, wire, market>>
    PROVE  [Protocol!Next]_(Protocol!vars)
<1>1. \A v \in Writers : writer'[v] = IF v = w THEN s ELSE writer[v]
  BY DEF IInv, WriterTypeOK, Moved
<1>2. ASSUME NEW b \in Approvals, writer[w].key # OrderKey(b)
      PROVE  Same(b)
  <2>1. InHand(OrderKey(b))' = InHand(OrderKey(b))
    BY <1>1, <1>2 DEF InHand, At
  <2> QED
    BY <2>1 DEF Same, Place, Outcome, Pending
<1>3. CASE \E a \in Approvals : writer[w].key = OrderKey(a)
  <2>1. PICK a \in Approvals : writer[w].key = OrderKey(a)
    BY <1>3
  <2>2. /\ Place(a) = "HAND" /\ market[a] = "NONE" /\ OrderKey(a) \notin wire
        /\ \A v \in Writers : At(v, "post") /\ writer[v].key = OrderKey(a) => v = w
    BY <2>1, InHandPlace
  <2>3. ~InHand(OrderKey(a))'
    BY <1>1, <2>2 DEF InHand, At
  <2>4. Place(a)' = "NOWHERE" /\ Outcome(a)' = Outcome(a)
    BY <2>2, <2>3 DEF Place, Outcome, Pending
  <2>5. \A b \in Approvals \ {a} : Same(b)
    <3>1. \A b \in Approvals \ {a} : OrderKey(b) # OrderKey(a)
      BY DEF OrderKey
    <3> QED
      BY <1>2, <2>1, <3>1
  <2> QED
    BY <2>2, <2>4, <2>5, OrderStep DEF Moves
<1>4. CASE ~\E a \in Approvals : writer[w].key = OrderKey(a)
  BY <1>2, <1>4, StutterStep
<1> QED
  BY <1>3, <1>4

\* Any other step that changes only what a process knows.
LEMMA KnowledgeStep ==
    ASSUME IInv, NEW w \in Writers, NEW s, Moved(w, s), s.pc # "post",
           UNCHANGED <<attempt, wire, market>>
    PROVE  [Protocol!Next]_(Protocol!vars)
<1>1. CASE At(w, "post")
  BY <1>1, DropStep
<1>2. CASE ~At(w, "post")
  <2>1. HandsKept
    BY <1>2, HandsOff
  <2>2. RowsKept
    BY DEF RowsKept
  <2> QED
    BY <2>1, <2>2, KeptIsStutter
<1> QED
  BY <1>1, <1>2

\* An adoption rebinds rows to a generation and changes no state.
LEMMA RebindingStep ==
    ASSUME IInv, NEW w \in Writers, NEW s, Moved(w, s), ~At(w, "post"), s.pc # "post",
           NEW j \in Keys, NEW g \in 0 .. MaxGeneration,
           attempt' = [attempt EXCEPT ![j].gen = g], UNCHANGED <<wire, market>>
    PROVE  [Protocol!Next]_(Protocol!vars)
<1>1. attempt \in [Keys -> Rows]
  BY DEF IInv, WriterTypeOK
<1>2. ASSUME NEW k \in Keys PROVE attempt'[k].state = attempt[k].state
  <2>1. attempt[k] \in Rows
    BY <1>1
  <2> QED
    BY <1>1, <2>1 DEF Rows
<1>3. RowsKept
  BY <1>2 DEF RowsKept
<1> QED
  BY <1>3, HandsOff, KeptIsStutter

\* prepare_place and prepare_recovery_close of an order open it; a set-leverage or
\* a cancellation is no order.
LEMMA OpenStep ==
    ASSUME IInv, NEW w \in Writers, Prepare(w)
    PROVE  [Protocol!Next]_(Protocol!vars)
<1> DEFINE k == writer[w].key
           s == [writer[w] EXCEPT !.pc = "post", !.state = "PREPARED", !.fenced = FALSE]
           row == [state |-> "PREPARED", gen |-> writer[w].gen]
<1>1. /\ CanPrepare(k)
      /\ attempt' = [attempt EXCEPT ![k] = row]
      /\ Moved(w, s)
      /\ UNCHANGED <<wire, answer, market, posts>>
      /\ ~At(w, "post")
  BY DEF Prepare, Moved, exchange, At
<1>2. k \in Keys /\ writer[w] \in WriterStates
  BY DEF IInv, WriterTypeOK, WriterStates
<1>3. s.pc = "post" /\ s.key = k
  BY <1>2 DEF WriterStates
<1>4. \A v \in Writers : writer'[v] = IF v = w THEN s ELSE writer[v]
  BY <1>1 DEF IInv, WriterTypeOK, Moved
<1> HIDE DEF s
<1>5. /\ attempt[k].state = "ABSENT"
      /\ \A j \in Keys : ~Pending(j)
      /\ posts[k] = 0 /\ answer[k] = "NONE" /\ k \notin wire
      /\ IsOrder(k) => market[k[1]] = "NONE"
  <2>1. attempt[k].state = "ABSENT" /\ \A j \in Keys : ~Pending(j)
    BY <1>1 DEF CanPrepare
  <2>2. RowOK(k)
    BY <1>2 DEF IInv
  <2>3. answer \in [Keys -> {"NONE", "ACK", "REJECT"}]
    BY DEF IInv, WriterTypeOK
  <2> QED
    BY <2>1, <2>2, <2>3, <1>2 DEF RowOK
<1>6. ASSUME NEW j \in Keys
      PROVE  attempt'[j].state = IF j = k THEN "PREPARED" ELSE attempt[j].state
  BY <1>1, <1>2 DEF IInv, WriterTypeOK
<1>7. ASSUME NEW b \in Approvals, k # OrderKey(b)
      PROVE  Same(b)
  <2>1. InHand(OrderKey(b))' = InHand(OrderKey(b))
    BY <1>1, <1>3, <1>4, <1>7 DEF InHand, At
  <2>2. attempt'[OrderKey(b)].state = attempt[OrderKey(b)].state
    BY <1>6, <1>7, OrderKeys
  <2> QED
    BY <1>1, <2>1, <2>2 DEF Same, Place, Outcome, Pending
<1>8. CASE \E a \in Approvals : k = OrderKey(a)
  <2>1. PICK a \in Approvals : k = OrderKey(a)
    BY <1>8
  <2>2. IsOrder(k) /\ k[1] = a
    BY <2>1, OrderKeys
  <2>3. ~InHand(k)
    BY <1>5 DEF IInv, PhaseOK, InHand, At
  <2>4. InHand(OrderKey(a))'
    BY <1>3, <1>4, <2>1 DEF InHand, At
  <2>5. Place(a) = "NOWHERE"
    BY <1>5, <2>1, <2>2, <2>3 DEF Place
  <2>6. Place(a)' = "HAND"
    BY <1>1, <1>5, <2>1, <2>2, <2>4 DEF Place
  <2>7. Outcome(a) = "ABSENT"
    BY <1>5, <2>1 DEF Outcome, Pending, Unresolved
  <2>8. Outcome(a)' = "OPEN"
    <3>1. attempt'[OrderKey(a)].state = "PREPARED"
      BY <1>2, <1>6, <2>1
    <3> QED
      BY <3>1 DEF Outcome, Pending, Unresolved
  <2>9. ASSUME NEW p \in Approvals
        PROVE  Outcome(p) # "OPEN"
    <3>1. attempt[OrderKey(p)].state \in WriteStates \cup {"ABSENT"}
      BY OrderKeys DEF IInv, WriterTypeOK, Rows
    <3>2. attempt[OrderKey(p)].state \notin Unresolved
      BY <1>5, OrderKeys DEF Pending
    <3>3. attempt[OrderKey(p)].state \in {"ABSENT", "REJECTED", "RECONCILED"}
      BY <3>1, <3>2, Names
    <3> QED
      BY <3>3 DEF Outcome, Pending, Unresolved
  <2>10. \A b \in Approvals \ {a} : Same(b)
    <3>1. \A b \in Approvals \ {a} : OrderKey(b) # OrderKey(a)
      BY DEF OrderKey
    <3> QED
      BY <1>7, <2>1, <3>1
  <2>11. Moves(a)
    BY <2>5, <2>6, <2>7, <2>8, <2>9 DEF Moves
  <2> QED
    BY <2>10, <2>11, OrderStep
<1>9. CASE ~\E a \in Approvals : k = OrderKey(a)
  BY <1>7, <1>9, StutterStep
<1> QED
  BY <1>8, <1>9

\* The POST puts the order in hand on the wire.
LEMMA SendStep ==
    ASSUME IInv, NEW w \in Writers, Post(w)
    PROVE  [Protocol!Next]_(Protocol!vars)
<1> DEFINE k == writer[w].key
           s == [writer[w] EXCEPT !.pc = "sent", !.fenced = FALSE]
<1>1. /\ At(w, "post")
      /\ wire' = wire \cup {k}
      /\ Moved(w, s)
      /\ UNCHANGED <<attempt, market>>
  BY DEF Post, Goto, Moved, journal
<1>2. s.pc = "sent"
  <2>1. writer[w] \in WriterStates
    BY DEF IInv, WriterTypeOK
  <2> QED
    BY <2>1 DEF WriterStates
<1>3. \A v \in Writers : writer'[v] = IF v = w THEN s ELSE writer[v]
  BY <1>1 DEF IInv, WriterTypeOK, Moved
<1> HIDE DEF s
<1>4. ASSUME NEW b \in Approvals, k # OrderKey(b)
      PROVE  Same(b)
  <2>1. InHand(OrderKey(b))' = InHand(OrderKey(b))
    BY <1>2, <1>3, <1>4 DEF InHand, At
  <2> QED
    BY <1>1, <1>4, <2>1 DEF Same, Place, Outcome, Pending
<1>5. CASE \E a \in Approvals : k = OrderKey(a)
  <2>1. PICK a \in Approvals : k = OrderKey(a)
    BY <1>5
  <2>2. Place(a) = "HAND" /\ market[a] = "NONE"
    BY <1>1, <2>1, InHandPlace
  <2>3. Place(a)' = "WIRE" /\ Outcome(a)' = Outcome(a)
    BY <1>1, <2>1, <2>2 DEF Place, Outcome, Pending
  <2>4. \A b \in Approvals \ {a} : Same(b)
    <3>1. \A b \in Approvals \ {a} : OrderKey(b) # OrderKey(a)
      BY DEF OrderKey
    <3> QED
      BY <1>4, <2>1, <3>1
  <2> QED
    BY <2>2, <2>3, <2>4, OrderStep DEF Moves
<1>6. CASE ~\E a \in Approvals : k = OrderKey(a)
  BY <1>4, <1>6, StutterStep
<1> QED
  BY <1>5, <1>6

\* A transition concludes an order, or leaves it unresolved.
LEMMA ConcludeStep ==
    ASSUME IInv, NEW w \in Writers, NEW s, Moved(w, s), s.pc # "post", Transition(w),
           writer[w].pc \in {"record", "settle", "doubt"}
    PROVE  [Protocol!Next]_(Protocol!vars)
<1> DEFINE k == writer[w].key
<1>1. /\ attempt[k].state = writer[w].state
      /\ After(writer[w].state, writer[w].event) # "INVALID"
      /\ attempt' = [attempt EXCEPT ![k].state = NewState(w)]
      /\ UNCHANGED <<wire, answer, market, posts>>
  BY DEF Transition, RowMatches, exchange
<1>2. k \in Keys /\ RowOK(k) /\ PhaseOK(writer[w])
  BY DEF IInv, WriterTypeOK, WriterStates
<1>3. HandsKept
  BY HandsOff DEF At
<1>4. /\ attempt[k].state \in Unresolved
      /\ NewState(w) \in WriteStates
      /\ NewState(w) = "REJECTED" => writer[w].event = "EXPLICIT_REJECTION"
      /\ NewState(w) = "RECONCILED" => writer[w].event = "RECONCILE"
  BY <1>1, Transitions DEF NewState
<1>5. ASSUME NEW j \in Keys
      PROVE  attempt'[j].state = IF j = k THEN NewState(w) ELSE attempt[j].state
  <2>1. attempt \in [Keys -> Rows] /\ attempt[k] \in Rows
    BY <1>2 DEF IInv, WriterTypeOK
  <2> QED
    BY <1>1, <1>2, <2>1 DEF Rows
<1>6. ASSUME NEW b \in Approvals
      PROVE  /\ Place(b)' = Place(b)
             /\ k # OrderKey(b) => Outcome(b)' = Outcome(b)
  <2>1. Place(b)' = Place(b)
    BY <1>1, <1>3, OrderKeys DEF HandsKept, Place
  <2>2. ASSUME k # OrderKey(b)
        PROVE  Outcome(b)' = Outcome(b)
    <3>1. attempt'[OrderKey(b)].state = attempt[OrderKey(b)].state
      BY <1>5, <2>2, OrderKeys
    <3> QED
      BY <3>1 DEF Outcome, Pending
  <2> QED
    BY <2>1, <2>2
<1>7. CASE \E a \in Approvals : k = OrderKey(a)
  <2>1. PICK a \in Approvals : k = OrderKey(a)
    BY <1>7
  <2>2. IsOrder(k) /\ k[1] = a
    BY <2>1, OrderKeys
  <2>3. Outcome(a) = "OPEN"
    BY <1>4, <2>1, Names DEF Outcome, Pending
  <2>4. attempt'[OrderKey(a)].state = NewState(w)
    BY <1>2, <1>5, <2>1
  <2>5. \A b \in Approvals \ {a} : Same(b)
    <3>1. \A b \in Approvals \ {a} : OrderKey(b) # OrderKey(a)
      BY DEF OrderKey
    <3> QED
      BY <1>6, <2>1, <3>1 DEF Same
  <2>6. CASE NewState(w) = "REJECTED"
    <3>1. answer[k] = "REJECT"
      BY <1>2, <1>4, <2>6 DEF PhaseOK, Undecided
    <3>2. market[a] = "NONE" /\ k \notin wire /\ posts[k] = 1
      BY <1>2, <2>2, <3>1 DEF RowOK
    <3>3. ~InHand(k)
      BY <1>2, <3>2, PostedIsOutOfHand
    <3>4. Place(a) = "NOWHERE"
      BY <2>1, <3>2, <3>3 DEF Place
    <3>5. Outcome(a)' = "REJECTED"
      BY <2>4, <2>6 DEF Outcome, Pending, Unresolved
    <3>6. Moves(a)
      BY <1>6, <2>3, <3>4, <3>5 DEF Moves
    <3> QED
      BY <2>5, <3>6, OrderStep
  <2>7. CASE NewState(w) = "RECONCILED"
    <3>1. Shown(k)
      BY <1>2, <1>4, <2>7 DEF PhaseOK, Undecided
    <3>2. market[a] # "NONE"
      BY <2>2, <3>1 DEF Shown, IsOrder, TerminalOrderStates
    <3>3. Place(a) = "EXCHANGE"
      BY <3>2 DEF Place
    <3>4. Outcome(a)' = "RECONCILED"
      BY <2>4, <2>7 DEF Outcome, Pending, Unresolved
    <3>5. Moves(a)
      BY <1>6, <2>3, <3>3, <3>4 DEF Moves
    <3> QED
      BY <2>5, <3>5, OrderStep
  <2>8. CASE NewState(w) \in Unresolved
    <3>1. Outcome(a)' = "OPEN"
      BY <2>4, <2>8, Names DEF Outcome, Pending
    <3>2. Same(a)
      BY <1>6, <2>3, <3>1 DEF Same
    <3> QED
      BY <2>5, <3>2, StutterStep
  <2> QED
    BY <1>4, <2>6, <2>7, <2>8, Names
<1>8. CASE ~\E a \in Approvals : k = OrderKey(a)
  <2>1. \A a \in Approvals : Same(a)
    BY <1>6, <1>8 DEF Same
  <2> QED
    BY <2>1, StutterStep
<1> QED
  BY <1>7, <1>8

-----------------------------------------------------------------------------
(* Steps outside the processes.                                            *)

\* A request that arrives leaves the wire, and may have become an order.
LEMMA ArrivalStep ==
    ASSUME IInv, NEW k \in Keys, NEW reply, Arrive(k, reply),
           \A a \in Approvals :
               (market'[a] = "NONE") # (market[a] = "NONE") =>
                   k = OrderKey(a) /\ market'[a] # "NONE"
    PROVE  [Protocol!Next]_(Protocol!vars)
<1>1. /\ k \in wire
      /\ wire' = wire \ {k}
      /\ UNCHANGED <<attempt, writer>>
  BY DEF Arrive, journal
<1>2. HandsKept
  BY <1>1, HandsStill
<1>3. RowOK(k) /\ ~InHand(k)
  <2>1. RowOK(k)
    BY DEF IInv
  <2>2. posts[k] = 1
    BY <1>1, <2>1 DEF RowOK
  <2> QED
    BY <2>1, <2>2, PostedIsOutOfHand
<1>4. ASSUME NEW b \in Approvals, k # OrderKey(b)
      PROVE  Same(b)
  <2>1. (market'[b] = "NONE") = (market[b] = "NONE")
    BY <1>4
  <2>2. (OrderKey(b) \in wire') = (OrderKey(b) \in wire)
    BY <1>1, <1>4
  <2>3. InHand(OrderKey(b))' = InHand(OrderKey(b))
    BY <1>2, OrderKeys DEF HandsKept
  <2> QED
    BY <1>1, <2>1, <2>2, <2>3 DEF Same, Place, Outcome, Pending
<1>5. CASE \E a \in Approvals : k = OrderKey(a)
  <2>1. PICK a \in Approvals : k = OrderKey(a)
    BY <1>5
  <2>2. market[a] = "NONE"
    BY <1>1, <1>3, <2>1, OrderKeys DEF RowOK
  <2>3. Place(a) = "WIRE" /\ Outcome(a)' = Outcome(a)
    BY <1>1, <2>1, <2>2 DEF Place, Outcome, Pending
  <2>4. ~InHand(OrderKey(a))'
    BY <1>2, <1>3, <2>1 DEF HandsKept
  <2>5. Place(a)' \in {"EXCHANGE", "NOWHERE"}
    BY <1>1, <2>1, <2>4 DEF Place
  <2>6. \A b \in Approvals \ {a} : Same(b)
    <3>1. \A b \in Approvals \ {a} : OrderKey(b) # OrderKey(a)
      BY DEF OrderKey
    <3> QED
      BY <1>4, <2>1, <3>1
  <2>7. Moves(a)
    BY <2>3, <2>5 DEF Moves
  <2> QED
    BY <2>6, <2>7, OrderStep
<1>6. CASE ~\E a \in Approvals : k = OrderKey(a)
  BY <1>4, <1>6, StutterStep
<1> QED
  BY <1>5, <1>6

\* What the exchange makes of a request.
LEMMA ExchangeStep ==
    ASSUME IInv, NEW k \in Keys, ArriveAccepted(k) \/ ArriveRejected(k)
    PROVE  [Protocol!Next]_(Protocol!vars)
<1>1. market \in [Approvals -> {"NONE", "live", "filled", "canceled"}]
  BY DEF IInv, WriterTypeOK
<1>2. k[2] \in Operations /\ k[1] \in Approvals /\ (IsOrder(k) => k = OrderKey(k[1]))
  BY OrderKeys DEF Keys
<1>3. CASE ArriveRejected(k)
  BY <1>3, ArrivalStep DEF ArriveRejected
<1>4. CASE ArriveAccepted(k) /\ UNCHANGED market
  BY <1>4, ArrivalStep DEF ArriveAccepted
<1>5. CASE ArriveAccepted(k) /\ ~UNCHANGED market
  <2>1. PICK s \in {"live", "filled", "canceled"} :
            market' = [market EXCEPT ![k[1]] = s] /\ k[2] \in {"PLACE", "CLOSE"}
    <3>1. CASE k[2] = "PLACE"
      BY <1>5, <3>1 DEF ArriveAccepted
    <3>2. CASE k[2] = "CLOSE"
      BY <1>5, <3>2 DEF ArriveAccepted, TerminalOrderStates
    <3>3. CASE k[2] = "SET_LEVERAGE"
      BY <1>5, <3>3 DEF ArriveAccepted
    <3>4. CASE k[2] = "CANCEL"
      BY <1>5, <3>4 DEF ArriveAccepted
    <3> QED
      BY <1>2, <3>1, <3>2, <3>3, <3>4 DEF Operations
  <2>2. k = OrderKey(k[1])
    BY <1>2, <2>1 DEF IsOrder
  <2>3. \A a \in Approvals : market'[a] = IF a = k[1] THEN s ELSE market[a]
    BY <1>1, <2>1
  <2>4. \A a \in Approvals :
            (market'[a] = "NONE") # (market[a] = "NONE") => k = OrderKey(a) /\ market'[a] # "NONE"
    BY <2>2, <2>3
  <2>5. Arrive(k, "ACK")
    BY <1>5 DEF ArriveAccepted
  <2> QED
    BY <2>4, <2>5, ArrivalStep
<1> QED
  BY <1>3, <1>4, <1>5

\* Whatever else the exchange, the keeper's time or a reconciliation does: an order
\* at the exchange stays there.
LEMMA OutsideStutter ==
    ASSUME IInv, UNCHANGED <<attempt, writer, wire>>,
           \A a \in Approvals : (market'[a] = "NONE") = (market[a] = "NONE")
    PROVE  [Protocol!Next]_(Protocol!vars)
<1>1. RowsKept
  BY DEF RowsKept
<1>2. HandsKept
  BY HandsStill
<1> QED
  BY <1>1, <1>2, KeptIsStutter

-----------------------------------------------------------------------------
(* The refinement.                                                         *)

\* Every step of a call maps to a step of the protocol or to a stutter.
LEMMA CallStep ==
    ASSUME IInv, NEW w \in Writers, WriterStep(w)
    PROVE  [Protocol!Next]_(Protocol!vars)
<1> USE DEF Moved
<1>1. writer[w] \in WriterStates
  BY DEF IInv, WriterTypeOK
<1>2. Unassigned("idle").pc = "idle"
  BY DEF Unassigned
<1>3. ASSUME Leave(w), UNCHANGED <<journal, lease, exchange, posts, faults>>
      PROVE  [Protocol!Next]_(Protocol!vars)
  BY <1>2, <1>3, KnowledgeStep DEF Leave, journal, exchange
<1>4. ASSUME NEW pc \in Phases \ {"post"}, Goto(w, pc),
             UNCHANGED <<journal, lease, exchange, posts, faults>>
      PROVE  [Protocol!Next]_(Protocol!vars)
  <2>1. [writer[w] EXCEPT !.pc = pc, !.fenced = FALSE].pc = pc
    BY <1>1 DEF WriterStates
  <2> QED
    BY <1>4, <2>1, KnowledgeStep DEF Goto, journal, exchange
<1>5. ASSUME NEW pc \in Phases \ {"post"}, NEW event, Decide(w, pc, event),
             UNCHANGED <<journal, lease, exchange, posts, faults>>
      PROVE  [Protocol!Next]_(Protocol!vars)
  <2>1. [writer[w] EXCEPT !.pc = pc, !.event = event, !.fenced = FALSE].pc = pc
    BY <1>1 DEF WriterStates
  <2> QED
    BY <1>5, <2>1, KnowledgeStep DEF Decide, journal, exchange
<1>6. ASSUME InDoubt(w), UNCHANGED <<journal, lease, exchange, posts, faults>>
      PROVE  [Protocol!Next]_(Protocol!vars)
  BY <1>5, <1>6, Names DEF InDoubt
<1>7. CASE Fence(w)
  <2>1. CASE writer' = [writer EXCEPT ![w] = [writer[w] EXCEPT !.fenced = TRUE]]
    <3>1. [writer[w] EXCEPT !.fenced = TRUE].pc # "post"
      BY <1>1, <1>7 DEF Fence, FencedPhases, WriterStates
    <3> QED
      BY <1>7, <2>1, <3>1, KnowledgeStep DEF Fence, journal, exchange
  <2>2. CASE InDoubt(w)
    BY <1>6, <1>7, <2>2 DEF Fence
  <2>3. CASE Leave(w)
    BY <1>3, <1>7, <2>3 DEF Fence
  <2> QED
    BY <1>7, <2>1, <2>2, <2>3 DEF Fence
<1>8. CASE AdoptUnresolved(w)
  <2>1. PICK k \in Keys :
        /\ attempt' = [attempt EXCEPT ![k].gen = writer[w].gen]
        /\ IF ~MayRecover(w, k) THEN Leave(w)
           ELSE writer' = [writer EXCEPT ![w] = [writer[w] EXCEPT
                    !.pc = IF /\ writer[w].goal = "PLACE"
                              /\ k[2] = "CLOSE"
                              /\ attempt[k].state = "RESIDUAL_CLOSE_REQUIRED"
                           THEN "cleanup" ELSE "get",
                    !.key = k, !.goal = "RECONCILE", !.state = attempt[k].state,
                    !.fenced = FALSE]]
    BY <1>8 DEF AdoptUnresolved
  <2>2. ~At(w, "post") /\ UNCHANGED <<wire, market>> /\ writer[w].gen \in 0 .. MaxGeneration
    BY <1>1, <1>8 DEF AdoptUnresolved, At, exchange, WriterStates
  <2>3. CASE Leave(w)
    BY <1>2, <2>1, <2>2, <2>3, RebindingStep DEF Leave
  <2>4. CASE ~Leave(w)
    <3> DEFINE s == [writer[w] EXCEPT
                    !.pc = IF /\ writer[w].goal = "PLACE"
                              /\ k[2] = "CLOSE"
                              /\ attempt[k].state = "RESIDUAL_CLOSE_REQUIRED"
                           THEN "cleanup" ELSE "get",
                    !.key = k, !.goal = "RECONCILE", !.state = attempt[k].state,
                    !.fenced = FALSE]
    <3>1. s.pc # "post"
      BY <1>1 DEF WriterStates
    <3>2. Moved(w, s)
      BY <2>1, <2>4
    <3> HIDE DEF s
    <3> QED
      BY <2>1, <2>2, <3>1, <3>2, RebindingStep
  <2> QED
    BY <2>3, <2>4
<1>9. CASE NothingUnresolved(w)
  BY <1>4, <1>9, Names DEF NothingUnresolved
<1>10. CASE ReadLeverage(w)
  <2> DEFINE s == [writer[w] EXCEPT
                    !.pc = "prepare",
                    !.key = IF writer[w].key[1] \in leverage THEN OrderKey(writer[w].key[1])
                            ELSE <<writer[w].key[1], "SET_LEVERAGE">>]
  <2>1. s.pc # "post"
    BY <1>1 DEF WriterStates
  <2>2. Moved(w, s) /\ UNCHANGED <<attempt, wire, market>>
    BY <1>10 DEF ReadLeverage, journal, exchange
  <2> HIDE DEF s
  <2> QED
    BY <2>1, <2>2, KnowledgeStep
<1>11. CASE Prepare(w)
  BY <1>11, OpenStep
<1>12. CASE Refused(w)
  BY <1>3, <1>12 DEF Refused
<1>13. CASE CleanupClose(w)
  <2>1. [writer[w] EXCEPT !.pc = "record", !.event = "RECONCILE", !.seen = "position_zero"].pc # "post"
    BY <1>1 DEF WriterStates
  <2> QED
    BY <1>13, <2>1, KnowledgeStep DEF CleanupClose, journal, exchange
<1>14. CASE Post(w)
  BY <1>14, SendStep
<1>15. CASE Answered(w)
  BY <1>5, <1>15, Names DEF Answered
<1>16. CASE OutcomeUnknown(w)
  BY <1>5, <1>16, Names DEF OutcomeUnknown
<1>17. CASE Record(w)
  <2>1. CASE Transition(w) /\ Leave(w)
    BY <1>2, <1>17, <2>1, ConcludeStep DEF Record, Leave, At
  <2>2. CASE Transition(w) /\ ~Leave(w)
    <3> DEFINE s == [writer[w] EXCEPT !.pc = "get", !.state = NewState(w), !.fenced = FALSE]
    <3>1. s.pc # "post"
      BY <1>1 DEF WriterStates
    <3>2. Moved(w, s) /\ writer[w].pc = "record"
      BY <1>17, <2>2 DEF Record, At
    <3> HIDE DEF s
    <3> QED
      BY <2>2, <3>1, <3>2, ConcludeStep
  <2>3. CASE Leave(w) /\ UNCHANGED <<journal, lease, exchange, posts, faults>>
    BY <1>3, <2>3
  <2> QED
    BY <1>17, <2>1, <2>2, <2>3 DEF Record
<1>18. CASE Get(w)
  <2>1. PICK s : Moved(w, s) /\ s.pc # "post"
    <3> DEFINE k == writer[w].key
               event == Settling(k, writer[w].state)
               t == [writer[w] EXCEPT
                        !.pc = IF event = "RECONCILE" /\ k[2] = "CLOSE" THEN "position" ELSE "settle",
                        !.event = event,
                        !.seen = IF k[2] = "SET_LEVERAGE" THEN "leverage_confirmed"
                                 ELSE market[k[1]]]
    <3>1. Moved(w, t)
      BY <1>18 DEF Get
    <3>2. t.pc # "post"
      BY <1>1 DEF WriterStates
    <3> HIDE DEF t
    <3> QED
      BY <3>1, <3>2
  <2> QED
    BY <1>18, <2>1, KnowledgeStep DEF Get, journal, exchange
<1>19. CASE GetFails(w)
  BY <1>6, <1>19 DEF GetFails
<1>20. CASE ReadPosition(w)
  BY <1>5, <1>20, Names DEF ReadPosition
<1>21. CASE Settle(w)
  <2>1. CASE Transition(w)
    <3>1. PICK s : Moved(w, s) /\ s.pc # "post"
      <4> DEFINE t1 == [writer[w] EXCEPT
                        !.pc = IF writer[w].key[2] = "CLOSE" THEN "position" ELSE "settle",
                        !.event = "RECONCILE", !.state = "ACKNOWLEDGED", !.fenced = FALSE]
                 t2 == [writer[w] EXCEPT
                        !.pc = "prepare", !.key = OrderKey(writer[w].key[1]), !.fenced = FALSE]
                 t3 == [writer[w] EXCEPT
                        !.pc = "doubt", !.event = DoubtEvent(writer[w].state), !.fenced = FALSE]
      <4>1. t1.pc # "post" /\ t2.pc # "post" /\ t3.pc # "post"
        BY <1>1 DEF WriterStates
      <4>2. Moved(w, t1) \/ Moved(w, t2) \/ Moved(w, t3) \/ Moved(w, Unassigned("idle"))
        BY <1>21 DEF Settle, Leave, InDoubt, Decide
      <4> HIDE DEF t1, t2, t3
      <4> QED
        BY <1>2, <4>1, <4>2
    <3>2. writer[w].pc = "settle"
      BY <1>21 DEF Settle, At
    <3> QED
      BY <2>1, <3>1, <3>2, ConcludeStep
  <2>2. CASE Leave(w) /\ UNCHANGED <<journal, lease, exchange, posts, faults>>
    BY <1>3, <2>2
  <2>3. CASE InDoubt(w) /\ UNCHANGED <<journal, lease, exchange, posts, faults>>
    BY <1>6, <2>3
  <2> QED
    BY <1>21, <2>1, <2>2, <2>3 DEF Settle
<1>22. CASE Doubt(w)
  <2>1. CASE Transition(w)
    BY <1>2, <1>22, <2>1, ConcludeStep DEF Doubt, Leave, At
  <2>2. CASE UNCHANGED <<journal, lease, exchange, posts, faults>>
    BY <1>3, <1>22, <2>2 DEF Doubt
  <2> QED
    BY <1>22, <2>1, <2>2 DEF Doubt
<1> QED
  BY <1>7, <1>8, <1>9, <1>10, <1>11, <1>12, <1>13, <1>14, <1>15, <1>16, <1>17, <1>18, <1>19,
     <1>20, <1>21, <1>22 DEF WriterStep

\* A process that takes the lease, and a process that dies or starts.
LEMMA ProcessStep ==
    ASSUME IInv, NEW w \in Writers,
           \/ \E a \in Approvals : AcquireForPlace(w, a) \/ AcquireForRecovery(w, a)
           \/ ClaimUnresolved(w) \/ Crash(w) \/ Restart(w)
    PROVE  [Protocol!Next]_(Protocol!vars)
<1>1. Unassigned("idle").pc = "idle" /\ Unassigned("down").pc = "down"
  BY DEF Unassigned
<1>2. ASSUME NEW a \in Approvals, AcquireForPlace(w, a)
      PROVE  [Protocol!Next]_(Protocol!vars)
  <2> DEFINE s == [Unassigned("unresolved") EXCEPT
                    !.key = OrderKey(a), !.goal = "PLACE", !.gen = Acquired(w).gen]
  <2>1. s.pc # "post"
    BY DEF Unassigned
  <2>2. Moved(w, s) /\ UNCHANGED <<attempt, wire, market>>
    BY <1>2 DEF AcquireForPlace, Moved, journal, exchange
  <2> HIDE DEF s
  <2> QED
    BY <2>1, <2>2, KnowledgeStep
<1>3. ASSUME NEW a \in Approvals, AcquireForRecovery(w, a)
      PROVE  [Protocol!Next]_(Protocol!vars)
  <2> DEFINE s == [Unassigned("unresolved") EXCEPT
                    !.key = RecoveryKey(a), !.goal = "RECOVER", !.gen = Acquired(w).gen]
  <2>1. s.pc # "post"
    BY DEF Unassigned
  <2>2. Moved(w, s) /\ UNCHANGED <<attempt, wire, market>>
    BY <1>3 DEF AcquireForRecovery, Moved, journal, exchange
  <2> HIDE DEF s
  <2> QED
    BY <2>1, <2>2, KnowledgeStep
<1>4. CASE ClaimUnresolved(w)
  <2>1. PICK k \in Keys :
        /\ attempt' = [attempt EXCEPT ![k].gen = Acquired(w).gen]
        /\ writer' = [writer EXCEPT ![w] = [Unassigned("get") EXCEPT
                        !.key = k, !.goal = "RECONCILE", !.gen = Acquired(w).gen,
                        !.state = attempt[k].state]]
    BY <1>4 DEF ClaimUnresolved
  <2> DEFINE s == [Unassigned("get") EXCEPT
                        !.key = k, !.goal = "RECONCILE", !.gen = Acquired(w).gen,
                        !.state = attempt[k].state]
  <2>2. s.pc # "post"
    BY DEF Unassigned
  <2>3. Moved(w, s)
    BY <2>1 DEF Moved
  <2>4. ~At(w, "post") /\ UNCHANGED <<wire, market>>
    BY <1>4 DEF ClaimUnresolved, At, exchange
  <2>5. Acquired(w).gen \in 0 .. MaxGeneration
    BY <1>4, Acquisition DEF ClaimUnresolved
  <2> HIDE DEF s
  <2> QED
    BY <2>1, <2>2, <2>3, <2>4, <2>5, RebindingStep
<1>5. CASE Crash(w)
  BY <1>1, <1>5, KnowledgeStep DEF Crash, Moved, journal, exchange
<1>6. CASE Restart(w)
  BY <1>1, <1>6, KnowledgeStep DEF Restart, Leave, Moved, journal, exchange
<1> QED
  BY <1>2, <1>3, <1>4, <1>5, <1>6

\* Every step of the order writer maps to a step of the protocol or to a stutter.
LEMMA StepIsProtocolStep == IInv /\ [Next]_vars => [Protocol!Next]_(Protocol!vars)
<1> SUFFICES ASSUME IInv, [Next]_vars PROVE [Protocol!Next]_(Protocol!vars)
  OBVIOUS
<1>1. ASSUME NEW w \in Writers, NEW a \in Approvals,
             AcquireForPlace(w, a) \/ AcquireForRecovery(w, a)
      PROVE  [Protocol!Next]_(Protocol!vars)
  BY <1>1, ProcessStep
<1>2. ASSUME NEW w \in Writers, WriterStep(w)
      PROVE  [Protocol!Next]_(Protocol!vars)
  BY <1>2, CallStep
<1>3. ASSUME NEW w \in Writers, ClaimUnresolved(w) \/ Crash(w) \/ Restart(w)
      PROVE  [Protocol!Next]_(Protocol!vars)
  BY <1>3, ProcessStep
<1>4. ASSUME NEW w \in Writers, KeepLease(w)
      PROVE  [Protocol!Next]_(Protocol!vars)
  BY <1>4, OutsideStutter DEF KeepLease, journal, exchange
<1>5. CASE AbandonedLeaseLapses
  BY <1>5, OutsideStutter DEF AbandonedLeaseLapses, journal, exchange
<1>6. CASE HeldLeaseLapses
  BY <1>6, OutsideStutter DEF HeldLeaseLapses, journal, exchange
<1>7. CASE ProtectionTriggers
  BY <1>7, OutsideStutter DEF ProtectionTriggers, journal
<1>8. CASE ReconciliationCommits
  <2>1. UNCHANGED <<attempt, writer, wire, market>>
    BY <1>8 DEF ReconciliationCommits, exchange
  <2> QED
    BY <2>1, OutsideStutter
<1>9. ASSUME NEW k \in Keys, ArriveAccepted(k) \/ ArriveRejected(k)
      PROVE  [Protocol!Next]_(Protocol!vars)
  BY <1>9, ExchangeStep
<1>10. ASSUME NEW a \in Approvals, ExpireGrant(a)
       PROVE  [Protocol!Next]_(Protocol!vars)
  BY <1>10, OutsideStutter DEF ExpireGrant, exchange
<1>11. ASSUME NEW a \in Approvals, OrderEnds(a)
       PROVE  [Protocol!Next]_(Protocol!vars)
  <2>1. market \in [Approvals -> {"NONE", "live", "filled", "canceled"}]
    BY DEF IInv, WriterTypeOK
  <2>2. PICK s \in {"filled", "canceled"} : market' = [market EXCEPT ![a] = s]
    BY <1>11 DEF OrderEnds, TerminalOrderStates
  <2>3. \A b \in Approvals : (market'[b] = "NONE") = (market[b] = "NONE")
    BY <1>11, <2>1, <2>2 DEF OrderEnds
  <2>4. UNCHANGED <<attempt, writer, wire>>
    BY <1>11 DEF OrderEnds, journal
  <2> QED
    BY <2>3, <2>4, OutsideStutter
<1>12. CASE UNCHANGED vars
  BY <1>12, OutsideStutter DEF vars, journal, exchange
<1> QED
  BY <1>1, <1>2, <1>3, <1>4, <1>5, <1>6, <1>7, <1>8, <1>9, <1>10, <1>11, <1>12 DEF Next

\* Before any order is written down.
LEMMA InitIsProtocolInit == Init => Protocol!Init
<1> SUFFICES ASSUME Init PROVE Protocol!Init
  OBVIOUS
<1>1. ASSUME NEW a \in Approvals
      PROVE  Place(a) = "NOWHERE" /\ Outcome(a) = "ABSENT"
  <2>1. ~InHand(OrderKey(a))
    BY DEF Init, InHand, At, Unassigned
  <2>2. attempt[OrderKey(a)].state = "ABSENT"
    BY OrderKeys DEF Init
  <2> QED
    BY <2>1, <2>2 DEF Init, Place, Outcome, Pending, Unresolved
<1> QED
  BY <1>1 DEF Protocol!Init

\* Over any number of processes, takeovers, crashes, timeouts and late requests, the
\* writer opens one order at a time, lets its request leave at most once, and closes
\* it only by what the exchange made of it.
THEOREM WritersImplementOrderProtocol == Spec => ImplementsOrderProtocol
<1>1. Init => Protocol!Init
  BY InitIsProtocolInit
<1>2. IInv /\ [Next]_vars => [Protocol!Next]_(Protocol!vars)
  BY StepIsProtocolStep
<1> QED
  BY <1>1, <1>2, Invariance, PTL DEF Spec, ImplementsOrderProtocol, Protocol!Spec
=============================================================================
