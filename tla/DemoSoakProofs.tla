---------------------------- MODULE DemoSoakProofs ----------------------------
(***************************************************************************)
(* What DemoSoak promises of exposure and books, proved for any signals,   *)
(* size of an opening and faults, and one process that ticks: the launchd  *)
(* job.                                                                    *)
(***************************************************************************)
EXTENDS DemoSoak, FiniteSetTheorems, TLAPS

-----------------------------------------------------------------------------
(* The inductive invariant.                                                *)

OneProcess == \A v, w \in Workers : v = w

Listed(o) == \E i \in 1 .. Len(history) : history[i] = o
Sent(o) == \E n \in Attempts : <<o, n>> \in wire
OpenOf(o) == <<o[1], "OPEN">>

\* An order that needs a step.
Busy(o) ==
    \/ row[o].status \in InFlight
    \/ /\ row[o].status = "ACCEPTED"
       /\ row[o].fills < row[o].size \/ row[o].ledger < row[o].fills \/ row[o].matched < row[o].fills

\* An order that was filled, posted and reconciled.
Finished(o) ==
    /\ row[o].status = "ACCEPTED"
    /\ row[o].fills = Size /\ row[o].ledger = Size /\ row[o].matched = Size

\* What the row of an order tells of itself and of the exchange.
RowOK(o) ==
    /\ IF row[o].grant = "none" THEN row[o].status = "none" /\ row[o].size = 0
       ELSE row[o].size = Size
    /\ row[o].status # "none" <=> Listed(o)
    /\ row[o].status = "none" => row[o].claims = << >>
    /\ row[o].status = "SUBMITTED" => row[o].claims \in {<< >>, <<"absent">>}
    /\ row[o].status = "DISPATCHING" => row[o].claims # << >>
    /\ row[o].status # "ACCEPTED" => row[o].fills = 0
    /\ row[o].status = "ACCEPTED" => exch[o].status # "none"
    /\ row[o].matched <= row[o].ledger /\ row[o].ledger <= row[o].fills
    /\ row[o].fills <= exch[o].filled
    /\ exch[o].status = "none" => exch[o].filled = 0
    /\ exch[o].status = "open" => exch[o].filled < Size
    /\ exch[o].status # "none" \/ Sent(o) => row[o].status # "none"

\* Orders come one after the other, and a purchase after all before were sold.
HistoryOK ==
    /\ \A i, j \in 1 .. Len(history) : history[i] = history[j] => i = j
    /\ \A i \in 1 .. Len(history) : Busy(history[i]) => i = Len(history)
    /\ \A i, j \in 1 .. Len(history) :
          i < j /\ Bought(history[i]) /\ Bought(history[j])
             => row[ExitOf(history[i])].ledger = row[history[i]].ledger

\* An exit sells what its purchase bought, and nothing was bought since.
ExitsOK ==
    \A o \in Exits : /\ row[o].grant # "none" => Finished(OpenOf(o))
                     /\ Busy(o) => Entry(OpenOf(o))

\* The ledger's sum is what is held of the newest purchase.
NetOK ==
    /\ \A o \in Opens : Entry(o) => net = row[o].ledger - row[ExitOf(o)].ledger
    /\ \A o \in Opens : row[o].status \in InFlight => net = 0

\* What a process may rely on.
WorkerOK(k) ==
    LET o == k.order IN
    /\ k.pc = "idle" => k = Resting
    /\ k.pc \in {"probed", "granted"} =>
        /\ Complete
        /\ o \in Opens => row[o].status = "none" /\ net = 0
        /\ o \in Exits => /\ Entry(OpenOf(o)) /\ net = Size
                          /\ row[o].status \in {"none", "REJECTED"}
    /\ k.pc = "probed" => k.seen = net
    /\ k.pc = "probed" /\ o \in Opens => row[o].grant = "none"
    /\ k.pc = "granted" => row[o].grant # "none"
    /\ k.pc = "renewing" => row[o].status = "SUBMITTED"
    /\ k.pc \in {"prepared", "guarded"} => row[o].status \in {"SUBMITTED", "REJECTED"}
    /\ k.pc \in {"posting", "waiting", "querying", "answered"} => row[o].status = "DISPATCHING"
    /\ k.pc \in {"posting", "waiting"} => k.attempt \in Attempts
    /\ k.pc = "answered" =>
        /\ k.answer # "unknown"
        /\ k.answer = "accepted" => exch[o].status # "none"
    /\ k.pc \notin {"idle", "releasing", "stopped", "drained"} => o \in Orders

\* Nothing that the exchange has is rejected.
Known == \A o \in Orders : row[o].status = "REJECTED" => exch[o].status = "none"

\* The account and the ledger differ by what is not yet posted of one order.
AccountOK ==
    Known =>
        /\ Complete => position = net
        /\ \A o \in Opens : Busy(o) => position - net = exch[o].filled - row[o].ledger
        /\ \A o \in Exits : Busy(o) => position - net = row[o].ledger - exch[o].filled

Inv ==
    /\ SoakTypeOK
    /\ \A o \in Orders : RowOK(o)
    /\ HistoryOK
    /\ ExitsOK
    /\ NetOK
    /\ \A w \in Workers : WorkerOK(worker[w])
    /\ AccountOK

-----------------------------------------------------------------------------
(* The vocabulary.                                                         *)

Exchanges == [status : {"none", "open", "done"}, filled : 0 .. Size]

\* The orders.
LEMMA OrderFacts ==
    /\ Orders = Opens \cup Exits
    /\ \A o \in Orders : o \in Opens <=> o \notin Exits
    /\ \A o \in Exits : OpenOf(o) \in Opens /\ OpenOf(o) \in Orders /\ ExitOf(OpenOf(o)) = o
    /\ \A o \in Opens : ExitOf(o) \in Exits /\ ExitOf(o) \in Orders /\ OpenOf(ExitOf(o)) = o
BY DEF Orders, Opens, Exits, OpenOf, ExitOf

\* What the code asks of an order is whether it is busy.
LEMMA BusyIs ==
    ASSUME NEW o
    PROVE  /\ StepOf(o) # "COMPLETE" <=> Busy(o)
           /\ StepOf(o)' # "COMPLETE" <=> Busy(o)'
BY DEF StepOf, Busy, InFlight

\* Nothing is busy when all is complete.
LEMMA CompleteIs ==
    /\ Complete <=> \A o \in Orders : ~Busy(o)
    /\ Complete' <=> \A o \in Orders : ~Busy(o)'
BY BusyIs DEF Complete

\* The types of one order's rows.
LEMMA RowTypes ==
    ASSUME SoakTypeOK, NEW o \in Orders
    PROVE  /\ row[o] \in OrderRows /\ row[o].size \in 0 .. Size /\ row[o].fills \in 0 .. Size
           /\ row[o].ledger \in 0 .. Size /\ row[o].matched \in 0 .. Size
           /\ row[o].grant \in GrantStates /\ row[o].status \in Statuses /\ row[o].claims \in Claims
           /\ exch[o] \in Exchanges /\ exch[o].status \in {"none", "open", "done"}
           /\ exch[o].filled \in 0 .. Size
<1>1. row[o] \in OrderRows /\ exch[o] \in Exchanges
  BY DEF SoakTypeOK, Exchanges
<1> QED
  BY <1>1 DEF OrderRows, Exchanges

\* Only the last order is busy.
LEMMA OneBusy ==
    ASSUME Inv, NEW o \in Orders, NEW p \in Orders, Busy(o), Busy(p)
    PROVE  o = p /\ Len(history) \in Nat /\ Len(history) >= 1 /\ history[Len(history)] = o
<1>1. row[o].status # "none" /\ row[p].status # "none"
  BY DEF Busy, InFlight
<1>2. Listed(o) /\ Listed(p)
  BY <1>1 DEF Inv, RowOK
<1>3. Len(history) \in Nat
  BY DEF Inv, SoakTypeOK
<1>4. PICK i \in 1 .. Len(history), j \in 1 .. Len(history) : history[i] = o /\ history[j] = p
  BY <1>2 DEF Listed
<1>5. i = Len(history) /\ j = Len(history)
  BY <1>4 DEF Inv, HistoryOK
<1> QED
  BY <1>3, <1>4, <1>5

\* An order that is due is the last.
LEMMA DueIs ==
    ASSUME Inv, NEW o \in Orders, NEW step \in {"DISPATCH", "FILL", "LEDGER", "RECONCILE"}, Due(o, step)
    PROVE  /\ Busy(o)
           /\ step = "DISPATCH" => row[o].status \in InFlight
           /\ step # "DISPATCH" => row[o].status = "ACCEPTED"
           /\ step = "FILL" => row[o].fills < row[o].size
           /\ step = "LEDGER" => row[o].ledger < row[o].fills /\ ~(row[o].fills < row[o].size)
           /\ step = "RECONCILE" => /\ row[o].matched < row[o].fills /\ ~(row[o].ledger < row[o].fills)
                                    /\ ~(row[o].fills < row[o].size)
<1>1. StepOf(o) = step /\ StepOf(o) # "COMPLETE"
  BY DEF Due
<1> QED
  BY <1>1, BusyIs DEF StepOf


-----------------------------------------------------------------------------
(* Steps that leave orders, books and exchange alone.                      *)

\* A process that acts on no order relies on nothing.
Away(k) == k = Resting \/ k.pc \in {"releasing", "stopped", "drained"}

LEMMA AwayOK ==
    ASSUME NEW k, Away(k)
    PROVE  WorkerOK(k) /\ WorkerOK(k)'
BY DEF Away, WorkerOK, Resting

\* The processes, when the only one of them goes on as k.
LEMMA WorkerStep ==
    ASSUME OneProcess, SoakTypeOK, NEW w \in Workers, NEW k \in Processes,
           worker' = [worker EXCEPT ![w] = k], WorkerOK(k)'
    PROVE  worker' \in [Workers -> Processes] /\ \A v \in Workers : WorkerOK(worker[v])'
<1>1. worker \in [Workers -> Processes]
  BY DEF SoakTypeOK
<1>2. worker' \in [Workers -> Processes] /\ worker'[w] = k
  BY <1>1
<1>3. ASSUME NEW v \in Workers PROVE WorkerOK(worker[v])'
  <2>1. v = w
    BY DEF OneProcess
  <2>2. worker'[v] = k
    BY <1>2, <2>1
  <2> QED
    BY <2>2
<1> QED
  BY <1>2, <1>3

\* What no process does.
Same == UNCHANGED <<row, net, history, wire, exch, position>>

LEMMA SameOK ==
    ASSUME Same, NEW k
    PROVE  WorkerOK(k)' <=> WorkerOK(k)
BY DEF Same, WorkerOK, Complete, StepOf, Entry, Bought

LEMMA LocalStep ==
    ASSUME Inv, Same, lease' \in BOOLEAN, openings' \in BOOLEAN, faults' \in 0 .. MaxFaults,
           worker' \in [Workers -> Processes], \A v \in Workers : WorkerOK(worker[v])'
    PROVE  Inv'
<1>1. SoakTypeOK'
  BY DEF Inv, Same, SoakTypeOK
<1>2. (\A o \in Orders : RowOK(o))'
  BY DEF Inv, Same, RowOK, Listed, Sent
<1>3. HistoryOK'
  BY DEF Inv, Same, HistoryOK, Busy, Bought
<1>4. ExitsOK'
  BY DEF Inv, Same, ExitsOK, Finished, Busy, Entry, Bought
<1>5. NetOK'
  BY DEF Inv, Same, NetOK, Entry, Bought
<1>6. AccountOK'
  BY DEF Inv, Same, AccountOK, Known, Complete, StepOf, Busy
<1> QED
  BY <1>1, <1>2, <1>3, <1>4, <1>5, <1>6 DEF Inv


\* A process that stops, or gives back its lease.
LEMMA Leaves ==
    ASSUME OneProcess, SoakTypeOK, NEW w \in Workers, Stop(w) \/ Conclude(w) \/ Abandon(w)
    PROVE  worker' \in [Workers -> Processes] /\ \A v \in Workers : WorkerOK(worker[v])'
<1>1. PICK k : /\ k \in {[Resting EXCEPT !.pc = "stopped"], Releasing(TRUE), Releasing(FALSE)}
               /\ worker' = [worker EXCEPT ![w] = k]
  BY DEF Stop, Conclude, Abandon
<1>2. PICK c \in Steps, b \in BOOLEAN :
          k = [pc |-> c, order |-> NoOrder, attempt |-> 0, answer |-> "unknown", seen |-> 0, fine |-> b]
  <2>1. CASE k = [Resting EXCEPT !.pc = "stopped"]
    BY <2>1 DEF Resting, Steps
  <2>2. CASE k = Releasing(TRUE)
    BY <2>2 DEF Releasing, Resting, Steps
  <2>3. CASE k = Releasing(FALSE)
    BY <2>3 DEF Releasing, Resting, Steps
  <2> QED
    BY <1>1, <2>1, <2>2, <2>3
<1>3. k \in Processes
  BY <1>2, SizeAssumption DEF Processes, Outcomes
<1>4. Away(k)
  BY <1>1 DEF Away, Resting, Releasing
<1> QED
  BY <1>1, <1>3, <1>4, AwayOK, WorkerStep

\* A process that comes to rest.
LEMMA Rests ==
    ASSUME OneProcess, SoakTypeOK, NEW w \in Workers, worker' = [worker EXCEPT ![w] = Resting]
    PROVE  worker' \in [Workers -> Processes] /\ \A v \in Workers : WorkerOK(worker[v])'
<1>1. Resting \in Processes
  BY SizeAssumption DEF Resting, Processes, Steps, Outcomes
<1>2. PICK k : k = Resting
  OBVIOUS
<1>3. Away(k)
  BY <1>2 DEF Away
<1> QED
  BY <1>1, <1>2, <1>3, AwayOK, WorkerStep

\* A process that goes on while orders, books and exchange stay as they are.
LEMMA LocalGo ==
    ASSUME OneProcess, Inv, Same, lease' \in BOOLEAN, openings' \in BOOLEAN, faults' \in 0 .. MaxFaults,
           NEW w \in Workers, NEW k \in Processes, worker' = [worker EXCEPT ![w] = k], WorkerOK(k)
    PROVE  Inv'
<1>1. WorkerOK(k)'
  BY SameOK
<1>2. worker' \in [Workers -> Processes] /\ \A v \in Workers : WorkerOK(worker[v])'
  BY <1>1, WorkerStep DEF Inv
<1> QED
  BY <1>2, LocalStep

LEMMA LocalLeaves ==
    ASSUME OneProcess, Inv, Same, lease' \in BOOLEAN, openings' \in BOOLEAN, faults' \in 0 .. MaxFaults,
           NEW w \in Workers, Stop(w) \/ Conclude(w) \/ Abandon(w)
    PROVE  Inv'
BY Leaves, LocalStep DEF Inv

LEMMA LocalRests ==
    ASSUME OneProcess, Inv, Same, lease' \in BOOLEAN, openings' \in BOOLEAN, faults' \in 0 .. MaxFaults,
           NEW w \in Workers, worker' = [worker EXCEPT ![w] = Resting] \/ UNCHANGED worker
    PROVE  Inv'
<1>1. CASE UNCHANGED worker
  <2>1. worker' \in [Workers -> Processes]
    BY <1>1 DEF Inv, SoakTypeOK
  <2>2. ASSUME NEW v \in Workers PROVE WorkerOK(worker[v])'
    <3>1. PICK k : k = worker[v]
      OBVIOUS
    <3>2. WorkerOK(k)'
      BY <3>1, SameOK DEF Inv
    <3> QED
      BY <1>1, <3>1, <3>2
  <2> QED
    BY <2>1, <2>2, LocalStep
<1>2. CASE worker' = [worker EXCEPT ![w] = Resting]
  BY <1>2, Rests, LocalStep DEF Inv
<1> QED
  BY <1>1, <1>2


\* The process of an idle one that turns to an order.
LEMMA IdleIs ==
    ASSUME Inv, NEW w \in Workers, At(w, "idle")
    PROVE  worker[w] = Resting
BY DEF Inv, At, WorkerOK

LEMMA ProcessTypes ==
    ASSUME SoakTypeOK, NEW w \in Workers
    PROVE  /\ worker[w] \in Processes
           /\ worker[w].order \in Orders \union {NoOrder} /\ worker[w].attempt \in 0 .. 3
           /\ worker[w].answer \in Outcomes /\ worker[w].seen \in 0 .. Size /\ worker[w].fine \in BOOLEAN
           /\ worker[w].pc \in Steps
<1>1. worker[w] \in Processes
  BY DEF SoakTypeOK
<1> QED
  BY <1>1 DEF Processes

\* The types that a local step keeps.
LEMMA LocalTypes ==
    ASSUME Inv
    PROVE  /\ lease \in BOOLEAN /\ openings \in BOOLEAN /\ faults \in 0 .. MaxFaults
           /\ faults < MaxFaults => faults + 1 \in 0 .. MaxFaults
BY FaultsAssumption DEF Inv, SoakTypeOK

LEMMA TakeOrderInv ==
    ASSUME OneProcess, Inv, NEW w \in Workers, NEW o \in Orders, TakeOrder(w, o)
    PROVE  Inv'
<1>1. Same /\ lease' \in BOOLEAN /\ openings' \in BOOLEAN /\ faults' \in 0 .. MaxFaults
  BY LocalTypes DEF TakeOrder, Same, tables, exchange
<1>2. CASE Stop(w)
  BY <1>1, <1>2, LocalLeaves
<1>3. ASSUME NEW c \in {"querying", "renewing"}, Go(w, c, o),
             c = "querying" => row[o].status = "DISPATCHING",
             c = "renewing" => row[o].status = "SUBMITTED"
      PROVE  Inv'
  <2>1. PICK k : k = [worker[w] EXCEPT !.pc = c, !.order = o]
    OBVIOUS
  <2>2. k \in Processes /\ k.pc = c /\ k.order = o
    BY <2>1, ProcessTypes DEF Inv, Processes, Steps
  <2>3. worker' = [worker EXCEPT ![w] = k]
    BY <1>3, <2>1 DEF Go, Inv, SoakTypeOK, Processes
  <2>4. WorkerOK(k)
    BY <2>2, <1>3 DEF WorkerOK
  <2> QED
    BY <1>1, <2>2, <2>3, <2>4, LocalGo
<1> QED
  BY <1>2, <1>3 DEF TakeOrder

\* A purchase whose exit is due was bought in full and none of it is sold.
LEMMA EntryIs ==
    ASSUME Inv, Complete, NEW o \in Opens, Entry(o), net > 0
    PROVE  /\ Finished(o) /\ net = Size
           /\ row[ExitOf(o)].status \in {"none", "REJECTED"}
           /\ row[ExitOf(o)].ledger = 0
<1> DEFINE x == ExitOf(o)
<1>1. o \in Orders /\ x \in Orders
  BY OrderFacts
<1>2. ~Busy(o) /\ ~Busy(x)
  BY <1>1, CompleteIs
<1>3. row[o].status = "ACCEPTED"
  BY DEF Entry, Bought
<1>4. row[o].grant # "none" /\ row[o].size = Size
  BY <1>1, <1>3 DEF Inv, RowOK
<1>5. Finished(o)
  BY <1>1, <1>2, <1>3, <1>4, RowTypes, SizeAssumption DEF Inv, Busy, Finished
<1>6. net = row[o].ledger - row[x].ledger
  BY DEF Inv, NetOK
<1>7. ASSUME row[x].status = "ACCEPTED" PROVE FALSE
  <2>1. row[x].size = Size
    BY <1>1, <1>7 DEF Inv, RowOK
  <2>2. row[x].ledger = Size
    BY <1>1, <1>2, <1>7, <2>1, RowTypes, SizeAssumption DEF Inv, Busy
  <2> QED
    BY <2>2, <1>5, <1>6, SizeAssumption DEF Finished
<1>8. row[x].status \in {"none", "REJECTED"}
  BY <1>1, <1>2, <1>7, RowTypes DEF Inv, Busy, Statuses, InFlight
<1>9. row[x].ledger = 0
  BY <1>1, <1>8, RowTypes DEF Inv, RowOK
<1> QED
  BY <1>5, <1>6, <1>8, <1>9, SizeAssumption DEF Finished

LEMMA ExitDueInv ==
    ASSUME OneProcess, Inv, NEW w \in Workers, ExitDue(w)
    PROVE  Inv'
<1>1. Same /\ lease' \in BOOLEAN /\ openings' \in BOOLEAN /\ faults' \in 0 .. MaxFaults
  BY LocalTypes DEF ExitDue, Same, tables, exchange
<1>2. CASE Stop(w)
  BY <1>1, <1>2, LocalLeaves
<1>3. ASSUME NEW o \in Opens, Entry(o),
             worker' = [worker EXCEPT ![w].pc = "probed", ![w].seen = net, ![w].order = ExitOf(o)]
      PROVE  Inv'
  <2>1. PICK k : k = [worker[w] EXCEPT !.pc = "probed", !.seen = net, !.order = ExitOf(o)]
    OBVIOUS
  <2>2. ExitOf(o) \in Orders /\ ExitOf(o) \in Exits /\ ExitOf(o) \notin Opens /\ OpenOf(ExitOf(o)) = o
    BY OrderFacts
  <2>3. k \in Processes /\ k.pc = "probed" /\ k.order = ExitOf(o) /\ k.seen = net
    BY <2>1, <2>2, ProcessTypes DEF Inv, SoakTypeOK, Processes, Steps
  <2>4. worker' = [worker EXCEPT ![w] = k]
    BY <1>3, <2>1 DEF Inv, SoakTypeOK, Processes
  <2>5. Complete /\ net = Size /\ row[ExitOf(o)].status \in {"none", "REJECTED"}
    BY <1>3, EntryIs DEF ExitDue
  <2>6. WorkerOK(k)
    BY <2>2, <2>3, <2>5, <1>3 DEF WorkerOK
  <2> QED
    BY <1>1, <2>3, <2>4, <2>6, LocalGo
<1> QED
  BY <1>2, <1>3 DEF ExitDue

LEMMA SignalDueInv ==
    ASSUME OneProcess, Inv, NEW w \in Workers, NEW s \in Signals, SignalDue(w, s)
    PROVE  Inv'
<1> DEFINE o == <<s, "OPEN">>
<1>1. Same /\ lease' \in BOOLEAN /\ openings' \in BOOLEAN /\ faults' \in 0 .. MaxFaults
  BY LocalTypes DEF SignalDue, Same, tables, exchange
<1>2. CASE Stop(w)
  BY <1>1, <1>2, LocalLeaves
<1>3. CASE Go(w, "probed", o)
  <2>1. PICK k : k = [worker[w] EXCEPT !.pc = "probed", !.order = o]
    OBVIOUS
  <2>2. o \in Orders /\ o \in Opens /\ o \notin Exits
    BY OrderFacts DEF Opens
  <2>3. worker[w] = Resting
    BY IdleIs DEF SignalDue
  <2>4. k.pc = "probed" /\ k.order = o /\ k.seen = 0
    BY <2>1, <2>3 DEF Resting
  <2>5. k \in Processes
    BY <2>1, <2>2, ProcessTypes DEF Inv, Processes, Steps
  <2>6. worker' = [worker EXCEPT ![w] = k]
    BY <1>3, <2>1 DEF Go, Inv, SoakTypeOK, Processes
  <2>7. Complete /\ net = 0 /\ row[o].grant = "none"
    BY DEF SignalDue
  <2>8. row[o].status = "none"
    BY <2>2, <2>7 DEF Inv, RowOK
  <2>9. WorkerOK(k)
    BY <2>2, <2>4, <2>7, <2>8 DEF WorkerOK
  <2> QED
    BY <1>1, <2>5, <2>6, <2>9, LocalGo
<1> QED
  BY <1>2, <1>3 DEF SignalDue

LEMMA EndOfSoakInv ==
    ASSUME OneProcess, Inv, NEW w \in Workers, EndOfSoak(w)
    PROVE  Inv'
<1>1. Same /\ lease' \in BOOLEAN /\ openings' \in BOOLEAN /\ faults' \in 0 .. MaxFaults
  BY LocalTypes DEF EndOfSoak, Same, tables, exchange
<1>2. CASE Stop(w)
  BY <1>1, <1>2, LocalLeaves
<1>3. CASE Continue(w, "drained")
  <2>1. PICK k : k = [worker[w] EXCEPT !.pc = "drained"]
    OBVIOUS
  <2>2. k \in Processes /\ k.pc = "drained"
    BY <2>1, ProcessTypes DEF Inv, Processes, Steps
  <2>3. worker' = [worker EXCEPT ![w] = k]
    BY <1>3, <2>1 DEF Continue, Inv, SoakTypeOK, Processes
  <2>4. WorkerOK(k)
    BY <2>2 DEF WorkerOK
  <2> QED
    BY <1>1, <2>2, <2>3, <2>4, LocalGo
<1> QED
  BY <1>2, <1>3 DEF EndOfSoak


LEMMA GuardInv ==
    ASSUME OneProcess, Inv, NEW w \in Workers, Guard(w)
    PROVE  Inv'
<1>1. Same /\ lease' \in BOOLEAN /\ openings' \in BOOLEAN /\ faults' \in 0 .. MaxFaults
  BY LocalTypes DEF Guard, Same, tables, exchange
<1>2. CASE Conclude(w) \/ Abandon(w)
  BY <1>1, <1>2, LocalLeaves
<1>3. CASE Continue(w, "guarded")
  <2>1. PICK k : k = [worker[w] EXCEPT !.pc = "guarded"]
    OBVIOUS
  <2>2. k \in Processes /\ k.pc = "guarded" /\ k.order = worker[w].order
    BY <2>1, ProcessTypes DEF Inv, Processes, Steps
  <2>3. worker' = [worker EXCEPT ![w] = k]
    BY <1>3, <2>1 DEF Continue, Inv, SoakTypeOK, Processes
  <2>4. row[k.order].status \in {"SUBMITTED", "REJECTED"} /\ k.order \in Orders
    BY <2>2 DEF Inv, WorkerOK, Guard, At
  <2>5. WorkerOK(k)
    BY <2>2, <2>4 DEF WorkerOK
  <2> QED
    BY <1>1, <2>2, <2>3, <2>5, LocalGo
<1> QED
  BY <1>2, <1>3 DEF Guard

LEMMA QueryInv ==
    ASSUME OneProcess, Inv, NEW w \in Workers, Query(w)
    PROVE  Inv'
<1> DEFINE o == worker[w].order
           found == exch[o].status # "none"
<1>1. Same /\ lease' \in BOOLEAN /\ openings' \in BOOLEAN /\ faults' \in 0 .. MaxFaults
  BY LocalTypes DEF Query, Same, tables, exchange
<1>2. o \in Orders /\ row[o].status = "DISPATCHING"
  BY DEF Inv, WorkerOK, Query, At
<1>3. PICK k : k = [worker[w] EXCEPT !.pc = "answered", !.answer = IF found THEN "accepted" ELSE "absent"]
  OBVIOUS
<1>4. /\ k \in Processes /\ k.pc = "answered" /\ k.order = o
      /\ k.answer = IF found THEN "accepted" ELSE "absent"
  BY <1>3, ProcessTypes DEF Inv, Processes, Steps, Outcomes
<1>5. worker' = [worker EXCEPT ![w] = k]
  BY <1>2, <1>3 DEF Query, Inv, SoakTypeOK, Processes
<1>6. WorkerOK(k)
  BY <1>2, <1>4 DEF WorkerOK
<1> QED
  BY <1>1, <1>4, <1>5, <1>6, LocalGo

LEMMA OtherLocalInv ==
    ASSUME OneProcess, Inv, NEW w \in Workers,
           Release(w) \/ LeaseExpires \/ CallFails(w) \/ Crash(w) \/ Restart(w) \/ EndWindow
    PROVE  Inv'
<1>1. Same /\ lease' \in BOOLEAN /\ openings' \in BOOLEAN /\ faults' \in 0 .. MaxFaults
  BY LocalTypes DEF Release, LeaseExpires, CallFails, Crash, Restart, EndWindow, Same, tables, exchange
<1>2. \/ Stop(w) \/ Abandon(w)
      \/ worker' = [worker EXCEPT ![w] = Resting]
      \/ UNCHANGED worker
  BY DEF Release, LeaseExpires, CallFails, Crash, Restart, EndWindow
<1> QED
  BY <1>1, <1>2, LocalLeaves, LocalRests


-----------------------------------------------------------------------------
(* Steps of the exchange.                                                  *)

Tables == UNCHANGED <<row, net, history>>

LEMMA ExchangeStep ==
    ASSUME Inv, Tables, UNCHANGED <<lease, openings>>, faults' \in 0 .. MaxFaults,
           wire' \in SUBSET (Orders \X Attempts), exch' \in [Orders -> Exchanges], position' \in Int,
           worker' \in [Workers -> Processes], \A v \in Workers : WorkerOK(worker[v])',
           \A o \in Orders : RowOK(o)', AccountOK'
    PROVE  Inv'
<1>1. SoakTypeOK'
  BY DEF Inv, Tables, SoakTypeOK, Exchanges
<1>2. HistoryOK'
  BY DEF Inv, Tables, HistoryOK, Busy, Bought
<1>3. ExitsOK'
  BY DEF Inv, Tables, ExitsOK, Finished, Busy, Entry, Bought
<1>4. NetOK'
  BY DEF Inv, Tables, NetOK, Entry, Bought
<1> QED
  BY <1>1, <1>2, <1>3, <1>4 DEF Inv

\* What a process relies on of the orders is not the exchange's.
LEMMA TablesOK ==
    ASSUME Tables, NEW k, k.order \in Orders => (exch[k.order].status # "none" => exch'[k.order].status # "none"),
           WorkerOK(k)
    PROVE  WorkerOK(k)'
BY DEF Tables, WorkerOK, Complete, StepOf, Entry, Bought

LEMMA TablesKeepWorkers ==
    ASSUME Inv, Tables, UNCHANGED worker,
           \A p \in Orders : exch[p].status # "none" => exch'[p].status # "none"
    PROVE  worker' \in [Workers -> Processes] /\ \A v \in Workers : WorkerOK(worker[v])'
<1>1. worker' \in [Workers -> Processes]
  BY DEF Inv, SoakTypeOK
<1>2. ASSUME NEW v \in Workers PROVE WorkerOK(worker[v])'
  <2>1. PICK k : k = worker[v]
    OBVIOUS
  <2>2. WorkerOK(k)
    BY <2>1 DEF Inv
  <2>3. WorkerOK(k)'
    BY <2>2, TablesOK
  <2>4. worker'[v] = k
    BY <2>1
  <2> QED
    BY <2>3, <2>4
<1> QED
  BY <1>1, <1>2

LEMMA PostInv ==
    ASSUME OneProcess, Inv, NEW w \in Workers, Post(w)
    PROVE  Inv'
<1> DEFINE o == worker[w].order
           n == worker[w].attempt
<1>1. o \in Orders /\ row[o].status = "DISPATCHING" /\ n \in Attempts
  BY DEF Inv, WorkerOK, Post, At
<1>2. wire' = wire \union {<<o, n>>} /\ Tables
  BY DEF Post, Tables, tables
<1>3. wire' \in SUBSET (Orders \X Attempts)
  BY <1>1, <1>2 DEF Inv, SoakTypeOK
<1>4. /\ UNCHANGED <<lease, openings, exch, position>> /\ faults' \in 0 .. MaxFaults
      /\ exch' \in [Orders -> Exchanges] /\ position' \in Int
  BY DEF Post, tables, exchange, Inv, SoakTypeOK, Exchanges
<1>5. PICK k : k = [worker[w] EXCEPT !.pc = "waiting"]
  OBVIOUS
<1>6. k \in Processes /\ k.pc = "waiting" /\ k.order = o /\ k.attempt = n
  BY <1>5, ProcessTypes DEF Inv, Processes, Steps
<1>7. worker' = [worker EXCEPT ![w] = k]
  BY <1>5 DEF Post, Continue, Inv, SoakTypeOK, Processes
<1>8. WorkerOK(k)'
  <2>1. WorkerOK(k)
    BY <1>1, <1>6 DEF WorkerOK
  <2> QED
    BY <2>1, <1>2, <1>4, TablesOK
<1>9. worker' \in [Workers -> Processes] /\ \A v \in Workers : WorkerOK(worker[v])'
  BY <1>6, <1>7, <1>8, WorkerStep DEF Inv
<1>10. ASSUME NEW p \in Orders PROVE RowOK(p)'
  <2>1. RowOK(p)
    BY DEF Inv
  <2>2. Sent(p)' => Sent(p) \/ p = o
    BY <1>2 DEF Sent
  <2> QED
    BY <2>1, <2>2, <1>1, <1>2, <1>4 DEF RowOK, Tables, Listed
<1>11. AccountOK'
  BY <1>2, <1>4 DEF Inv, AccountOK, Known, Complete, StepOf, Busy, Tables
<1> QED
  BY <1>2, <1>3, <1>4, <1>9, <1>10, <1>11, ExchangeStep

LEMMA LostInv ==
    ASSUME Inv, NEW o \in Orders, NEW n \in Attempts, Lost(o, n)
    PROVE  Inv'
<1>1. wire' = wire \ {<<o, n>>} /\ Tables
  BY DEF Lost, Tables, tables
<1>2. wire' \in SUBSET (Orders \X Attempts)
  BY <1>1 DEF Inv, SoakTypeOK
<1>3. /\ UNCHANGED <<lease, openings, exch, position>> /\ faults' \in 0 .. MaxFaults
      /\ exch' \in [Orders -> Exchanges] /\ position' \in Int
  BY LocalTypes DEF Lost, tables, exchange, Inv, SoakTypeOK, Exchanges
<1>4. ASSUME NEW v \in Workers PROVE worker'[v] \in Processes /\ WorkerOK(worker[v])'
  <2>1. PICK k : k = worker'[v]
    OBVIOUS
  <2>2. k = worker[v] \/ k = Releasing(FALSE)
    BY <2>1 DEF Lost
  <2>3. CASE k = worker[v]
    <3>1. k \in Processes /\ WorkerOK(k)
      BY <2>3, ProcessTypes DEF Inv
    <3>2. WorkerOK(k)'
      BY <3>1, <1>1, <1>3, TablesOK
    <3> QED
      BY <2>1, <3>1, <3>2
  <2>4. CASE k = Releasing(FALSE)
    <3>1. k = [pc |-> "releasing", order |-> NoOrder, attempt |-> 0, answer |-> "unknown", seen |-> 0, fine |-> FALSE]
      BY <2>4 DEF Releasing, Resting
    <3>2. k \in Processes
      BY <3>1, SizeAssumption DEF Processes, Steps, Outcomes
    <3>3. Away(k)
      BY <3>1 DEF Away
    <3>4. WorkerOK(k)'
      BY <3>3, AwayOK
    <3> QED
      BY <2>1, <3>2, <3>4
  <2> QED
    BY <2>2, <2>3, <2>4
<1>5. worker' \in [Workers -> Processes]
  BY <1>4 DEF Lost
<1>6. ASSUME NEW p \in Orders PROVE RowOK(p)'
  <2>1. RowOK(p)
    BY DEF Inv
  <2>2. Sent(p)' => Sent(p)
    BY <1>1 DEF Sent
  <2> QED
    BY <2>1, <2>2, <1>1, <1>3 DEF RowOK, Tables, Listed
<1>7. AccountOK'
  BY <1>1, <1>3 DEF Inv, AccountOK, Known, Complete, StepOf, Busy, Tables
<1> QED
  BY <1>1, <1>2, <1>3, <1>4, <1>5, <1>6, <1>7, ExchangeStep


\* A request that arrives: the exchange's answer, a, reaches whoever waits.
LEMMA ArriveInv ==
    ASSUME Inv, NEW o \in Orders, NEW n \in Attempts, Arrive(o, n)
    PROVE  Inv'
<1>1. PICK a \in {"accepted", "rejected"} :
        /\ worker' = [w \in Workers |->
                IF At(w, "waiting") /\ worker[w].order = o /\ worker[w].attempt = n
                  THEN [worker[w] EXCEPT !.pc = "answered", !.answer = a]
                  ELSE worker[w]]
        /\ \/ /\ a = "accepted" /\ exch[o].status = "none"
              /\ exch' = [exch EXCEPT ![o].status = "open"] /\ UNCHANGED faults
           \/ /\ a = "rejected" /\ UNCHANGED exch
              /\ faults' = faults \/ (faults < MaxFaults /\ faults' = faults + 1)
  BY Zenon DEF Arrive
<1>2. wire' = wire \ {<<o, n>>} /\ Tables /\ UNCHANGED <<lease, openings, position>> /\ Sent(o)
  BY DEF Arrive, Tables, tables, Sent
<1>3. wire' \in SUBSET (Orders \X Attempts) /\ position' \in Int /\ faults' \in 0 .. MaxFaults
  BY <1>1, <1>2, LocalTypes DEF Inv, SoakTypeOK
<1>4. row[o].status # "none"
  BY <1>2 DEF Inv, RowOK
<1>5. /\ \A p \in Orders : p # o => exch'[p] = exch[p]
      /\ \/ exch' = exch
         \/ exch[o].status = "none" /\ exch'[o].status = "open" /\ exch'[o].filled = exch[o].filled
      /\ a = "accepted" => exch'[o].status = "open"
      /\ exch' \in [Orders -> Exchanges]
  BY <1>1 DEF Inv, SoakTypeOK, Exchanges
<1>6. \A p \in Orders : exch[p].status # "none" => exch'[p].status # "none"
  BY <1>5
<1>7. ASSUME NEW v \in Workers PROVE worker'[v] \in Processes /\ WorkerOK(worker[v])'
  <2>1. PICK j, k : j = worker[v] /\ k = worker'[v]
    OBVIOUS
  <2>2. j \in Processes /\ WorkerOK(j)
    BY <2>1, ProcessTypes DEF Inv
  <2>3. k = j \/ (j.pc = "waiting" /\ j.order = o /\ k = [j EXCEPT !.pc = "answered", !.answer = a])
    BY <1>1, <2>1 DEF At
  <2>4. CASE k = j
    BY <1>2, <1>6, <2>1, <2>2, <2>4, TablesOK
  <2>5. CASE j.pc = "waiting" /\ j.order = o /\ k = [j EXCEPT !.pc = "answered", !.answer = a]
    <3>1. k \in Processes /\ k.pc = "answered" /\ k.order = o /\ k.answer = a
      BY <2>2, <2>5 DEF Processes, Steps, Outcomes
    <3>2. row[o].status = "DISPATCHING"
      BY <2>2, <2>5 DEF WorkerOK
    <3>3. WorkerOK(k)'
      BY <3>1, <3>2, <1>2, <1>5 DEF WorkerOK, Tables
    <3> QED
      BY <2>1, <3>1, <3>3
  <2> QED
    BY <2>3, <2>4, <2>5
<1>8. worker' \in [Workers -> Processes]
  BY <1>1, <1>7
<1>9. ASSUME NEW p \in Orders PROVE RowOK(p)'
  <2>1. RowOK(p)
    BY DEF Inv
  <2>2. Sent(p)' => Sent(p)
    BY <1>2 DEF Sent
  <2>3. CASE p # o \/ exch' = exch
    BY <2>1, <2>2, <2>3, <1>2, <1>5 DEF RowOK, Tables, Listed
  <2>4. CASE p = o /\ exch[o].status = "none" /\ exch'[o].status = "open" /\ exch'[o].filled = exch[o].filled
    BY <2>1, <2>2, <2>4, <1>2, <1>4, SizeAssumption DEF RowOK, Tables, Listed
  <2> QED
    BY <1>5, <2>3, <2>4
<1>10. AccountOK'
  <2> SUFFICES ASSUME Known' PROVE AccountOK'
    BY DEF AccountOK
  <2>1. Known
    BY <1>2, <1>6 DEF Known, Tables
  <2>2. \A p \in Orders : exch'[p].filled = exch[p].filled
    BY <1>5
  <2>3. \A p \in Orders : Busy(p)' <=> Busy(p)
    BY <1>2 DEF Busy, Tables
  <2>4. Complete' => Complete
    BY <2>3, CompleteIs
  <2> QED
    BY <2>1, <2>2, <2>3, <2>4, <1>2, OrderFacts DEF Inv, AccountOK, Tables
<1> QED
  BY <1>2, <1>3, <1>5, <1>7, <1>8, <1>9, <1>10, ExchangeStep

LEMMA FillInv ==
    ASSUME Inv, NEW o \in Orders, Fill(o)
    PROVE  Inv'
<1>1. /\ Tables /\ UNCHANGED <<lease, openings, worker, wire>> /\ faults' \in 0 .. MaxFaults
      /\ exch[o].status = "open"
      /\ position' = IF o \in Opens THEN position + 1 ELSE position - 1
  BY LocalTypes DEF Fill, Tables, tables
<1>2. row[o].status # "none" /\ row[o].size = Size /\ exch[o].filled + 1 \in 0 .. Size
  BY <1>1, RowTypes, SizeAssumption DEF Inv, RowOK
<1>3. /\ exch' \in [Orders -> Exchanges]
      /\ \A p \in Orders : p # o => exch'[p] = exch[p]
      /\ exch'[o].filled = exch[o].filled + 1
      /\ exch'[o].status = IF exch[o].filled + 1 = Size THEN "done" ELSE "open"
  BY <1>2 DEF Fill, Inv, SoakTypeOK, Exchanges
<1>4. position \in Int /\ position' \in Int /\ wire' \in SUBSET (Orders \X Attempts)
  BY <1>1 DEF Inv, SoakTypeOK
<1>5. \A p \in Orders : exch[p].status # "none" => exch'[p].status # "none"
  BY <1>3
<1>6. worker' \in [Workers -> Processes] /\ \A v \in Workers : WorkerOK(worker[v])'
  BY <1>1, <1>5, TablesKeepWorkers
<1>7. ASSUME NEW p \in Orders PROVE RowOK(p)'
  <2>1. RowOK(p)
    BY DEF Inv
  <2>2. Sent(p)' <=> Sent(p)
    BY <1>1 DEF Sent
  <2>3. CASE p # o
    BY <2>1, <2>2, <2>3, <1>1, <1>3 DEF RowOK, Tables, Listed
  <2>4. CASE p = o
    <3>1. row[o].fills <= exch'[o].filled /\ (exch'[o].status = "open" => exch'[o].filled < Size)
      BY <2>1, <2>4, <1>2, <1>3, RowTypes, SizeAssumption DEF Inv, RowOK
    <3>2. exch'[o].status # "none"
      BY <1>3
    <3> QED
      BY <2>1, <2>2, <2>4, <3>1, <3>2, <1>1, <1>2 DEF RowOK, Tables, Listed
  <2> QED
    BY <2>3, <2>4
<1>8. AccountOK'
  <2> SUFFICES ASSUME Known' PROVE AccountOK'
    BY DEF AccountOK
  <2>1. Known
    BY <1>1, <1>5 DEF Known, Tables
  <2>2. row[o].status # "REJECTED"
    BY <2>1, <1>1 DEF Known
  <2>3. Busy(o)
    <3> SUFFICES ASSUME ~Busy(o) PROVE FALSE
      OBVIOUS
    <3>1. row[o].status = "ACCEPTED"
      BY <2>2, <1>2, RowTypes DEF Busy, Inv, Statuses, InFlight
    <3>2. ~(row[o].fills < Size)
      BY <3>1, <1>2 DEF Busy
    <3> QED
      BY <3>2, <1>1, RowTypes, SizeAssumption DEF Inv, RowOK
  <2>4. \A p \in Orders : Busy(p)' <=> p = o
    <3>1. \A p \in Orders : Busy(p)' <=> Busy(p)
      BY <1>1 DEF Busy, Tables
    <3> QED
      BY <3>1, <2>3, OneBusy
  <2>5. ~Complete'
    BY <2>4, CompleteIs
  <2>6. row' = row /\ net' = net
    BY <1>1 DEF Tables
  <2>7. CASE o \in Opens
    <3>1. position - net = exch[o].filled - row[o].ledger
      BY <2>1, <2>3, <2>7 DEF Inv, AccountOK
    <3>2. position' - net' = exch'[o].filled - row'[o].ledger
      BY <3>1, <2>6, <2>7, <1>1, <1>3, <1>4, RowTypes DEF Inv, SoakTypeOK
    <3> QED
      BY <3>2, <2>4, <2>5, <2>7, OrderFacts DEF AccountOK
  <2>8. CASE o \in Exits
    <3>1. position - net = row[o].ledger - exch[o].filled
      BY <2>1, <2>3, <2>8 DEF Inv, AccountOK
    <3>2. position' - net' = row'[o].ledger - exch'[o].filled
      BY <3>1, <2>6, <2>8, <1>1, <1>3, <1>4, OrderFacts, RowTypes DEF Inv, SoakTypeOK
    <3> QED
      BY <3>2, <2>4, <2>5, <2>8, OrderFacts DEF AccountOK
  <2> QED
    BY <2>7, <2>8, OrderFacts
<1> QED
  BY <1>1, <1>3, <1>4, <1>6, <1>7, <1>8, ExchangeStep

LEMMA EndPartialInv ==
    ASSUME Inv, NEW o \in Orders, EndPartial(o)
    PROVE  Inv'
<1>1. /\ Tables /\ UNCHANGED <<lease, openings, worker, wire, position>> /\ faults' \in 0 .. MaxFaults
      /\ exch[o].status = "open"
  BY LocalTypes DEF EndPartial, Tables, tables
<1>2. /\ exch' \in [Orders -> Exchanges]
      /\ \A p \in Orders : p # o => exch'[p] = exch[p]
      /\ exch'[o].filled = exch[o].filled /\ exch'[o].status = "done"
  BY DEF EndPartial, Inv, SoakTypeOK, Exchanges
<1>3. position' \in Int /\ wire' \in SUBSET (Orders \X Attempts)
  BY <1>1 DEF Inv, SoakTypeOK
<1>4. \A p \in Orders : /\ exch[p].status # "none" <=> exch'[p].status # "none"
                        /\ exch'[p].filled = exch[p].filled
                        /\ exch'[p].status = "open" => exch[p].status = "open"
  BY <1>1, <1>2
<1>5. worker' \in [Workers -> Processes] /\ \A v \in Workers : WorkerOK(worker[v])'
  BY <1>1, <1>4, TablesKeepWorkers
<1>6. ASSUME NEW p \in Orders PROVE RowOK(p)'
  <2>1. RowOK(p)
    BY DEF Inv
  <2>2. Sent(p)' <=> Sent(p)
    BY <1>1 DEF Sent
  <2> QED
    BY <2>1, <2>2, <1>1, <1>4 DEF RowOK, Tables, Listed
<1>7. AccountOK'
  <2>1. Known' => Known
    BY <1>1, <1>4 DEF Known, Tables
  <2>2. \A p \in Orders : Busy(p)' <=> Busy(p)
    BY <1>1 DEF Busy, Tables
  <2>3. Complete' => Complete
    BY <2>2, CompleteIs
  <2> QED
    BY <2>1, <2>2, <2>3, <1>1, <1>4, OrderFacts DEF Inv, AccountOK, Tables
<1> QED
  BY <1>1, <1>2, <1>3, <1>5, <1>6, <1>7, ExchangeStep


-----------------------------------------------------------------------------
(* Steps of one order's row.                                               *)

\* A row that changes neither what its order bought nor what is posted of it,
\* and that ends no need of a step before all the exchange has is posted.
RowChange(o, r) ==
    /\ row' = [row EXCEPT ![o] = r]
    /\ r.ledger = row[o].ledger
    /\ o \in Opens => (r.status = "ACCEPTED" <=> row[o].status = "ACCEPTED")
    /\ o \in Opens /\ r.status \in InFlight => row[o].status \in InFlight
    /\ o \in Exits /\ r.grant # "none" => Finished(OpenOf(o))
    /\ Busy(o)' => Busy(o)
    /\ Finished(o) => Finished(o)'
    /\ Known' => Known
    /\ Known' /\ Busy(o) /\ ~Busy(o)' => exch[o].filled = row[o].ledger

LEMMA RowIs ==
    ASSUME SoakTypeOK, NEW o \in Orders, NEW r, row' = [row EXCEPT ![o] = r]
    PROVE  /\ row'[o] = r
           /\ \A p \in Orders : p # o => row'[p] = row[p]
BY DEF SoakTypeOK

\* The entry stays when no purchase is accepted.
LEMMA EntryStays ==
    ASSUME SoakTypeOK, UNCHANGED history, \A p \in Orders : Bought(p)' <=> Bought(p)
    PROVE  \A p \in Orders : Entry(p)' <=> Entry(p)
<1>1. Len(history) \in Nat /\ \A i \in 1 .. Len(history) : history[i] \in Orders
  BY DEF SoakTypeOK
<1>2. \A i \in 1 .. Len(history) : Bought(history[i])' <=> Bought(history[i])
  BY <1>1
<1> SUFFICES ASSUME NEW p \in Orders PROVE Entry(p)' <=> Entry(p)
  OBVIOUS
<1> QED
  BY <1>1, <1>2 DEF Entry

LEMMA RowStep ==
    ASSUME Inv, NEW o \in Orders, NEW r \in OrderRows, RowChange(o, r), RowOK(o)',
           UNCHANGED <<net, history, wire, exch, position>>,
           lease' \in BOOLEAN, openings' \in BOOLEAN, faults' \in 0 .. MaxFaults,
           worker' \in [Workers -> Processes], \A v \in Workers : WorkerOK(worker[v])'
    PROVE  Inv'
<1>1. SoakTypeOK'
  BY DEF Inv, SoakTypeOK, RowChange
<1>2. row'[o] = r /\ \A p \in Orders : p # o => row'[p] = row[p]
  BY RowIs DEF Inv, RowChange
<1>3. \A p \in Orders : row'[p].ledger = row[p].ledger
  BY <1>2 DEF RowChange
<1>4. \A p \in Orders : Bought(p)' <=> Bought(p)
  BY <1>2 DEF Bought, RowChange
<1>5. \A p \in Orders : Entry(p)' <=> Entry(p)
  BY <1>4, EntryStays DEF Inv
<1>6. \A p \in Orders : /\ p # o => (Busy(p)' <=> Busy(p))
                        /\ Busy(p)' => Busy(p)
  BY <1>2 DEF Busy, RowChange
<1>7. ASSUME NEW p \in Orders PROVE RowOK(p)'
  <2>1. CASE p = o
    BY <2>1
  <2>2. CASE p # o
    BY <2>2, <1>2 DEF Inv, RowOK, Listed, Sent
  <2> QED
    BY <2>1, <2>2
<1>8. HistoryOK'
  <2>1. Len(history) \in Nat /\ \A i \in 1 .. Len(history) : history[i] \in Orders
    BY DEF Inv, SoakTypeOK
  <2>2. \A i \in 1 .. Len(history) : /\ Busy(history[i])' => Busy(history[i])
                                     /\ Bought(history[i])' <=> Bought(history[i])
    BY <2>1, <1>4, <1>6
  <2>3. \A i \in 1 .. Len(history) : Bought(history[i]) =>
           /\ row'[ExitOf(history[i])].ledger = row[ExitOf(history[i])].ledger
           /\ row'[history[i]].ledger = row[history[i]].ledger
    BY <2>1, <1>3, OrderFacts DEF Bought
  <2> QED
    BY <2>2, <2>3 DEF Inv, HistoryOK
<1>9. ExitsOK'
  <2> SUFFICES ASSUME NEW x \in Exits
               PROVE  /\ row'[x].grant # "none" => Finished(OpenOf(x))'
                      /\ Busy(x)' => Entry(OpenOf(x))'
    BY DEF ExitsOK
  <2>1. x \in Orders /\ OpenOf(x) \in Orders /\ OpenOf(x) # x
    BY OrderFacts
  <2>2. Busy(x)' => Entry(OpenOf(x))'
    BY <2>1, <1>5, <1>6 DEF Inv, ExitsOK
  <2>3. Finished(OpenOf(x)) => Finished(OpenOf(x))'
    <3>1. CASE OpenOf(x) = o
      BY <3>1 DEF RowChange
    <3>2. CASE OpenOf(x) # o
      BY <3>2, <2>1, <1>2 DEF Finished
    <3> QED
      BY <3>1, <3>2
  <2>4. row'[x].grant # "none" => Finished(OpenOf(x))
    BY <2>1, <1>2 DEF Inv, ExitsOK, RowChange
  <2> QED
    BY <2>2, <2>3, <2>4
<1>10. NetOK'
  <2> SUFFICES ASSUME NEW p \in Opens
               PROVE  /\ Entry(p)' => net' = row'[p].ledger - row'[ExitOf(p)].ledger
                      /\ row'[p].status \in InFlight => net' = 0
    BY DEF NetOK, InFlight
  <2>1. p \in Orders /\ ExitOf(p) \in Orders
    BY OrderFacts
  <2>2. row'[p].status \in InFlight => row[p].status \in InFlight
    BY <2>1, <1>2 DEF RowChange
  <2> QED
    BY <2>1, <2>2, <1>3, <1>5 DEF Inv, NetOK
<1>11. AccountOK'
  <2> SUFFICES ASSUME Known' PROVE AccountOK'
    BY DEF AccountOK
  <2>1. Known
    BY DEF RowChange
  <2>2. Complete' => position' = net'
    <3> SUFFICES ASSUME Complete' PROVE position = net
      OBVIOUS
    <3>1. CASE Complete
      BY <3>1, <2>1 DEF Inv, AccountOK
    <3>2. CASE ~Complete
      <4>1. Busy(o) /\ ~Busy(o)'
        BY <3>2, <1>6, CompleteIs
      <4>2. exch[o].filled = row[o].ledger
        BY <4>1 DEF RowChange
      <4> QED
        BY <4>1, <4>2, <2>1, OrderFacts, RowTypes DEF Inv, AccountOK, SoakTypeOK
    <3> QED
      BY <3>1, <3>2
  <2> QED
    BY <2>1, <2>2, <1>3, <1>6, OrderFacts DEF Inv, AccountOK
<1> QED
  BY <1>1, <1>7, <1>8, <1>9, <1>10, <1>11 DEF Inv


\* A step that leaves all but rows and processes alone.
Rows == UNCHANGED <<net, history, lease, openings, wire, exch, position>>

LEMMA GrantExpiresInv ==
    ASSUME OneProcess, Inv, NEW o \in Orders, GrantExpires(o)
    PROVE  Inv'
<1>1. PICK r : r = [row[o] EXCEPT !.grant = "expired"]
  OBVIOUS
<1>2. /\ row' = [row EXCEPT ![o] = r] /\ row[o].grant = "live" /\ Rows /\ UNCHANGED worker
      /\ faults' \in 0 .. MaxFaults
  BY <1>1, LocalTypes DEF GrantExpires, Rows, exchange, Inv, SoakTypeOK, OrderRows
<1>3. /\ r \in OrderRows /\ r.grant = "expired" /\ r.size = row[o].size /\ r.status = row[o].status
      /\ r.claims = row[o].claims /\ r.fills = row[o].fills /\ r.ledger = row[o].ledger
      /\ r.matched = row[o].matched
  BY <1>1, RowTypes DEF Inv, OrderRows, GrantStates
<1>4. row'[o] = r /\ \A p \in Orders : p # o => row'[p] = row[p]
  BY <1>2, RowIs DEF Inv
<1>5. RowOK(o)'
  <2>1. RowOK(o)
    BY DEF Inv
  <2>2. (Listed(o)' <=> Listed(o)) /\ (Sent(o)' <=> Sent(o))
    BY <1>2 DEF Listed, Sent, Rows
  <2> QED
    BY <2>1, <2>2, <1>2, <1>3, <1>4 DEF RowOK, Rows
<1>6. \A p \in Orders : row'[p].status = row[p].status /\ (Busy(p)' <=> Busy(p)) /\ (Bought(p)' <=> Bought(p))
  BY <1>3, <1>4 DEF Busy, Bought
<1>7. RowChange(o, r)
  <2>1. o \in Exits => Finished(OpenOf(o))
    BY <1>2 DEF Inv, ExitsOK
  <2>2. Known' => Known
    BY <1>2, <1>6 DEF Known, Rows
  <2>3. Finished(o) => Finished(o)'
    BY <1>3, <1>4 DEF Finished
  <2> QED
    BY <2>1, <2>2, <2>3, <1>2, <1>3, <1>6 DEF RowChange
<1>8. worker' \in [Workers -> Processes] /\ \A v \in Workers : WorkerOK(worker[v])'
  <2>1. worker' \in [Workers -> Processes]
    BY <1>2 DEF Inv, SoakTypeOK
  <2>2. (Complete' <=> Complete) /\ \A p \in Orders : Entry(p)' <=> Entry(p)
    BY <1>2, <1>6, CompleteIs, EntryStays DEF Inv, Rows
  <2>3. ASSUME NEW v \in Workers PROVE WorkerOK(worker[v])'
    <3>1. PICK k : k = worker[v]
      OBVIOUS
    <3>2. WorkerOK(k) /\ k.pc \in Steps
      BY <3>1, ProcessTypes DEF Inv
    <3>3. k.order \in Orders =>
            /\ row'[k.order].status = row[k.order].status
            /\ row'[k.order].grant # "none" <=> row[k.order].grant # "none"
      BY <1>2, <1>3, <1>4
    <3>4. k.order \in Exits => OpenOf(k.order) \in Orders
      BY OrderFacts
    <3>5. k.pc \notin {"idle", "releasing", "stopped", "drained"} => k.order \in Orders
      BY <3>2 DEF WorkerOK
    <3>6. WorkerOK(k)'
      BY <3>2, <3>3, <3>4, <3>5, <2>2, <1>2 DEF WorkerOK, Rows
    <3>7. worker'[v] = k
      BY <1>2, <3>1
    <3> QED
      BY <3>6, <3>7
  <2> QED
    BY <2>1, <2>3
<1> QED
  BY <1>2, <1>3, <1>5, <1>7, <1>8, LocalTypes, RowStep DEF Rows

\* A worker at rest that rests on or stops, whatever happens to an order.
LEMMA RestOrStop ==
    ASSUME OneProcess, Inv, NEW w \in Workers, At(w, "idle"), UNCHANGED worker \/ Stop(w)
    PROVE  worker' \in [Workers -> Processes] /\ \A v \in Workers : WorkerOK(worker[v])'
<1>1. worker[w] = Resting
  BY IdleIs
<1>2. CASE UNCHANGED worker
  <2>1. worker' = [worker EXCEPT ![w] = Resting]
    BY <1>1, <1>2 DEF Inv, SoakTypeOK
  <2> QED
    BY <2>1, Rests DEF Inv
<1> QED
  BY <1>2, Leaves DEF Inv

LEMMA CollectFillsInv ==
    ASSUME OneProcess, Inv, NEW w \in Workers, NEW o \in Orders, CollectFills(w, o)
    PROVE  Inv'
<1>1. PICK r : r = [row[o] EXCEPT !.fills = exch[o].filled]
  OBVIOUS
<1>2. /\ row' = [row EXCEPT ![o] = r] /\ Rows /\ UNCHANGED faults
      /\ UNCHANGED worker \/ Stop(w)
  BY <1>1 DEF CollectFills, Rows, exchange, Inv, SoakTypeOK, OrderRows
<1>3. /\ r \in OrderRows /\ r.grant = row[o].grant /\ r.size = row[o].size /\ r.status = row[o].status
      /\ r.claims = row[o].claims /\ r.fills = exch[o].filled /\ r.ledger = row[o].ledger
      /\ r.matched = row[o].matched
  BY <1>1, RowTypes DEF Inv, OrderRows
<1>4. row'[o] = r /\ \A p \in Orders : p # o => row'[p] = row[p]
  BY <1>2, RowIs DEF Inv
<1>5. Busy(o) /\ row[o].status = "ACCEPTED" /\ row[o].fills < row[o].size
  BY DueIs DEF CollectFills
<1>6. /\ row[o].grant # "none" /\ row[o].size = Size /\ row[o].fills <= exch[o].filled
      /\ row[o].ledger <= row[o].fills
  BY <1>5 DEF Inv, RowOK
<1>7. row[o].ledger <= exch[o].filled
  BY <1>6, RowTypes DEF Inv
<1>8. RowOK(o)'
  BY <1>2, <1>3, <1>4, <1>5, <1>7, RowTypes DEF Inv, RowOK, Listed, Sent, Rows
<1>9. RowChange(o, r)
  <2>1. o \in Exits => Finished(OpenOf(o))
    BY <1>6 DEF Inv, ExitsOK
  <2>2. Known' => Known
    BY <1>2, <1>3, <1>4 DEF Known, Rows
  <2>3. ~Finished(o)
    BY <1>5, <1>6, SizeAssumption DEF Finished
  <2>4. ~Busy(o)' => exch[o].filled = row[o].ledger
    BY <1>3, <1>4, <1>5, <1>7, RowTypes DEF Busy, Inv
  <2> QED
    BY <2>1, <2>2, <2>3, <2>4, <1>2, <1>3, <1>5 DEF RowChange
<1>10. worker' \in [Workers -> Processes] /\ \A v \in Workers : WorkerOK(worker[v])'
  BY <1>2, RestOrStop DEF CollectFills
<1> QED
  BY <1>2, <1>3, <1>8, <1>9, <1>10, LocalTypes, RowStep DEF Rows

LEMMA ReconcileInv ==
    ASSUME OneProcess, Inv, NEW w \in Workers, NEW o \in Orders, Reconcile(w, o)
    PROVE  Inv'
<1>1. UNCHANGED <<net, history, lease, openings, wire, exch, position, faults>> /\ At(w, "idle")
  BY DEF Reconcile, exchange
<1>2. CASE Stop(w) /\ UNCHANGED row
  BY <1>1, <1>2, LocalTypes, LocalLeaves DEF Same
<1>3. CASE row' = [row EXCEPT ![o].matched = row[o].fills] /\ (UNCHANGED worker \/ Stop(w))
  <2>1. PICK r : r = [row[o] EXCEPT !.matched = row[o].fills]
    OBVIOUS
  <2>2. row' = [row EXCEPT ![o] = r] /\ Rows
    BY <1>1, <1>3, <2>1 DEF Rows, Inv, SoakTypeOK, OrderRows
  <2>3. /\ r \in OrderRows /\ r.grant = row[o].grant /\ r.size = row[o].size /\ r.status = row[o].status
        /\ r.claims = row[o].claims /\ r.fills = row[o].fills /\ r.ledger = row[o].ledger
        /\ r.matched = row[o].fills
    BY <2>1, RowTypes DEF Inv, OrderRows
  <2>4. row'[o] = r /\ \A p \in Orders : p # o => row'[p] = row[p]
    BY <2>2, RowIs DEF Inv
  <2>5. /\ Busy(o) /\ row[o].status = "ACCEPTED" /\ ~(row[o].fills < row[o].size)
        /\ ~(row[o].ledger < row[o].fills) /\ row[o].matched < row[o].fills
    BY DueIs DEF Reconcile
  <2>6. /\ row[o].grant # "none" /\ row[o].size = Size /\ row[o].fills <= exch[o].filled
        /\ row[o].ledger <= row[o].fills
    BY <2>5 DEF Inv, RowOK
  <2>7. row[o].ledger = Size /\ row[o].fills = Size /\ exch[o].filled = Size
    BY <2>5, <2>6, RowTypes, SizeAssumption DEF Inv
  <2>8. RowOK(o)'
    BY <2>2, <2>3, <2>4, <2>5, <2>7, SizeAssumption DEF Inv, RowOK, Listed, Sent, Rows
  <2>9. RowChange(o, r)
    <3>1. o \in Exits => Finished(OpenOf(o))
      BY <2>6 DEF Inv, ExitsOK
    <3>2. Known' => Known
      BY <2>2, <2>3, <2>4 DEF Known, Rows
    <3>3. Finished(o) => Finished(o)'
      BY <2>3, <2>4 DEF Finished
    <3> QED
      BY <3>1, <3>2, <3>3, <2>2, <2>3, <2>5, <2>7 DEF RowChange
  <2>10. worker' \in [Workers -> Processes] /\ \A v \in Workers : WorkerOK(worker[v])'
    BY <1>1, <1>3, RestOrStop
  <2> QED
    BY <1>1, <2>2, <2>3, <2>8, <2>9, <2>10, LocalTypes, RowStep
<1> QED
  BY <1>2, <1>3 DEF Reconcile


LEMMA GrantInv ==
    ASSUME OneProcess, Inv, NEW w \in Workers, NEW o \in Orders, GrantOpen(w, o) \/ GrantExit(w, o)
    PROVE  Inv'
<1>1. At(w, "probed") /\ worker[w].order = o
  BY DEF GrantOpen, GrantExit, Grant
<1>2. PICK k : k = [worker[w] EXCEPT !.pc = "granted"]
  OBVIOUS
<1>3. k \in Processes /\ k.pc = "granted" /\ k.order = o
  BY <1>1, <1>2, ProcessTypes DEF Inv, Processes, Steps
<1>4. Continue(w, "granted") => worker' = [worker EXCEPT ![w] = k]
  BY <1>2 DEF Continue, Inv, SoakTypeOK, Processes
<1>5. /\ Complete
      /\ o \in Opens => row[o].status = "none" /\ net = 0
      /\ o \in Exits => Entry(OpenOf(o)) /\ net = Size /\ row[o].status \in {"none", "REJECTED"}
  BY <1>1 DEF Inv, WorkerOK, At
<1>6. Grant(w, o, Size)
  BY <1>5, OrderFacts DEF GrantOpen, GrantExit
<1>7. UNCHANGED <<net, history, lease, openings, wire, exch, position, faults>>
  BY <1>6 DEF Grant, exchange
<1>8. CASE UNCHANGED row
  <2>1. Same /\ lease' \in BOOLEAN /\ openings' \in BOOLEAN /\ faults' \in 0 .. MaxFaults
    BY <1>7, <1>8, LocalTypes DEF Same
  <2>2. CASE Stop(w)
    BY <2>1, <2>2, LocalLeaves
  <2>3. CASE Continue(w, "granted") /\ row[o].grant # "none"
    <3>1. WorkerOK(k)
      BY <1>3, <1>5, <2>3 DEF WorkerOK
    <3> QED
      BY <2>1, <2>3, <3>1, <1>3, <1>4, LocalGo
  <2>4. CASE row' = [row EXCEPT ![o].grant = "live", ![o].size = Size] /\ row[o].grant = "none"
    <3>1. row'[o].grant = "live"
      BY <2>4 DEF Inv, SoakTypeOK, OrderRows
    <3> QED
      BY <3>1, <2>4, <1>8
  <2> QED
    BY <2>2, <2>3, <2>4, <1>6 DEF Grant
<1>9. CASE /\ row[o].grant = "none" /\ Continue(w, "granted")
           /\ row' = [row EXCEPT ![o].grant = "live", ![o].size = Size]
  <2>1. PICK r : r = [row[o] EXCEPT !.grant = "live", !.size = Size]
    OBVIOUS
  <2>2. row' = [row EXCEPT ![o] = r] /\ Rows
    BY <1>7, <1>9, <2>1 DEF Rows, Inv, SoakTypeOK, OrderRows
  <2>3. /\ r \in OrderRows /\ r.grant = "live" /\ r.size = Size /\ r.status = row[o].status
        /\ r.claims = row[o].claims /\ r.fills = row[o].fills /\ r.ledger = row[o].ledger
        /\ r.matched = row[o].matched
    <3>1. row[o] \in OrderRows /\ Size \in 0 .. Size /\ "live" \in GrantStates
      BY RowTypes, SizeAssumption DEF Inv, GrantStates
    <3> QED
      BY <2>1, <3>1 DEF OrderRows
  <2>4. row'[o] = r /\ \A p \in Orders : p # o => row'[p] = row[p]
    BY <2>2, RowIs DEF Inv
  <2>5. row[o].status = "none"
    BY <1>9 DEF Inv, RowOK
  <2>6. RowOK(o)'
    <3>1. RowOK(o)
      BY DEF Inv
    <3>2. (Listed(o)' <=> Listed(o)) /\ (Sent(o)' <=> Sent(o))
      BY <2>2 DEF Listed, Sent, Rows
    <3> QED
      BY <3>1, <3>2, <2>2, <2>3, <2>4, <2>5 DEF RowOK, Rows
  <2>7. \A p \in Orders : row'[p].status = row[p].status /\ (Busy(p)' <=> Busy(p)) /\ (Bought(p)' <=> Bought(p))
    BY <2>3, <2>4, <2>5 DEF Busy, Bought
  <2>8. RowChange(o, r)
    <3>1. o \in Exits => Finished(OpenOf(o))
      BY <1>5, EntryIs, OrderFacts, SizeAssumption
    <3>2. Known' => Known
      BY <2>2, <2>7 DEF Known, Rows
    <3>3. ~Finished(o)
      BY <2>5 DEF Finished
    <3> QED
      BY <3>1, <3>2, <3>3, <2>2, <2>3, <2>7 DEF RowChange
  <2>9. WorkerOK(k)'
    <3>1. Complete' /\ \A p \in Orders : Entry(p)' <=> Entry(p)
      BY <1>5, <2>2, <2>7, CompleteIs, EntryStays DEF Inv, Rows
    <3>2. o \in Exits => OpenOf(o) \in Orders
      BY OrderFacts
    <3> QED
      BY <1>3, <1>5, <2>2, <2>3, <2>4, <2>7, <3>1, <3>2 DEF WorkerOK, Rows
  <2>10. worker' \in [Workers -> Processes] /\ \A v \in Workers : WorkerOK(worker[v])'
    BY <1>3, <1>4, <1>9, <2>9, WorkerStep DEF Inv
  <2> QED
    BY <1>7, <2>2, <2>3, <2>6, <2>8, <2>10, LocalTypes, RowStep
<1> QED
  BY <1>6, <1>8, <1>9 DEF Grant

\* The claims, the last of which has ended so.
Ended(c, a) == [c EXCEPT ![Len(c)] = a]

\* A claim list has two entries at most.
LEMMA ClaimFacts ==
    ASSUME NEW c \in Claims
    PROVE  /\ Len(c) \in 0 .. 2
           /\ c # << >> => Len(c) > 0
           /\ c \in {<< >>, <<"absent">>} =>
                 Append(c, "unknown") \in Claims /\ Append(c, "unknown") # << >> /\ Len(c) + 1 \in Attempts
           /\ \A a \in Outcomes : Ended(c, a) \in Claims
           /\ Len(c) = 1 => \A a \in Outcomes : Ended(c, a) = <<a>>
<1>1. CASE c = << >>
  <2>1. Len(c) = 0 /\ Append(c, "unknown") = <<"unknown">>
    BY <1>1
  <2>2. \A a \in Outcomes : Ended(c, a) = << >>
    BY <1>1 DEF Ended
  <2> QED
    BY <1>1, <2>1, <2>2 DEF Claims, Outcomes, Attempts
<1>2. ASSUME NEW b \in Outcomes, c = <<b>>
      PROVE  /\ Len(c) = 1 /\ c # << >> /\ Append(c, "unknown") = <<b, "unknown">>
             /\ \A a \in Outcomes : Ended(c, a) = <<a>>
  <2>1. Len(c) = 1 /\ c # << >>
    BY <1>2
  <2>2. Append(c, "unknown") = <<b, "unknown">>
    <3> DEFINE d == Append(c, "unknown")
    <3>1. d \in Seq(Outcomes) /\ Len(d) = 2 /\ d[1] = b /\ d[2] = "unknown"
      BY <1>2 DEF Outcomes
    <3> HIDE DEF d
    <3>2. d = <<b, "unknown">>
      BY <3>1
    <3> QED
      BY <3>2 DEF d
  <2>3. \A a \in Outcomes : [c EXCEPT ![1] = a] = <<a>>
    BY <1>2
  <2> QED
    BY <2>1, <2>2, <2>3 DEF Ended
<1>3. ASSUME NEW b \in Outcomes, NEW d \in Outcomes, c = <<b, d>>
      PROVE  /\ Len(c) = 2 /\ c # << >> /\ c # <<"absent">>
             /\ \A a \in Outcomes : Ended(c, a) = <<b, a>>
  BY <1>3 DEF Ended
<1>4. CASE \E b \in Outcomes : c = <<b>>
  <2>1. PICK b \in Outcomes : c = <<b>>
    BY <1>4
  <2>2. Append(c, "unknown") \in Claims /\ Append(c, "unknown") # << >>
    BY <1>2, <2>1 DEF Claims, Outcomes
  <2>3. \A a \in Outcomes : <<a>> \in Claims
    BY DEF Claims
  <2> QED
    BY <1>2, <2>1, <2>2, <2>3 DEF Attempts
<1>5. CASE \E b, d \in Outcomes : c = <<b, d>>
  <2>1. PICK b, d \in Outcomes : c = <<b, d>>
    BY <1>5
  <2>2. \A a \in Outcomes : <<b, a>> \in Claims
    BY DEF Claims
  <2> QED
    BY <1>3, <2>1, <2>2
<1> QED
  BY <1>1, <1>4, <1>5 DEF Claims

LEMMA ClaimInv ==
    ASSUME OneProcess, Inv, NEW w \in Workers, Claim(w)
    PROVE  Inv'
<1> PICK o : o = worker[w].order
  OBVIOUS
<1>1. o \in Orders /\ row[o].status \in {"SUBMITTED", "REJECTED"} /\ row[o].status # "ACCEPTED"
  BY DEF Inv, WorkerOK, Claim, At
<1>2. UNCHANGED <<net, history, lease, openings, wire, exch, position, faults>>
  BY DEF Claim, exchange
<1>3. CASE Abandon(w) /\ UNCHANGED row
  BY <1>2, <1>3, LocalTypes, LocalLeaves DEF Same
<1>4. CASE /\ Claimable(o)
           /\ row' = [row EXCEPT ![o].status = "DISPATCHING", ![o].claims = Append(@, "unknown")]
           /\ worker' = [worker EXCEPT ![w].pc = "posting", ![w].attempt = Len(row[o].claims) + 1]
  <2>1. /\ row[o].status = "SUBMITTED" /\ row[o].grant = "live"
        /\ row[o].claims \in {<< >>, <<"absent">>}
    BY <1>4 DEF Claimable
  <2>2. PICK r : r = [row[o] EXCEPT !.status = "DISPATCHING", !.claims = Append(@, "unknown")]
    OBVIOUS
  <2>3. row' = [row EXCEPT ![o] = r] /\ Rows
    BY <1>1, <1>2, <1>4, <2>2 DEF Rows, Inv, SoakTypeOK, OrderRows
  <2>4. /\ r.grant = "live" /\ r.size = row[o].size /\ r.status = "DISPATCHING"
        /\ r.claims = Append(row[o].claims, "unknown") /\ r.fills = row[o].fills /\ r.ledger = row[o].ledger
        /\ r.matched = row[o].matched
    BY <1>1, <2>1, <2>2, RowTypes DEF Inv, OrderRows
  <2>5. r \in OrderRows /\ r.claims # << >> /\ Len(row[o].claims) + 1 \in Attempts
    <3>1. r.claims \in Claims /\ r.claims # << >> /\ Len(row[o].claims) + 1 \in Attempts
      BY <1>1, <2>1, <2>4, ClaimFacts, RowTypes DEF Inv
    <3>2. row[o] \in OrderRows
      BY <1>1, RowTypes DEF Inv
    <3> QED
      BY <3>1, <3>2, <2>2, <2>4 DEF OrderRows, Statuses
  <2>6. row'[o] = r /\ \A p \in Orders : p # o => row'[p] = row[p]
    BY <1>1, <2>3, RowIs DEF Inv
  <2>7. RowOK(o)'
    <3>1. RowOK(o)
      BY <1>1 DEF Inv
    <3>2. (Listed(o)' <=> Listed(o)) /\ (Sent(o)' <=> Sent(o))
      BY <2>3 DEF Listed, Sent, Rows
    <3> QED
      BY <3>1, <3>2, <2>1, <2>3, <2>4, <2>5, <2>6 DEF RowOK, Rows
  <2>8. RowChange(o, r)
    <3>1. o \in Exits => Finished(OpenOf(o))
      BY <1>1, <2>1 DEF Inv, ExitsOK
    <3>2. Known' => Known
      BY <2>1, <2>3, <2>4, <2>6 DEF Known, Rows
    <3>3. ~Finished(o)
      BY <2>1 DEF Finished
    <3>4. Busy(o) /\ Busy(o)'
      BY <2>1, <2>4, <2>6 DEF Busy, InFlight
    <3> QED
      BY <3>1, <3>2, <3>3, <3>4, <2>1, <2>3, <2>4 DEF RowChange, InFlight
  <2>9. PICK k : k = [worker[w] EXCEPT !.pc = "posting", !.attempt = Len(row[o].claims) + 1]
    OBVIOUS
  <2>10. k \in Processes /\ k.pc = "posting" /\ k.order = o /\ k.attempt \in Attempts
    <3>1. worker[w] \in Processes /\ "posting" \in Steps
      BY ProcessTypes DEF Inv, Steps
    <3>2. Len(row[o].claims) + 1 \in 0 .. 3
      BY <2>5 DEF Attempts
    <3> QED
      BY <3>1, <3>2, <2>5, <2>9 DEF Processes
  <2>11. worker' = [worker EXCEPT ![w] = k]
    BY <1>4, <2>9 DEF Inv, SoakTypeOK, Processes
  <2>12. WorkerOK(k)'
    BY <1>1, <2>4, <2>6, <2>10 DEF WorkerOK
  <2>13. worker' \in [Workers -> Processes] /\ \A v \in Workers : WorkerOK(worker[v])'
    BY <2>10, <2>11, <2>12, WorkerStep DEF Inv
  <2> QED
    BY <1>1, <1>2, <2>3, <2>5, <2>7, <2>8, <2>13, LocalTypes, RowStep
<1> QED
  BY <1>1, <1>3, <1>4 DEF Claim


\* The row that the answer to an order's last claim makes.
Answered(o, a) ==
    [row[o] EXCEPT !.claims = Ended(@, a), !.status = StatusAfter(o, a)]

LEMMA AnsweredIs ==
    ASSUME Inv, NEW o \in Orders, row[o].status = "DISPATCHING",
           NEW a \in Outcomes, a # "unknown", NEW r, r = Answered(o, a)
    PROVE  /\ r \in OrderRows
           /\ r.grant = row[o].grant /\ r.size = row[o].size /\ r.fills = 0 /\ r.ledger = 0 /\ r.matched = 0
           /\ r.status \in {"ACCEPTED", "SUBMITTED", "REJECTED"}
           /\ r.status = "ACCEPTED" <=> a = "accepted"
           /\ r.status = "SUBMITTED" => r.claims = <<"absent">>
           /\ row[o].fills = 0 /\ row[o].ledger = 0 /\ row[o].matched = 0
           /\ row[o].grant # "none" /\ row[o].size = Size
<1> DEFINE c == row[o].claims
<1>1. row[o] \in OrderRows /\ c \in Claims /\ RowOK(o)
  BY RowTypes DEF Inv
<1>2. c # << >> /\ row[o].grant # "none" /\ row[o].size = Size /\ row[o].fills = 0
  BY <1>1 DEF RowOK
<1>3. row[o].ledger = 0 /\ row[o].matched = 0
  BY <1>1, <1>2, RowTypes DEF Inv, RowOK
<1>4. Len(c) \in 0 .. 2 /\ Ended(c, a) \in Claims /\ (Len(c) = 1 => Ended(c, a) = <<a>>)
  BY <1>1, ClaimFacts
<1>5. /\ StatusAfter(o, a) \in {"ACCEPTED", "SUBMITTED", "REJECTED"}
      /\ StatusAfter(o, a) = "ACCEPTED" <=> a = "accepted"
      /\ StatusAfter(o, a) = "SUBMITTED" => a = "absent" /\ Len(c) = 1
  BY DEF StatusAfter
<1>6. /\ r.claims = Ended(c, a) /\ r.status = StatusAfter(o, a)
      /\ r.grant = row[o].grant /\ r.size = row[o].size /\ r.fills = row[o].fills
      /\ r.ledger = row[o].ledger /\ r.matched = row[o].matched
  BY <1>1 DEF Answered, OrderRows
<1>7. r \in OrderRows
  <2>1. StatusAfter(o, a) \in Statuses
    BY <1>5 DEF Statuses
  <2> HIDE DEF c
  <2>2. r = [row[o] EXCEPT !.claims = Ended(c, a), !.status = StatusAfter(o, a)]
    BY DEF Answered, c
  <2> QED
    BY <1>1, <1>4, <2>1, <2>2 DEF OrderRows
<1> QED
  BY <1>2, <1>3, <1>4, <1>5, <1>6, <1>7

\* An answer is recorded, and the process gives its lease back.
LEMMA RecordIs ==
    ASSUME OneProcess, Inv, NEW w \in Workers, Record(w)
    PROVE  \E o \in Orders, a \in Outcomes :
             /\ row[o].status = "DISPATCHING" /\ a # "unknown"
             /\ a = "accepted" => exch[o].status # "none"
             /\ row' = [row EXCEPT ![o] = Answered(o, a)]
             /\ Rows /\ UNCHANGED faults
             /\ worker' \in [Workers -> Processes] /\ \A v \in Workers : WorkerOK(worker[v])'
<1> DEFINE o == worker[w].order
           a == worker[w].answer
<1>1. /\ o \in Orders /\ row[o].status = "DISPATCHING" /\ a # "unknown"
      /\ a = "accepted" => exch[o].status # "none"
  BY DEF Inv, WorkerOK, Record, At
<1>2. a \in Outcomes
  BY ProcessTypes DEF Inv
<1>3. /\ row' = [row EXCEPT ![o].claims[Len(row[o].claims)] = a, ![o].status = StatusAfter(o, a)]
      /\ Conclude(w) /\ Rows /\ UNCHANGED faults
  BY <1>1 DEF Record, Rows, exchange
<1>4. row[o] \in OrderRows
  BY <1>1, RowTypes DEF Inv
<1>5. row' = [row EXCEPT ![o] = Answered(o, a)]
  BY <1>1, <1>3, <1>4 DEF Answered, Ended, Inv, SoakTypeOK, OrderRows
<1>6. worker' \in [Workers -> Processes] /\ \A v \in Workers : WorkerOK(worker[v])'
  BY <1>3, Leaves DEF Inv
<1> QED
  BY <1>1, <1>2, <1>3, <1>5, <1>6


\* Every answer but the acceptance of a purchase.
LEMMA RecordOther ==
    ASSUME Inv, NEW o \in Orders, NEW a \in Outcomes, row[o].status = "DISPATCHING", a # "unknown",
           a = "accepted" => exch[o].status # "none" /\ o \in Exits,
           row' = [row EXCEPT ![o] = Answered(o, a)], Rows, UNCHANGED faults,
           worker' \in [Workers -> Processes], \A v \in Workers : WorkerOK(worker[v])'
    PROVE  Inv'
<1>1. PICK r : r = Answered(o, a)
  OBVIOUS
<1>2. /\ r \in OrderRows
      /\ r.grant = row[o].grant /\ r.size = row[o].size /\ r.fills = 0 /\ r.ledger = 0 /\ r.matched = 0
      /\ r.status \in {"ACCEPTED", "SUBMITTED", "REJECTED"}
      /\ r.status = "ACCEPTED" <=> a = "accepted"
      /\ r.status = "SUBMITTED" => r.claims = <<"absent">>
      /\ row[o].fills = 0 /\ row[o].ledger = 0 /\ row[o].matched = 0
      /\ row[o].grant # "none" /\ row[o].size = Size
  BY <1>1, AnsweredIs
<1>3. row' = [row EXCEPT ![o] = r]
  BY <1>1
<1>4. row'[o] = r /\ \A p \in Orders : p # o => row'[p] = row[p]
  BY <1>3, RowIs DEF Inv
<1>5. RowOK(o)'
  <2>1. RowOK(o)
    BY DEF Inv
  <2>2. (Listed(o)' <=> Listed(o)) /\ (Sent(o)' <=> Sent(o)) /\ UNCHANGED exch
    BY DEF Listed, Sent, Rows
  <2>3. r.status # "none" /\ r.status # "DISPATCHING"
    BY <1>2
  <2> QED
    BY <2>1, <2>2, <2>3, <1>2, <1>4 DEF RowOK
<1>6. RowChange(o, r)
  <2>1. o \in Exits => Finished(OpenOf(o))
    BY <1>2 DEF Inv, ExitsOK
  <2>2. Known' => Known
    BY <1>4 DEF Known, Rows
  <2>3. ~Finished(o) /\ Busy(o)
    BY DEF Finished, Busy, InFlight
  <2>4. Known' /\ ~Busy(o)' => exch[o].filled = row[o].ledger
    <3> SUFFICES ASSUME Known', ~Busy(o)' PROVE exch[o].filled = 0
      BY <1>2
    <3>1. r.status = "REJECTED"
      BY <1>2, <1>4, SizeAssumption DEF Busy, InFlight
    <3>2. exch[o].status = "none"
      BY <3>1, <1>4 DEF Known, Rows
    <3> QED
      BY <3>2 DEF Inv, RowOK
  <2>5. o \in Opens => r.status # "ACCEPTED"
    BY <1>2, OrderFacts
  <2> QED
    BY <2>1, <2>2, <2>3, <2>4, <2>5, <1>2, <1>3 DEF RowChange, InFlight
<1> QED
  BY <1>2, <1>3, <1>5, <1>6, LocalTypes, RowStep DEF Rows

\* A purchase is accepted: it is the last order, so that the one before it is
\* sold and nothing of its own is.
LEMMA RecordPurchase ==
    ASSUME Inv, NEW o \in Opens, row[o].status = "DISPATCHING", exch[o].status # "none",
           row' = [row EXCEPT ![o] = Answered(o, "accepted")], Rows, UNCHANGED faults,
           worker' \in [Workers -> Processes], \A v \in Workers : WorkerOK(worker[v])'
    PROVE  Inv'
<1>1. PICK r : r = Answered(o, "accepted")
  OBVIOUS
<1>2. o \in Orders /\ ExitOf(o) \in Orders /\ ExitOf(o) \in Exits /\ OpenOf(ExitOf(o)) = o
  BY OrderFacts
<1>3. /\ r \in OrderRows
      /\ r.grant = row[o].grant /\ r.size = Size /\ r.fills = 0 /\ r.ledger = 0 /\ r.matched = 0
      /\ r.status = "ACCEPTED"
      /\ row[o].fills = 0 /\ row[o].ledger = 0 /\ row[o].matched = 0
      /\ row[o].grant # "none" /\ row[o].size = Size
  BY <1>1, <1>2, AnsweredIs DEF Outcomes
<1>4. row' = [row EXCEPT ![o] = r]
  BY <1>1
<1>5. row'[o] = r /\ \A p \in Orders : p # o => row'[p] = row[p]
  BY <1>2, <1>4, RowIs DEF Inv
<1>6. \A p \in Orders : row'[p].ledger = row[p].ledger
  BY <1>3, <1>5
<1>7. Busy(o) /\ Busy(o)'
  BY <1>3, <1>5, SizeAssumption DEF Busy, InFlight
<1>8. \A p \in Orders : /\ Busy(p) <=> p = o
                        /\ Busy(p)' <=> p = o
  <2>1. \A p \in Orders : Busy(p) <=> p = o
    BY <1>2, <1>7, OneBusy
  <2>2. \A p \in Orders : p # o => (Busy(p)' <=> Busy(p))
    BY <1>5 DEF Busy
  <2> QED
    BY <2>1, <2>2, <1>7
<1>9. Bought(o)' /\ \A p \in Orders : p # o => (Bought(p)' <=> Bought(p))
  BY <1>3, <1>5 DEF Bought
<1>10. /\ Len(history) \in Nat /\ Len(history) >= 1 /\ history[Len(history)] = o
       /\ \A i \in 1 .. Len(history) : history[i] \in Orders
       /\ \A i \in 1 .. Len(history) : history[i] = o <=> i = Len(history)
  <2>1. Len(history) \in Nat /\ Len(history) >= 1 /\ history[Len(history)] = o
    BY <1>2, <1>7, OneBusy
  <2>2. \A i \in 1 .. Len(history) : history[i] \in Orders
    BY DEF Inv, SoakTypeOK
  <2> QED
    BY <2>1, <2>2 DEF Inv, HistoryOK
<1>11. net = 0 /\ net' = 0 /\ history' = history
  BY DEF Inv, NetOK, Rows, InFlight
<1>12. \A p \in Orders : Entry(p)' <=> p = o
  <2>1. Entry(o)'
    <3>1. \A j \in Len(history) + 1 .. Len(history) : ~Bought(history[j])'
      BY <1>10
    <3>2. Len(history) \in 1 .. Len(history)
      BY <1>10
    <3> QED
      BY <3>1, <3>2, <1>9, <1>10, <1>11 DEF Entry
  <2>2. ASSUME NEW p \in Orders, p # o, Entry(p)' PROVE FALSE
    <3>1. PICK i \in 1 .. Len(history) :
            /\ history[i] = p
            /\ \A j \in i + 1 .. Len(history) : ~Bought(history[j])'
      BY <2>2, <1>11 DEF Entry
    <3>2. i # Len(history)
      BY <3>1, <2>2, <1>10
    <3>3. Len(history) \in i + 1 .. Len(history)
      BY <3>2, <1>10
    <3> QED
      BY <3>1, <3>3, <1>2, <1>9, <1>10, <1>11
  <2> QED
    BY <2>1, <2>2, <1>2
<1>13. row[ExitOf(o)].status = "none" /\ row[ExitOf(o)].ledger = 0
  <2>1. ~Finished(o)
    BY DEF Finished
  <2>2. row[ExitOf(o)].grant = "none"
    BY <2>1, <1>2 DEF Inv, ExitsOK
  <2>3. row[ExitOf(o)].status = "none" /\ row[ExitOf(o)].fills = 0
    BY <2>2, <1>2 DEF Inv, RowOK
  <2> QED
    BY <2>3, <1>2, RowTypes DEF Inv, RowOK
<1>14. SoakTypeOK'
  BY <1>2, <1>3, <1>4 DEF Inv, SoakTypeOK, Rows
<1>15. ASSUME NEW p \in Orders PROVE RowOK(p)'
  <2>1. RowOK(p)
    BY DEF Inv
  <2>2. (Listed(p)' <=> Listed(p)) /\ (Sent(p)' <=> Sent(p)) /\ UNCHANGED exch
    BY DEF Listed, Sent, Rows
  <2>3. CASE p = o
    BY <2>1, <2>2, <2>3, <1>3, <1>5 DEF RowOK
  <2>4. CASE p # o
    BY <2>1, <2>2, <2>4, <1>5 DEF RowOK
  <2> QED
    BY <2>3, <2>4
<1>16. HistoryOK'
  <2>1. ASSUME NEW i \in 1 .. Len(history), NEW j \in 1 .. Len(history),
               i < j, Bought(history[i])', Bought(history[j])'
        PROVE  row'[ExitOf(history[i])].ledger = row'[history[i]].ledger
    <3> DEFINE p == history[i]
    <3>1. p \in Orders /\ p # o
      BY <2>1, <1>10
    <3>2. Bought(p) /\ p \in Opens /\ ExitOf(p) \in Orders
      BY <3>1, <2>1, <1>9, <1>11, OrderFacts DEF Bought
    <3>3. CASE \E l \in i + 1 .. Len(history) : Bought(history[l])
      <4>1. PICK l \in i + 1 .. Len(history) : Bought(history[l])
        BY <3>3
      <4>2. l \in 1 .. Len(history) /\ i < l
        BY <1>10
      <4> QED
        BY <4>1, <4>2, <3>1, <3>2, <1>6 DEF Inv, HistoryOK
    <3>4. CASE ~\E l \in i + 1 .. Len(history) : Bought(history[l])
      <4>1. Entry(p)
        BY <3>2, <3>4 DEF Entry
      <4>2. 0 = row[p].ledger - row[ExitOf(p)].ledger
        BY <4>1, <3>2, <1>11 DEF Inv, NetOK
      <4> QED
        BY <4>2, <3>1, <3>2, <1>6, RowTypes DEF Inv
    <3> QED
      BY <3>3, <3>4
  <2>2. \A i \in 1 .. Len(history) : Busy(history[i])' => i = Len(history)
    BY <1>8, <1>10, <1>11
  <2>3. \A i, j \in 1 .. Len(history) : history[i] = history[j] => i = j
    BY DEF Inv, HistoryOK
  <2> QED
    BY <2>1, <2>2, <2>3, <1>11 DEF HistoryOK
<1>17. ExitsOK'
  <2> SUFFICES ASSUME NEW x \in Exits
               PROVE  /\ row'[x].grant # "none" => Finished(OpenOf(x))'
                      /\ Busy(x)' => Entry(OpenOf(x))'
    BY DEF ExitsOK
  <2>1. x \in Orders /\ OpenOf(x) \in Orders /\ x # o
    BY OrderFacts
  <2>2. ~Busy(x)'
    BY <2>1, <1>8
  <2>3. CASE OpenOf(x) = o
    <3>1. ~Finished(o)
      BY DEF Finished
    <3> QED
      BY <3>1, <2>1, <2>2, <2>3, <1>5 DEF Inv, ExitsOK
  <2>4. CASE OpenOf(x) # o
    BY <2>1, <2>2, <2>4, <1>5 DEF Inv, ExitsOK, Finished
  <2> QED
    BY <2>3, <2>4
<1>18. NetOK'
  <2> SUFFICES ASSUME NEW p \in Opens
               PROVE  /\ Entry(p)' => net' = row'[p].ledger - row'[ExitOf(p)].ledger
                      /\ row'[p].status \in InFlight => net' = 0
    BY DEF NetOK, InFlight
  <2>1. p \in Orders
    BY OrderFacts
  <2> QED
    BY <2>1, <1>2, <1>3, <1>6, <1>11, <1>12, <1>13
<1>19. AccountOK'
  <2> SUFFICES ASSUME Known' PROVE AccountOK'
    BY DEF AccountOK
  <2>1. Known
    BY <1>5 DEF Known, Rows
  <2>2. ~Complete'
    BY <1>2, <1>8, CompleteIs
  <2> QED
    BY <2>1, <2>2, <1>2, <1>6, <1>8, OrderFacts DEF Inv, AccountOK, Rows
<1> QED
  BY <1>14, <1>15, <1>16, <1>17, <1>18, <1>19 DEF Inv

LEMMA RecordInv ==
    ASSUME OneProcess, Inv, NEW w \in Workers, Record(w)
    PROVE  Inv'
<1>1. PICK o \in Orders, a \in Outcomes :
        /\ row[o].status = "DISPATCHING" /\ a # "unknown"
        /\ a = "accepted" => exch[o].status # "none"
        /\ row' = [row EXCEPT ![o] = Answered(o, a)]
        /\ Rows /\ UNCHANGED faults
        /\ worker' \in [Workers -> Processes] /\ \A v \in Workers : WorkerOK(worker[v])'
  BY RecordIs
<1>2. CASE a = "accepted" /\ o \in Opens
  BY <1>1, <1>2, RecordPurchase
<1>3. CASE a # "accepted" \/ o \in Exits
  BY <1>1, <1>3, RecordOther
<1> QED
  BY <1>2, <1>3, OrderFacts


-----------------------------------------------------------------------------
(* The ledger.                                                             *)

\* There is one entry of the position.
LEMMA OneEntry ==
    ASSUME Inv, NEW p \in Orders, NEW q \in Orders, Entry(p), Entry(q)
    PROVE  p = q
<1>1. Len(history) \in Nat
  BY DEF Inv, SoakTypeOK
<1>2. PICK i \in 1 .. Len(history) : history[i] = p /\ \A l \in i + 1 .. Len(history) : ~Bought(history[l])
  BY DEF Entry
<1>3. PICK j \in 1 .. Len(history) : history[j] = q /\ \A l \in j + 1 .. Len(history) : ~Bought(history[l])
  BY DEF Entry
<1>4. Bought(p) /\ Bought(q)
  BY DEF Entry
<1>5. ~(i < j)
  <2> SUFFICES ASSUME i < j PROVE FALSE
    OBVIOUS
  <2>1. j \in i + 1 .. Len(history)
    BY <1>1
  <2> QED
    BY <2>1, <1>2, <1>3, <1>4
<1>6. ~(j < i)
  <2> SUFFICES ASSUME j < i PROVE FALSE
    OBVIOUS
  <2>1. i \in j + 1 .. Len(history)
    BY <1>1
  <2> QED
    BY <2>1, <1>2, <1>3, <1>4
<1>7. i = j
  BY <1>5, <1>6
<1> QED
  BY <1>2, <1>3, <1>7

\* No purchase comes after the entry.
LEMMA EntryIsLast ==
    ASSUME Inv, NEW i \in 1 .. Len(history), NEW j \in 1 .. Len(history), i < j,
           Entry(history[i]), Bought(history[j])
    PROVE  FALSE
<1>1. Len(history) \in Nat
  BY DEF Inv, SoakTypeOK
<1>2. PICK l \in 1 .. Len(history) :
        history[l] = history[i] /\ \A m \in l + 1 .. Len(history) : ~Bought(history[m])
  BY DEF Entry
<1>3. l = i
  BY <1>2 DEF Inv, HistoryOK
<1>4. j \in l + 1 .. Len(history)
  BY <1>1, <1>3
<1> QED
  BY <1>2, <1>4

\* A purchase that needs a step after it was accepted is the entry.
LEMMA BusyPurchase ==
    ASSUME Inv, NEW o \in Opens, Busy(o), row[o].status = "ACCEPTED"
    PROVE  Entry(o)
<1>1. o \in Orders
  BY OrderFacts
<1>2. Len(history) \in Nat /\ Len(history) >= 1 /\ history[Len(history)] = o
  BY <1>1, OneBusy
<1>3. \A j \in Len(history) + 1 .. Len(history) : ~Bought(history[j])
  BY <1>2
<1>4. Len(history) \in 1 .. Len(history)
  BY <1>2
<1> QED
  BY <1>2, <1>3, <1>4 DEF Entry, Bought

LEMMA PostLedgerInv ==
    ASSUME OneProcess, Inv, NEW w \in Workers, NEW o \in Orders, PostLedger(w, o)
    PROVE  Inv'
<1>1. PICK r : r = [row[o] EXCEPT !.ledger = @ + 1]
  OBVIOUS
<1>2. /\ row' = [row EXCEPT ![o] = r]
      /\ net' = IF o \in Opens THEN net + 1 ELSE net - 1
      /\ UNCHANGED <<history, lease, openings, worker, wire, exch, position, faults>>
      /\ At(w, "idle")
  BY <1>1 DEF PostLedger, exchange, Inv, SoakTypeOK, OrderRows
<1>3. /\ Busy(o) /\ row[o].status = "ACCEPTED" /\ row[o].ledger < row[o].fills
      /\ ~(row[o].fills < row[o].size)
  BY DueIs DEF PostLedger
<1>4. /\ row[o].grant # "none" /\ row[o].size = Size /\ row[o].fills = Size
      /\ row[o].matched <= row[o].ledger /\ row[o].ledger + 1 \in 0 .. Size
  BY <1>3, RowTypes, SizeAssumption DEF Inv, RowOK
<1>5. /\ r \in OrderRows /\ r.grant = row[o].grant /\ r.size = Size /\ r.status = "ACCEPTED"
      /\ r.claims = row[o].claims /\ r.fills = Size /\ r.ledger = row[o].ledger + 1
      /\ r.matched = row[o].matched
  BY <1>1, <1>3, <1>4, RowTypes DEF Inv, OrderRows
<1>6. row'[o] = r /\ \A p \in Orders : p # o => row'[p] = row[p]
  BY <1>2, RowIs DEF Inv
<1>7. \A p \in Orders : /\ Bought(p)' <=> Bought(p)
                        /\ Busy(p) <=> p = o
                        /\ Busy(p)' <=> p = o
  <2>1. \A p \in Orders : Bought(p)' <=> Bought(p)
    BY <1>3, <1>5, <1>6 DEF Bought
  <2>2. \A p \in Orders : Busy(p) <=> p = o
    BY <1>3, OneBusy
  <2>3. Busy(o)'
    BY <1>4, <1>5, <1>6, RowTypes DEF Busy, Inv
  <2>4. \A p \in Orders : p # o => (Busy(p)' <=> Busy(p))
    BY <1>6 DEF Busy
  <2> QED
    BY <2>1, <2>2, <2>3, <2>4
<1>8. \A p \in Orders : Entry(p)' <=> Entry(p)
  BY <1>2, <1>7, EntryStays DEF Inv
<1>9. \A p \in Orders : p # o => row'[p].ledger = row[p].ledger
  BY <1>6
<1>10. \A x \in Exits : row'[x].grant = row[x].grant
  BY <1>5, <1>6, OrderFacts
<1>11. \A p \in Opens : ~(row[p].status \in InFlight) /\ ~(row'[p].status \in InFlight)
  BY <1>3, <1>5, <1>6, <1>7, OrderFacts DEF Busy, InFlight
<1> DEFINE Unmoved == \A i, j \in 1 .. Len(history) :
              i < j /\ Bought(history[i]) /\ Bought(history[j]) => history[i] # o /\ ExitOf(history[i]) # o
<1>12. ASSUME o \in Opens
       PROVE  net' \in 0 .. Size /\ NetOK' /\ AccountOK' /\ Unmoved
  <2>1. Entry(o)
    BY <1>3, <1>12, BusyPurchase
  <2>2. ExitOf(o) \in Orders /\ ExitOf(o) \in Exits /\ OpenOf(ExitOf(o)) = o /\ ExitOf(o) # o
    BY <1>12, OrderFacts
  <2>3. row[ExitOf(o)].ledger = 0
    <3>1. ~Finished(o)
      BY <1>4, RowTypes DEF Finished, Inv
    <3>2. row[ExitOf(o)].grant = "none"
      BY <2>2, <3>1 DEF Inv, ExitsOK
    <3>3. row[ExitOf(o)].fills = 0
      BY <2>2, <3>2 DEF Inv, RowOK
    <3> QED
      BY <2>2, <3>3, RowTypes DEF Inv, RowOK
  <2>4. net = row[o].ledger /\ net' = row[o].ledger + 1
    BY <1>2, <1>12, <2>1, <2>3, RowTypes DEF Inv, NetOK
  <2>5. NetOK'
    <3> SUFFICES ASSUME NEW p \in Opens, Entry(p)
                 PROVE  net' = row'[p].ledger - row'[ExitOf(p)].ledger
      BY <1>8, <1>11, OrderFacts DEF NetOK, InFlight
    <3>1. p = o
      BY <2>1, <1>12, OneEntry, OrderFacts
    <3> QED
      BY <3>1, <2>2, <2>3, <2>4, <1>5, <1>6, RowTypes DEF Inv
  <2>6. AccountOK'
    <3> SUFFICES ASSUME Known' PROVE AccountOK'
      BY DEF AccountOK
    <3>1. Known
      BY <1>2, <1>3, <1>6 DEF Known
    <3>2. position - net = exch[o].filled - row[o].ledger
      BY <1>3, <1>12, <3>1 DEF Inv, AccountOK
    <3>3. position' - net' = exch'[o].filled - row'[o].ledger
      BY <3>2, <2>4, <1>2, <1>5, <1>6, RowTypes DEF Inv, SoakTypeOK
    <3>4. ~Complete'
      BY <1>7, CompleteIs
    <3> QED
      BY <1>7, <1>12, <3>3, <3>4, OrderFacts DEF AccountOK
  <2>7. Unmoved
    <3>1. \A i, j \in 1 .. Len(history) :
            i < j /\ Bought(history[i]) /\ Bought(history[j]) => history[i] # o
      BY <2>1, EntryIsLast
    <3>2. \A p \in Opens : ExitOf(p) # o
      BY <1>12, OrderFacts
    <3> QED
      BY <3>1, <3>2 DEF Bought
  <2>8. net' \in 0 .. Size
    BY <2>4, <1>4
  <2> QED
    BY <2>5, <2>6, <2>7, <2>8
<1>13. ASSUME o \in Exits
       PROVE  net' \in 0 .. Size /\ NetOK' /\ AccountOK' /\ Unmoved
  <2> DEFINE b == OpenOf(o)
  <2>1. b \in Opens /\ b \in Orders /\ ExitOf(b) = o /\ b # o /\ o \notin Opens
    BY <1>13, OrderFacts
  <2>2. Entry(b) /\ Finished(b)
    BY <1>3, <1>4, <1>13 DEF Inv, ExitsOK
  <2>3. net = Size - row[o].ledger /\ net' = Size - (row[o].ledger + 1)
    BY <1>2, <2>1, <2>2, RowTypes, SizeAssumption DEF Inv, NetOK, Finished
  <2>4. row'[b].ledger = Size
    BY <2>1, <2>2, <1>6 DEF Finished
  <2>5. NetOK'
    <3> SUFFICES ASSUME NEW p \in Opens, Entry(p)
                 PROVE  net' = row'[p].ledger - row'[ExitOf(p)].ledger
      BY <1>8, <1>11, OrderFacts DEF NetOK, InFlight
    <3>1. p = b
      BY <2>1, <2>2, OneEntry, OrderFacts
    <3> QED
      BY <3>1, <2>1, <2>3, <2>4, <1>5, <1>6
  <2>6. AccountOK'
    <3> SUFFICES ASSUME Known' PROVE AccountOK'
      BY DEF AccountOK
    <3>1. Known
      BY <1>2, <1>3, <1>6 DEF Known
    <3>2. position - net = row[o].ledger - exch[o].filled
      BY <1>3, <1>13, <3>1 DEF Inv, AccountOK
    <3>3. position' - net' = row'[o].ledger - exch'[o].filled
      <4>1. net' = net - 1 /\ position' = position /\ exch' = exch /\ row'[o].ledger = row[o].ledger + 1
        BY <2>1, <1>2, <1>5, <1>6
      <4>2. net \in Int /\ position \in Int /\ exch[o].filled \in Int /\ row[o].ledger \in Int
        BY RowTypes DEF Inv, SoakTypeOK
      <4> QED
        BY <3>2, <4>1, <4>2
    <3>4. ~Complete'
      BY <1>7, CompleteIs
    <3> QED
      BY <1>7, <1>13, <3>3, <3>4, OrderFacts DEF AccountOK
  <2>7. Unmoved
    <3>1. \A p \in Opens : ExitOf(p) = o => p = b
      BY OrderFacts
    <3>2. \A i, j \in 1 .. Len(history) :
            i < j /\ Bought(history[i]) /\ Bought(history[j]) => history[i] # b
      BY <2>2, EntryIsLast
    <3> QED
      BY <3>1, <3>2, <2>1 DEF Bought
  <2>8. net' \in 0 .. Size
    BY <2>3, <1>4, SizeAssumption
  <2> QED
    BY <2>5, <2>6, <2>7, <2>8
<1>14. net' \in 0 .. Size /\ NetOK' /\ AccountOK' /\ Unmoved
  BY <1>12, <1>13, OrderFacts
<1>15. SoakTypeOK'
  BY <1>2, <1>5, <1>14 DEF Inv, SoakTypeOK
<1>16. ASSUME NEW p \in Orders PROVE RowOK(p)'
  <2>1. RowOK(p)
    BY DEF Inv
  <2>2. (Listed(p)' <=> Listed(p)) /\ (Sent(p)' <=> Sent(p)) /\ UNCHANGED exch
    BY <1>2 DEF Listed, Sent
  <2>3. CASE p = o
    <3>1. row[o].matched <= row[o].ledger + 1 /\ row[o].ledger + 1 <= Size
      BY <1>4, RowTypes DEF Inv
    <3> QED
      BY <2>1, <2>2, <2>3, <3>1, <1>3, <1>4, <1>5, <1>6 DEF RowOK
  <2>4. CASE p # o
    BY <2>1, <2>2, <2>4, <1>6 DEF RowOK
  <2> QED
    BY <2>3, <2>4
<1>17. HistoryOK'
  <2>1. Len(history) \in Nat /\ \A i \in 1 .. Len(history) : history[i] \in Orders
    BY DEF Inv, SoakTypeOK
  <2>2. ASSUME NEW i \in 1 .. Len(history), NEW j \in 1 .. Len(history),
               i < j, Bought(history[i]), Bought(history[j])
        PROVE  row'[ExitOf(history[i])].ledger = row'[history[i]].ledger
    <3>1. history[i] \in Orders /\ ExitOf(history[i]) \in Orders
      BY <2>1, <2>2, OrderFacts DEF Bought
    <3>2. history[i] # o /\ ExitOf(history[i]) # o
      BY <2>2, <1>14
    <3> QED
      BY <2>2, <3>1, <3>2, <1>9 DEF Inv, HistoryOK
  <2>3. \A i \in 1 .. Len(history) : /\ Busy(history[i])' => Busy(history[i])
                                     /\ Bought(history[i])' <=> Bought(history[i])
    BY <2>1, <1>2, <1>7
  <2> QED
    BY <2>2, <2>3, <1>2 DEF Inv, HistoryOK
<1>18. ExitsOK'
  <2> SUFFICES ASSUME NEW x \in Exits
               PROVE  /\ row'[x].grant # "none" => Finished(OpenOf(x))'
                      /\ Busy(x)' => Entry(OpenOf(x))'
    BY DEF ExitsOK
  <2>1. x \in Orders /\ OpenOf(x) \in Orders
    BY OrderFacts
  <2>2. Busy(x)' => Entry(OpenOf(x))'
    BY <2>1, <1>7, <1>8 DEF Inv, ExitsOK
  <2>3. Finished(OpenOf(x)) => OpenOf(x) # o
    BY <1>4, RowTypes DEF Finished, Inv
  <2>4. row'[x].grant # "none" => Finished(OpenOf(x))
    BY <1>10 DEF Inv, ExitsOK
  <2> QED
    BY <2>1, <2>2, <2>3, <2>4, <1>6 DEF Finished
<1>19. worker' \in [Workers -> Processes] /\ \A v \in Workers : WorkerOK(worker[v])'
  BY <1>2, RestOrStop
<1> QED
  BY <1>14, <1>15, <1>16, <1>17, <1>18, <1>19 DEF Inv


-----------------------------------------------------------------------------
(* The preparation of an order.                                            *)

\* A new order, prepared when all before it are complete.
LEMMA PrepareNew ==
    ASSUME Inv, NEW o \in Orders, row[o].status = "none", row[o].grant = "live", Complete,
           o \in Opens => net = 0,
           o \in Exits => Entry(OpenOf(o)),
           row' = [row EXCEPT ![o].status = "SUBMITTED"], history' = Append(history, o),
           lease' \in BOOLEAN, UNCHANGED <<net, openings, wire, exch, position, faults>>,
           worker' \in [Workers -> Processes], \A v \in Workers : WorkerOK(worker[v])'
    PROVE  Inv'
<1> DEFINE n == Len(history)
<1>1. PICK r : r = [row[o] EXCEPT !.status = "SUBMITTED"]
  OBVIOUS
<1>2. row' = [row EXCEPT ![o] = r]
  BY <1>1 DEF Inv, SoakTypeOK, OrderRows
<1>3. /\ r \in OrderRows /\ r.grant = row[o].grant /\ r.size = row[o].size /\ r.status = "SUBMITTED"
      /\ r.claims = row[o].claims /\ r.fills = row[o].fills /\ r.ledger = row[o].ledger
      /\ r.matched = row[o].matched
  <2>1. row[o] \in OrderRows /\ "SUBMITTED" \in Statuses
    BY RowTypes DEF Inv, Statuses
  <2> QED
    BY <1>1, <2>1 DEF OrderRows
<1>4. row'[o] = r /\ \A p \in Orders : p # o => row'[p] = row[p]
  BY <1>2, RowIs DEF Inv
<1>5. /\ row[o].fills = 0 /\ row[o].ledger = 0 /\ exch[o].filled = 0
      /\ row[o].claims = << >> /\ ~Listed(o)
  <2>1. RowOK(o)
    BY DEF Inv
  <2> QED
    BY <2>1, RowTypes DEF Inv, RowOK
<1>6. /\ n \in Nat
      /\ \A i \in 1 .. n : history[i] \in Orders /\ history[i] # o
      /\ Len(history') = n + 1 /\ history'[n + 1] = o
      /\ \A i \in 1 .. n : history'[i] = history[i]
      /\ history' \in Seq(Orders)
  <2>1. history \in Seq(Orders) /\ history' = Append(history, o)
    BY DEF Inv, SoakTypeOK
  <2>2. n \in Nat /\ \A i \in 1 .. n : history[i] \in Orders /\ history[i] # o
    BY <2>1, <1>5 DEF Listed
  <2>3. /\ Len(history') = n + 1 /\ history'[n + 1] = o /\ history' \in Seq(Orders)
        /\ \A i \in 1 .. n : history'[i] = history[i]
    BY <2>1
  <2> QED
    BY <2>2, <2>3
<1> HIDE DEF n
<1>7. \A p \in Orders : /\ ~Busy(p)
                        /\ Busy(p)' <=> p = o
                        /\ Bought(p)' <=> Bought(p)
  <2>1. \A p \in Orders : ~Busy(p)
    BY CompleteIs
  <2>2. Busy(o)'
    BY <1>3, <1>4 DEF Busy, InFlight
  <2>3. \A p \in Orders : p # o => (Busy(p)' <=> Busy(p))
    BY <1>4 DEF Busy
  <2>4. \A p \in Orders : Bought(p)' <=> Bought(p)
    BY <1>3, <1>4 DEF Bought
  <2> QED
    BY <2>1, <2>2, <2>3, <2>4
<1>8. \A p \in Orders : row'[p].ledger = row[p].ledger /\ row'[p].grant = row[p].grant
  BY <1>3, <1>4
<1>9. ~Bought(o)
  BY DEF Bought
<1>10. \A p \in Orders : Entry(p)' <=> Entry(p)
  <2>1. ASSUME NEW p \in Orders, Entry(p) PROVE Entry(p)'
    <3>1. PICK i \in 1 .. n : history[i] = p /\ \A j \in i + 1 .. n : ~Bought(history[j])
      BY <2>1 DEF Entry, n
    <3>2. i \in 1 .. n + 1 /\ history'[i] = p
      BY <3>1, <1>6
    <3>3. ASSUME NEW j \in i + 1 .. n + 1 PROVE ~Bought(history[j])'
      <4>1. CASE j = n + 1
        BY <4>1, <1>6, <1>7, <1>9
      <4>2. CASE j # n + 1
        <5>1. j \in i + 1 .. n /\ j \in 1 .. n
          BY <4>2, <1>6
        <5> QED
          BY <5>1, <3>1, <1>6, <1>7
      <4> QED
        BY <4>1, <4>2
    <3>4. Bought(p)'
      BY <2>1, <1>7 DEF Entry
    <3> QED
      BY <3>2, <3>3, <3>4, <1>6 DEF Entry
  <2>2. ASSUME NEW p \in Orders, Entry(p)' PROVE Entry(p)
    <3>1. PICK i \in 1 .. n + 1 : history'[i] = p /\ \A j \in i + 1 .. n + 1 : ~Bought(history[j])'
      BY <2>2, <1>6 DEF Entry
    <3>2. Bought(p)
      BY <2>2, <1>7 DEF Entry
    <3>3. i \in 1 .. n /\ history[i] = p
      BY <3>1, <3>2, <1>6, <1>9
    <3>4. ASSUME NEW j \in i + 1 .. n PROVE ~Bought(history[j])
      <4>1. j \in i + 1 .. n + 1 /\ j \in 1 .. n
        BY <3>3, <1>6
      <4> QED
        BY <4>1, <3>1, <1>6, <1>7
    <3> QED
      BY <3>2, <3>3, <3>4 DEF Entry, n
  <2> QED
    BY <2>1, <2>2
<1>11. SoakTypeOK'
  <2>1. SoakTypeOK
    BY DEF Inv
  <2>2. row' \in [Orders -> OrderRows]
    BY <2>1, <1>2, <1>3 DEF SoakTypeOK
  <2>3. history' \in Seq(Orders)
    BY <1>6
  <2> QED
    BY <2>1, <2>2, <2>3 DEF SoakTypeOK
<1>12. ASSUME NEW p \in Orders PROVE RowOK(p)'
  <2>1. RowOK(p)
    BY DEF Inv
  <2>2. (Sent(p)' <=> Sent(p)) /\ UNCHANGED exch
    BY DEF Sent
  <2>3. CASE p = o
    <3>1. Listed(o)'
      <4>1. n + 1 \in 1 .. n + 1
        BY <1>6
      <4> QED
        BY <1>6, <4>1 DEF Listed
    <3> QED
      BY <2>1, <2>2, <2>3, <3>1, <1>3, <1>4, <1>5 DEF RowOK
  <2>4. CASE p # o
    <3>1. Listed(p)' <=> Listed(p)
      <4>1. \A i \in 1 .. n + 1 : history'[i] = p => i \in 1 .. n /\ history[i] = p
        BY <2>4, <1>6
      <4>2. \A i \in 1 .. n : i \in 1 .. n + 1
        BY <1>6
      <4> QED
        BY <4>1, <4>2, <1>6 DEF Listed, n
    <3> QED
      BY <2>1, <2>2, <2>4, <3>1, <1>4 DEF RowOK
  <2> QED
    BY <2>3, <2>4
<1>13. HistoryOK'
  <2>1. ASSUME NEW i \in 1 .. n + 1, NEW j \in 1 .. n + 1, history'[i] = history'[j]
        PROVE  i = j
    BY <2>1, <1>6 DEF Inv, HistoryOK, n
  <2>2. ASSUME NEW i \in 1 .. n + 1, Busy(history[i])' PROVE i = n + 1
    BY <2>2, <1>6, <1>7
  <2>3. ASSUME NEW i \in 1 .. n + 1, NEW j \in 1 .. n + 1, i < j, Bought(history[i])', Bought(history[j])'
        PROVE  row'[ExitOf(history'[i])].ledger = row'[history'[i]].ledger
    <3>1. history'[i] # o /\ history'[j] # o
      BY <2>3, <1>6, <1>7, <1>9
    <3>2. i \in 1 .. n /\ j \in 1 .. n
      BY <3>1, <1>6
    <3>3. history'[i] = history[i] /\ history'[j] = history[j] /\ history[i] \in Orders /\ history[j] \in Orders
      BY <3>2, <1>6
    <3>4. Bought(history[i]) /\ Bought(history[j])
      BY <2>3, <3>3, <1>7
    <3>5. row[ExitOf(history[i])].ledger = row[history[i]].ledger
      BY <2>3, <3>2, <3>4 DEF Inv, HistoryOK, n
    <3>6. ExitOf(history[i]) \in Orders
      BY <3>4, OrderFacts DEF Bought
    <3> QED
      BY <3>3, <3>5, <3>6, <1>8
  <2> QED
    BY <2>1, <2>2, <2>3, <1>6 DEF HistoryOK
<1>14. ExitsOK'
  <2> SUFFICES ASSUME NEW x \in Exits
               PROVE  /\ row'[x].grant # "none" => Finished(OpenOf(x))'
                      /\ Busy(x)' => Entry(OpenOf(x))'
    BY DEF ExitsOK
  <2>1. x \in Orders /\ OpenOf(x) \in Orders
    BY OrderFacts
  <2>2. Busy(x)' => Entry(OpenOf(x))'
    BY <2>1, <1>7, <1>10
  <2>3. Finished(OpenOf(x)) => Finished(OpenOf(x))'
    BY <2>1, <1>4 DEF Finished
  <2>4. row'[x].grant # "none" => Finished(OpenOf(x))
    BY <2>1, <1>8 DEF Inv, ExitsOK
  <2> QED
    BY <2>2, <2>3, <2>4
<1>15. NetOK'
  <2> SUFFICES ASSUME NEW p \in Opens
               PROVE  /\ Entry(p)' => net' = row'[p].ledger - row'[ExitOf(p)].ledger
                      /\ row'[p].status \in InFlight => net' = 0
    BY DEF NetOK, InFlight
  <2>1. p \in Orders /\ ExitOf(p) \in Orders
    BY OrderFacts
  <2>2. row'[p].status \in InFlight => net' = 0
    BY <2>1, <1>4 DEF Inv, NetOK
  <2> QED
    BY <2>1, <2>2, <1>8, <1>10 DEF Inv, NetOK
<1>16. AccountOK'
  <2> SUFFICES ASSUME Known' PROVE AccountOK'
    BY DEF AccountOK
  <2>1. Known
    BY <1>4 DEF Known
  <2>2. position = net
    BY <2>1 DEF Inv, AccountOK
  <2>3. ~Complete'
    BY <1>7, CompleteIs
  <2>4. position' - net' = 0 /\ exch'[o].filled = 0 /\ row'[o].ledger = 0
    BY <2>2, <1>5, <1>8 DEF Inv, SoakTypeOK
  <2> QED
    BY <2>3, <2>4, <1>7, OrderFacts DEF AccountOK
<1> QED
  BY <1>11, <1>12, <1>13, <1>14, <1>15, <1>16 DEF Inv

LEMMA PrepareInv ==
    ASSUME OneProcess, Inv, NEW w \in Workers, Prepare(w)
    PROVE  Inv'
<1> PICK o : o = worker[w].order
  OBVIOUS
<1>1. /\ o \in Orders
      /\ At(w, "granted") => /\ Complete
                             /\ o \in Opens => row[o].status = "none" /\ net = 0
                             /\ o \in Exits => Entry(OpenOf(o)) /\ row[o].status \in {"none", "REJECTED"}
      /\ At(w, "renewing") => row[o].status = "SUBMITTED"
      /\ At(w, "granted") \/ At(w, "renewing")
  BY DEF Inv, WorkerOK, Prepare, At
<1>2. UNCHANGED <<net, openings, wire, exch, position, faults>> /\ lease' \in BOOLEAN
  BY LocalTypes DEF Prepare, exchange, tables
<1>3. CASE UNCHANGED tables /\ (Stop(w) \/ Abandon(w))
  BY <1>2, <1>3, LocalTypes, LocalLeaves DEF Same, tables
<1>4. CASE /\ row[o].grant = "live" /\ Continue(w, "prepared")
           /\ row' = [row EXCEPT ![o].status = IF @ = "none" THEN "SUBMITTED" ELSE @]
           /\ history' = IF row[o].status = "none" THEN Append(history, o) ELSE history
  <2>1. PICK k : k = [worker[w] EXCEPT !.pc = "prepared"]
    OBVIOUS
  <2>2. k \in Processes /\ k.pc = "prepared" /\ k.order = o
    BY <2>1, ProcessTypes DEF Inv, Processes, Steps
  <2>3. worker' = [worker EXCEPT ![w] = k]
    BY <1>4, <2>1 DEF Continue, Inv, SoakTypeOK, Processes
  <2>4. CASE row[o].status = "none"
    <3>1. row' = [row EXCEPT ![o].status = "SUBMITTED"]
      BY <1>4, <2>4
    <3>2. row'[o].status = "SUBMITTED"
      BY <3>1, <1>1 DEF Inv, SoakTypeOK, OrderRows
    <3>3. WorkerOK(k)'
      BY <2>2, <3>2, <1>1 DEF WorkerOK
    <3>4. worker' \in [Workers -> Processes] /\ \A v \in Workers : WorkerOK(worker[v])'
      BY <2>2, <2>3, <3>3, WorkerStep DEF Inv
    <3>5. At(w, "granted")
      BY <1>1, <2>4
    <3> QED
      BY <1>1, <1>2, <1>4, <2>4, <3>1, <3>4, <3>5, PrepareNew
  <2>5. CASE row[o].status # "none"
    <3>1. row' = row /\ history' = history
      BY <1>4, <2>5, <1>1 DEF Inv, SoakTypeOK, OrderRows
    <3>2. row[o].status \in {"SUBMITTED", "REJECTED"}
      BY <1>1, <2>5, OrderFacts
    <3>3. WorkerOK(k)
      BY <2>2, <3>2, <1>1 DEF WorkerOK
    <3> QED
      BY <1>2, <2>2, <2>3, <3>1, <3>3, LocalTypes, LocalGo DEF Same
  <2> QED
    BY <2>4, <2>5
<1> QED
  BY <1>3, <1>4 DEF Prepare


-----------------------------------------------------------------------------
(* The invariant holds throughout.                                         *)

LEMMA InitInv == Init => Inv
<1> SUFFICES ASSUME Init PROVE Inv
  OBVIOUS
<1>1. /\ \A o \in Orders : row[o] = NewRow /\ exch[o] = [status |-> "none", filled |-> 0]
      /\ row = [o \in Orders |-> NewRow] /\ exch = [o \in Orders |-> [status |-> "none", filled |-> 0]]
      /\ net = 0 /\ history = << >> /\ lease = FALSE /\ openings = TRUE
      /\ wire = {} /\ position = 0 /\ faults = 0
      /\ worker = [w \in Workers |-> Resting]
  BY DEF Init
<1>2. /\ NewRow.grant = "none" /\ NewRow.size = 0 /\ NewRow.status = "none" /\ NewRow.claims = << >>
      /\ NewRow.fills = 0 /\ NewRow.ledger = 0 /\ NewRow.matched = 0
  BY DEF NewRow
<1>3. Len(history) = 0 /\ 1 .. Len(history) = {}
  BY <1>1
<1>4. \A o \in Orders : ~Busy(o) /\ ~Bought(o) /\ ~Entry(o) /\ ~Listed(o) /\ ~Sent(o)
  BY <1>1, <1>2, <1>3 DEF Busy, InFlight, Bought, Entry, Listed, Sent
<1>5. SoakTypeOK
  <2>1. NewRow \in OrderRows
    BY SizeAssumption DEF NewRow, OrderRows, GrantStates, Statuses, Claims
  <2>2. [status |-> "none", filled |-> 0] \in [status : {"none", "open", "done"}, filled : 0 .. Size]
    BY SizeAssumption
  <2>3. Resting \in Processes
    BY SizeAssumption DEF Resting, Processes, Steps, Outcomes
  <2>4. /\ row \in [Orders -> OrderRows] /\ worker \in [Workers -> Processes]
        /\ exch \in [Orders -> [status : {"none", "open", "done"}, filled : 0 .. Size]]
    BY <1>1, <2>1, <2>2, <2>3
  <2>5. net \in 0 .. Size /\ faults \in 0 .. MaxFaults /\ position \in Int /\ history \in Seq(Orders)
    BY <1>1, SizeAssumption, FaultsAssumption
  <2> QED
    BY <1>1, <2>4, <2>5 DEF SoakTypeOK
<1>6. \A o \in Orders : RowOK(o)
  BY <1>1, <1>2, <1>4 DEF RowOK
<1>7. HistoryOK
  BY <1>3 DEF HistoryOK
<1>8. ExitsOK
  BY <1>1, <1>2, <1>4, OrderFacts DEF ExitsOK
<1>9. NetOK
  BY <1>1, <1>2, <1>4, OrderFacts DEF NetOK, InFlight
<1>10. \A w \in Workers : WorkerOK(worker[w])
  <2>1. PICK k : k = Resting
    OBVIOUS
  <2>2. WorkerOK(k)
    BY <2>1, AwayOK DEF Away
  <2> QED
    BY <1>1, <2>1, <2>2
<1>11. AccountOK
  BY <1>1, <1>4, OrderFacts DEF AccountOK
<1> QED
  BY <1>5, <1>6, <1>7, <1>8, <1>9, <1>10, <1>11 DEF Inv

LEMMA StutterInv ==
    ASSUME OneProcess, Inv, UNCHANGED vars
    PROVE  Inv'
<1>1. Same /\ lease' \in BOOLEAN /\ openings' \in BOOLEAN /\ faults' \in 0 .. MaxFaults /\ UNCHANGED worker
  BY LocalTypes DEF Same, vars, tables, exchange
<1>2. worker' \in [Workers -> Processes]
  BY <1>1 DEF Inv, SoakTypeOK
<1>3. ASSUME NEW w \in Workers PROVE Inv'
  BY <1>1, LocalRests
<1>4. CASE Workers = {}
  BY <1>1, <1>2, <1>4, LocalStep
<1> QED
  BY <1>3, <1>4

LEMMA NextInv ==
    ASSUME OneProcess, Inv, [Next]_vars
    PROVE  Inv'
<1>1. CASE UNCHANGED vars
  BY <1>1, StutterInv
<1>2. ASSUME NEW w \in Workers, Works(w) PROVE Inv'
  <2>1. ASSUME NEW o \in Orders, TakeOrder(w, o) PROVE Inv'
    BY <2>1, TakeOrderInv
  <2>2. ASSUME NEW o \in Orders, CollectFills(w, o) PROVE Inv'
    BY <2>2, CollectFillsInv
  <2>3. ASSUME NEW o \in Orders, PostLedger(w, o) PROVE Inv'
    BY <2>3, PostLedgerInv
  <2>4. ASSUME NEW o \in Orders, Reconcile(w, o) PROVE Inv'
    BY <2>4, ReconcileInv
  <2>5. ASSUME NEW o \in Orders, GrantOpen(w, o) \/ GrantExit(w, o) PROVE Inv'
    BY <2>5, GrantInv
  <2>6. CASE ExitDue(w)
    BY <2>6, ExitDueInv
  <2>7. ASSUME NEW s \in Signals, SignalDue(w, s) PROVE Inv'
    BY <2>7, SignalDueInv
  <2>8. CASE EndOfSoak(w)
    BY <2>8, EndOfSoakInv
  <2>9. CASE Prepare(w)
    BY <2>9, PrepareInv
  <2>10. CASE Guard(w)
    BY <2>10, GuardInv
  <2>11. CASE Claim(w)
    BY <2>11, ClaimInv
  <2>12. CASE Post(w)
    BY <2>12, PostInv
  <2>13. CASE Query(w)
    BY <2>13, QueryInv
  <2>14. CASE Record(w)
    BY <2>14, RecordInv
  <2>15. CASE Release(w)
    BY <2>15, OtherLocalInv
  <2> QED
    BY <1>2, <2>1, <2>2, <2>3, <2>4, <2>5, <2>6, <2>7, <2>8, <2>9, <2>10, <2>11, <2>12, <2>13,
       <2>14, <2>15 DEF Works
<1>3. CASE Surroundings
  <2>1. ASSUME NEW o \in Orders, NEW n \in Attempts, Arrive(o, n) PROVE Inv'
    BY <2>1, ArriveInv
  <2>2. ASSUME NEW o \in Orders, NEW n \in Attempts, Lost(o, n) PROVE Inv'
    BY <2>2, LostInv
  <2>3. ASSUME NEW o \in Orders, Fill(o) PROVE Inv'
    BY <2>3, FillInv
  <2>4. ASSUME NEW o \in Orders, EndPartial(o) PROVE Inv'
    BY <2>4, EndPartialInv
  <2>5. ASSUME NEW o \in Orders, GrantExpires(o) PROVE Inv'
    BY <2>5, GrantExpiresInv
  <2>6. ASSUME NEW w \in Workers, CallFails(w) \/ Crash(w) \/ Restart(w) PROVE Inv'
    BY <2>6, OtherLocalInv
  <2>7. CASE LeaseExpires \/ EndWindow
    <3>1. ASSUME NEW w \in Workers PROVE Inv'
      BY <2>7, OtherLocalInv
    <3>2. CASE Workers = {}
      <4>1. /\ Same /\ lease' \in BOOLEAN /\ openings' \in BOOLEAN /\ faults' \in 0 .. MaxFaults
            /\ UNCHANGED worker
        BY <2>7, LocalTypes DEF LeaseExpires, EndWindow, Same, tables, exchange
      <4>2. worker' \in [Workers -> Processes]
        BY <4>1 DEF Inv, SoakTypeOK
      <4> QED
        BY <3>2, <4>1, <4>2, LocalStep
    <3> QED
      BY <3>1, <3>2
  <2> QED
    BY <1>3, <2>1, <2>2, <2>3, <2>4, <2>5, <2>6, <2>7 DEF Surroundings
<1> QED
  BY <1>1, <1>2, <1>3 DEF Next

\* The tables, the books and the exchange agree as Inv tells, with one process.
THEOREM SoakInvariance ==
    ASSUME OneProcess
    PROVE  Spec => []Inv
<1>1. Init => Inv
  BY InitInv
<1>2. Inv /\ [Next]_vars => Inv'
  BY NextInv
<1> QED
  BY <1>1, <1>2, PTL DEF Spec

-----------------------------------------------------------------------------
(* The theorems.                                                           *)

\* Orders, processes, wire and exchange keep their types, and the ledger's sum
\* stays between nothing and one opening.
THEOREM SoakTypeCorrect ==
    ASSUME OneProcess
    PROVE  Spec => []SoakTypeOK
<1>1. Inv => SoakTypeOK
  BY DEF Inv
<1> QED
  BY <1>1, SoakInvariance, PTL


\* A purchase under way or held needs a step, or is the entry of the position.
LEMMA ExposedIs ==
    ASSUME Inv, NEW o \in Opens, Exposed(o), ~Forgotten(o)
    PROVE  Busy(o) \/ (Entry(o) /\ net > 0)
<1> DEFINE x == ExitOf(o)
<1>1. o \in Orders /\ x \in Orders /\ RowOK(o) /\ RowOK(x)
  BY OrderFacts DEF Inv
<1>2. exch[o].status # "none" \/ Sent(o)
  <2>1. CASE exch[o].filled > exch[x].filled
    <3>1. exch[o].filled # 0
      BY <1>1, <2>1, RowTypes DEF Inv
    <3> QED
      BY <1>1, <3>1 DEF RowOK
  <2> QED
    BY <2>1 DEF Exposed, Sent
<1>3. row[o].status # "none" /\ row[o].status # "REJECTED"
  BY <1>1, <1>2 DEF RowOK, Forgotten, Sent
<1> SUFFICES ASSUME ~Busy(o) PROVE Entry(o) /\ net > 0
  OBVIOUS
<1>4. row[o].status = "ACCEPTED"
  BY <1>1, <1>3, RowTypes DEF Inv, Busy, Statuses, InFlight
<1>5. row[o].size = Size /\ exch[o].status # "none" /\ row[o].fills <= exch[o].filled
  BY <1>1, <1>4 DEF RowOK
<1>6. row[o].ledger = Size /\ exch[o].filled = Size
  BY <1>1, <1>4, <1>5, RowTypes, SizeAssumption DEF Inv, Busy
<1>7. exch[o].status # "open"
  BY <1>1, <1>6, SizeAssumption DEF RowOK
<1>8. exch[x].filled < Size /\ row[x].ledger < Size
  <2>1. exch[x].filled < Size
    BY <1>5, <1>6, <1>7 DEF Exposed
  <2> QED
    BY <1>1, <2>1, RowTypes, SizeAssumption DEF Inv, RowOK
<1>9. Entry(o)
  <2>1. PICK i \in 1 .. Len(history) : history[i] = o
    BY <1>1, <1>3 DEF RowOK, Listed
  <2>2. Bought(o)
    BY <1>4 DEF Bought
  <2>3. ASSUME NEW j \in i + 1 .. Len(history), Bought(history[j]) PROVE FALSE
    <3>1. j \in 1 .. Len(history) /\ i < j
      BY DEF Inv, SoakTypeOK
    <3>2. row[x].ledger = row[o].ledger
      BY <2>1, <2>2, <2>3, <3>1 DEF Inv, HistoryOK
    <3> QED
      BY <3>2, <1>6, <1>8, SizeAssumption
  <2> QED
    BY <2>1, <2>2, <2>3 DEF Entry
<1>10. net = row[o].ledger - row[x].ledger
  BY <1>9 DEF Inv, NetOK
<1>11. net > 0
  BY <1>1, <1>6, <1>8, <1>10, RowTypes, SizeAssumption DEF Inv
<1> QED
  BY <1>9, <1>11

\* One purchase at most may come to the exchange, is open there or is held,
\* whatever crashed, was lost or came late, while no order is forgotten.
THEOREM OnePurchase ==
    ASSUME OneProcess
    PROVE  Spec => []OneExposure
<1>1. Inv => OneExposure
  <2> DEFINE E == {o \in Opens : Exposed(o)}
  <2> SUFFICES ASSUME Inv, \A o \in Orders : ~Forgotten(o) PROVE Cardinality(E) <= 1
    BY DEF OneExposure
  <2>1. ASSUME NEW p \in E, NEW q \in E PROVE p = q
    <3>1. p \in Opens /\ q \in Opens /\ p \in Orders /\ q \in Orders
      BY OrderFacts
    <3>2. /\ Busy(p) \/ (Entry(p) /\ net > 0)
          /\ Busy(q) \/ (Entry(q) /\ net > 0)
      BY <3>1, ExposedIs
    <3>3. \A o \in Opens : Busy(o) /\ net > 0 => Entry(o)
      <4> SUFFICES ASSUME NEW o \in Opens, Busy(o), net > 0 PROVE Entry(o)
        OBVIOUS
      <4>1. row[o].status = "ACCEPTED"
        BY DEF Inv, NetOK, Busy
      <4> QED
        BY <4>1, BusyPurchase
    <3>4. CASE Busy(p) /\ Busy(q)
      BY <3>1, <3>4, OneBusy
    <3>5. CASE Entry(p) /\ Entry(q)
      BY <3>1, <3>5, OneEntry
    <3> QED
      BY <3>1, <3>2, <3>3, <3>4, <3>5
  <2> HIDE DEF E
  <2>2. CASE E = {}
    BY <2>2, FS_EmptySet
  <2>3. CASE E # {}
    <3>1. PICK p : p \in E
      BY <2>3
    <3>2. E = {p}
      BY <2>1, <3>1
    <3> QED
      BY <3>2, FS_Singleton
  <2> QED
    BY <2>2, <2>3
<1> QED
  BY <1>1, SoakInvariance, PTL

\* The soak ends on a flat ledger without another look at the exchange, and
\* rightly so: when no order needs a step, nothing is open there and the account
\* holds what the ledger says, unless an order was forgotten.
THEOREM LedgerIsTheAccount ==
    ASSUME OneProcess
    PROVE  Spec => []BooksAreTheAccount
<1>1. Inv => BooksAreTheAccount
  <2> SUFFICES ASSUME Inv, Complete, \A o \in Orders : ~Forgotten(o) PROVE Quiet /\ net = position
    BY DEF BooksAreTheAccount
  <2>1. Known
    BY DEF Known, Forgotten
  <2>2. position = net
    BY <2>1 DEF Inv, AccountOK
  <2>3. ASSUME NEW o \in Orders, exch[o].status = "open" PROVE FALSE
    <3>1. RowOK(o) /\ ~Busy(o)
      BY CompleteIs DEF Inv
    <3>2. row[o].status # "none" /\ row[o].status # "REJECTED"
      BY <3>1, <2>1, <2>3 DEF RowOK, Known
    <3>3. row[o].status = "ACCEPTED"
      BY <3>1, <3>2, RowTypes DEF Inv, Busy, Statuses, InFlight
    <3>4. row[o].size = Size
      BY <3>1, <3>3 DEF RowOK
    <3> QED
      BY <3>1, <3>3, <3>4, <2>3, RowTypes, SizeAssumption DEF Inv, Busy, RowOK
  <2> QED
    BY <2>2, <2>3 DEF Quiet
<1> QED
  BY <1>1, SoakInvariance, PTL


\* An exit sells nothing that its own purchase did not buy, whatever the tables
\* hold for rejected: it is granted once the purchase is filled in full.
THEOREM NothingSoldUnbought ==
    ASSUME OneProcess
    PROVE  Spec => [](\A o \in Exits : exch[o].filled <= exch[OpenOf(o)].filled)
<1>1. Inv => \A o \in Exits : exch[o].filled <= exch[OpenOf(o)].filled
  <2> SUFFICES ASSUME Inv, NEW o \in Exits PROVE exch[o].filled <= exch[OpenOf(o)].filled
    OBVIOUS
  <2>1. o \in Orders /\ OpenOf(o) \in Orders /\ RowOK(o) /\ RowOK(OpenOf(o))
    BY OrderFacts DEF Inv
  <2>2. CASE row[o].grant = "none"
    <3>1. exch[o].filled = 0
      BY <2>1, <2>2 DEF RowOK
    <3> QED
      BY <2>1, <3>1, RowTypes DEF Inv
  <2>3. CASE row[o].grant # "none"
    <3>1. Finished(OpenOf(o))
      BY <2>3 DEF Inv, ExitsOK
    <3> QED
      BY <2>1, <3>1, RowTypes, SizeAssumption DEF Inv, RowOK, Finished
  <2> QED
    BY <2>2, <2>3
<1> QED
  BY <1>1, SoakInvariance, PTL

\* The account is never short, and never holds more than one opening, while no
\* order that the exchange has is rejected in the tables.
THEOREM HoldingsAreBounded ==
    ASSUME OneProcess
    PROVE  Spec => [](Known => position \in 0 .. Size)
<1>1. Inv => (Known => position \in 0 .. Size)
  <2> SUFFICES ASSUME Inv, Known PROVE position \in 0 .. Size
    OBVIOUS
  <2>1. net \in 0 .. Size /\ position \in Int
    BY DEF Inv, SoakTypeOK
  <2>2. CASE Complete
    BY <2>1, <2>2 DEF Inv, AccountOK
  <2>3. ASSUME NEW o \in Opens, Busy(o) PROVE position \in 0 .. Size
    <3>1. o \in Orders /\ ExitOf(o) \in Orders /\ ExitOf(o) \in Exits /\ OpenOf(ExitOf(o)) = o
      BY OrderFacts
    <3>2. position - net = exch[o].filled - row[o].ledger
      BY <2>3 DEF Inv, AccountOK
    <3>3. net = row[o].ledger
      <4>1. CASE row[o].status \in InFlight
        <5>1. row[o].fills = 0 /\ row[o].ledger <= row[o].fills
          BY <3>1, <4>1 DEF Inv, RowOK, InFlight
        <5> QED
          BY <3>1, <4>1, <5>1, RowTypes DEF Inv, NetOK
      <4>2. CASE row[o].status = "ACCEPTED"
        <5>1. net = row[o].ledger - row[ExitOf(o)].ledger
          BY <2>3, <4>2, BusyPurchase DEF Inv, NetOK
        <5>2. row[o].size = Size
          BY <3>1, <4>2 DEF Inv, RowOK
        <5>3. ~Finished(o)
          BY <2>3, <4>2, <5>2, SizeAssumption DEF Busy, Finished, InFlight
        <5>4. row[ExitOf(o)].grant = "none"
          BY <3>1, <5>3 DEF Inv, ExitsOK
        <5>5. row[ExitOf(o)].fills = 0 /\ row[ExitOf(o)].ledger <= row[ExitOf(o)].fills
          BY <3>1, <5>4 DEF Inv, RowOK
        <5> QED
          BY <3>1, <5>1, <5>5, RowTypes DEF Inv
      <4> QED
        BY <2>3, <4>1, <4>2 DEF Busy
    <3> QED
      BY <2>1, <3>1, <3>2, <3>3, RowTypes DEF Inv
  <2>4. ASSUME NEW o \in Exits, Busy(o) PROVE position \in 0 .. Size
    <3>1. o \in Orders /\ OpenOf(o) \in Opens /\ ExitOf(OpenOf(o)) = o
      BY OrderFacts
    <3>2. position - net = row[o].ledger - exch[o].filled
      BY <2>4 DEF Inv, AccountOK
    <3>3. row[o].grant # "none"
      BY <3>1, <2>4 DEF Inv, RowOK, Busy, InFlight
    <3>4. Entry(OpenOf(o)) /\ Finished(OpenOf(o))
      BY <2>4, <3>3 DEF Inv, ExitsOK
    <3>5. net = Size - row[o].ledger
      BY <3>1, <3>4 DEF Inv, NetOK, Finished
    <3> QED
      BY <2>1, <3>1, <3>2, <3>5, RowTypes, SizeAssumption DEF Inv
  <2> QED
    BY <2>2, <2>3, <2>4, CompleteIs, OrderFacts
<1> QED
  BY <1>1, SoakInvariance, PTL

-----------------------------------------------------------------------------
(* What a step may never do.                                               *)

\* What is recorded of the order never shrinks.
Grows(o) ==
    /\ row'[o].fills >= row[o].fills
    /\ row'[o].ledger >= row[o].ledger
    /\ row'[o].matched >= row[o].matched

\* A step that leaves what is recorded of every order alone.
LEMMA RecordsStay ==
    ASSUME SoakTypeOK, NEW o \in Orders,
           row'[o].fills = row[o].fills /\ row'[o].ledger = row[o].ledger /\ row'[o].matched = row[o].matched
    PROVE  Grows(o)
BY RowTypes DEF Grows

LEMMA StepGrows ==
    ASSUME OneProcess, Inv, [Next]_vars, NEW o \in Orders
    PROVE  Grows(o)
<1>1. SoakTypeOK /\ row[o] \in OrderRows /\ row \in [Orders -> OrderRows]
  BY RowTypes DEF Inv, SoakTypeOK
<1>2. CASE UNCHANGED row
  BY <1>1, <1>2, RecordsStay
<1>3. ASSUME NEW w \in Workers, Works(w), row' # row PROVE Grows(o)
  <2>1. ASSUME NEW p \in Orders, CollectFills(w, p) PROVE Grows(o)
    <3>1. row[p].fills <= exch[p].filled
      BY DEF Inv, RowOK
    <3> QED
      BY <1>1, <2>1, <3>1, RowTypes DEF CollectFills, Grows, OrderRows
  <2>2. ASSUME NEW p \in Orders, PostLedger(w, p) PROVE Grows(o)
    BY <1>1, <2>2, RowTypes DEF PostLedger, Grows, OrderRows
  <2>3. ASSUME NEW p \in Orders, Reconcile(w, p) PROVE Grows(o)
    <3>1. row[p].matched <= row[p].fills
      BY RowTypes DEF Inv, RowOK
    <3> QED
      BY <1>1, <2>3, <3>1, RowTypes DEF Reconcile, Grows, OrderRows
  <2>4. ASSUME NEW p \in Orders, GrantOpen(w, p) \/ GrantExit(w, p) PROVE Grows(o)
    BY <1>1, <2>4, RecordsStay DEF GrantOpen, GrantExit, Grant, OrderRows
  <2>5. CASE Prepare(w)
    <3>1. PICK p, s : row' = [row EXCEPT ![p].status = s]
      BY <1>3, <2>5 DEF Prepare, tables
    <3> QED
      BY <1>1, <3>1, RecordsStay DEF OrderRows
  <2>6. CASE Claim(w)
    <3>1. PICK p, c : row' = [row EXCEPT ![p].status = "DISPATCHING", ![p].claims = c]
      BY <1>3, <2>6 DEF Claim
    <3> QED
      BY <1>1, <3>1, RecordsStay DEF OrderRows
  <2>7. CASE Record(w)
    <3>1. PICK p, n, a, s : row' = [row EXCEPT ![p].claims[n] = a, ![p].status = s]
      BY <1>3, <2>7 DEF Record
    <3> QED
      BY <1>1, <3>1, RecordsStay DEF OrderRows
  <2>8. ~ExitDue(w) /\ ~EndOfSoak(w) /\ ~Guard(w) /\ ~Post(w) /\ ~Query(w) /\ ~Release(w)
    BY <1>3 DEF ExitDue, EndOfSoak, Guard, Post, Query, Release, tables
  <2>9. \A p \in Orders : ~TakeOrder(w, p)
    BY <1>3 DEF TakeOrder, tables
  <2>10. \A s \in Signals : ~SignalDue(w, s)
    BY <1>3 DEF SignalDue, tables
  <2> QED
    BY <1>3, <2>1, <2>2, <2>3, <2>4, <2>5, <2>6, <2>7, <2>8, <2>9, <2>10 DEF Works
<1>4. CASE Surroundings /\ row' # row
  <2>1. ASSUME NEW p \in Orders, GrantExpires(p) PROVE Grows(o)
    BY <1>1, <2>1, RecordsStay DEF GrantExpires, OrderRows
  <2>2. ASSUME NEW p \in Orders PROVE ~Fill(p) /\ ~EndPartial(p) /\ \A n \in Attempts : ~Arrive(p, n) /\ ~Lost(p, n)
    BY <1>4 DEF Fill, EndPartial, Arrive, Lost, tables
  <2>3. ASSUME NEW w \in Workers PROVE ~CallFails(w) /\ ~Crash(w) /\ ~Restart(w)
    BY <1>4 DEF CallFails, Crash, Restart, tables
  <2>4. ~LeaseExpires /\ ~EndWindow
    BY <1>4 DEF LeaseExpires, EndWindow, tables
  <2> QED
    BY <1>4, <2>1, <2>2, <2>3, <2>4 DEF Surroundings
<1>5. CASE UNCHANGED vars
  BY <1>2, <1>5 DEF vars, tables
<1> QED
  BY <1>2, <1>3, <1>4, <1>5 DEF Next

\* No step takes back a fill, a ledger entry or a reconciliation: what a tick
\* reads at the exchange never falls short of what an earlier one recorded.
THEOREM RecordsOnlyGrow ==
    ASSUME OneProcess
    PROVE  Spec => [][\A o \in Orders : Grows(o)]_vars
<1>1. Inv /\ [Next]_vars => [\A o \in Orders : Grows(o)]_vars
  BY StepGrows
<1> QED
  BY <1>1, SoakInvariance, PTL DEF Spec


\* The process comes to the end of the soak.
Ends(w) == ~At(w, "drained") /\ worker'[w].pc = "drained"

\* Only the tick that finds all complete and a flat ledger ends the soak.
LEMMA EndsAre ==
    ASSUME SoakTypeOK, [Next]_vars, NEW w \in Workers, Ends(w)
    PROVE  Complete /\ net = 0
<1>1. worker \in [Workers -> Processes]
  BY DEF SoakTypeOK
<1>2. worker'[w].pc = "drained" /\ worker[w].pc # "drained"
  BY DEF Ends, At
\* What a step of one process may turn a process into.
<1>3. ASSUME NEW v \in Workers, NEW c \in Steps, NEW p, c # "drained",
             Stop(v) \/ Conclude(v) \/ Abandon(v) \/ Go(v, c, p) \/ Continue(v, c)
      PROVE  FALSE
  BY <1>1, <1>2, <1>3 DEF Stop, Conclude, Abandon, Go, Continue, Releasing, Resting, Processes
<1>4. UNCHANGED worker => FALSE
  BY <1>2
<1>5. ASSUME NEW v \in Workers, Works(v) PROVE Complete /\ net = 0
  <2>1. ASSUME NEW o \in Orders, TakeOrder(v, o) PROVE FALSE
    BY <2>1, <1>3 DEF TakeOrder, Steps
  <2>2. ASSUME NEW o \in Orders, CollectFills(v, o) \/ PostLedger(v, o) \/ Reconcile(v, o) PROVE FALSE
    BY <2>2, <1>3, <1>4 DEF CollectFills, PostLedger, Reconcile, Steps
  <2>3. ASSUME NEW o \in Orders, GrantOpen(v, o) \/ GrantExit(v, o) PROVE FALSE
    BY <2>3, <1>3 DEF GrantOpen, GrantExit, Grant, Steps
  <2>4. ~ExitDue(v)
    <3> SUFFICES ASSUME ExitDue(v) PROVE FALSE
      OBVIOUS
    <3>1. ~Stop(v)
      BY <1>3 DEF Steps
    <3>2. PICK x : worker' = [worker EXCEPT ![v].pc = "probed", ![v].seen = net, ![v].order = x]
      BY <3>1 DEF ExitDue
    <3> QED
      BY <3>2, <1>1, <1>2 DEF Processes
  <2>5. ASSUME NEW s \in Signals, SignalDue(v, s) PROVE FALSE
    BY <2>5, <1>3 DEF SignalDue, Steps
  <2>6. EndOfSoak(v) => Complete /\ net = 0
    BY <1>3 DEF EndOfSoak, Steps
  <2>7. ~Prepare(v) /\ ~Guard(v) /\ ~Post(v) /\ ~Record(v)
    BY <1>3 DEF Prepare, Guard, Post, Record, Steps
  <2>8. ~Claim(v)
    <3> SUFFICES ASSUME Claim(v) PROVE FALSE
      OBVIOUS
    <3>1. ~Abandon(v)
      BY <1>3 DEF Steps
    <3>2. PICK n : worker' = [worker EXCEPT ![v].pc = "posting", ![v].attempt = n]
      BY <3>1 DEF Claim
    <3> QED
      BY <3>2, <1>1, <1>2 DEF Processes
  <2>9. ~Query(v)
    BY <1>1, <1>2 DEF Query, Releasing, Resting, Processes
  <2>10. ~Release(v)
    <3>1. ~Stop(v)
      BY <1>3 DEF Steps
    <3> QED
      BY <3>1, <1>1, <1>2 DEF Release, Resting, Processes
  <2> QED
    BY <1>5, <2>1, <2>2, <2>3, <2>4, <2>5, <2>6, <2>7, <2>8, <2>9, <2>10 DEF Works
<1>6. ~Surroundings
  <2>1. ASSUME NEW o \in Orders, NEW n \in Attempts, Arrive(o, n) PROVE FALSE
    <3>1. PICK a : worker' = [v \in Workers |->
                IF At(v, "waiting") /\ worker[v].order = o /\ worker[v].attempt = n
                  THEN [worker[v] EXCEPT !.pc = "answered", !.answer = a]
                  ELSE worker[v]]
      BY <2>1, Zenon DEF Arrive
    <3> QED
      BY <3>1, <1>1, <1>2 DEF Processes
  <2>2. ASSUME NEW o \in Orders, NEW n \in Attempts, Lost(o, n) PROVE FALSE
    BY <2>2, <1>1, <1>2 DEF Lost, Releasing, Resting, Processes
  <2>3. ASSUME NEW o \in Orders, Fill(o) \/ EndPartial(o) \/ GrantExpires(o) PROVE FALSE
    BY <2>3, <1>4 DEF Fill, EndPartial, GrantExpires
  <2>4. ~LeaseExpires /\ ~EndWindow
    BY <1>4 DEF LeaseExpires, EndWindow
  <2>5. ASSUME NEW v \in Workers, CallFails(v) \/ Crash(v) PROVE FALSE
    BY <2>5, <1>3 DEF CallFails, Crash, Steps
  <2>6. ASSUME NEW v \in Workers, Restart(v) PROVE FALSE
    BY <2>6, <1>1, <1>2 DEF Restart, Resting, Processes
  <2> QED
    BY <2>1, <2>2, <2>3, <2>4, <2>5, <2>6 DEF Surroundings
<1> QED
  BY <1>4, <1>5, <1>6 DEF Next, vars

\* The soak ends with a flat account and nothing open at the exchange, unless an
\* order was forgotten, although the tick that ends it asks the ledger alone.
THEOREM SoakEndsFlat ==
    ASSUME OneProcess
    PROVE  Spec => [][\A w \in Workers :
                         Ends(w) /\ (\A o \in Orders : ~Forgotten(o)) => Flat]_vars
<1>1. Inv /\ BooksAreTheAccount /\ [Next]_vars
        => [\A w \in Workers : Ends(w) /\ (\A o \in Orders : ~Forgotten(o)) => Flat]_vars
  <2> SUFFICES ASSUME Inv, BooksAreTheAccount, [Next]_vars, NEW w \in Workers, Ends(w),
                      \A o \in Orders : ~Forgotten(o)
               PROVE  Flat
    OBVIOUS
  <2>1. Complete /\ net = 0
    BY EndsAre DEF Inv
  <2> QED
    BY <2>1 DEF BooksAreTheAccount, Flat
<1> QED
  BY <1>1, SoakInvariance, LedgerIsTheAccount, PTL DEF Spec
===============================================================================
