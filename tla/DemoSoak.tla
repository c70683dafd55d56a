------------------------------ MODULE DemoSoak ------------------------------
(***************************************************************************)
(* The bounded continuous OKX Demo soak of canonical_v13, the second       *)
(* trading line of the repository: one natural signal is opened with a     *)
(* market order, held until the strategy's exit is due, closed with a      *)
(* second one, and every order is followed to its fills, its ledger        *)
(* entries and its reconciliation, one durable step a tick                 *)
(* (continuous_demo_soak.py).  A tick is modelled at the boundaries of its *)
(* transactions and exchange calls, so that a crash, a lost or late        *)
(* request, an expired grant or a second tick may fall between any two.    *)
(*                                                                         *)
(* A worker is one process that ticks: the launchd job, or an operator's   *)
(* `tick` command beside it.  All share the writer's keychain secret, so   *)
(* they are one lease holder, of one generation.                           *)
(***************************************************************************)
EXTENDS Integers, FiniteSets, Sequences

CONSTANTS
    Signals,    \* natural signals of the strategy, opened at most once each
    Workers,    \* processes that may tick
    NoOrder,    \* the order of a worker that acts on none
    Size,       \* contracts of an opening
    MaxFaults   \* bound on crashes, lost requests, late clocks and refusals

ASSUME SizeAssumption == Size \in Nat \ {0}
ASSUME FaultsAssumption == MaxFaults \in Nat

Orders == Signals \X {"OPEN", "EXIT"}
Attempts == 1 .. 3

VARIABLES
    row,       \* an order with its risk decision, its receipts and its fills
    net,       \* the sum of the ledger's entries, as _ledger_net reads it
    history,   \* the orders in the order of their creation
    lease,     \* the writer lease is ACTIVE and unexpired
    openings,  \* the plan's window for openings has not ended
    worker,    \* what each process is doing
    wire,      \* POSTs on their way, each an order and an attempt
    exch,      \* what the exchange holds of an order
    position,  \* the contracts the account holds there
    faults

tables == <<row, net, history, lease>>
exchange == <<exch, position>>
vars == <<tables, openings, worker, wire, exchange, faults>>

GrantStates == {"none", "live", "expired"}
Statuses == {"none", "SUBMITTED", "DISPATCHING", "ACCEPTED", "REJECTED"}
Outcomes == {"unknown", "absent", "rejected", "accepted"}
Claims == {<< >>} \union {<<a>> : a \in Outcomes} \union {<<a, b>> : a, b \in Outcomes}
Steps == {"idle", "probed", "granted", "renewing", "prepared", "guarded",
          "posting", "waiting", "querying", "answered", "releasing",
          "stopped", "drained"}

NewRow == [grant |-> "none", size |-> 0, status |-> "none", claims |-> << >>,
           fills |-> 0, ledger |-> 0, matched |-> 0]
Resting == [pc |-> "idle", order |-> NoOrder, attempt |-> 0, answer |-> "unknown",
            seen |-> 0, fine |-> TRUE]

Init ==
    /\ row = [o \in Orders |-> NewRow]
    /\ net = 0
    /\ history = << >>
    /\ lease = FALSE
    /\ openings = TRUE
    /\ worker = [w \in Workers |-> Resting]
    /\ wire = {}
    /\ exch = [o \in Orders |-> [status |-> "none", filled |-> 0]]
    /\ position = 0
    /\ faults = 0

-----------------------------------------------------------------------------
(* The exchange, as the authenticated guards read it.                      *)

Opens == Signals \X {"OPEN"}
Exits == Signals \X {"EXIT"}

Quiet == \A o \in Orders : exch[o].status # "open"
Flat == Quiet /\ position = 0
Holds(n) == Quiet /\ position = n

-----------------------------------------------------------------------------
(* The tables, as a tick reads them.                                       *)

\* (Mutants: a claimed order is overlooked; an order counts as complete with
\* its first fill, or without its reconciliation.)
InFlightUnclaimed == {"SUBMITTED"}

StepOfFirstFill(o) ==
    IF row[o].status \in {"SUBMITTED", "DISPATCHING"} THEN "DISPATCH"
    ELSE IF row[o].status # "ACCEPTED" THEN "COMPLETE"
    ELSE IF row[o].fills = 0 THEN "FILL"
    ELSE IF row[o].ledger < row[o].fills THEN "LEDGER"
    ELSE IF row[o].matched < row[o].fills THEN "RECONCILE"
    ELSE "COMPLETE"

StepOfUnreconciled(o) ==
    IF row[o].status \in {"SUBMITTED", "DISPATCHING"} THEN "DISPATCH"
    ELSE IF row[o].status # "ACCEPTED" THEN "COMPLETE"
    ELSE IF row[o].fills < row[o].size THEN "FILL"
    ELSE IF row[o].ledger < row[o].fills THEN "LEDGER"
    ELSE "COMPLETE"

\* Statuses of an order that is not settled with the exchange.
InFlight == {"SUBMITTED", "DISPATCHING"}

\* The next durable step an order needs.
StepOf(o) ==
    IF row[o].status \in InFlight THEN "DISPATCH"
    ELSE IF row[o].status # "ACCEPTED" THEN "COMPLETE"
    ELSE IF row[o].fills < row[o].size THEN "FILL"
    ELSE IF row[o].ledger < row[o].fills THEN "LEDGER"
    ELSE IF row[o].matched < row[o].fills THEN "RECONCILE"
    ELSE "COMPLETE"

Complete == \A o \in Orders : StepOf(o) = "COMPLETE"

\* The newest incomplete order is the one that is continued.
Due(o, step) ==
    /\ StepOf(o) = step
    /\ \E i \in 1 .. Len(history) :
        /\ history[i] = o
        /\ \A j \in i + 1 .. Len(history) : StepOf(history[j]) = "COMPLETE"

\* The newest accepted purchase is taken for the entry of the position.
Bought(o) == o \in Opens /\ row[o].status = "ACCEPTED"
Entry(o) ==
    /\ Bought(o)
    /\ \E i \in 1 .. Len(history) :
        /\ history[i] = o
        /\ \A j \in i + 1 .. Len(history) : ~Bought(history[j])
ExitOf(o) == <<o[1], "EXIT">>

\* What a grant requires of the whole execution domain.
NothingIncomplete ==
    /\ \A o \in Orders :
        /\ row[o].status \notin InFlight
        /\ row[o].status = "ACCEPTED" => row[o].fills > 0
        /\ row[o].ledger = row[o].fills
        /\ row[o].matched = row[o].fills
    /\ ~lease

-----------------------------------------------------------------------------
(* A tick.                                                                 *)

At(w, pc) == worker[w].pc = pc

Go(w, pc, o) == worker' = [worker EXCEPT ![w].pc = pc, ![w].order = o]
Continue(w, pc) == worker' = [worker EXCEPT ![w].pc = pc]

\* An exception ends the process; however a dispatch ends, its lease is given
\* back first.
Stop(w) == worker' = [worker EXCEPT ![w] = [Resting EXCEPT !.pc = "stopped"]]
Releasing(fine) == [Resting EXCEPT !.pc = "releasing", !.fine = fine]
Conclude(w) == worker' = [worker EXCEPT ![w] = Releasing(TRUE)]
Abandon(w) == worker' = [worker EXCEPT ![w] = Releasing(FALSE)]

\* An order that was prepared, and whose grant still runs, is dispatched after
\* its lease is renewed; a claimed one is only asked for.  The cancellation of
\* an expired one is called with an argument it does not take, and raises.
TakeOrder(w, o) ==
    /\ At(w, "idle")
    /\ Due(o, "DISPATCH")
    /\ \/ /\ row[o].status = "DISPATCHING"
          /\ Go(w, "querying", o)
       \/ /\ row[o].status = "SUBMITTED"
          /\ row[o].grant = "live"
          /\ Go(w, "renewing", o)
       \/ /\ row[o].status = "SUBMITTED"
          /\ row[o].grant = "expired"
          /\ Stop(w)
    /\ UNCHANGED <<tables, openings, wire, exchange, faults>>

\* (Mutant: a fill that is read twice is recorded twice.)
CollectFillsAgain(w, o) ==
    /\ At(w, "idle")
    /\ Due(o, "FILL")
    /\ row' = [row EXCEPT ![o].fills = @ + exch[o].filled]
    /\ \/ UNCHANGED worker
       \/ exch[o].filled < row[o].size /\ Stop(w)
    /\ UNCHANGED <<net, history, lease, openings, wire, exchange, faults>>

\* The fills the exchange shows are recorded; while some are missing the tick
\* waits, and after a minute it raises.
CollectFills(w, o) ==
    /\ At(w, "idle")
    /\ Due(o, "FILL")
    /\ row' = [row EXCEPT ![o].fills = exch[o].filled]
    /\ \/ UNCHANGED worker
       \/ exch[o].filled < row[o].size /\ Stop(w)
    /\ UNCHANGED <<net, history, lease, openings, wire, exchange, faults>>

\* Every fill of the order gets its entry, in a transaction of its own.
PostLedger(w, o) ==
    /\ At(w, "idle")
    /\ Due(o, "LEDGER")
    /\ row' = [row EXCEPT ![o].ledger = @ + 1]
    /\ net' = IF o \in Opens THEN net + 1 ELSE net - 1
    /\ UNCHANGED <<history, lease, openings, worker, wire, exchange, faults>>

\* A sale is reconciled only against a flat account and a flat ledger.  A fill
\* far from its reference price ends the process, reconciled all the same.
Reconcile(w, o) ==
    /\ At(w, "idle")
    /\ Due(o, "RECONCILE")
    /\ \/ /\ o \in Exits => Flat /\ net = 0
          /\ row' = [row EXCEPT ![o].matched = row[o].fills]
          /\ UNCHANGED worker \/ Stop(w)
       \/ /\ o \in Exits /\ ~(Flat /\ net = 0)
          /\ Stop(w)
          /\ UNCHANGED row
    /\ UNCHANGED <<net, history, lease, openings, wire, exchange, faults>>

\* A position whose exit is due, and the exit guard reads exactly it.
ExitDue(w) ==
    /\ At(w, "idle")
    /\ Complete
    /\ net > 0
    /\ \/ /\ Holds(net)
          /\ \E o \in Opens :
                /\ Entry(o)
                /\ worker' = [worker EXCEPT ![w].pc = "probed", ![w].seen = net,
                                            ![w].order = ExitOf(o)]
       \/ /\ ~(Holds(net) /\ \E o \in Opens : Entry(o))
          /\ Stop(w)
    /\ UNCHANGED <<tables, openings, wire, exchange, faults>>

\* A fresh signal that was never granted, and a probe that finds the account
\* flat.
SignalDue(w, s) ==
    /\ At(w, "idle")
    /\ Complete
    /\ net = 0
    /\ openings
    /\ row[<<s, "OPEN">>].grant = "none"
    /\ IF Flat THEN Go(w, "probed", <<s, "OPEN">>) ELSE Stop(w)
    /\ UNCHANGED <<tables, openings, wire, exchange, faults>>

\* A short ledger raises; after the window a flat ledger ends the soak.
EndOfSoak(w) ==
    /\ At(w, "idle")
    /\ Complete
    /\ net < 0 \/ (net = 0 /\ ~openings)
    /\ IF net < 0 THEN Stop(w) ELSE Continue(w, "drained")
    /\ UNCHANGED <<tables, openings, wire, exchange, faults>>

\* A grant that exists is returned again, expired or not; a new one needs the
\* whole domain complete, and the ledger as the account was when it was read.
Grant(w, o, size) ==
    LET agreed == net = worker[w].seen IN
    /\ At(w, "probed")
    /\ worker[w].order = o
    /\ \/ /\ row[o].grant # "none"
          /\ Continue(w, "granted")
          /\ UNCHANGED row
       \/ /\ row[o].grant = "none"
          /\ NothingIncomplete /\ agreed
          /\ row' = [row EXCEPT ![o].grant = "live", ![o].size = size]
          /\ Continue(w, "granted")
       \/ /\ row[o].grant = "none"
          /\ ~(NothingIncomplete /\ agreed)
          /\ Stop(w)
          /\ UNCHANGED row
    /\ UNCHANGED <<net, history, lease, openings, wire, exchange, faults>>

GrantOpen(w, o) == o \in Opens /\ Grant(w, o, Size)
GrantExit(w, o) == o \in Exits /\ Grant(w, o, net)

\* prepare_continuous_demo_order: one order a decision, and the lease unless
\* the order has already gone further.
Prepare(w) ==
    LET o == worker[w].order IN
    /\ \/ At(w, "granted")
       \/ At(w, "renewing")
    /\ \/ /\ row[o].grant = "live"
          /\ row' = [row EXCEPT ![o].status = IF @ = "none" THEN "SUBMITTED" ELSE @]
          /\ history' = IF row[o].status = "none" THEN Append(history, o) ELSE history
          /\ lease' = (lease \/ row[o].status \in {"none", "SUBMITTED"})
          /\ Continue(w, "prepared")
       \/ /\ row[o].grant = "expired"
          /\ IF At(w, "renewing") THEN Abandon(w) ELSE Stop(w)
          /\ UNCHANGED tables
    /\ UNCHANGED <<net, openings, wire, exchange, faults>>

\* The dispatch reads the account once more: flat before a purchase, exactly
\* the position before a sale.  An accepted order is only replayed.
Guard(w) ==
    LET o == worker[w].order IN
    /\ At(w, "prepared")
    /\ IF row[o].status = "ACCEPTED" THEN Conclude(w)
       ELSE IF Holds(IF o \in Opens THEN 0 ELSE row[o].size)
         THEN Continue(w, "guarded")
         ELSE Abandon(w)
    /\ UNCHANGED <<tables, openings, wire, exchange, faults>>

\* A first POST, or a second one after the proof that the first is absent.
Claimable(o) ==
    /\ row[o].status = "SUBMITTED" /\ row[o].grant = "live" /\ lease
    /\ row[o].claims \in {<< >>, <<"absent">>}

\* _claim_continuous_dispatch.  An order that another tick saw accepted
\* meanwhile passes without a claim, and its request is sent all the same.
Claim(w) ==
    LET o == worker[w].order
        accepted == row[o].status = "ACCEPTED"
    IN
    /\ At(w, "guarded")
    /\ \/ /\ accepted \/ Claimable(o)
          /\ row' = IF accepted THEN row
                    ELSE [row EXCEPT ![o].status = "DISPATCHING",
                                     ![o].claims = Append(@, "unknown")]
          /\ worker' = [worker EXCEPT ![w].pc = "posting",
                           ![w].attempt = IF accepted THEN 3 ELSE Len(row[o].claims) + 1]
       \/ /\ ~accepted /\ ~Claimable(o)
          /\ Abandon(w)
          /\ UNCHANGED row
    /\ UNCHANGED <<net, history, lease, openings, wire, exchange, faults>>

Post(w) ==
    /\ At(w, "posting")
    /\ wire' = wire \union {<<worker[w].order, worker[w].attempt>>}
    /\ Continue(w, "waiting")
    /\ UNCHANGED <<tables, openings, exchange, faults>>

\* recover_demo_order_get_only: what another tick recorded of the last claim is
\* returned; otherwise the order is found, or proved absent.
Query(w) ==
    LET o == worker[w].order
        found == exch[o].status # "none"
    IN
    /\ At(w, "querying")
    /\ worker' = IF row[o].status = "DISPATCHING"
                    THEN [worker EXCEPT ![w].pc = "answered",
                            ![w].answer = IF found THEN "accepted" ELSE "absent"]
                    ELSE [worker EXCEPT ![w] = Releasing(TRUE)]
    /\ UNCHANGED <<tables, openings, wire, exchange, faults>>

\* What becomes of an order whose last claim has this outcome.
StatusAfter(o, answer) ==
    CASE answer = "accepted" -> "ACCEPTED"
      [] answer = "absent" /\ Len(row[o].claims) = 1 -> "SUBMITTED"
      [] OTHER -> "REJECTED"

\* _persist_exchange_receipt, _persist_nonaccepted_outcome: the answer is
\* recorded of the order's last claim, whichever claim it answers, and only
\* while that one has no outcome.
Record(w) ==
    LET o == worker[w].order
        n == Len(row[o].claims)
    IN
    /\ At(w, "answered")
    /\ IF row[o].status = "DISPATCHING"
         THEN /\ row' = [row EXCEPT
                            ![o].claims[n] = worker[w].answer,
                            ![o].status = StatusAfter(o, worker[w].answer)]
              /\ Conclude(w)
         ELSE Abandon(w) /\ UNCHANGED row
    /\ UNCHANGED <<net, history, lease, openings, wire, exchange, faults>>

Release(w) ==
    /\ At(w, "releasing")
    /\ lease' = FALSE
    /\ IF worker[w].fine THEN worker' = [worker EXCEPT ![w] = Resting] ELSE Stop(w)
    /\ UNCHANGED <<row, net, history, openings, wire, exchange, faults>>

Works(w) ==
    \/ \E o \in Orders : \/ TakeOrder(w, o) \/ CollectFills(w, o)
                         \/ PostLedger(w, o) \/ Reconcile(w, o)
                         \/ GrantOpen(w, o) \/ GrantExit(w, o)
    \/ ExitDue(w) \/ \E s \in Signals : SignalDue(w, s)
    \/ EndOfSoak(w)
    \/ Prepare(w) \/ Guard(w) \/ Claim(w) \/ Post(w)
    \/ Query(w) \/ Record(w) \/ Release(w)

-----------------------------------------------------------------------------
(* Everything else that happens.                                           *)

\* The exchange takes a request unless it knows its client order id, or has no
\* such position to sell, or refuses it; whoever still waits hears of it.
Arrive(o, n) ==
    LET known == exch[o].status # "none"
        sellable == o \in Opens \/ position >= row[o].size
        answered(a) ==
            worker' = [w \in Workers |->
                IF At(w, "waiting") /\ worker[w].order = o /\ worker[w].attempt = n
                  THEN [worker[w] EXCEPT !.pc = "answered", !.answer = a]
                  ELSE worker[w]]
    IN
    /\ <<o, n>> \in wire
    /\ wire' = wire \ {<<o, n>>}
    /\ \/ /\ ~known /\ sellable
          /\ exch' = [exch EXCEPT ![o].status = "open"]
          /\ answered("accepted")
          /\ UNCHANGED faults
       \/ /\ known \/ ~sellable
          /\ answered("rejected")
          /\ UNCHANGED <<exch, faults>>
       \/ /\ ~known
          /\ faults < MaxFaults
          /\ faults' = faults + 1
          /\ answered("rejected")
          /\ UNCHANGED exch
    /\ UNCHANGED <<tables, openings, position>>

\* A market order fills in parts; the exchange may cancel what is left of it.
Fill(o) ==
    /\ exch[o].status = "open"
    /\ exch' = [exch EXCEPT ![o] =
                    [status |-> IF @.filled + 1 = row[o].size THEN "done" ELSE "open",
                     filled |-> @.filled + 1]]
    /\ position' = IF o \in Opens THEN position + 1 ELSE position - 1
    /\ UNCHANGED <<tables, openings, worker, wire, faults>>

EndPartial(o) ==
    /\ exch[o].status = "open"
    /\ faults < MaxFaults
    /\ exch' = [exch EXCEPT ![o].status = "done"]
    /\ faults' = faults + 1
    /\ UNCHANGED <<tables, openings, worker, wire, position>>

Acting(w) == worker[w].pc \notin {"idle", "stopped", "drained"}

\* A grant runs out between ticks, or, as a fault, under a tick that acts on it.
GrantExpires(o) ==
    /\ row[o].grant = "live"
    /\ row' = [row EXCEPT ![o].grant = "expired"]
    /\ IF \E w \in Workers : Acting(w) /\ worker[w].order = o
         THEN faults < MaxFaults /\ faults' = faults + 1
         ELSE UNCHANGED faults
    /\ UNCHANGED <<net, history, lease, openings, worker, wire, exchange>>

LeaseExpires ==
    /\ lease
    /\ lease' = FALSE
    /\ IF \E w \in Workers : Acting(w)
         THEN faults < MaxFaults /\ faults' = faults + 1
         ELSE UNCHANGED faults
    /\ UNCHANGED <<row, net, history, openings, worker, wire, exchange>>

\* A call to the exchange fails, or its answer does not come in time.
CallFails(w) ==
    /\ worker[w].pc \in {"idle", "prepared", "waiting", "querying"}
    /\ faults < MaxFaults
    /\ IF At(w, "idle") THEN Stop(w) ELSE Abandon(w)
    /\ faults' = faults + 1
    /\ UNCHANGED <<tables, openings, wire, exchange>>

\* A request is lost before it reaches the exchange; its sender times out.
Lost(o, n) ==
    /\ <<o, n>> \in wire
    /\ faults < MaxFaults
    /\ wire' = wire \ {<<o, n>>}
    /\ worker' = [w \in Workers |->
                    IF At(w, "waiting") /\ worker[w].order = o /\ worker[w].attempt = n
                      THEN Releasing(FALSE)
                      ELSE worker[w]]
    /\ faults' = faults + 1
    /\ UNCHANGED <<tables, openings, exchange>>

Crash(w) ==
    /\ Acting(w)
    /\ faults < MaxFaults
    /\ Stop(w)
    /\ faults' = faults + 1
    /\ UNCHANGED <<tables, openings, wire, exchange>>

\* The operator runs the job again, as it was or prepared and confirmed anew
\* with a window of its own; or ends the window.
Restart(w) ==
    /\ At(w, "stopped")
    /\ worker' = [worker EXCEPT ![w] = Resting]
    /\ openings' \in {openings, TRUE}
    /\ UNCHANGED <<tables, wire, exchange, faults>>

EndWindow ==
    /\ openings
    /\ openings' = FALSE
    /\ UNCHANGED <<tables, worker, wire, exchange, faults>>

Surroundings ==
    \/ \E o \in Orders, n \in Attempts : Arrive(o, n) \/ Lost(o, n)
    \/ \E o \in Orders : Fill(o) \/ EndPartial(o) \/ GrantExpires(o)
    \/ LeaseExpires
    \/ \E w \in Workers : CallFails(w) \/ Crash(w) \/ Restart(w)
    \/ EndWindow

Next == (\E w \in Workers : Works(w)) \/ Surroundings

Spec == Init /\ [][Next]_vars

\* A process that runs goes on ticking; time passes; the exchange takes what
\* reaches it and fills it.
FairSpec ==
    /\ Spec
    /\ \A w \in Workers : WF_vars(Works(w))
    /\ WF_vars(\E o \in Orders, n \in Attempts : Arrive(o, n))
    /\ WF_vars(\E o \in Orders : Fill(o))
    /\ SF_vars(\E o \in Orders : GrantExpires(o))
    /\ SF_vars(LeaseExpires)

-----------------------------------------------------------------------------
OrderRows == [grant : GrantStates, size : 0 .. Size, status : Statuses, claims : Claims,
              fills : 0 .. Size, ledger : 0 .. Size, matched : 0 .. Size]
Processes == [pc : Steps, order : Orders \union {NoOrder}, attempt : 0 .. 3,
              answer : Outcomes, seen : 0 .. Size, fine : BOOLEAN]

SoakTypeOK ==
    /\ row \in [Orders -> OrderRows]
    /\ net \in 0 .. Size
    /\ history \in Seq(Orders)
    /\ lease \in BOOLEAN
    /\ openings \in BOOLEAN
    /\ worker \in [Workers -> Processes]
    /\ wire \in SUBSET (Orders \X Attempts)
    /\ exch \in [Orders -> [status : {"none", "open", "done"}, filled : 0 .. Size]]
    /\ position \in Int
    /\ faults \in 0 .. MaxFaults

\* An order the tables hold for rejected although the exchange has it, or may
\* yet receive it: its late request came after the proof of its absence, and
\* the second one was refused as a duplicate or proved absent as well.
Forgotten(o) ==
    /\ row[o].status = "REJECTED"
    /\ exch[o].status # "none" \/ \E n \in Attempts : <<o, n>> \in wire

\* A purchase that may still come to the exchange, is open there, or is held.
Exposed(o) ==
    \/ exch[o].status = "none" /\ \E n \in Attempts : <<o, n>> \in wire
    \/ exch[o].status = "open"
    \/ exch[o].filled > exch[ExitOf(o)].filled

\* A dead end that no later tick leaves: a prepared order whose grant ran out,
\* an exit whose grant ran out before it was prepared or whose order was
\* refused (a signal has one exit grant, for ever), an order that ended partly
\* filled, and a forgotten one.
Stuck(o) ==
    \/ row[o].status = "SUBMITTED" /\ row[o].grant = "expired"
    \/ o \in Exits /\ row[o].status = "none" /\ row[o].grant = "expired"
    \/ o \in Exits /\ row[o].status = "REJECTED"
    \/ exch[o].status = "done" /\ exch[o].filled < row[o].size
    \/ Forgotten(o)

\* There is one purchase at most under way or held, whatever crashed, was lost
\* or came late, as long as no order is forgotten: the proof of absence and
\* the guards read before every claim keep it so (one worker).
OneExposure ==
    (\A o \in Orders : ~Forgotten(o)) => Cardinality({o \in Opens : Exposed(o)}) <= 1

\* When no order needs a step the ledger is the account, so that a flat ledger
\* may end the soak without another look at the exchange.
BooksAreTheAccount ==
    (Complete /\ \A o \in Orders : ~Forgotten(o)) => Quiet /\ net = position

\* Once its window has ended, and as long as somebody starts it again, the soak
\* closes its position and drains, or has come to one of the dead ends.
Drains ==
    (<>[]~openings /\ []<>(\E w \in Workers : ~At(w, "stopped")))
        => <>((\E w \in Workers : At(w, "drained")) \/ \E o \in Orders : Stuck(o))
=============================================================================
