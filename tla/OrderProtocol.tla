----------------------------- MODULE OrderProtocol -----------------------------
(***************************************************************************)
(* What the order writer promises of the orders it submits, without        *)
(* processes, leases, generations, answers or reads: the journal opens one *)
(* order at a time, its request leaves at most once, it may be late, and   *)
(* the journal closes an order only by what became of it.                  *)
(***************************************************************************)
CONSTANT Orders    \* the opening and closing orders that were approved

VARIABLES
    place,    \* [Orders -> where the order's request is]
    outcome   \* [Orders -> what the journal says of it]

vars == <<place, outcome>>

Places == {"NOWHERE", "HAND", "WIRE", "EXCHANGE"}
Outcomes == {"ABSENT", "OPEN", "REJECTED", "RECONCILED"}

Init ==
    /\ place = [o \in Orders |-> "NOWHERE"]
    /\ outcome = [o \in Orders |-> "ABSENT"]

Move(o, from, to) == place[o] = from /\ place' = [place EXCEPT ![o] = to]

\* The order is written down, and only then may its request leave.
Open(o) ==
    /\ outcome[o] = "ABSENT"
    /\ \A p \in Orders : outcome[p] # "OPEN"
    /\ outcome' = [outcome EXCEPT ![o] = "OPEN"]
    /\ Move(o, "NOWHERE", "HAND")

Send(o) == Move(o, "HAND", "WIRE") /\ UNCHANGED outcome

\* The process that had it dies or refuses.
Drop(o) == Move(o, "HAND", "NOWHERE") /\ UNCHANGED outcome

Land(o) == Move(o, "WIRE", "EXCHANGE") /\ UNCHANGED outcome

Bounce(o) == Move(o, "WIRE", "NOWHERE") /\ UNCHANGED outcome

Conclude(o, result, where) ==
    /\ outcome[o] = "OPEN"
    /\ place[o] = where
    /\ outcome' = [outcome EXCEPT ![o] = result]
    /\ UNCHANGED place

Next ==
    \E o \in Orders :
        \/ Open(o) \/ Send(o) \/ Drop(o) \/ Land(o) \/ Bounce(o)
        \/ Conclude(o, "RECONCILED", "EXCHANGE")
        \/ Conclude(o, "REJECTED", "NOWHERE")

Spec == Init /\ [][Next]_vars
=============================================================================
