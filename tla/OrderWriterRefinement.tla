------------------------- MODULE OrderWriterRefinement -------------------------
(***************************************************************************)
(* The order writer implements OrderProtocol: the attempts of an order and *)
(* the processes, requests and orders at the exchange are mapped to where  *)
(* the order's request is and what the journal says of it.                 *)
(***************************************************************************)
EXTENDS OrderWriter

InHand(k) == \E w \in Writers : At(w, "post") /\ writer[w].key = k

Place(a) ==
    IF market[a] # "NONE" THEN "EXCHANGE"
    ELSE IF OrderKey(a) \in wire THEN "WIRE"
    ELSE IF InHand(OrderKey(a)) THEN "HAND"
    ELSE "NOWHERE"

Outcome(a) == IF Pending(OrderKey(a)) THEN "OPEN" ELSE attempt[OrderKey(a)].state

Protocol == INSTANCE OrderProtocol WITH
    Orders <- Approvals,
    place <- [a \in Approvals |-> Place(a)],
    outcome <- [a \in Approvals |-> Outcome(a)]

\* "Recovered by reads and are never reposted blindly": over all processes, takeovers,
\* crashes, timeouts and late requests, the writer opens one order at a time, sends its
\* request once, and closes it only by what the exchange made of it.
ImplementsOrderProtocol == Protocol!Spec
=============================================================================
