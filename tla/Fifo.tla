-------------------------------- MODULE Fifo --------------------------------
(***************************************************************************)
(* What the message queues promise their clients: messages come out of a   *)
(* queue in the order they went in, none is lost, repeated or made up, and *)
(* at most Capacity of them are under way.                                 *)
(***************************************************************************)
EXTENDS Naturals, Sequences

CONSTANTS Queues, Capacity, Messages

VARIABLES
    items,       \* for each queue, the messages under way
    delivered    \* for each queue, the last message received

Init == items = [q \in Queues |-> <<>>]

Send(q, v) ==
    /\ Len(items[q]) < Capacity
    /\ items' = [items EXCEPT ![q] = Append(@, v)]
    /\ UNCHANGED delivered

Receive(q) ==
    /\ items[q] # <<>>
    /\ items' = [items EXCEPT ![q] = Tail(@)]
    /\ delivered' = [delivered EXCEPT ![q] = Head(items[q])]

Next == \E q \in Queues : Receive(q) \/ \E v \in Messages : Send(q, v)

Spec == Init /\ [][Next]_<<items, delivered>>
=============================================================================
