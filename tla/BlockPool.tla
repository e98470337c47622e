----------------------------- MODULE BlockPool ------------------------------
(***************************************************************************)
(* What the memory pool promises its clients: an allocation hands out some *)
(* block nobody holds, and fails only when every block is held.  How the   *)
(* pool finds a free block is MemoryPool's business.                       *)
(***************************************************************************)
CONSTANTS Blocks, NoBlock

VARIABLES
    held,      \* the blocks clients hold
    result     \* what the last allocation returned

Init == held = {} /\ result = NoBlock

Grant(b) ==
    /\ b \notin held
    /\ held' = held \cup {b}
    /\ result' = b

Refuse ==
    /\ held = Blocks
    /\ result' = NoBlock
    /\ UNCHANGED held

Release(b) ==
    /\ b \in held
    /\ held' = held \ {b}
    /\ UNCHANGED result

(* The pool is initialised again and all blocks return to it.              *)
Reset == held' = {} /\ UNCHANGED result

Next == (\E b \in Blocks : Grant(b) \/ Release(b)) \/ Refuse \/ Reset

Spec == Init /\ [][Next]_<<held, result>>
=============================================================================
