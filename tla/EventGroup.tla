----------------------------- MODULE EventGroup ------------------------------
(***************************************************************************)
(* What groups of event flags promise, without table, scan or scheduler:   *)
(* a request for a mask is granted once, with bits nobody else was granted *)
(* since they were set, and when a call has returned no request is left    *)
(* waiting that the flags could grant.                                     *)
(*   flags[e]    the bits of group e that are set                          *)
(*   waiting[e]  how many requests wait, for each task and mask            *)
(*   setting[e]  a call of event_flags_set() on e is going on              *)
(***************************************************************************)
EXTENDS Naturals

CONSTANTS Events, Bits, Masks, Tasks

VARIABLES flags, waiting, setting

gVars == <<flags, waiting, setting>>

Request == Tasks \X Masks

Init ==
    /\ flags = [e \in Events |-> {}]
    /\ waiting = [e \in Events |-> [r \in Request |-> 0]]
    /\ setting = [e \in Events |-> FALSE]

Settled(e) ==
    \A r \in Request : waiting[e][r] > 0 => ~(r[2] \subseteq flags[e])

(* A call may go on, and ends only in a settled state.                     *)
Proceed(e) ==
    /\ setting' \in {[setting EXCEPT ![e] = b] : b \in BOOLEAN}
    /\ ~setting'[e] => Settled(e)'

Set(e, m) ==
    /\ ~setting[e]
    /\ flags' = [flags EXCEPT ![e] = @ \cup m]
    /\ UNCHANGED waiting
    /\ Proceed(e)

Grant(e, r) ==
    /\ setting[e]
    /\ waiting[e][r] > 0
    /\ r[2] \subseteq flags[e]
    /\ flags' = [flags EXCEPT ![e] = @ \ r[2]]
    /\ waiting' = [waiting EXCEPT ![e][r] = @ - 1]
    /\ Proceed(e)

Look(e) ==
    /\ setting[e]
    /\ UNCHANGED <<flags, waiting>>
    /\ Proceed(e)

Clear(e, m) ==
    /\ ~setting[e]
    /\ flags' = [flags EXCEPT ![e] = @ \ m]
    /\ UNCHANGED <<waiting, setting>>

GrantAtOnce(e, m) ==
    /\ ~setting[e]
    /\ m \subseteq flags[e]
    /\ flags' = [flags EXCEPT ![e] = @ \ m]
    /\ UNCHANGED <<waiting, setting>>

Wait(e, r) ==
    /\ ~setting[e]
    /\ ~(r[2] \subseteq flags[e])
    /\ waiting' = [waiting EXCEPT ![e][r] = @ + 1]
    /\ UNCHANGED <<flags, setting>>

Next ==
    \E e \in Events :
        \/ Look(e)
        \/ \E m \in Masks : Set(e, m) \/ Clear(e, m) \/ GrantAtOnce(e, m)
        \/ \E r \in Request : Grant(e, r) \/ Wait(e, r)

Spec == Init /\ [][Next]_gVars
=============================================================================
