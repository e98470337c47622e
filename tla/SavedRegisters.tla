--------------------------- MODULE SavedRegisters ---------------------------
(***************************************************************************)
(* What a context switch promises: Scheduler with one history variable,    *)
(*   seen[t]  the register word t had when its function last returned      *)
(***************************************************************************)
EXTENDS Scheduler

VARIABLE seen

srVars == <<vars, seen>>

SRInit == Init /\ seen = [t \in Slots |-> 0]

Remember ==
    seen' = [t \in Slots |->
        IF t \in Created' \ Created THEN 0
        ELSE IF pc = "task" /\ t = current_task_index THEN active_context'.word
        ELSE seen[t]]

SRNext == Next /\ Remember

SRSpec == SRInit /\ [][SRNext]_srVars

(***************************************************************************)
(* context.c, "can resume from exactly this point on its next scheduling   *)
(* turn": whenever a task's function runs, the one live register file is   *)
(* its own and holds what it left there, through any number of switches,   *)
(* Continue and idle cycles, and a fresh task starts from reset registers. *)
(***************************************************************************)
ResumesWhereItLeft ==
    pc = "task" =>
      active_context = [entry |-> current_task_index,
                        word  |-> seen[current_task_index]]
=============================================================================
