---------------------------- MODULE MCTaskHistory ----------------------------
(* Both histories of a task at once, its deadlines and its registers, with *)
(* sleeps below and above one tick.                                        *)
EXTENDS SleepTimes, SavedRegisters

MCSleepArgs == {-1, 2}

HInit == STInit /\ seen = [t \in Slots |-> 0]
HNext == STNext /\ Remember
HSpec == HInit /\ [][HNext]_<<stVars, seen>>
=============================================================================
