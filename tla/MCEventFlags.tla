---------------------------- MODULE MCEventFlags -----------------------------
(* EventFlags with overlapping masks, and one task, besides main() before  *)
(* the first dispatch, that leaves stale entries.                          *)
EXTENDS EventFlags

MCMasks    == {{"a"}, {"a", "b"}}
MCCareless == {NoTask, 0}
=============================================================================
