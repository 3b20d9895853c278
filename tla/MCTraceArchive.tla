--------------------------- MODULE MCTraceArchive ---------------------------
(* TraceArchive for TLC: two runs in a thread, of one investigation or two.   *)
EXTENDS TraceArchive, TLC

Alike == Permutations(Runs)
=============================================================================
