--------------------------- MODULE MCTriageServer ---------------------------
(***************************************************************************)
(* Small instances of TriageServer for TLC.                                *)
(***************************************************************************)
EXTENDS TriageServer, TLC

\* Threads are alike, and so are the named sessions.
Alike == Permutations(Slots) \cup Permutations(Ids \ {Default})
=============================================================================
