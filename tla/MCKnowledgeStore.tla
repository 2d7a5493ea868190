-------------------------- MODULE MCKnowledgeStore --------------------------
(* One process, as the service is configured by default.  Two files, so that
   one file's request can disturb the other's; up to four requests: a file is
   uploaded, replaced or updated, and deleted, while the other arrives. *)
EXTENDS KnowledgeStore, TLC
CONSTANTS r1, r2, r3, r4, f1, f2, p1

TwoRequests == {r1, r2}
ThreeRequests == {r1, r2, r3}
FourRequests == {r1, r2, r3, r4}
TwoFiles == {f1, f2}
OneProc == {p1}

NoFaults == {}
RequestSymmetry == Permutations(Requests) \cup Permutations(Files)
=============================================================================
