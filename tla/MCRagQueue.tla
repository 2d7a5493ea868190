----------------------------- MODULE MCRagQueue -----------------------------
(* Four calls, two workers, room for two: the third call that arrives before
   a worker has taken one is refused, and a call that times out leaves its
   job in the queue in front of the others. *)
EXTENDS RagQueue, TLC
CONSTANTS j1, j2, j3, j4, w1, w2

MCJobs == {j1, j2, j3, j4}
MCWorkers == {w1, w2}
=============================================================================
