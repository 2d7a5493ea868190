----------------------------- MODULE JobService -----------------------------
(***************************************************************************)
(* What enqueue_rag (backend/services/rag_queue.py) promises to a request  *)
(* that hands it a job, without saying how: a call is refused or accepted; *)
(* an accepted job is executed at most once; the call is answered at most  *)
(* once, with the outcome of the job or with a timeout.  A timeout ends    *)
(* the call, not the job: an accepted job may still start, and finish,     *)
(* after its caller has been told that it timed out.                       *)
(***************************************************************************)
CONSTANT Jobs   \* the calls of enqueue_rag, each with the job it carries

VARIABLES
  call,         \* what the caller knows of its call
  job           \* what has really become of the job

vars == <<call, job>>

CallStates == {"idle", "waiting", "returned", "raised", "refused", "expired"}
JobStates == {"none", "accepted", "running", "finished", "failed", "dropped"}

Init ==
  /\ call = [j \in Jobs |-> "idle"]
  /\ job = [j \in Jobs |-> "none"]

\* The job is queued and the caller waits for its outcome.
Accept(j) ==
  /\ call[j] = "idle"
  /\ call' = [call EXCEPT ![j] = "waiting"]
  /\ job' = [job EXCEPT ![j] = "accepted"]

\* 429: the job is not queued and never will be.
Refuse(j) ==
  /\ call[j] = "idle"
  /\ call' = [call EXCEPT ![j] = "refused"]
  /\ UNCHANGED job

\* Execution starts whether or not the caller still waits.
Start(j) ==
  /\ job[j] = "accepted"
  /\ job' = [job EXCEPT ![j] = "running"]
  /\ UNCHANGED call

Finish(j) ==
  /\ job[j] = "running"
  /\ \E outcome \in {"finished", "failed"} : job' = [job EXCEPT ![j] = outcome]
  /\ UNCHANGED call

\* The caller receives the outcome of its own job.
Answer(j) ==
  /\ call[j] = "waiting"
  /\ \/ /\ job[j] = "finished"
        /\ call' = [call EXCEPT ![j] = "returned"]
     \/ /\ job[j] = "failed"
        /\ call' = [call EXCEPT ![j] = "raised"]
  /\ UNCHANGED job

\* 504: the caller gives up; the job is left as it is.
Expire(j) ==
  /\ call[j] = "waiting"
  /\ call' = [call EXCEPT ![j] = "expired"]
  /\ UNCHANGED job

\* The service stops: the jobs that have not started are lost.  Nobody waits for one.
Shutdown ==
  /\ \A j \in Jobs : call[j] # "waiting"
  /\ job' = [j \in Jobs |-> IF job[j] = "accepted" THEN "dropped" ELSE job[j]]
  /\ UNCHANGED call

Next ==
  \/ \E j \in Jobs :
       Accept(j) \/ Refuse(j) \/ Start(j) \/ Finish(j) \/ Answer(j) \/ Expire(j)
  \/ Shutdown

Spec == Init /\ [][Next]_vars
=============================================================================
