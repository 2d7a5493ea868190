------------------------------ MODULE RagQueue ------------------------------
(***************************************************************************)
(* The job queue in front of the embedding model                           *)
(* (backend/services/rag_queue.py): a bounded asyncio.Queue, a fixed pool  *)
(* of worker coroutines and a thread pool of the same size.  One action is *)
(* one step of the event loop, or one event of an executor thread.         *)
(*                                                                         *)
(* asyncio (Python 3.10) and the thread pool are outside the repository;   *)
(* what is used of them:                                                   *)
(*  - put_nowait stores the item even when a getter is waiting; the getter *)
(*    takes it when the loop next resumes its task;                        *)
(*  - wait_for cancels the future when the timer finds it pending, and     *)
(*    returns the result when it finds it done;                            *)
(*  - the executor has as many threads as there are workers and a worker   *)
(*    submits one function at a time, so a submitted function starts;      *)
(*  - uvicorn runs the shutdown handlers after the requests in flight are  *)
(*    answered and takes no request after that.                            *)
(*                                                                         *)
(* An operator named X_... before an operator X is X as a plausible slip   *)
(* would have it; no specification uses it but the checks of the           *)
(* properties (README, "Mutants").                                         *)
(***************************************************************************)
EXTENDS Naturals, Sequences, FiniteSets

CONSTANTS
  Jobs,           \* the calls of enqueue_rag, each with the job it carries
  Workers,        \* RAG_GPU_CONCURRENCY worker coroutines
  QueueMaxSize,   \* RAG_QUEUE_MAX_SIZE
  NoJob           \* a worker that holds no job

ASSUME QueueMaxSizeAssumption == QueueMaxSize \in Nat \ {0}
ASSUME WorkersAssumption == Workers # {} /\ IsFiniteSet(Workers)
ASSUME NoJobAssumption == NoJob \notin Jobs

VARIABLES
  stage,          \* of the service: "off", "on" (_is_started()) or "stopped"
  queue,          \* _queue: the jobs no worker has taken yet
  holds,          \* the job each worker awaits in run_in_executor
  thread,         \* the function of each job in the executor
  future,         \* RAGJob.future
  call            \* what enqueue_rag has answered

vars == <<stage, queue, holds, thread, future, call>>

TypeOK ==
  /\ stage \in {"off", "on", "stopped"}
  /\ queue \in Seq(Jobs)
  /\ Len(queue) \in 0..QueueMaxSize
  /\ holds \in [Workers -> Jobs \cup {NoJob}]
  /\ thread \in [Jobs -> {"none", "running", "finished", "failed"}]
  /\ future \in [Jobs -> {"none", "pending", "result", "exception", "cancelled"}]
  /\ call \in [Jobs -> {"idle", "waiting", "returned", "raised", "refused", "expired"}]

Init ==
  /\ stage = "off"
  /\ queue = <<>>
  /\ holds = [w \in Workers |-> NoJob]
  /\ thread = [j \in Jobs |-> "none"]
  /\ future = [j \in Jobs |-> "none"]
  /\ call = [j \in Jobs |-> "idle"]
-----------------------------------------------------------------------------
(* start_rag_queue: does nothing when the service is up already. *)
Start ==
  /\ stage = "off"
  /\ stage' = "on"
  /\ UNCHANGED <<queue, holds, thread, future, call>>

(* stop_rag_queue: cancels the workers, drops the queue and shuts the executor
   down without waiting: a function that already runs goes on running. *)
Stop ==
  /\ stage = "on"
  /\ \A j \in Jobs : call[j] # "waiting"
  /\ stage' = "stopped"
  /\ queue' = <<>>
  /\ holds' = [w \in Workers |-> NoJob]
  /\ UNCHANGED <<thread, future, call>>

Enqueue_OneTooMany(j) ==
  /\ call[j] = "idle" /\ stage # "stopped"
  /\ stage' = "on"
  /\ Len(queue) <= QueueMaxSize
  /\ queue' = Append(queue, j)
  /\ call' = [call EXCEPT ![j] = "waiting"]
  /\ future' = [future EXCEPT ![j] = "pending"]
  /\ UNCHANGED <<holds, thread>>

Enqueue_RefusesTooLate(j) ==
  /\ call[j] = "idle" /\ stage # "stopped"
  /\ stage' = "on"
  /\ queue' = Append(queue, j)
  /\ call' = [call EXCEPT ![j] = IF Len(queue) < QueueMaxSize THEN "waiting" ELSE "refused"]
  /\ future' = [future EXCEPT ![j] = "pending"]
  /\ UNCHANGED <<holds, thread>>

(* enqueue_rag up to its await: starts the service if nobody has, then
   put_nowait, or 429 when the queue is full. *)
Enqueue(j) ==
  /\ call[j] = "idle"
  /\ stage # "stopped"
  /\ stage' = "on"
  /\ \/ /\ Len(queue) < QueueMaxSize
        /\ queue' = Append(queue, j)
        /\ call' = [call EXCEPT ![j] = "waiting"]
     \/ /\ Len(queue) = QueueMaxSize
        /\ call' = [call EXCEPT ![j] = "refused"]
        /\ UNCHANGED queue
  /\ future' = [future EXCEPT ![j] = "pending"]
  /\ UNCHANGED <<holds, thread>>

Take_WithoutRemoving(w) ==
  /\ stage = "on" /\ holds[w] = NoJob /\ queue # <<>>
  /\ holds' = [holds EXCEPT ![w] = Head(queue)]
  /\ thread' = [thread EXCEPT ![Head(queue)] = "running"]
  /\ UNCHANGED <<stage, queue, future, call>>

(* A worker takes the oldest job and submits its function.  It does not look
   at the future: a job whose caller has given up is executed all the same. *)
Take(w) ==
  /\ stage = "on"
  /\ holds[w] = NoJob
  /\ queue # <<>>
  /\ queue' = Tail(queue)
  /\ holds' = [holds EXCEPT ![w] = Head(queue)]
  /\ thread' = [thread EXCEPT ![Head(queue)] = "running"]
  /\ UNCHANGED <<stage, future, call>>

(* The function returns or raises, in its thread. *)
EndThread(j) ==
  /\ thread[j] = "running"
  /\ \E end \in {"finished", "failed"} : thread' = [thread EXCEPT ![j] = end]
  /\ UNCHANGED <<stage, queue, holds, future, call>>

Settle_WithoutDoneTest(w) ==
  LET j == holds[w] IN
  /\ j # NoJob /\ thread[j] \in {"finished", "failed"}
  /\ future' = [future EXCEPT ![j] = IF thread[j] = "finished" THEN "result" ELSE "exception"]
  /\ holds' = [holds EXCEPT ![w] = NoJob]
  /\ UNCHANGED <<stage, queue, thread, call>>

Settle_WorkerDies(w) ==
  LET j == holds[w] IN
  /\ j # NoJob /\ thread[j] \in {"finished", "failed"}
  /\ IF thread[j] = "finished"
     THEN /\ future' = IF future[j] = "pending" THEN [future EXCEPT ![j] = "result"] ELSE future
          /\ holds' = [holds EXCEPT ![w] = NoJob]
     ELSE UNCHANGED <<future, holds>>
  /\ UNCHANGED <<stage, queue, thread, call>>

(* The worker hands the outcome to the caller, unless the future is done by
   now, and goes back to the queue. *)
Settle(w) ==
  LET j == holds[w] IN
  /\ j # NoJob
  /\ \/ /\ thread[j] = "finished"
        /\ future' = IF future[j] = "pending"
                     THEN [future EXCEPT ![j] = "result"] ELSE future
     \/ /\ thread[j] = "failed"
        /\ future' = IF future[j] = "pending"
                     THEN [future EXCEPT ![j] = "exception"] ELSE future
  /\ holds' = [holds EXCEPT ![w] = NoJob]
  /\ UNCHANGED <<stage, queue, thread, call>>

Answer_ResultsOnly(j) ==
  /\ call[j] = "waiting" /\ future[j] = "result"
  /\ call' = [call EXCEPT ![j] = "returned"]
  /\ UNCHANGED <<stage, queue, holds, thread, future>>

(* wait_for finds the future done: enqueue_rag returns or raises. *)
Answer(j) ==
  /\ call[j] = "waiting"
  /\ \/ /\ future[j] = "result"
        /\ call' = [call EXCEPT ![j] = "returned"]
     \/ /\ future[j] = "exception"
        /\ call' = [call EXCEPT ![j] = "raised"]
  /\ UNCHANGED <<stage, queue, holds, thread, future>>

Expire_FreesWorker(j) ==
  /\ call[j] = "waiting" /\ future[j] = "pending"
  /\ future' = [future EXCEPT ![j] = "cancelled"]
  /\ call' = [call EXCEPT ![j] = "expired"]
  /\ holds' = [w \in Workers |-> IF holds[w] = j THEN NoJob ELSE holds[w]]
  /\ UNCHANGED <<stage, queue, thread>>

(* RAG_QUEUE_TIMEOUT passes first: the future is cancelled and the call ends
   with 504; the job stays where it is. *)
Expire(j) ==
  /\ call[j] = "waiting"
  /\ future[j] = "pending"
  /\ future' = [future EXCEPT ![j] = "cancelled"]
  /\ call' = [call EXCEPT ![j] = "expired"]
  /\ UNCHANGED <<stage, queue, holds, thread>>

Next ==
  \/ Start
  \/ Stop
  \/ \E j \in Jobs : Enqueue(j) \/ EndThread(j) \/ Answer(j) \/ Expire(j)
  \/ \E w \in Workers : Take(w) \/ Settle(w)

Spec == Init /\ [][Next]_vars

(* The event loop resumes every ready task and fires every timer; the thread
   pool runs what it was given and a job's own calls have their own timeouts.
   Nothing makes a client call, and nothing makes the service stop. *)
Fairness ==
  /\ \A w \in Workers : WF_vars(Take(w)) /\ WF_vars(Settle(w))
  /\ \A j \in Jobs : WF_vars(Answer(j) \/ Expire(j)) /\ WF_vars(EndThread(j))

FairSpec == Spec /\ Fairness
-----------------------------------------------------------------------------
Queued(j) == \E i \in DOMAIN queue : queue[i] = j
Held(j) == \E w \in Workers : holds[w] = j
Running == {j \in Jobs : thread[j] = "running"}

(* A job is in one place: once in the queue, or with one worker, or nowhere;
   in the queue it has not started, and it reaches a worker by starting.  This
   is what makes put_nowait, get and the executor run a job at most once. *)
OneCopy ==
  /\ \A i, k \in DOMAIN queue : queue[i] = queue[k] => i = k
  /\ \A w, x \in Workers : holds[w] = holds[x] /\ holds[w] # NoJob => w = x
  /\ \A j \in Jobs : Queued(j) => thread[j] = "none" /\ ~Held(j)
  /\ \A j \in Jobs : Held(j) => thread[j] # "none"

(* Timed-out callers do not let the model be overcommitted: while the service
   is up every running function is awaited by a worker of its own, so at most
   RAG_GPU_CONCURRENCY functions run at a time, abandoned ones included. *)
PoolBound ==
  stage # "stopped" => \A j \in Running : \E w \in Workers : holds[w] = j

(* An outcome is final: no late result or exception replaces a cancellation,
   and no timeout replaces a result (the future.done() tests of both sides). *)
FutureIsFinal ==
  [][\A j \in Jobs : future[j] \notin {"none", "pending"} => future'[j] = future[j]]_vars

(* Whatever the workers and the jobs do, a caller gets its answer. *)
Answered == \A j \in Jobs : call[j] = "waiting" ~> call[j] # "waiting"

(* A failing job, or one whose caller has gone, does not block the queue: every
   accepted job is started unless the service stops. *)
AcceptedRuns == \A j \in Jobs : Queued(j) ~> (thread[j] # "none" \/ stage = "stopped")

(* The job's life as the callers' promise sees it. *)
jobState ==
  [j \in Jobs |-> CASE thread[j] # "none" -> thread[j]
                    [] thread[j] = "none" /\ Queued(j) -> "accepted"
                    [] thread[j] = "none" /\ ~Queued(j) /\ call[j] \in {"idle", "refused"} -> "none"
                    [] OTHER -> "dropped"]

Service == INSTANCE JobService WITH job <- jobState

(* The queue keeps the promise of JobService. *)
Promise == Service!Spec
=============================================================================
