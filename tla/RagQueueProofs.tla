--------------------------- MODULE RagQueueProofs ---------------------------
(***************************************************************************)
(* Theorems about RagQueue, for any number of calls and workers and any    *)
(* queue length: the invariants the run checks, the finality of an outcome *)
(* and the refinement of JobService.                                       *)
(***************************************************************************)
EXTENDS RagQueue, SequenceTheorems, TLAPS

(* What the queue, the pool, the futures and the answers say of a job agrees. *)
Agreement ==
  /\ stage # "on" => queue = <<>> /\ \A w \in Workers : holds[w] = NoJob
  /\ \A j \in Jobs : call[j] = "idle" => future[j] = "none"
  /\ \A j \in Jobs : call[j] \in {"idle", "refused"} => thread[j] = "none" /\ ~Queued(j)
  /\ \A j \in Jobs : future[j] = "result" => thread[j] = "finished"
  /\ \A j \in Jobs : future[j] = "exception" => thread[j] = "failed"

IInv == TypeOK /\ OneCopy /\ PoolBound /\ Agreement

(* What is in a queue after a job is appended to it. *)
LEMMA AppendElements ==
  ASSUME NEW q \in Seq(Jobs), NEW j \in Jobs, NEW k \in Jobs
  PROVE  (\E i \in DOMAIN Append(q, j) : Append(q, j)[i] = k)
         <=> (\E i \in DOMAIN q : q[i] = k) \/ k = j
<1> DEFINE a == Append(q, j)
<1>1. /\ DOMAIN q = 1..Len(q) /\ DOMAIN a = 1..Len(q)+1 /\ Len(q) \in Nat
      /\ a[Len(q)+1] = j /\ \A i \in 1..Len(q) : a[i] = q[i]
  OBVIOUS
<1>2. ASSUME NEW i \in DOMAIN a, a[i] = k PROVE (\E n \in DOMAIN q : q[n] = k) \/ k = j
  <2>1. i \in DOMAIN q \/ i = Len(q) + 1  BY <1>1
  <2> QED BY <1>1, <1>2, <2>1
<1>3. ASSUME NEW i \in DOMAIN q, q[i] = k PROVE \E n \in DOMAIN a : a[n] = k
  BY <1>1, <1>3
<1>4. k = j => \E n \in DOMAIN a : a[n] = k
  <2>1. Len(q)+1 \in DOMAIN a  BY <1>1
  <2> QED BY <1>1, <2>1
<1> QED BY <1>2, <1>3, <1>4

(* What is in a queue without repetitions after its head is taken. *)
LEMMA TailElements ==
  ASSUME NEW q \in Seq(Jobs), q # <<>>, NEW k \in Jobs,
         \A m, n \in DOMAIN q : q[m] = q[n] => m = n
  PROVE  /\ Head(q) \in Jobs
         /\ \A m, n \in DOMAIN Tail(q) : Tail(q)[m] = Tail(q)[n] => m = n
         /\ (\E i \in DOMAIN Tail(q) : Tail(q)[i] = k)
            <=> (\E i \in DOMAIN q : q[i] = k) /\ k # Head(q)
<1> DEFINE t == Tail(q)
<1>1. /\ Len(q) \in Nat \ {0} /\ DOMAIN q = 1..Len(q)
      /\ Head(q) = q[1] /\ Head(q) \in Jobs
      /\ t \in Seq(Jobs) /\ Len(t) = Len(q) - 1 /\ DOMAIN t = 1..Len(q)-1
      /\ \A i \in 1..Len(q)-1 : t[i] = q[i+1]
  OBVIOUS
<1>2. \A i \in DOMAIN t : i + 1 \in DOMAIN q /\ t[i] = q[i+1] /\ i + 1 # 1
  BY <1>1
<1>3. \A m, n \in DOMAIN t : t[m] = t[n] => m = n
  <2> SUFFICES ASSUME NEW m \in DOMAIN t, NEW n \in DOMAIN t, t[m] = t[n] PROVE m = n
    OBVIOUS
  <2>1. m + 1 = n + 1  BY <1>2
  <2> QED BY <2>1, <1>1
<1>4. ASSUME NEW i \in DOMAIN t, t[i] = k
      PROVE (\E n \in DOMAIN q : q[n] = k) /\ k # Head(q)
  <2>1. 1 \in DOMAIN q  BY <1>1
  <2> QED BY <1>1, <1>2, <1>4, <2>1
<1>5. ASSUME NEW i \in DOMAIN q, q[i] = k, k # Head(q)
      PROVE \E n \in DOMAIN t : t[n] = k
  <2>1. i # 1 /\ i - 1 \in DOMAIN t  BY <1>1, <1>5
  <2>2. t[i-1] = q[i]  BY <1>1, <2>1
  <2> QED BY <1>5, <2>1, <2>2
<1> QED BY <1>1, <1>3, <1>4, <1>5
-----------------------------------------------------------------------------
LEMMA InitInvariant == Init => IInv
<1> SUFFICES ASSUME Init PROVE IInv
  OBVIOUS
<1>1. queue \in Seq(Jobs) /\ Len(queue) = 0 /\ DOMAIN queue = {}
  BY DEF Init
<1>2. TypeOK
  BY <1>1, QueueMaxSizeAssumption DEF Init, TypeOK
<1>3. OneCopy /\ PoolBound /\ Agreement
  BY <1>1, NoJobAssumption DEF Init, OneCopy, PoolBound, Agreement, Queued, Held, Running
<1> QED BY <1>2, <1>3 DEF IInv

LEMMA StartStep == ASSUME IInv, Start PROVE IInv'
BY DEF IInv, Start, TypeOK, OneCopy, PoolBound, Agreement, Queued, Held, Running

LEMMA StopStep == ASSUME IInv, Stop PROVE IInv'
<1>1. queue' \in Seq(Jobs) /\ Len(queue') = 0 /\ DOMAIN queue' = {}
  BY DEF Stop
<1>2. TypeOK'
  BY <1>1, QueueMaxSizeAssumption DEF IInv, Stop, TypeOK
<1>3. OneCopy'
  BY <1>1, NoJobAssumption DEF Stop, OneCopy, Queued, Held
<1>4. PoolBound' /\ Agreement'
  BY <1>1 DEF IInv, Stop, PoolBound, Agreement, Queued
<1> QED BY <1>2, <1>3, <1>4 DEF IInv

LEMMA EnqueueStep == ASSUME IInv, NEW j \in Jobs, Enqueue(j) PROVE IInv'
<1> USE DEF IInv
<1>1. CASE Len(queue) < QueueMaxSize
  <2>1. queue' = Append(queue, j) /\ call' = [call EXCEPT ![j] = "waiting"]
    BY <1>1, QueueMaxSizeAssumption DEF Enqueue, TypeOK
  <2>2. queue' \in Seq(Jobs) /\ Len(queue') = Len(queue) + 1 /\ DOMAIN queue' = 1..Len(queue)+1
        /\ DOMAIN queue = 1..Len(queue) /\ queue'[Len(queue)+1] = j
        /\ \A i \in 1..Len(queue) : queue'[i] = queue[i]
    BY <2>1 DEF TypeOK
  <2>3. TypeOK'
    <3>1. Len(queue') \in 0..QueueMaxSize
      BY <1>1, <2>2, QueueMaxSizeAssumption DEF TypeOK
    <3>2. /\ stage' \in {"off", "on", "stopped"}
          /\ call' \in [Jobs -> {"idle", "waiting", "returned", "raised", "refused", "expired"}]
          /\ future' \in [Jobs -> {"none", "pending", "result", "exception", "cancelled"}]
          /\ holds' = holds /\ thread' = thread
      BY <2>1 DEF Enqueue, TypeOK
    <3> QED BY <2>2, <3>1, <3>2 DEF TypeOK
  <2>4. \A k \in Jobs : Queued(k)' <=> Queued(k) \/ k = j
    BY <2>1, AppendElements DEF TypeOK, Queued
  <2>5. ~Queued(j) /\ thread[j] = "none"
    BY DEF Enqueue, Agreement
  <2>6. ASSUME NEW i \in DOMAIN queue', NEW k \in DOMAIN queue', queue'[i] = queue'[k]
        PROVE i = k
    <3>1. \A n \in 1..Len(queue) : queue[n] # j
      BY <2>2, <2>5 DEF Queued
    <3>2. CASE i \in DOMAIN queue /\ k \in DOMAIN queue
      BY <2>2, <2>6, <3>2 DEF OneCopy
    <3>3. CASE i \notin DOMAIN queue \/ k \notin DOMAIN queue
      BY <2>2, <2>6, <3>1, <3>3 DEF TypeOK
    <3> QED BY <3>2, <3>3
  <2>7. OneCopy'
    <3>1. \A w, x \in Workers : holds'[w] = holds'[x] /\ holds'[w] # NoJob => w = x
      BY DEF Enqueue, OneCopy
    <3>2. ~Held(j)
      BY <2>5 DEF OneCopy
    <3>3. \A k \in Jobs : Held(k)' <=> Held(k)
      BY DEF Enqueue, Held
    <3>4. \A k \in Jobs : thread'[k] = thread[k]
      BY DEF Enqueue
    <3>5. \A k \in Jobs : Queued(k)' => thread'[k] = "none" /\ ~Held(k)'
      BY <2>4, <2>5, <3>2, <3>3, <3>4 DEF OneCopy
    <3>6. \A k \in Jobs : Held(k)' => thread'[k] # "none"
      BY <3>3, <3>4 DEF OneCopy
    <3> QED BY <2>6, <3>1, <3>5, <3>6 DEF OneCopy
  <2>8. PoolBound'
    BY DEF Enqueue, PoolBound, Running, Agreement, OneCopy, TypeOK
  <2>9. Agreement'
    BY <2>1, <2>4 DEF Enqueue, Agreement, TypeOK
  <2> QED BY <2>3, <2>7, <2>8, <2>9
<1>2. CASE Len(queue) = QueueMaxSize
  <2>1. queue' = queue /\ call' = [call EXCEPT ![j] = "refused"]
    BY <1>2, QueueMaxSizeAssumption DEF Enqueue, TypeOK
  <2>2. TypeOK'
    BY <2>1 DEF Enqueue, TypeOK
  <2>3. \A k \in Jobs : Queued(k)' <=> Queued(k)
    BY <2>1 DEF Queued
  <2>4. OneCopy'
    BY <2>1 DEF Enqueue, OneCopy, Queued, Held
  <2>5. PoolBound'
    BY DEF Enqueue, PoolBound, Running, Agreement, TypeOK
  <2>6. Agreement'
    BY <2>1, <2>3 DEF Enqueue, Agreement, TypeOK
  <2> QED BY <2>2, <2>4, <2>5, <2>6
<1> QED BY <1>1, <1>2 DEF Enqueue

LEMMA TakeStep == ASSUME IInv, NEW w \in Workers, Take(w) PROVE IInv'
<1> DEFINE h == Head(queue)
<1>1. /\ h \in Jobs
      /\ queue' = Tail(queue) /\ queue' \in Seq(Jobs) /\ Len(queue') = Len(queue) - 1
      /\ \A i, k \in DOMAIN queue' : queue'[i] = queue'[k] => i = k
      /\ \A k \in Jobs : Queued(k)' <=> Queued(k) /\ k # h
  BY TailElements DEF Take, IInv, TypeOK, OneCopy, Queued
<1>2. Queued(h) /\ thread[h] = "none" /\ ~Held(h)
  <2>1. 1 \in DOMAIN queue /\ h = queue[1]
    BY DEF Take, IInv, TypeOK
  <2> QED BY <1>1, <2>1 DEF IInv, OneCopy, Queued
<1>3. /\ holds' = [holds EXCEPT ![w] = h] /\ holds[w] = NoJob
      /\ thread' = [thread EXCEPT ![h] = "running"]
      /\ stage' = stage /\ stage = "on" /\ future' = future /\ call' = call
  BY DEF Take
<1>4. TypeOK'
  <2>1. Len(queue') \in 0..QueueMaxSize
    BY <1>1, QueueMaxSizeAssumption DEF Take, IInv, TypeOK
  <2> QED BY <1>1, <1>3, <2>1 DEF IInv, TypeOK
<1>5. \A k \in Jobs : Held(k)' <=> Held(k) \/ k = h
  <2>1. \A k \in Jobs, x \in Workers : holds'[x] = k <=> (x = w /\ k = h) \/ (x # w /\ holds[x] = k)
    BY <1>1, <1>3 DEF IInv, TypeOK
  <2>2. \A k \in Jobs : holds[w] # k
    BY <1>3, NoJobAssumption
  <2> QED BY <2>1, <2>2 DEF Held
<1>6. \A k \in Jobs : thread'[k] = IF k = h THEN "running" ELSE thread[k]
  BY <1>1, <1>3 DEF IInv, TypeOK
<1>7. OneCopy'
  <2>1. ASSUME NEW x \in Workers, NEW y \in Workers, holds'[x] = holds'[y], holds'[x] # NoJob
        PROVE x = y
    BY <1>1, <1>2, <1>3, <2>1 DEF IInv, TypeOK, OneCopy, Held
  <2>2. \A k \in Jobs : Queued(k)' => thread'[k] = "none" /\ ~Held(k)'
    BY <1>1, <1>5, <1>6 DEF IInv, OneCopy
  <2>3. \A k \in Jobs : Held(k)' => thread'[k] # "none"
    BY <1>5, <1>6 DEF IInv, OneCopy
  <2> QED BY <1>1, <2>1, <2>2, <2>3 DEF OneCopy
<1>8. PoolBound'
  <2> SUFFICES ASSUME NEW k \in Jobs, thread'[k] = "running" PROVE Held(k)'
    BY DEF PoolBound, Running, Held
  <2> QED BY <1>3, <1>5, <1>6 DEF IInv, PoolBound, Running, Held
<1>9. Agreement'
  BY <1>1, <1>2, <1>3, <1>6 DEF IInv, Agreement
<1> QED BY <1>4, <1>7, <1>8, <1>9 DEF IInv

LEMMA EndThreadStep == ASSUME IInv, NEW j \in Jobs, EndThread(j) PROVE IInv'
<1>1. TypeOK'
  BY DEF IInv, EndThread, TypeOK
<1>2. /\ thread[j] = "running" /\ thread'[j] \in {"finished", "failed"}
      /\ \A k \in Jobs : k # j => thread'[k] = thread[k]
  BY DEF IInv, EndThread, TypeOK
<1>3. \A k \in Jobs : (Queued(k)' <=> Queued(k)) /\ (Held(k)' <=> Held(k))
  BY DEF EndThread, Queued, Held
<1>4. OneCopy'
  BY <1>2, <1>3 DEF IInv, EndThread, OneCopy
<1>5. PoolBound' /\ Agreement'
  BY <1>2, <1>3 DEF IInv, EndThread, PoolBound, Running, Agreement
<1> QED BY <1>1, <1>4, <1>5 DEF IInv

LEMMA SettleStep == ASSUME IInv, NEW w \in Workers, Settle(w) PROVE IInv'
<1> DEFINE j == holds[w]
<1>1. j \in Jobs /\ thread[j] \in {"finished", "failed"}
  BY DEF IInv, Settle, TypeOK
<1>2. /\ holds' = [holds EXCEPT ![w] = NoJob]
      /\ UNCHANGED <<stage, queue, thread, call>>
      /\ \A k \in Jobs : k # j => future'[k] = future[k]
      /\ future[j] # "pending" => future'[j] = future[j]
      /\ future[j] = "pending" /\ thread[j] = "finished" => future'[j] = "result"
      /\ future[j] = "pending" /\ thread[j] = "failed" => future'[j] = "exception"
      /\ future' \in [Jobs -> {"none", "pending", "result", "exception", "cancelled"}]
  BY <1>1 DEF IInv, Settle, TypeOK
<1>3. TypeOK'
  BY <1>2 DEF IInv, TypeOK
<1>4. /\ \A k \in Jobs : Queued(k)' <=> Queued(k)
      /\ \A k \in Jobs : Held(k)' => Held(k)
      /\ \A k \in Jobs : Held(k) /\ k # j => Held(k)'
  <2>1. \A x \in Workers : holds'[x] = IF x = w THEN NoJob ELSE holds[x]
    BY <1>2 DEF IInv, TypeOK
  <2> QED BY <1>2, <2>1, NoJobAssumption DEF Queued, Held
<1>5. OneCopy'
  <2>1. \A x, y \in Workers : holds'[x] = holds'[y] /\ holds'[x] # NoJob => x = y
    BY <1>2 DEF IInv, TypeOK, OneCopy
  <2> QED BY <1>2, <1>4, <2>1 DEF IInv, OneCopy
<1>6. PoolBound'
  <2> SUFFICES ASSUME stage # "stopped", NEW k \in Jobs, thread[k] = "running" PROVE Held(k)'
    BY <1>2 DEF PoolBound, Running, Held
  <2> QED BY <1>1, <1>4 DEF IInv, PoolBound, Running, Held
<1>7. Agreement'
  <2>1. \A k \in Jobs : call[k] = "idle" => k # j
    BY <1>1 DEF IInv, Agreement
  <2>2. stage' # "on" => queue' = <<>> /\ \A x \in Workers : holds'[x] = NoJob
    BY <1>2 DEF IInv, TypeOK, Agreement
  <2> QED BY <1>1, <1>2, <1>4, <2>1, <2>2 DEF IInv, TypeOK, Agreement
<1> QED BY <1>3, <1>5, <1>6, <1>7 DEF IInv

LEMMA AnswerStep == ASSUME IInv, NEW j \in Jobs, Answer(j) PROVE IInv'
<1>1. TypeOK'
  BY DEF IInv, Answer, TypeOK
<1>2. OneCopy' /\ PoolBound'
  BY DEF IInv, Answer, OneCopy, PoolBound, Queued, Held, Running
<1>3. Agreement'
  BY DEF IInv, TypeOK, Answer, Agreement, Queued
<1> QED BY <1>1, <1>2, <1>3 DEF IInv

LEMMA ExpireStep == ASSUME IInv, NEW j \in Jobs, Expire(j) PROVE IInv'
<1>1. TypeOK'
  BY DEF IInv, Expire, TypeOK
<1>2. OneCopy' /\ PoolBound'
  BY DEF IInv, Expire, OneCopy, PoolBound, Queued, Held, Running
<1>3. Agreement'
  BY DEF IInv, TypeOK, Expire, Agreement, Queued
<1> QED BY <1>1, <1>2, <1>3 DEF IInv

LEMMA NextInvariant == IInv /\ [Next]_vars => IInv'
<1> SUFFICES ASSUME IInv, [Next]_vars PROVE IInv'
  OBVIOUS
<1>1. CASE UNCHANGED vars
  BY <1>1 DEF vars, IInv, TypeOK, OneCopy, PoolBound, Agreement, Queued, Held, Running
<1> QED
  BY <1>1, StartStep, StopStep, EnqueueStep, TakeStep, EndThreadStep, SettleStep,
     AnswerStep, ExpireStep DEF Next
-----------------------------------------------------------------------------
(* The queue's bookkeeping is sound whatever the number of calls and workers:
   types, one copy of each job, and no function that runs without a worker. *)
THEOREM Invariance == Spec => [](TypeOK /\ OneCopy /\ PoolBound)
<1>1. IInv => TypeOK /\ OneCopy /\ PoolBound
  BY DEF IInv
<1> QED BY <1>1, InitInvariant, NextInvariant, PTL DEF Spec

(* An outcome is final: a timeout and a late result never overwrite each other. *)
THEOREM Finality == Spec => FutureIsFinal
<1>1. ASSUME IInv, [Next]_vars
      PROVE [\A j \in Jobs : future[j] \notin {"none", "pending"} => future'[j] = future[j]]_vars
  <2> SUFFICES ASSUME Next, NEW j \in Jobs, future[j] \notin {"none", "pending"}
               PROVE future'[j] = future[j]
    BY <1>1
  <2>1. CASE Start \/ Stop
    BY <2>1 DEF Start, Stop
  <2>2. CASE \E k \in Jobs : Enqueue(k) \/ EndThread(k) \/ Answer(k) \/ Expire(k)
    BY <1>1, <2>2 DEF IInv, TypeOK, Agreement, Enqueue, EndThread, Answer, Expire
  <2>3. CASE \E w \in Workers : Take(w) \/ Settle(w)
    BY <1>1, <2>3 DEF IInv, TypeOK, Take, Settle
  <2> QED BY <2>1, <2>2, <2>3 DEF Next
<1> QED BY <1>1, InitInvariant, NextInvariant, PTL DEF Spec, FutureIsFinal
-----------------------------------------------------------------------------
LEMMA JobStateValues ==
  /\ jobState = [j \in Jobs |-> jobState[j]]
  /\ \A j \in Jobs :
       /\ thread[j] # "none" => jobState[j] = thread[j]
       /\ thread[j] = "none" /\ Queued(j) => jobState[j] = "accepted"
       /\ thread[j] = "none" /\ ~Queued(j) /\ call[j] \in {"idle", "refused"} => jobState[j] = "none"
       /\ thread[j] = "none" /\ ~Queued(j) /\ call[j] \notin {"idle", "refused"} => jobState[j] = "dropped"
BY DEF jobState

LEMMA JobStateValuesNext ==
  /\ jobState' = [j \in Jobs |-> jobState'[j]]
  /\ \A j \in Jobs :
       /\ thread'[j] # "none" => jobState'[j] = thread'[j]
       /\ thread'[j] = "none" /\ Queued(j)' => jobState'[j] = "accepted"
       /\ thread'[j] = "none" /\ ~Queued(j)' /\ call'[j] \in {"idle", "refused"} => jobState'[j] = "none"
       /\ thread'[j] = "none" /\ ~Queued(j)' /\ call'[j] \notin {"idle", "refused"} => jobState'[j] = "dropped"
BY DEF jobState

(* A job whose thread, place and refusal do not change has the same state. *)
LEMMA SameJobState ==
  ASSUME \A k \in Jobs : /\ thread'[k] = thread[k]
                         /\ Queued(k)' <=> Queued(k)
                         /\ call'[k] \in {"idle", "refused"} <=> call[k] \in {"idle", "refused"}
  PROVE  jobState' = jobState
<1>1. \A k \in Jobs : jobState'[k] = jobState[k]
  BY JobStateValues, JobStateValuesNext
<1> QED BY <1>1, JobStateValues, JobStateValuesNext

LEMMA InitRefines == Init => Service!Init
<1> SUFFICES ASSUME Init PROVE Service!Init
  OBVIOUS
<1>1. \A j \in Jobs : thread[j] = "none" /\ ~Queued(j) /\ call[j] = "idle"
  BY DEF Init, Queued
<1>2. jobState = [j \in Jobs |-> "none"]
  BY <1>1, JobStateValues
<1> QED BY <1>2 DEF Init, Service!Init

LEMMA EnqueueRefines ==
  ASSUME IInv, NEW j \in Jobs, Enqueue(j) PROVE Service!Accept(j) \/ Service!Refuse(j)
<1>1. call[j] = "idle" /\ thread[j] = "none" /\ ~Queued(j) /\ thread' = thread
  BY DEF IInv, Enqueue, Agreement
<1>2. CASE Len(queue) < QueueMaxSize
  <2>1. queue' = Append(queue, j) /\ call' = [call EXCEPT ![j] = "waiting"]
    BY <1>2, QueueMaxSizeAssumption DEF IInv, Enqueue, TypeOK
  <2>2. \A k \in Jobs : Queued(k)' <=> Queued(k) \/ k = j
    BY <2>1, AppendElements DEF IInv, TypeOK, Queued
  <2>3. \A k \in Jobs : jobState'[k] = IF k = j THEN "accepted" ELSE jobState[k]
    BY <1>1, <2>1, <2>2, JobStateValues, JobStateValuesNext DEF IInv, TypeOK
  <2>4. jobState' = [jobState EXCEPT ![j] = "accepted"]
    BY <2>3, JobStateValues, JobStateValuesNext
  <2> QED BY <1>1, <2>1, <2>4 DEF Service!Accept
<1>3. CASE Len(queue) = QueueMaxSize
  <2>1. queue' = queue /\ call' = [call EXCEPT ![j] = "refused"]
    BY <1>3, QueueMaxSizeAssumption DEF IInv, Enqueue, TypeOK
  <2>2. jobState' = jobState
    BY <1>1, <2>1, SameJobState DEF IInv, TypeOK, Queued
  <2> QED BY <1>1, <2>1, <2>2 DEF Service!Refuse
<1> QED BY <1>2, <1>3 DEF Enqueue

LEMMA TakeRefines ==
  ASSUME IInv, NEW w \in Workers, Take(w) PROVE Service!Start(Head(queue))
<1> DEFINE h == Head(queue)
<1>1. /\ h \in Jobs
      /\ \A k \in Jobs : Queued(k)' <=> Queued(k) /\ k # h
  BY TailElements DEF Take, IInv, TypeOK, OneCopy, Queued
<1>2. Queued(h) /\ thread[h] = "none"
  <2>1. 1 \in DOMAIN queue /\ h = queue[1]
    BY DEF Take, IInv, TypeOK
  <2> QED BY <1>1, <2>1 DEF IInv, OneCopy, Queued
<1>3. call' = call /\ \A k \in Jobs : thread'[k] = IF k = h THEN "running" ELSE thread[k]
  BY <1>1 DEF Take, IInv, TypeOK
<1>4. jobState[h] = "accepted"
  BY <1>1, <1>2, JobStateValues
<1>5. \A k \in Jobs : jobState'[k] = IF k = h THEN "running" ELSE jobState[k]
  BY <1>1, <1>2, <1>3, JobStateValues, JobStateValuesNext
<1>6. jobState' = [jobState EXCEPT ![h] = "running"]
  BY <1>5, JobStateValues, JobStateValuesNext
<1> QED BY <1>3, <1>4, <1>6 DEF Service!Start

LEMMA EndThreadRefines ==
  ASSUME IInv, NEW j \in Jobs, EndThread(j) PROVE Service!Finish(j)
<1>1. PICK end \in {"finished", "failed"} : thread' = [thread EXCEPT ![j] = end]
  BY DEF EndThread
<1>2. thread[j] = "running" /\ call' = call /\ \A k \in Jobs : Queued(k)' <=> Queued(k)
  BY DEF EndThread, Queued
<1>3. \A k \in Jobs : jobState'[k] = IF k = j THEN end ELSE jobState[k]
  BY <1>1, <1>2, JobStateValues, JobStateValuesNext DEF IInv, TypeOK
<1>4. jobState' = [jobState EXCEPT ![j] = end]
  BY <1>3, JobStateValues, JobStateValuesNext
<1>5. jobState[j] = "running"
  BY <1>2, JobStateValues
<1> QED BY <1>2, <1>4, <1>5 DEF Service!Finish

LEMMA StopRefines == ASSUME IInv, Stop PROVE Service!Shutdown
<1>1. \A k \in Jobs : ~Queued(k)' /\ thread'[k] = thread[k] /\ call'[k] = call[k]
  BY DEF Stop, Queued
<1>2. \A k \in Jobs : jobState'[k] = IF jobState[k] = "accepted" THEN "dropped" ELSE jobState[k]
  <2> SUFFICES ASSUME NEW k \in Jobs
               PROVE jobState'[k] = IF jobState[k] = "accepted" THEN "dropped" ELSE jobState[k]
    OBVIOUS
  <2>1. CASE thread[k] # "none"
    BY <1>1, <2>1, JobStateValues, JobStateValuesNext DEF IInv, TypeOK
  <2>2. CASE thread[k] = "none" /\ Queued(k)
    <3>1. call[k] \notin {"idle", "refused"}
      BY <2>2 DEF IInv, Agreement
    <3> QED BY <1>1, <2>2, <3>1, JobStateValues, JobStateValuesNext
  <2>3. CASE thread[k] = "none" /\ ~Queued(k)
    BY <1>1, <2>3, JobStateValues, JobStateValuesNext
  <2> QED BY <2>1, <2>2, <2>3
<1>3. jobState' = [k \in Jobs |-> IF jobState[k] = "accepted" THEN "dropped" ELSE jobState[k]]
  BY <1>2, JobStateValues, JobStateValuesNext
<1> QED BY <1>3 DEF Stop, Service!Shutdown

LEMMA AnswerRefines ==
  ASSUME IInv, NEW j \in Jobs, Answer(j) PROVE Service!Answer(j)
<1>1. \A k \in Jobs : /\ thread'[k] = thread[k] /\ (Queued(k)' <=> Queued(k))
                      /\ call'[k] \in {"idle", "refused"} <=> call[k] \in {"idle", "refused"}
  BY DEF Answer, Queued, IInv, TypeOK
<1>2. jobState' = jobState
  BY <1>1, SameJobState
<1>3. CASE future[j] = "result" /\ call' = [call EXCEPT ![j] = "returned"]
  <2>1. jobState[j] = "finished"
    BY <1>3, JobStateValues DEF IInv, Agreement
  <2> QED BY <1>2, <1>3, <2>1 DEF Answer, Service!Answer
<1>4. CASE future[j] = "exception" /\ call' = [call EXCEPT ![j] = "raised"]
  <2>1. jobState[j] = "failed"
    BY <1>4, JobStateValues DEF IInv, Agreement
  <2> QED BY <1>2, <1>4, <2>1 DEF Answer, Service!Answer
<1> QED BY <1>3, <1>4 DEF Answer

LEMMA ExpireRefines ==
  ASSUME IInv, NEW j \in Jobs, Expire(j) PROVE Service!Expire(j)
<1>1. \A k \in Jobs : /\ thread'[k] = thread[k] /\ (Queued(k)' <=> Queued(k))
                      /\ call'[k] \in {"idle", "refused"} <=> call[k] \in {"idle", "refused"}
  BY DEF Expire, Queued, IInv, TypeOK
<1>2. jobState' = jobState
  BY <1>1, SameJobState
<1> QED BY <1>2 DEF Expire, Service!Expire

(* The steps a caller cannot see. *)
LEMMA QuietStep ==
  ASSUME IInv, Start \/ (\E w \in Workers : Settle(w)) \/ UNCHANGED vars
  PROVE  UNCHANGED Service!vars
<1>1. call' = call /\ thread' = thread /\ queue' = queue
  BY DEF Start, Settle, vars
<1>2. \A k \in Jobs : Queued(k)' <=> Queued(k)
  BY <1>1 DEF Queued
<1>3. jobState' = jobState
  BY <1>1, <1>2, SameJobState
<1> QED BY <1>1, <1>3 DEF Service!vars

LEMMA NextRefines == IInv /\ [Next]_vars => [Service!Next]_(Service!vars)
<1> SUFFICES ASSUME IInv, [Next]_vars PROVE Service!Next \/ UNCHANGED Service!vars
  OBVIOUS
<1>1. CASE Stop
  BY <1>1, StopRefines DEF Service!Next
<1>2. ASSUME NEW j \in Jobs, Enqueue(j) \/ EndThread(j) \/ Answer(j) \/ Expire(j)
      PROVE Service!Next
  BY <1>2, EnqueueRefines, EndThreadRefines, AnswerRefines, ExpireRefines DEF Service!Next
<1>3. ASSUME NEW w \in Workers, Take(w) PROVE Service!Next
  <2>1. Head(queue) \in Jobs
    BY <1>3 DEF Take, IInv, TypeOK
  <2> QED BY <1>3, <2>1, TakeRefines DEF Service!Next
<1>4. CASE Start \/ (\E w \in Workers : Settle(w)) \/ UNCHANGED vars
  BY <1>4, QuietStep
<1> QED BY <1>1, <1>2, <1>3, <1>4 DEF Next

(* The queue implements the promise of JobService: what is proved of a request
   against JobService holds of a request served by rag_queue.py. *)
THEOREM Refinement == Spec => Promise
BY InitInvariant, NextInvariant, InitRefines, NextRefines, PTL DEF Spec, Promise, Service!Spec
=============================================================================
