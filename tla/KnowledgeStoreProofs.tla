------------------------ MODULE KnowledgeStoreProofs ------------------------
(***************************************************************************)
(* Theorems about KnowledgeStore, for any requests, files and objects.     *)
(* What a fault, the database's snapshots or a second process can break is *)
(* excluded by the hypotheses of the theorem, and nothing else is.         *)
(***************************************************************************)
EXTENDS KnowledgeStore, FiniteSetTheorems, TLAPS

OneProcess == \A p, q \in Procs : p = q

(* Between "async with" and the answer *)
InLock(r) == phase[r] \in {"clearing", "opened", "submitted"}

(* A process's lock is held by the one request that runs under it. *)
Locking ==
  /\ \A r \in Requests : phase[r] # "idle" => ask[r] \in Ask
  /\ \A p \in Procs, r \in Requests : lock[p] = r <=> InLock(r) /\ ask[r].proc = p

(* A request's own progress, and its job's *)
Progress ==
  \A r \in Requests :
    /\ phase[r] = "clearing" => ask[r].op = "upload"
    /\ phase[r] \in {"idle", "arrived", "clearing"} => found[r] = Nil /\ vs[r] = Nil
    /\ phase[r] \in {"idle", "arrived", "clearing", "opened"} => call[r] = "idle" /\ job[r] = "none"
    /\ phase[r] = "submitted" <=> call[r] = "waiting"
    /\ phase[r] = "submitted" =>
         job[r] \in {"accepted", "running", "finished", "failed"} /\ ask[r].op # "delete"
    /\ r \in stored => job[r] \notin {"none", "accepted"}
    /\ job[r] = "finished" => r \in stored

(* What a row points at has once been written to the store. *)
RowsStored ==
  /\ \A row \in rows : row.doc \in stored
  /\ \A r \in Requests : \A row \in snap[r] : row.doc \in stored
  /\ \A r \in Requests : found[r] # Nil => found[r].doc \in stored
  /\ \A r \in Requests : phase[r] \in {"opened", "submitted", "ok"} /\ ask[r].op # "upload" => found[r] # Nil

Base == TypeOK /\ Locking /\ Progress /\ RowsStored

(* There are more objects than references to them, so that a new one is new. *)
LEMMA NewIsNew ==
  ASSUME TypeOK
  PROVE  New \in Objects /\ ~Alive(New)
<1> DEFINE Cached == {cache[p] : p \in Procs}
           Used == {vs[r] : r \in Requests}
<1>1. IsFiniteSet(Cached) /\ Cardinality(Cached) <= Cardinality(Procs)
  <2>1. cache \in Surjection(Procs, Cached)
    BY DEF TypeOK, Surjection
  <2> QED
    BY <2>1, FS_Surjection, ObjectsAssumption
<1>2. IsFiniteSet(Used) /\ Cardinality(Used) <= Cardinality(Requests)
  <2>1. vs \in Surjection(Requests, Used)
    BY DEF TypeOK, Surjection
  <2> QED
    BY <2>1, FS_Surjection, ObjectsAssumption
<1>3. IsFiniteSet(Cached \cup Used) /\ Cardinality(Cached \cup Used) < Cardinality(Objects)
  <2> DEFINE both == Cached \cap Used
  <2>1. IsFiniteSet(Cached \cup Used)
        /\ Cardinality(Cached \cup Used) = Cardinality(Cached) + Cardinality(Used) - Cardinality(both)
    BY <1>1, <1>2, FS_Union
  <2>2. IsFiniteSet(both)
    BY <1>1, FS_Intersection
  <2>3. Cardinality(both) \in Nat /\ Cardinality(Cached) \in Nat /\ Cardinality(Used) \in Nat
        /\ Cardinality(Procs) \in Nat /\ Cardinality(Requests) \in Nat /\ Cardinality(Objects) \in Nat
    BY <1>1, <1>2, <2>2, FS_CardinalityType, ObjectsAssumption
  <2> HIDE DEF both, Cached, Used
  <2> QED
    BY <1>1, <1>2, <2>1, <2>3, ObjectsAssumption
<1>4. ~(Objects \subseteq Cached \cup Used)
  <2> SUFFICES ASSUME Objects \subseteq Cached \cup Used PROVE FALSE
    OBVIOUS
  <2>1. Cardinality(Objects) <= Cardinality(Cached \cup Used)
    BY <1>3, FS_Subset
  <2>2. Cardinality(Objects) \in Nat /\ Cardinality(Cached \cup Used) \in Nat
    BY <1>3, FS_CardinalityType, ObjectsAssumption
  <2> HIDE DEF Cached, Used
  <2> QED
    BY <1>3, <2>1, <2>2
<1>5. \E o \in Objects : ~Alive(o)
  BY <1>4 DEF Alive
<1> QED
  BY <1>5 DEF New

LEMMA BaseStarts == Init => Base
<1> SUFFICES ASSUME Init PROVE Base
  OBVIOUS
<1>1. TypeOK
  BY DEF Init, TypeOK, Queue!Init, Queue!CallStates, Queue!JobStates
<1>2. Locking /\ Progress
  BY NilAssumption DEF Init, Locking, Progress, InLock, Queue!Init
<1>3. RowsStored
  BY DEF Init, RowsStored
<1> QED
  BY <1>1, <1>2, <1>3 DEF Base

LEMMA GetStoreTyped ==
  ASSUME TypeOK, NEW r \in Requests, NEW p \in Procs, NEW gone, GetStore(r, p, gone)
  PROVE  /\ heap' \in [Objects -> SUBSET Requests]
         /\ cache' \in [Procs -> Objects \cup {Nil}]
         /\ vs' \in [Requests -> Objects \cup {Nil}]
         /\ \A k \in Requests : k # r => vs'[k] = vs[k]
  BY NewIsNew DEF GetStore, Pruned, TypeOK

LEMMA ArriveBase ==
  ASSUME Base, NEW r \in Requests, Arrive(r)
  PROVE  Base'
<1>1. PICK a \in Ask : ask' = [ask EXCEPT ![r] = a]
  BY DEF Arrive, Base, TypeOK, Ask, Ops, Row
<1>2. TypeOK'
  BY <1>1 DEF Arrive, Base, TypeOK, memory, files, queue
<1>3. Locking' /\ Progress'
  BY <1>1 DEF Arrive, Base, TypeOK, Locking, Progress, InLock, memory, files, queue
<1>4. RowsStored'
  BY <1>1 DEF Arrive, Base, TypeOK, RowsStored, memory, files, queue
<1> QED
  BY <1>2, <1>3, <1>4 DEF Base

(* A query sees rows whose vectors were once written to the store. *)
LEMMA ViewRows ==
  ASSUME Base, NEW r \in Requests
  PROVE  /\ View(r) \subseteq Row /\ Nil \notin View(r)
         /\ \A row \in View(r) : row.doc \in stored
  BY RowAssumption DEF View, Base, TypeOK, RowsStored

LEMMA OpenUploadBase ==
  ASSUME Base, NEW r \in Requests, OpenUpload(r)
  PROVE  Base'
<1> DEFINE p == ask[r].proc
<1>1. /\ phase[r] = "arrived" /\ ask[r].op = "upload" /\ p \in Procs
      /\ lock[p] = Nil /\ lock' = [lock EXCEPT ![p] = r]
      /\ UNCHANGED <<rows, snap, onDisk, disk, source, chat, ask, stored, call, job>>
  BY DEF OpenUpload, MayLock, files, queue, Base, Locking, Ask
<1>2. /\ heap' \in [Objects -> SUBSET Requests]
      /\ cache' \in [Procs -> Objects \cup {Nil}]
      /\ vs' \in [Requests -> Objects \cup {Nil}]
      /\ \A k \in Requests : k # r => vs'[k] = vs[k]
  BY <1>1, GetStoreTyped DEF OpenUpload, Base, TypeOK
<1>3. /\ found' \in [Requests -> Row \cup {Nil}]
      /\ \A k \in Requests : k # r => found'[k] = found[k]
      /\ found'[r] = Nil \/ found'[r] \in View(r)
  <2>1. found \in [Requests -> Row \cup {Nil}] /\ found[r] = Nil
    BY <1>1 DEF Base, TypeOK, Progress
  <2>2. found' = found \/ \E row \in View(r) : found' = [found EXCEPT ![r] = row]
    BY DEF OpenUpload, SameName
  <2> QED
    BY <2>1, <2>2, ViewRows
<1>4. \/ phase' = [phase EXCEPT ![r] = "clearing"] /\ found' = found /\ vs' = vs
      \/ phase' = [phase EXCEPT ![r] = "opened"]
  BY DEF OpenUpload
<1>5. TypeOK'
  BY <1>1, <1>2, <1>3, <1>4 DEF Base, TypeOK
<1>6. Locking'
  BY <1>1, <1>4, NilAssumption DEF Base, TypeOK, Locking, InLock
<1>7. Progress'
  BY <1>1, <1>2, <1>3, <1>4 DEF Base, TypeOK, Progress
<1>8. RowsStored'
  BY <1>1, <1>3, <1>4, ViewRows DEF Base, TypeOK, RowsStored
<1> QED
  BY <1>5, <1>6, <1>7, <1>8 DEF Base

LEMMA ClearFilesBase ==
  ASSUME Base, NEW r \in Requests, ClearFiles(r)
  PROVE  Base'
<1>1. TypeOK'
  BY DEF ClearFiles, Base, TypeOK, db, memory, queue
<1>2. Locking' /\ Progress'
  BY DEF ClearFiles, Base, TypeOK, Locking, Progress, InLock, db, memory, queue
<1>3. RowsStored'
  BY DEF ClearFiles, Base, TypeOK, Progress, RowsStored, db, memory, queue
<1> QED
  BY <1>1, <1>2, <1>3 DEF Base

LEMMA OpenItemBase ==
  ASSUME Base, NEW r \in Requests, OpenItem(r)
  PROVE  Base'
<1> DEFINE p == ask[r].proc
<1>1. /\ phase[r] = "arrived" /\ ask[r].op # "upload" /\ p \in Procs /\ lock[p] = Nil
      /\ UNCHANGED <<rows, snap, onDisk, disk, source, chat, ask, stored, call, job>>
  BY DEF OpenItem, MayLock, files, queue, Base, Locking, Ask
<1>2. CASE phase' = [phase EXCEPT ![r] = "opened"]
  <2>1. PICK row \in View(r) :
          /\ found' = [found EXCEPT ![r] = row] /\ GetStore(r, p, {})
          /\ lock' = [lock EXCEPT ![p] = r]
    BY <1>1, <1>2 DEF OpenItem, Base, TypeOK
  <2>2. row \in Row /\ row # Nil /\ row.doc \in stored
    BY <2>1, ViewRows
  <2>3. TypeOK'
    BY <1>1, <1>2, <2>1, <2>2, GetStoreTyped DEF Base, TypeOK
  <2>4. Locking'
    BY <1>1, <1>2, <2>1, NilAssumption DEF Base, TypeOK, Locking, InLock
  <2>5. Progress'
    BY <1>1, <1>2, <2>1, GetStoreTyped DEF Base, TypeOK, Progress
  <2>6. RowsStored'
    BY <1>1, <1>2, <2>1, <2>2 DEF Base, TypeOK, RowsStored
  <2> QED
    BY <2>3, <2>4, <2>5, <2>6 DEF Base
<1>3. CASE phase' = [phase EXCEPT ![r] = "failed"] /\ UNCHANGED <<found, memory, lock>>
  BY <1>1, <1>3, NilAssumption
  DEF Base, TypeOK, Locking, Progress, RowsStored, InLock, memory
<1> QED
  BY <1>2, <1>3 DEF OpenItem

LEMMA SubmitBase ==
  ASSUME Base, NEW r \in Requests, Submit(r)
  PROVE  Base'
<1>1. ask[r] \in Ask
  BY DEF Submit, Base, Locking
<1>2. TypeOK'
  BY <1>1 DEF Submit, Queue!Accept, Base, TypeOK, Queue!CallStates, Queue!JobStates, Ask, db, memory, files
<1>3. Locking' /\ Progress'
  BY DEF Submit, Queue!Accept, Base, TypeOK, Locking, Progress, InLock, db, memory, files
<1>4. RowsStored'
  BY DEF Submit, Base, TypeOK, RowsStored, db, memory, files
<1> QED
  BY <1>2, <1>3, <1>4 DEF Base

(* The lock is released by the request that holds it. *)
LEMMA Released ==
  ASSUME Base, NEW r \in Requests, InLock(r), NEW answer \in {"ok", "failed"}, Release(r, answer),
         ask' = ask
  PROVE  /\ lock' \in [Procs -> Requests \cup {Nil}] /\ lock'[ask[r].proc] = Nil
         /\ phase' = [phase EXCEPT ![r] = answer]
         /\ Locking'
  BY NilAssumption DEF Release, Base, TypeOK, Locking, InLock, Ask

LEMMA RefusedBase ==
  ASSUME Base, NEW r \in Requests, Refused(r)
  PROVE  Base'
<1>1. ask[r] \in Ask /\ InLock(r) /\ ask' = ask
  BY DEF Refused, Base, Locking, InLock
<1>2. Locking' /\ phase' = [phase EXCEPT ![r] = "failed"] /\ lock' \in [Procs -> Requests \cup {Nil}]
  BY <1>1, Released DEF Refused
<1>3. TypeOK'
  BY <1>1, <1>2 DEF Refused, Queue!Refuse, Base, TypeOK, Queue!CallStates, Ask, db, memory, files
<1>4. Progress' /\ RowsStored'
  BY <1>2 DEF Refused, Queue!Refuse, Base, TypeOK, Progress, RowsStored, db, memory, files
<1> QED
  BY <1>2, <1>3, <1>4 DEF Base

LEMMA RemoveBase ==
  ASSUME Base, NEW r \in Requests, Remove(r)
  PROVE  Base'
<1> DEFINE left == Left(vs[r], found[r].doc)
<1>1. ask[r] \in Ask /\ InLock(r) /\ UNCHANGED <<snap, found, vs, chat, ask, stored, call, job>>
  BY DEF Remove, Base, Locking, InLock, queue
<1>2. Locking' /\ phase' = [phase EXCEPT ![r] = "ok"] /\ lock' \in [Procs -> Requests \cup {Nil}]
  BY <1>1, Released DEF Remove
<1>3. vs[r] # Nil => vs[r] \in Objects /\ left \subseteq Requests
  BY DEF Base, TypeOK, Left
<1>4. /\ heap' \in [Objects -> SUBSET Requests] /\ disk' \subseteq Requests /\ onDisk' \in BOOLEAN
      /\ cache' \in [Procs -> Objects \cup {Nil}]
  BY <1>1, <1>3 DEF Remove, Base, TypeOK, files
<1>5. rows' \subseteq rows /\ source' \in [Files -> Requests \cup {Nil}]
  BY <1>1 DEF Remove, Base, TypeOK, Ask
<1>6. TypeOK'
  BY <1>1, <1>2, <1>4, <1>5 DEF Base, TypeOK
<1>7. Progress'
  BY <1>1, <1>2 DEF Remove, Base, TypeOK, Progress
<1>8. RowsStored'
  BY <1>1, <1>2, <1>5 DEF Remove, Base, TypeOK, RowsStored
<1> QED
  BY <1>2, <1>6, <1>7, <1>8 DEF Base

LEMMA StartJobBase ==
  ASSUME Base, NEW r \in Requests, StartJob(r)
  PROVE  Base'
<1>1. TypeOK'
  BY DEF StartJob, Queue!Start, Base, TypeOK, Queue!JobStates, db, memory, files
<1>2. Locking' /\ Progress'
  BY DEF StartJob, Queue!Start, Base, TypeOK, Locking, Progress, InLock, db, memory, files
<1>3. RowsStored'
  BY DEF StartJob, Base, TypeOK, RowsStored, db, memory, files
<1> QED
  BY <1>1, <1>2, <1>3 DEF Base

LEMMA ChangeStoreTyped ==
  ASSUME Base, NEW r \in Requests, ChangeStore(r)
  PROVE  /\ heap' \in [Objects -> SUBSET Requests]
         /\ cache' \in [Procs -> Objects \cup {Nil}]
         /\ vs' \in [Requests -> Objects \cup {Nil}]
         /\ vs'[r] \in Objects /\ \A k \in Requests : k # r => vs'[k] = vs[k]
         /\ job[r] = "running" /\ phase[r] \in {"submitted", "ok", "failed"}
<1>1. job[r] = "running" /\ phase[r] \in {"submitted", "ok", "failed"}
  BY DEF ChangeStore, Base, TypeOK, Progress
<1>2. CASE vs[r] # Nil
  <2>1. vs[r] \in Objects /\ Grown(r) \subseteq Requests
    BY <1>2 DEF Base, TypeOK, Grown
  <2> QED
    BY <1>1, <1>2, <2>1 DEF ChangeStore, Base, TypeOK
<1>3. CASE vs[r] = Nil
  BY <1>1, <1>3, NewIsNew DEF ChangeStore, Base, TypeOK
<1> QED
  BY <1>2, <1>3

LEMMA StoreBase ==
  ASSUME Base, NEW r \in Requests, Store(r)
  PROVE  Base'
<1>1. TypeOK'
  BY ChangeStoreTyped DEF Store, Base, TypeOK, db, queue
<1>2. Locking' /\ Progress'
  BY ChangeStoreTyped DEF Store, Base, TypeOK, Locking, Progress, InLock, db, queue
<1>3. RowsStored'
  BY DEF Store, Base, TypeOK, RowsStored, db, queue
<1> QED
  BY <1>1, <1>2, <1>3 DEF Base

LEMMA StoreNotWrittenBase ==
  ASSUME Base, NEW r \in Requests, StoreNotWritten(r)
  PROVE  Base'
<1>1. TypeOK'
  BY ChangeStoreTyped DEF StoreNotWritten, Base, TypeOK, Queue!JobStates, db, files
<1>2. Locking' /\ Progress'
  BY ChangeStoreTyped
  DEF StoreNotWritten, Base, TypeOK, Locking, Progress, InLock, db, files
<1>3. RowsStored'
  BY DEF StoreNotWritten, Base, TypeOK, RowsStored, db, files
<1> QED
  BY <1>1, <1>2, <1>3 DEF Base

LEMMA EndJobBase ==
  ASSUME Base, NEW r \in Requests, EndJob(r)
  PROVE  Base'
<1>1. TypeOK'
  BY DEF EndJob, Queue!Finish, Base, TypeOK, Queue!JobStates, db, memory, files
<1>2. Locking' /\ Progress'
  BY DEF EndJob, Queue!Finish, Base, TypeOK, Locking, Progress, InLock, db, memory, files
<1>3. RowsStored'
  BY DEF EndJob, Base, TypeOK, RowsStored, db, memory, files
<1> QED
  BY <1>1, <1>2, <1>3 DEF Base

(* An answer from the queue ends the request, and its wait. *)
LEMMA AnswerProgress ==
  ASSUME Base, NEW r \in Requests, NEW answer \in {"ok", "failed"},
         phase[r] = "submitted", phase' = [phase EXCEPT ![r] = answer],
         Queue!Answer(r) \/ Queue!Expire(r),
         UNCHANGED <<ask, vs, found, stored, snap>>, \A row \in rows' : row.doc \in stored
  PROVE  Progress' /\ RowsStored' /\ call' \in [Requests -> Queue!CallStates]
         /\ job' \in [Requests -> Queue!JobStates]
<1>1. call'[r] # "waiting" /\ job' = job /\ \A k \in Requests : k # r => call'[k] = call[k]
  BY DEF Queue!Answer, Queue!Expire, Base, TypeOK
<1>2. Progress'
  BY <1>1 DEF Base, TypeOK, Progress
<1>3. RowsStored'
  BY DEF Base, TypeOK, RowsStored
<1> QED
  BY <1>1, <1>2, <1>3 DEF Queue!Answer, Queue!Expire, Base, TypeOK, Queue!CallStates

LEMMA CommitBase ==
  ASSUME Base, NEW r \in Requests, Commit(r)
  PROVE  Base' /\ phase[r] = "submitted" /\ r \in stored
<1>1. /\ phase[r] = "submitted" /\ InLock(r) /\ ask[r] \in Ask /\ r \in stored
      /\ UNCHANGED <<ask, vs, found, stored, snap, onDisk, disk, heap, source, chat>>
  BY DEF Commit, Succeeded, Queue!Answer, Base, Progress, Locking, InLock, files
<1>2. PICK answer \in {"ok", "failed"} : Release(r, answer)
  BY DEF Commit
<1>3. rows' \subseteq Row /\ \A row \in rows' : row.doc \in stored
  <2>1. CASE rows' = rows
    BY <2>1 DEF Base, TypeOK, RowsStored
  <2>2. CASE rows' = rows \cup {NewRow(r)}
    BY <1>1, <2>2 DEF Base, TypeOK, RowsStored, NewRow, Row, Ask
  <2>3. CASE found[r] # Nil
             /\ rows' = {row \in rows : row.id # found[r].id} \cup {[found[r] EXCEPT !.doc = r]}
    <3>1. [found[r] EXCEPT !.doc = r] \in Row /\ [found[r] EXCEPT !.doc = r].doc = r
      BY <2>3 DEF Base, TypeOK, Row
    <3> QED
      BY <1>1, <2>3, <3>1 DEF Base, TypeOK, RowsStored
  <2> QED
    BY <2>1, <2>2, <2>3 DEF Commit
<1>4. /\ lock' \in [Procs -> Requests \cup {Nil}] /\ Locking'
      /\ phase' = [phase EXCEPT ![r] = answer]
  BY <1>1, <1>2, Released
<1>5. Progress' /\ RowsStored' /\ call' \in [Requests -> Queue!CallStates]
      /\ job' \in [Requests -> Queue!JobStates]
  BY <1>1, <1>3, <1>4, AnswerProgress DEF Commit
<1>6. cache' \in [Procs -> Objects \cup {Nil}]
  BY <1>1 DEF Commit, Base, TypeOK
<1>7. TypeOK'
  BY <1>1, <1>3, <1>4, <1>5, <1>6 DEF Base, TypeOK
<1> QED
  BY <1>1, <1>4, <1>5, <1>7 DEF Base

LEMMA FailBase ==
  ASSUME Base, NEW r \in Requests, JobError(r) \/ Timeout(r)
  PROVE  Base'
<1>1. /\ phase[r] = "submitted" /\ InLock(r) /\ Release(r, "failed")
      /\ Queue!Answer(r) \/ Queue!Expire(r)
      /\ UNCHANGED <<rows, ask, vs, found, stored, snap, onDisk, disk, heap, cache, source, chat>>
  BY DEF JobError, Timeout, Queue!Answer, Queue!Expire, Base, Progress, InLock, db, memory, files
<1>2. /\ lock' \in [Procs -> Requests \cup {Nil}] /\ Locking'
      /\ phase' = [phase EXCEPT ![r] = "failed"]
  BY <1>1, Released
<1>3. Progress' /\ RowsStored' /\ call' \in [Requests -> Queue!CallStates]
      /\ job' \in [Requests -> Queue!JobStates]
  BY <1>1, <1>2, AnswerProgress DEF Base, RowsStored
<1>4. TypeOK'
  BY <1>1, <1>2, <1>3 DEF Base, TypeOK
<1> QED
  BY <1>2, <1>3, <1>4 DEF Base

LEMMA ChatBase ==
  ASSUME Base, NEW p \in Procs, ChatMiss(p) \/ ChatLoad(p) \/ Restart(p)
  PROVE  Base'
<1>1. UNCHANGED <<rows, snap, found, onDisk, disk, vs, source, lock, phase, ask, stored, call, job>>
  BY DEF ChatMiss, ChatLoad, Restart, db, memory, files, queue
<1>2. /\ heap' \in [Objects -> SUBSET Requests] /\ chat' \subseteq Procs
      /\ cache' \in [Procs -> Objects \cup {Nil}]
  BY NewIsNew DEF ChatMiss, ChatLoad, Restart, memory, Base, TypeOK
<1>3. TypeOK'
  BY <1>1, <1>2 DEF Base, TypeOK
<1>4. Locking' /\ Progress' /\ RowsStored'
  BY <1>1 DEF Base, Locking, Progress, RowsStored, InLock
<1> QED
  BY <1>3, <1>4 DEF Base

LEMMA CrashBase ==
  ASSUME Base, NEW p \in Procs, Crash(p)
  PROVE  Base'
<1>1. /\ phase' \in [Requests -> {"idle", "arrived", "clearing", "opened", "submitted", "ok", "failed"}]
      /\ call' \in [Requests -> Queue!CallStates] /\ job' \in [Requests -> Queue!JobStates]
      /\ lock' \in [Procs -> Requests \cup {Nil}] /\ cache' \in [Procs -> Objects \cup {Nil}]
  BY DEF Crash, Base, TypeOK, Queue!CallStates, Queue!JobStates
<1>2. TypeOK'
  BY <1>1 DEF Crash, Base, TypeOK, db, files
<1>3. Locking'
  BY NilAssumption DEF Crash, Base, TypeOK, Locking, InLock, Here
<1>4. Progress'
  BY DEF Crash, Base, TypeOK, Progress, Here, db, files
<1>5. RowsStored'
  BY DEF Crash, Base, TypeOK, RowsStored, db, files
<1> QED
  BY <1>2, <1>3, <1>4, <1>5 DEF Base

LEMMA BaseStep ==
  ASSUME Base, [Next]_vars
  PROVE  Base'
<1>1. CASE Next
  BY <1>1, ArriveBase, OpenUploadBase, ClearFilesBase, OpenItemBase, SubmitBase, RefusedBase,
     RemoveBase, StartJobBase, StoreBase, StoreNotWrittenBase, EndJobBase, CommitBase, FailBase,
     ChatBase, CrashBase
  DEF Next
<1>2. CASE UNCHANGED vars
  BY <1>2 DEF vars, Base, TypeOK, Locking, Progress, RowsStored, InLock
<1> QED
  BY <1>1, <1>2

LEMMA BaseHolds == Spec => []Base
<1> QED
  BY BaseStarts, BaseStep, PTL DEF Spec

(* Every variable keeps its type. *)
THEOREM TypeCorrect == Spec => []TypeOK
<1>1. Base => TypeOK
  BY DEF Base
<1> QED
  BY <1>1, BaseHolds, PTL

(* Whatever fails, on any number of processes and over snapshots or not: only
   the holder of a write lock whose own job wrote the store changes a row. *)
THEOREM RowsFollow == Spec => RowsFollowJobs
<1>1. ASSUME Base, [Next]_vars, NEW row \in rows' \ rows
      PROVE  /\ Holder(row.doc) /\ row.doc \in stored /\ job[row.doc] = "finished"
             /\ phase'[row.doc] = "ok"
  <2>1. PICK r \in Requests : Commit(r)
    BY <1>1
    DEF Next, vars, Arrive, OpenUpload, ClearFiles, OpenItem, Submit, Refused, Remove, StartJob,
        Store, StoreNotWritten, EndJob, JobError, Timeout, ChatMiss, ChatLoad, Restart, Crash, db
  <2>2. /\ phase[r] = "submitted" /\ r \in stored /\ job[r] = "finished" /\ ask[r] \in Ask
        /\ phase \in [Requests -> {"idle", "arrived", "clearing", "opened", "submitted", "ok", "failed"}]
    BY <1>1, <2>1, CommitBase DEF Commit, Succeeded, Base, Locking, TypeOK
  <2>3. Holder(r)
    BY <1>1, <2>2 DEF Base, Locking, InLock, Holder, Ask
  <2>4. row.doc = r /\ Release(r, "ok")
    <3>1. CASE found[r] = Nil
      BY <1>1, <2>1, <3>1 DEF Commit, NewRow
    <3>2. CASE found[r] # Nil
      <4>1. found[r] \in Row
        BY <1>1, <3>2 DEF Base, TypeOK
      <4> QED
        BY <1>1, <2>1, <3>2, <4>1 DEF Commit, Row
    <3> QED
      BY <3>1, <3>2
  <2> QED
    BY <2>2, <2>3, <2>4 DEF Release
<1>2. ASSUME Base, [Next]_vars
      PROVE  [\A row \in rows' \ rows :
                /\ Holder(row.doc) /\ row.doc \in stored /\ job[row.doc] = "finished"
                /\ phase'[row.doc] = "ok"]_vars
  BY <1>1, <1>2
<1> QED
  BY <1>2, BaseHolds, PTL DEF Spec, RowsFollowJobs
-----------------------------------------------------------------------------
(* The rows, with one process that reads the last commit: ids, names and
   vectors are each in one row, and what the holder of the lock has found is
   still so. *)
RowsUnique ==
  \A row1, row2 \in rows :
    row1.id = row2.id \/ row1.file = row2.file \/ row1.doc = row2.doc => row1 = row2

RowsAnswered ==
  \A row \in rows : phase[row.id] = "ok" /\ phase[row.doc] = "ok" /\ row.file = ask[row.id].file

ItemsListed ==
  \A r \in Requests :
    phase[r] # "idle" /\ ask[r].op # "upload" =>
      ask[r].id \in Requests /\ phase[ask[r].id] = "ok" /\ ask[r].file = ask[ask[r].id].file

FoundHolds ==
  \A r \in Requests :
    InLock(r) =>
      IF found[r] = Nil THEN \A row \in rows : row.file # ask[r].file
                        ELSE found[r] \in rows /\ found[r].file = ask[r].file

RowsInv == RowsUnique /\ RowsAnswered /\ ItemsListed /\ FoundHolds

(* With one process, at most one request is under a lock. *)
LEMMA OnlyHolder ==
  ASSUME Base, OneProcess, NEW r \in Requests, InLock(r)
  PROVE  \A k \in Requests : InLock(k) => k = r
  BY DEF Base, Locking, OneProcess, InLock, Ask

LEMMA NoHolder ==
  ASSUME Base, OneProcess, NEW p \in Procs, lock[p] = Nil
  PROVE  \A k \in Requests : ~InLock(k)
  BY NilAssumption DEF Base, Locking, OneProcess, InLock, Ask

(* What neither touches a row nor takes the lock leaves RowsInv alone. *)
LEMMA RowsLeft ==
  ASSUME RowsInv, UNCHANGED <<rows, ask, found>>,
         \A k \in Requests :
           /\ InLock(k)' => InLock(k)
           /\ phase[k] = "ok" => phase'[k] = "ok"
           /\ phase[k] = "idle" => phase'[k] = "idle",
         Base
  PROVE  RowsInv'
<1>1. \A row \in rows : row.id \in Requests /\ row.doc \in Requests
  BY DEF Base, TypeOK, Row
<1>2. RowsUnique' /\ RowsAnswered'
  BY <1>1 DEF RowsInv, RowsUnique, RowsAnswered
<1>3. ItemsListed' /\ FoundHolds'
  BY DEF RowsInv, ItemsListed, FoundHolds
<1> QED
  BY <1>2, <1>3 DEF RowsInv

LEMMA ArriveRows ==
  ASSUME Base, RowsInv, NEW r \in Requests, Arrive(r)
  PROVE  RowsInv'
<1>1. PICK a \in Ask :
        /\ ask' = [ask EXCEPT ![r] = a]
        /\ a.op # "upload" => \E row \in rows : a.id = row.id /\ a.file = row.file
  BY DEF Arrive, Base, TypeOK, Ask, Ops, Row
<1>2. phase[r] = "idle" /\ phase' = [phase EXCEPT ![r] = "arrived"] /\ UNCHANGED <<rows, found>>
  BY DEF Arrive
<1>3. \A row \in rows : row.id \in Requests /\ row.doc \in Requests
  BY DEF Base, TypeOK, Row
<1>4. RowsUnique' /\ RowsAnswered'
  BY <1>1, <1>2, <1>3 DEF RowsInv, RowsUnique, RowsAnswered, Base, TypeOK
<1>5. ItemsListed'
  <2>1. ASSUME NEW k \in Requests, k # r, phase[k] # "idle", ask[k].op # "upload"
        PROVE  ask'[k].id \in Requests /\ phase'[ask'[k].id] = "ok" /\ ask'[k].file = ask'[ask'[k].id].file
    BY <1>1, <1>2, <2>1 DEF RowsInv, ItemsListed, Base, TypeOK
  <2>2. a.op # "upload" => a.id \in Requests /\ phase'[a.id] = "ok" /\ a.file = ask'[a.id].file
    BY <1>1, <1>2, <1>3 DEF RowsInv, RowsAnswered, Base, TypeOK
  <2> QED
    BY <1>1, <1>2, <2>1, <2>2 DEF ItemsListed, Base, TypeOK
<1>6. FoundHolds'
  BY <1>1, <1>2 DEF RowsInv, FoundHolds, InLock, Base, TypeOK
<1> QED
  BY <1>4, <1>5, <1>6 DEF RowsInv

LEMMA OpenRows ==
  ASSUME Base, RowsInv, OneProcess, ~SnapshotReads, NEW r \in Requests,
         OpenUpload(r) \/ OpenItem(r)
  PROVE  RowsInv'
<1>1. /\ phase[r] = "arrived" /\ ask[r].proc \in Procs /\ lock[ask[r].proc] = Nil
      /\ UNCHANGED <<rows, ask>> /\ View(r) = rows /\ found[r] = Nil
  BY DEF OpenUpload, OpenItem, MayLock, View, Base, Locking, Progress, Ask
<1>2. \A k \in Requests : ~InLock(k)
  BY <1>1, NoHolder
<1>3. \/ phase' = [phase EXCEPT ![r] = "failed"] /\ found' = found
      \/ /\ phase' = [phase EXCEPT ![r] = "clearing"] \/ phase' = [phase EXCEPT ![r] = "opened"]
         /\ \/ /\ found' = found
               /\ \A row \in rows : row.file # ask[r].file
            \/ \E row \in rows :
                 /\ found' = [found EXCEPT ![r] = row]
                 /\ row.file = ask[r].file
  <2>1. CASE OpenUpload(r)
    BY <1>1, <2>1 DEF OpenUpload, SameName
  <2>2. CASE OpenItem(r)
    <3>1. \A row \in rows : row.id = ask[r].id => row.file = ask[r].file
      BY <1>1, <2>2 DEF OpenItem, RowsInv, RowsAnswered, ItemsListed
    <3> QED
      BY <1>1, <2>2, <3>1 DEF OpenItem
  <2> QED
    BY <2>1, <2>2
<1>4. phase \in [Requests -> {"idle", "arrived", "clearing", "opened", "submitted", "ok", "failed"}]
      /\ found \in [Requests -> Row \cup {Nil}] /\ Nil \notin rows
      /\ \A row \in rows : row.id \in Requests /\ row.doc \in Requests
  BY RowAssumption DEF Base, TypeOK, Row
<1>5. RowsUnique' /\ RowsAnswered' /\ ItemsListed'
  BY <1>1, <1>3, <1>4 DEF RowsInv, RowsUnique, RowsAnswered, ItemsListed
<1>6. FoundHolds'
  <2>1. \A k \in Requests : k # r => ~InLock(k)'
    BY <1>2, <1>3, <1>4 DEF InLock
  <2>2. InLock(r)' => IF found'[r] = Nil THEN \A row \in rows : row.file # ask[r].file
                                        ELSE found'[r] \in rows /\ found'[r].file = ask[r].file
    BY <1>1, <1>3, <1>4 DEF InLock
  <2> QED
    BY <1>1, <2>1, <2>2 DEF FoundHolds
<1> QED
  BY <1>5, <1>6 DEF RowsInv

LEMMA RemoveRows ==
  ASSUME Base, RowsInv, OneProcess, NEW r \in Requests, Remove(r)
  PROVE  RowsInv'
<1>1. InLock(r) /\ ask[r] \in Ask /\ phase' = [phase EXCEPT ![r] = "ok"] /\ UNCHANGED <<ask, found>>
  BY DEF Remove, Release, InLock, Base, Locking
<1>2. rows' \subseteq rows
  BY DEF Remove
<1>3. \A k \in Requests : ~InLock(k)'
  BY <1>1, OnlyHolder DEF InLock, Base, TypeOK
<1>4. RowsUnique' /\ RowsAnswered'
  BY <1>1, <1>2 DEF RowsInv, RowsUnique, RowsAnswered, Base, TypeOK, Row
<1>5. ItemsListed'
  BY <1>1 DEF RowsInv, ItemsListed, InLock, Base, TypeOK
<1> QED
  BY <1>3, <1>4, <1>5 DEF RowsInv, FoundHolds

(* The holder's found row is still there: no update matches no row. *)
LEMMA CommitFinds ==
  ASSUME Base, RowsInv, OneProcess, NEW r \in Requests, Commit(r)
  PROVE  /\ InLock(r) /\ ask[r] \in Ask /\ phase[r] = "submitted"
         /\ phase' = [phase EXCEPT ![r] = "ok"] /\ UNCHANGED <<ask, found>>
         /\ \/ /\ found[r] = Nil /\ rows' = rows \cup {NewRow(r)}
               /\ \A row \in rows : row.file # ask[r].file
            \/ /\ found[r] # Nil /\ found[r] \in rows /\ found[r] \in Row
               /\ found[r].file = ask[r].file
               /\ rows' = {row \in rows : row.id # found[r].id} \cup {[found[r] EXCEPT !.doc = r]}
<1>1. InLock(r) /\ ask[r] \in Ask /\ phase[r] = "submitted" /\ UNCHANGED <<ask, found>>
  BY CommitBase DEF InLock, Base, Locking, Commit
<1>2. IF found[r] = Nil THEN \A row \in rows : row.file # ask[r].file
                        ELSE found[r] \in rows /\ found[r].file = ask[r].file
  BY <1>1 DEF RowsInv, FoundHolds
<1> QED
  BY <1>1, <1>2 DEF Commit, Release, Base, TypeOK

LEMMA CommitRows ==
  ASSUME Base, RowsInv, OneProcess, NEW r \in Requests, Commit(r)
  PROVE  RowsInv'
<1>1. \A k \in Requests : ~InLock(k)'
  BY CommitFinds, OnlyHolder DEF InLock, Base, TypeOK
<1>2. \A row \in rows : row \in Row /\ row.id \in Requests /\ row.doc \in Requests /\ row.id # r /\ row.doc # r
  BY CommitFinds DEF RowsInv, RowsAnswered, Base, TypeOK, Row
<1>3. ItemsListed'
  BY CommitFinds DEF RowsInv, ItemsListed, Base, TypeOK
<1>4. CASE found[r] = Nil
  <2>1. /\ rows' = rows \cup {NewRow(r)} /\ \A row \in rows : row.file # ask[r].file
        /\ NewRow(r).id = r /\ NewRow(r).file = ask[r].file /\ NewRow(r).doc = r
    BY <1>4, CommitFinds DEF NewRow
  <2>2. RowsUnique'
    BY <1>2, <2>1 DEF RowsInv, RowsUnique
  <2>3. RowsAnswered'
    BY <1>2, <2>1, CommitFinds DEF RowsInv, RowsAnswered, Base, TypeOK
  <2> QED
    BY <1>1, <1>3, <2>2, <2>3 DEF RowsInv, FoundHolds
<1>5. CASE found[r] # Nil
  <2> DEFINE old == found[r]
             changed == [found[r] EXCEPT !.doc = r]
  <2>1. /\ old \in rows /\ rows' = {row \in rows : row.id # old.id} \cup {changed}
        /\ changed.id = old.id /\ changed.file = old.file /\ changed.doc = r
    BY <1>5, CommitFinds DEF Row
  <2> HIDE DEF changed
  <2>2. \A row \in rows : row.id = old.id \/ row.file = old.file => row = old
    BY <2>1 DEF RowsInv, RowsUnique
  <2>3. RowsUnique'
    BY <1>2, <2>1, <2>2 DEF RowsInv, RowsUnique
  <2>4. RowsAnswered'
    BY <1>2, <2>1, CommitFinds DEF RowsInv, RowsAnswered, Base, TypeOK
  <2> QED
    BY <1>1, <1>3, <2>3, <2>4 DEF RowsInv, FoundHolds
<1> QED
  BY <1>4, <1>5

LEMMA RowsStep ==
  ASSUME Base, RowsInv, OneProcess, ~SnapshotReads, [Next]_vars
  PROVE  RowsInv'
<1>1. CASE \E r \in Requests : Arrive(r) \/ OpenUpload(r) \/ OpenItem(r) \/ Remove(r) \/ Commit(r)
  BY <1>1, ArriveRows, OpenRows, RemoveRows, CommitRows
<1>2. CASE \E r \in Requests :
             ClearFiles(r) \/ Submit(r) \/ Refused(r) \/ JobError(r) \/ Timeout(r)
  <2>1. PICK r \in Requests, to \in {"opened", "submitted", "failed"} :
          /\ InLock(r) /\ phase' = [phase EXCEPT ![r] = to] /\ UNCHANGED <<rows, ask, found>>
    BY <1>2
    DEF ClearFiles, Submit, Refused, JobError, Timeout, Queue!Answer, Queue!Expire, Release,
        InLock, Base, Progress, db
  <2> QED
    BY <2>1, RowsLeft DEF InLock, Base, TypeOK
<1>3. CASE \/ \E r \in Requests : StartJob(r) \/ Store(r) \/ StoreNotWritten(r) \/ EndJob(r)
           \/ \E p \in Procs : ChatMiss(p) \/ ChatLoad(p) \/ Restart(p)
           \/ UNCHANGED vars
  <2>1. UNCHANGED <<rows, ask, found, phase>>
    BY <1>3
    DEF StartJob, Store, StoreNotWritten, EndJob, ChatMiss, ChatLoad, Restart, vars, db
  <2> QED
    BY <2>1, RowsLeft DEF InLock
<1>4. CASE \E p \in Procs : Crash(p)
  <2>1. /\ UNCHANGED <<rows, ask, found>>
        /\ \A k \in Requests : phase'[k] = phase[k] \/ (phase'[k] = "failed" /\ phase[k] \notin {"ok", "idle"})
    BY <1>4 DEF Crash, Here, db
  <2> QED
    BY <2>1, RowsLeft DEF InLock
<1> QED
  BY <1>1, <1>2, <1>3, <1>4 DEF Next

LEMMA RowsStart == Init => RowsInv
  BY NilAssumption
  DEF Init, RowsInv, RowsUnique, RowsAnswered, ItemsListed, FoundHolds, InLock

(* One process that reads the last commit gives a name one row, whatever else
   fails. *)
THEOREM OneRow ==
  ASSUME OneProcess, ~SnapshotReads
  PROVE  Spec => []OneRowPerFile
<1>1. Init => Base /\ RowsInv
  BY BaseStarts, RowsStart
<1>2. Base /\ RowsInv /\ [Next]_vars => Base' /\ RowsInv'
  BY BaseStep, RowsStep
<1>3. Base /\ RowsInv => OneRowPerFile
  BY DEF RowsInv, RowsUnique, OneRowPerFile
<1> QED
  BY <1>1, <1>2, <1>3, PTL DEF Spec

(* The listing as KnowledgeBase has it, name by name and request by request *)
LEMMA ListedValue ==
  /\ \A f \in Files : listed[f] = {row.doc : row \in {named \in rows : named.file = f}}
  /\ \A r \in Requests : wished[r] = IF phase[r] = "idle" THEN Nil
                                     ELSE [op |-> ask[r].op, file |-> ask[r].file]
  /\ \A r \in Requests : told[r] = IF phase[r] \in {"ok", "failed"} THEN phase[r]
                                    ELSE IF phase[r] = "idle" THEN "none" ELSE "awaited"
  BY DEF listed, wished, told

LEMMA ListedValueNext ==
  /\ \A f \in Files : listed'[f] = {row.doc : row \in {named \in rows' : named.file = f}}
  /\ \A r \in Requests : wished'[r] = IF phase'[r] = "idle" THEN Nil
                                     ELSE [op |-> ask'[r].op, file |-> ask'[r].file]
  /\ \A r \in Requests : told'[r] = IF phase'[r] \in {"ok", "failed"} THEN phase'[r]
                                    ELSE IF phase'[r] = "idle" THEN "none" ELSE "awaited"
  BY DEF listed, wished, told

LEMMA ListedUnchanged == ASSUME rows' = rows PROVE listed' = listed
  BY DEF listed

(* What arrives or is answered is seen; the rest of a request's way is not. *)
LEMMA ToldChanges ==
  ASSUME Base, NEW r \in Requests, NEW to, phase' = [phase EXCEPT ![r] = to],
         to \in {"arrived", "clearing", "opened", "submitted", "ok", "failed"},
         phase[r] \in {"idle", "arrived", "clearing", "opened", "submitted"}
  PROVE  /\ to \in {"ok", "failed"} => told' = [told EXCEPT ![r] = to]
         /\ to \notin {"ok", "failed"} => told' = [told EXCEPT ![r] = "awaited"]
         /\ phase[r] # "idle" => told[r] = "awaited"
         /\ phase[r] # "idle" /\ ask' = ask => wished' = wished
<1>1. phase \in [Requests -> {"idle", "arrived", "clearing", "opened", "submitted", "ok", "failed"}]
  BY DEF Base, TypeOK
<1>2. \A k \in Requests :
        told'[k] = IF k = r THEN IF to \in {"ok", "failed"} THEN to ELSE "awaited" ELSE told[k]
  BY <1>1, ListedValue, ListedValueNext
<1>3. told' = [k \in Requests |-> IF k = r THEN IF to \in {"ok", "failed"} THEN to ELSE "awaited"
                                  ELSE told[k]]
  BY <1>2 DEF told
<1>4. told' = [told EXCEPT ![r] = IF to \in {"ok", "failed"} THEN to ELSE "awaited"]
  BY <1>3 DEF told
<1>5. phase[r] # "idle" => told[r] = "awaited"
  BY <1>1, ListedValue
<1>6. ASSUME phase[r] # "idle", ask' = ask PROVE wished' = wished
  <2>1. \A k \in Requests : phase'[k] = "idle" <=> phase[k] = "idle"
    BY <1>1, <1>6
  <2> QED
    BY <1>6, <2>1 DEF wished
<1>7. to \in {"ok", "failed"} => told' = [told EXCEPT ![r] = to]
  BY <1>4
<1>8. to \notin {"ok", "failed"} => told' = [told EXCEPT ![r] = "awaited"]
  BY <1>4
<1> QED
  BY <1>5, <1>6, <1>7, <1>8

LEMMA ListingStarts == Init => Listing!Init
  BY DEF Init, Listing!Init, listed, wished, told

LEMMA ArriveLists ==
  ASSUME Base, NEW r \in Requests, Arrive(r)
  PROVE  Listing!Ask(r)
<1>1. PICK a \in Ask :
        /\ ask' = [ask EXCEPT ![r] = a]
        /\ a.op # "upload" => \E row \in rows : a.file = row.file
  BY DEF Arrive, Base, TypeOK, Ask, Ops, Row
<1>2. phase[r] = "idle" /\ phase' = [phase EXCEPT ![r] = "arrived"] /\ rows' = rows
  BY DEF Arrive
<1> DEFINE w == [op |-> a.op, file |-> a.file]
<1>3. w \in Listing!Wish /\ w.op = a.op /\ w.file = a.file /\ a.file \in Files
  BY DEF Listing!Wish, Ask, Ops
<1>4. w.op # "upload" => listed[w.file] # {}
  BY <1>1, <1>3, ListedValue
<1>5. wished' = [wished EXCEPT ![r] = w]
  <2>1. wished'[r] = w
    BY <1>1, <1>2, ListedValueNext DEF Base, TypeOK
  <2>2. \A k \in Requests : k # r => wished'[k] = wished[k]
    BY <1>1, <1>2, ListedValue, ListedValueNext DEF Base, TypeOK
  <2>3. wished' = [k \in Requests |-> IF k = r THEN w ELSE wished[k]]
    BY <2>1, <2>2 DEF wished
  <2> QED
    BY <2>3 DEF wished
<1>6. told[r] = "none"
  BY <1>2, ListedValue
<1>7. told' = [told EXCEPT ![r] = "awaited"]
  BY <1>2, ToldChanges
<1> QED
  BY <1>2, <1>3, <1>4, <1>5, <1>6, <1>7, ListedUnchanged DEF Listing!Ask

LEMMA CommitLists ==
  ASSUME Base, RowsInv, OneProcess, NEW r \in Requests, Commit(r)
  PROVE  Listing!Put(r)
<1> DEFINE f == ask[r].file
<1>1. /\ phase[r] = "submitted" /\ phase' = [phase EXCEPT ![r] = "ok"] /\ ask' = ask /\ f \in Files
      /\ ask[r].op # "delete"
  BY CommitFinds DEF Ask, Base, Progress
<1>2. /\ told[r] = "awaited" /\ told' = [told EXCEPT ![r] = "ok"] /\ wished' = wished
      /\ wished[r].op = ask[r].op /\ wished[r].file = f
  <2>1. told[r] = "awaited" /\ told' = [told EXCEPT ![r] = "ok"] /\ wished' = wished
    BY <1>1, ToldChanges
  <2>2. wished[r] = [op |-> ask[r].op, file |-> f]
    BY <1>1, ListedValue
  <2> QED
    BY <2>1, <2>2
<1>3. ask[r].op = "update" => listed[f] # {}
  <2>1. ask[r].op = "update" => found[r] # Nil
    BY <1>1 DEF Base, RowsStored
  <2> QED
    BY <1>1, <2>1, CommitFinds, ListedValue
<1>4. {row \in rows' : row.file = f} = {row \in rows' \ rows : row.doc = r}
      /\ {row.doc : row \in {row \in rows' : row.file = f}} = {r}
      /\ \A g \in Files : g # f => {row \in rows' : row.file = g} = {row \in rows : row.file = g}
  <2>1. \A row \in rows : row.doc # r
    BY <1>1 DEF RowsInv, RowsAnswered
  <2>2. CASE found[r] = Nil
    <3>1. /\ rows' = rows \cup {NewRow(r)} /\ \A row \in rows : row.file # f
          /\ NewRow(r).file = f /\ NewRow(r).doc = r
      BY <2>2, CommitFinds DEF NewRow
    <3> QED
      BY <2>1, <3>1
  <2>3. CASE found[r] # Nil
    <3> DEFINE old == found[r]
               changed == [found[r] EXCEPT !.doc = r]
    <3>1. /\ old \in rows /\ old.file = f /\ rows' = {row \in rows : row.id # old.id} \cup {changed}
          /\ changed.file = f /\ changed.doc = r
      BY <2>3, CommitFinds DEF Row
    <3> HIDE DEF changed
    <3>2. \A row \in rows : row.id = old.id \/ row.file = f => row = old
      BY <3>1 DEF RowsInv, RowsUnique
    <3> QED
      BY <2>1, <3>1, <3>2
  <2> QED
    BY <2>2, <2>3
<1>5. listed' = [listed EXCEPT ![f] = {r}]
  <2>1. listed'[f] = {r}
    BY <1>1, <1>4, ListedValueNext
  <2>2. ASSUME NEW g \in Files, g # f PROVE listed'[g] = listed[g]
    <3>1. {row \in rows' : row.file = g} = {row \in rows : row.file = g}
      BY <1>4, <2>2
    <3> QED
      BY <3>1, ListedValue, ListedValueNext
  <2>3. listed' = [g \in Files |-> IF g = f THEN {r} ELSE listed[g]]
    BY <2>1, <2>2 DEF listed
  <2> QED
    BY <2>3 DEF listed
<1> QED
  BY <1>1, <1>2, <1>3, <1>5 DEF Listing!Put

LEMMA RemoveLists ==
  ASSUME Base, RowsInv, OneProcess, NEW r \in Requests, Remove(r)
  PROVE  Listing!Delete(r)
<1> DEFINE f == ask[r].file
           old == found[r]
<1>1. /\ phase[r] = "opened" /\ InLock(r) /\ phase' = [phase EXCEPT ![r] = "ok"] /\ ask' = ask
      /\ ask[r].op = "delete" /\ f \in Files /\ old # Nil
      /\ rows' = {row \in rows : row.id # old.id}
  BY DEF Remove, Release, InLock, Base, Locking, RowsStored, Ask
<1>2. /\ told[r] = "awaited" /\ told' = [told EXCEPT ![r] = "ok"] /\ wished' = wished
      /\ wished[r].op = "delete" /\ wished[r].file = f
  <2>1. told[r] = "awaited" /\ told' = [told EXCEPT ![r] = "ok"] /\ wished' = wished
    BY <1>1, ToldChanges
  <2>2. wished[r] = [op |-> "delete", file |-> f]
    BY <1>1, ListedValue
  <2> QED
    BY <2>1, <2>2
<1>3. old \in rows /\ old.file = f
  BY <1>1 DEF RowsInv, FoundHolds
<1>4. \A row \in rows : row.id = old.id \/ row.file = f => row = old
  BY <1>3 DEF RowsInv, RowsUnique
<1>5. /\ {row \in rows' : row.file = f} = {}
      /\ \A g \in Files : g # f => {row \in rows' : row.file = g} = {row \in rows : row.file = g}
  BY <1>1, <1>3, <1>4
<1>6. listed' = [listed EXCEPT ![f] = {}] /\ listed[f] # {}
  <2>1. listed'[f] = {}
    BY <1>1, <1>5, ListedValueNext
  <2>2. ASSUME NEW g \in Files, g # f PROVE listed'[g] = listed[g]
    <3>1. {row \in rows' : row.file = g} = {row \in rows : row.file = g}
      BY <1>5, <2>2
    <3> QED
      BY <3>1, ListedValue, ListedValueNext
  <2>3. listed' = [g \in Files |-> IF g = f THEN {} ELSE listed[g]]
    BY <2>1, <2>2 DEF listed
  <2>4. listed[f] # {}
    BY <1>1, <1>3, ListedValue
  <2> QED
    BY <2>3, <2>4 DEF listed
<1> QED
  BY <1>2, <1>6 DEF Listing!Delete

(* A request fails alone, ... *)
LEMMA FailLists ==
  ASSUME Base, NEW r \in Requests, rows' = rows, ask' = ask, phase' = [phase EXCEPT ![r] = "failed"],
         phase[r] \in {"arrived", "clearing", "opened", "submitted"}
  PROVE  Listing!Next
<1>1. told[r] = "awaited" /\ told' = [told EXCEPT ![r] = "failed"] /\ wished' = wished
  BY ToldChanges
<1>2. told' = [k \in Requests |-> IF k \in {r} THEN "failed" ELSE told[k]]
  BY <1>1 DEF told
<1>3. Listing!Fail({r})
  BY <1>1, <1>2, ListedUnchanged DEF Listing!Fail
<1> QED
  BY <1>3 DEF Listing!Next

(* ... or with all that its process had begun. *)
LEMMA CrashLists ==
  ASSUME Base, NEW p \in Procs, Crash(p)
  PROVE  Listing!Next
<1> DEFINE failing == {k \in Requests : Here(k, p) /\ phase[k] \notin {"ok", "failed"}}
<1>1. rows' = rows /\ ask' = ask
      /\ \A k \in Requests : phase'[k] = IF Here(k, p) /\ phase[k] # "ok" THEN "failed" ELSE phase[k]
  BY DEF Crash, db
<1>2. \A k \in failing : told[k] = "awaited"
  BY ListedValue DEF Here
<1>3. \A k \in Requests : told'[k] = IF k \in failing THEN "failed" ELSE told[k]
  BY <1>1, ListedValue, ListedValueNext
<1>4. told' = [k \in Requests |-> IF k \in failing THEN "failed" ELSE told[k]]
  BY <1>3 DEF told
<1>5. wished' = wished
  <2>1. \A k \in Requests : phase'[k] = "idle" <=> phase[k] = "idle"
    BY <1>1 DEF Here
  <2> QED
    BY <1>1, <2>1 DEF wished
<1>6. Listing!Fail(failing)
  BY <1>1, <1>2, <1>4, <1>5, ListedUnchanged DEF Listing!Fail
<1> QED
  BY <1>6 DEF Listing!Next

(* The steps on the way *)
LEMMA QuietLists ==
  ASSUME Base, rows' = rows, ask' = ask,
         \/ phase' = phase
         \/ \E r \in Requests, to \in {"clearing", "opened", "submitted"} :
              /\ phase[r] \in {"arrived", "clearing", "opened"}
              /\ phase' = [phase EXCEPT ![r] = to]
  PROVE  UNCHANGED Listing!vars
<1>1. CASE phase' = phase
  BY <1>1, ListedUnchanged DEF Listing!vars, wished, told
<1>2. ASSUME NEW r \in Requests, NEW to \in {"clearing", "opened", "submitted"},
             phase[r] \in {"arrived", "clearing", "opened"}, phase' = [phase EXCEPT ![r] = to]
      PROVE  UNCHANGED Listing!vars
  <2>1. told' = [told EXCEPT ![r] = "awaited"] /\ told[r] = "awaited" /\ wished' = wished
    BY <1>2, ToldChanges
  <2>2. told' = told
    BY <2>1 DEF told
  <2> QED
    BY <2>1, <2>2, ListedUnchanged DEF Listing!vars
<1> QED
  BY <1>1, <1>2

LEMMA NextLists ==
  ASSUME Base, RowsInv, OneProcess, [Next]_vars
  PROVE  [Listing!Next]_(Listing!vars)
<1>1. ASSUME NEW r \in Requests, Arrive(r) \/ Commit(r) \/ Remove(r)
      PROVE  Listing!Next
  BY <1>1, ArriveLists, CommitLists, RemoveLists DEF Listing!Next
<1>2. ASSUME NEW r \in Requests, Refused(r) \/ JobError(r) \/ Timeout(r)
      PROVE  Listing!Next
  BY <1>2, FailLists
  DEF Refused, JobError, Timeout, Release, Queue!Answer, Queue!Expire, Base, Progress, db
<1>3. ASSUME NEW r \in Requests, OpenItem(r)
      PROVE  Listing!Next \/ UNCHANGED Listing!vars
  BY <1>3, FailLists, QuietLists DEF OpenItem
<1>4. ASSUME NEW r \in Requests, OpenUpload(r) \/ ClearFiles(r) \/ Submit(r)
      PROVE  UNCHANGED Listing!vars
  BY <1>4, QuietLists DEF OpenUpload, ClearFiles, Submit, db
<1>5. CASE \/ \E r \in Requests : StartJob(r) \/ Store(r) \/ StoreNotWritten(r) \/ EndJob(r)
           \/ \E p \in Procs : ChatMiss(p) \/ ChatLoad(p) \/ Restart(p)
           \/ UNCHANGED vars
  BY <1>5, QuietLists
  DEF StartJob, Store, StoreNotWritten, EndJob, ChatMiss, ChatLoad, Restart, vars, db
<1>6. ASSUME NEW p \in Procs, Crash(p)
      PROVE  Listing!Next
  BY <1>6, CrashLists
<1> QED
  BY <1>1, <1>2, <1>3, <1>4, <1>5, <1>6 DEF Next

(* One process that reads the last commit makes every call atomic for those who
   list the rows, whatever else fails. *)
THEOREM CallsAreAtomic ==
  ASSUME OneProcess, ~SnapshotReads
  PROVE  Spec => Atomic
<1>1. Init => Base /\ RowsInv /\ Listing!Init
  BY BaseStarts, RowsStart, ListingStarts
<1>2. Base /\ RowsInv /\ [Next]_vars => Base' /\ RowsInv' /\ [Listing!Next]_(Listing!vars)
  BY BaseStep, RowsStep, NextLists
<1> QED
  BY <1>1, <1>2, PTL DEF Spec, Atomic, Listing!Spec
-----------------------------------------------------------------------------
(* The copies of the store, with one process and no fault but crashes. *)
Fresh(p) == cache[p] # Nil => onDisk /\ heap[cache[p]] = disk

(* What an upload has taken out of the object it opened, but not off the disk *)
Taken(r) == IF ask[r].op = "upload" /\ found[r] # Nil THEN {found[r].doc} ELSE {}

NoLateJobs ==
  \A r \in Requests :
    job[r] # "failed" /\ (job[r] \in {"accepted", "running"} => phase[r] = "submitted")

BeforeStore ==
  \A r \in Requests :
    phase[r] \in {"opened", "submitted"} /\ r \notin stored =>
      /\ vs[r] # Nil => onDisk /\ heap[vs[r]] = disk \ Taken(r)
      /\ vs[r] = Nil => ~onDisk
      /\ ask[r].op # "upload" => Fresh(ask[r].proc)

AfterStore ==
  \A r \in Requests :
    phase[r] = "submitted" /\ r \in stored =>
      /\ vs[r] # Nil /\ onDisk /\ heap[vs[r]] = disk
      /\ ask[r].op = "upload" => Fresh(ask[r].proc)

CopiesInv ==
  /\ ~onDisk => disk = {}
  /\ NoLateJobs /\ ChatFresh /\ BeforeStore /\ AfterStore /\ DeletedIsGone

LEMMA NewApart ==
  ASSUME Base
  PROVE  /\ \A p \in Procs : cache[p] # New
         /\ \A k \in Requests : phase[k] \in {"opened", "submitted"} => vs[k] # New
  BY NewIsNew DEF Base, Alive, Working

LEMMA CopiesStart == Init => CopiesInv
  BY DEF Init, Queue!Init, CopiesInv, NoLateJobs, ChatFresh, BeforeStore, AfterStore, DeletedIsGone

(* What leaves the copies and the locks alone leaves CopiesInv alone. *)
LEMMA CopiesLeft ==
  ASSUME CopiesInv, NoLateJobs', UNCHANGED <<onDisk, disk, heap, cache, vs, found, stored, lock>>,
         \A k \in Requests :
           /\ phase'[k] \in {"opened", "submitted"} => phase[k] \in {"opened", "submitted"}
           /\ phase'[k] = "submitted" /\ k \in stored => phase[k] = "submitted"
           /\ phase'[k] = "ok" => phase[k] = "ok"
           /\ phase[k] # "idle" => ask'[k] = ask[k]
           /\ phase[k] = "idle" => phase'[k] \in {"idle", "arrived"}
  PROVE  CopiesInv'
<1>1. BeforeStore' /\ AfterStore'
  BY DEF CopiesInv, BeforeStore, AfterStore, Fresh, Taken
<1>2. ChatFresh' /\ DeletedIsGone'
  BY DEF CopiesInv, ChatFresh, DeletedIsGone
<1> QED
  BY <1>1, <1>2 DEF CopiesInv

(* What a request opens is the disk's copy, but for what it takes out, and
   then it is under the lock alone. *)
LEMMA GetStoreCopies ==
  ASSUME Base, CopiesInv, NEW r \in Requests, NEW p \in Procs, NEW gone, lock[p] = Nil,
         GetStore(r, p, gone)
  PROVE  /\ vs'[r] # Nil => onDisk /\ heap'[vs'[r]] = disk \ gone
         /\ vs'[r] = Nil => ~onDisk /\ cache'[p] = Nil
         /\ gone = {} => (cache'[p] # Nil => onDisk /\ heap'[cache'[p]] = disk)
<1>1. Fresh(p)
  BY DEF CopiesInv, ChatFresh, Fresh
<1>2. disk \ {} = disk
  OBVIOUS
<1>3. CASE cache[p] # Nil
  <2>1. /\ cache[p] \in Objects /\ cache' = cache /\ vs'[r] = cache[p]
        /\ heap'[cache[p]] = heap[cache[p]] \ gone
    BY <1>3 DEF GetStore, Pruned, Base, TypeOK
  <2> QED
    BY <1>1, <1>2, <1>3, <2>1 DEF Fresh
<1>4. CASE cache[p] = Nil /\ onDisk
  <2>1. cache'[p] = New /\ vs'[r] = New /\ heap'[New] = disk \ gone
    BY <1>4, NewIsNew DEF GetStore, Pruned, Base, TypeOK
  <2> QED
    BY <1>2, <1>4, <2>1, NewIsNew, NilAssumption DEF Base
<1>5. CASE cache[p] = Nil /\ ~onDisk
  <2>1. cache'[p] = Nil /\ vs'[r] = Nil
    BY <1>5 DEF GetStore, Base, TypeOK
  <2> QED
    BY <1>5, <2>1
<1> QED
  BY <1>3, <1>4, <1>5 DEF Base, TypeOK

(* When r alone is under the lock, only r's copy matters. *)
LEMMA CopiesOfHolder ==
  ASSUME OneProcess, Base, Base', NEW r \in Requests, InLock(r)',
         NoLateJobs', DeletedIsGone', ~onDisk' => disk' = {},
         phase'[r] \in {"opened", "submitted"} /\ r \notin stored' =>
           /\ vs'[r] # Nil => onDisk' /\ heap'[vs'[r]] = disk' \ Taken(r)'
           /\ vs'[r] = Nil => ~onDisk'
           /\ ask'[r].op # "upload" => Fresh(ask[r].proc)',
         phase'[r] = "submitted" /\ r \in stored' =>
           /\ vs'[r] # Nil /\ onDisk' /\ heap'[vs'[r]] = disk'
           /\ ask'[r].op = "upload" => Fresh(ask[r].proc)'
  PROVE  CopiesInv'
<1>1. \A k \in Requests : InLock(k)' => k = r
  BY DEF Base, Locking, OneProcess, InLock, Ask
<1>2. \A p \in Procs : lock'[p] # Nil
  BY NilAssumption DEF Base, Locking, OneProcess, InLock, Ask
<1>3. BeforeStore' /\ AfterStore'
  BY <1>1 DEF BeforeStore, AfterStore, InLock
<1> QED
  BY <1>2, <1>3 DEF CopiesInv, ChatFresh

(* When nobody is, the caches do. *)
LEMMA CopiesUnlocked ==
  ASSUME Base', NoLateJobs', DeletedIsGone', ~onDisk' => disk' = {},
         \A k \in Requests : ~InLock(k)', \A p \in Procs : Fresh(p)'
  PROVE  CopiesInv'
<1>1. BeforeStore' /\ AfterStore'
  BY DEF BeforeStore, AfterStore, InLock
<1> QED
  BY <1>1 DEF CopiesInv, ChatFresh, Fresh

LEMMA OpenUploadCopies ==
  ASSUME OneProcess, Base, Base', CopiesInv, NEW r \in Requests, OpenUpload(r)
  PROVE  CopiesInv'
<1> DEFINE p == ask[r].proc
<1>1. /\ phase[r] = "arrived" /\ ask[r].op = "upload" /\ p \in Procs /\ lock[p] = Nil
      /\ UNCHANGED <<onDisk, disk, ask, stored, call, job>> /\ found[r] = Nil /\ r \notin stored
      /\ job[r] = "none"
  BY DEF OpenUpload, MayLock, files, queue, Base, Locking, Progress, Ask
<1>2. phase' = [phase EXCEPT ![r] = "clearing"] \/ phase' = [phase EXCEPT ![r] = "opened"]
  BY DEF OpenUpload
<1>3. \A k \in Requests : k # r => phase'[k] = phase[k] /\ found'[k] = found[k]
  BY <1>2 DEF OpenUpload, Base, TypeOK
<1>4. phase'[r] \in {"clearing", "opened"}
  BY <1>2 DEF Base, TypeOK
<1>5. NoLateJobs' /\ DeletedIsGone'
  BY <1>1, <1>3, <1>4 DEF CopiesInv, NoLateJobs, DeletedIsGone
<1>6. ASSUME phase'[r] = "opened"
      PROVE  /\ vs'[r] # Nil => onDisk /\ heap'[vs'[r]] = disk \ Taken(r)'
             /\ vs'[r] = Nil => ~onDisk
  <2>1. \/ found' = found /\ GetStore(r, p, {})
        \/ \E row \in View(r) : found' = [found EXCEPT ![r] = row] /\ GetStore(r, p, {row.doc})
    BY <1>6, <1>4, <1>2 DEF OpenUpload, SameName, Base, TypeOK
  <2>2. CASE found' = found /\ GetStore(r, p, {})
    BY <1>1, <2>2, GetStoreCopies DEF Taken
  <2>3. CASE \E row \in View(r) : found' = [found EXCEPT ![r] = row] /\ GetStore(r, p, {row.doc})
    <3>1. PICK row \in View(r) : found' = [found EXCEPT ![r] = row] /\ GetStore(r, p, {row.doc})
      BY <2>3
    <3>2. found'[r] = row /\ row # Nil
      BY <3>1, ViewRows DEF Base, TypeOK
    <3> QED
      BY <1>1, <3>1, <3>2, GetStoreCopies DEF Taken
  <2> QED
    BY <2>1, <2>2, <2>3
<1> QED
  BY <1>1, <1>4, <1>5, <1>6, CopiesOfHolder DEF InLock, CopiesInv

LEMMA ClearFilesCopies ==
  ASSUME OneProcess, Base, Base', CopiesInv, NEW r \in Requests, ClearFiles(r)
  PROVE  CopiesInv'
<1>1. /\ phase'[r] = "opened" /\ ~onDisk' /\ disk' = {} /\ vs'[r] = Nil /\ r \notin stored'
      /\ ask'[r].op = "upload" /\ \A k \in Requests : k # r => phase'[k] = phase[k]
      /\ UNCHANGED <<ask, found, job, stored>> /\ job[r] = "none"
  BY DEF ClearFiles, db, memory, queue, Base, TypeOK, Progress
<1>2. NoLateJobs' /\ DeletedIsGone'
  BY <1>1 DEF CopiesInv, NoLateJobs, DeletedIsGone
<1> QED
  BY <1>1, <1>2, CopiesOfHolder DEF InLock

LEMMA OpenItemCopies ==
  ASSUME OneProcess, Base, Base', CopiesInv, NEW r \in Requests, OpenItem(r)
  PROVE  CopiesInv'
<1> DEFINE p == ask[r].proc
<1>1. /\ phase[r] = "arrived" /\ ask[r].op # "upload" /\ p \in Procs /\ lock[p] = Nil
      /\ UNCHANGED <<onDisk, disk, ask, stored, call, job>> /\ r \notin stored /\ job[r] = "none"
  BY DEF OpenItem, MayLock, files, queue, Base, Locking, Progress, Ask
<1>2. CASE phase' = [phase EXCEPT ![r] = "opened"]
  <2>1. GetStore(r, p, {}) /\ \E row : found' = [found EXCEPT ![r] = row]
    BY <1>1, <1>2 DEF OpenItem, Base, TypeOK
  <2>2. /\ phase'[r] = "opened"
        /\ \A k \in Requests : k # r => phase'[k] = phase[k] /\ found'[k] = found[k]
    BY <1>2, <2>1 DEF Base, TypeOK
  <2>3. NoLateJobs' /\ DeletedIsGone'
    BY <1>1, <2>2 DEF CopiesInv, NoLateJobs, DeletedIsGone
  <2>4. Taken(r)' = {} /\ Fresh(p)'
    BY <1>1, <2>1, GetStoreCopies DEF Taken, Fresh
  <2>5. /\ vs'[r] # Nil => onDisk /\ heap'[vs'[r]] = disk
        /\ vs'[r] = Nil => ~onDisk
    BY <1>1, <2>1, GetStoreCopies
  <2> QED
    BY <1>1, <2>2, <2>3, <2>4, <2>5, CopiesOfHolder DEF InLock, CopiesInv
<1>3. CASE phase' = [phase EXCEPT ![r] = "failed"] /\ UNCHANGED <<found, memory, lock>>
  <2>1. NoLateJobs'
    BY <1>1, <1>3 DEF CopiesInv, NoLateJobs, Base, TypeOK
  <2> QED
    BY <1>1, <1>3, <2>1, CopiesLeft DEF memory, Base, TypeOK
<1> QED
  BY <1>2, <1>3 DEF OpenItem

LEMMA RemoveCopies ==
  ASSUME OneProcess, Faults \subseteq {"crash"}, Base, Base', CopiesInv, NEW r \in Requests, Remove(r)
  PROVE  CopiesInv'
<1> DEFINE p == ask[r].proc
           o == vs[r]
           doc == found[r].doc
<1>1. /\ phase[r] = "opened" /\ InLock(r) /\ ask[r].op = "delete" /\ p \in Procs /\ r \notin stored
      /\ phase' = [phase EXCEPT ![r] = "ok"]
      /\ UNCHANGED <<found, vs, ask, stored, job>> /\ job[r] = "none"
  BY DEF Remove, Release, queue, Base, Locking, Progress, InLock, Ask
<1>2. /\ o # Nil => o \in Objects /\ onDisk /\ heap[o] = disk
      /\ o = Nil => disk = {}
      /\ Fresh(p)
  <2>1. /\ o # Nil => onDisk /\ heap[o] = disk \ Taken(r)
        /\ o = Nil => ~onDisk
        /\ Fresh(p)
    BY <1>1 DEF CopiesInv, BeforeStore
  <2>2. Taken(r) = {} /\ disk \ {} = disk
    BY <1>1 DEF Taken
  <2> QED
    BY <2>1, <2>2 DEF CopiesInv, Base, TypeOK
<1>3. /\ disk' \subseteq disk /\ doc \notin disk' /\ (~onDisk' => disk' = {}) /\ Fresh(p)'
  <2>1. CASE o # Nil /\ doc \in heap[o]
    <3>1. disk' = heap[o] \ {doc} /\ onDisk' = TRUE /\ heap'[o] = heap[o] \ {doc} /\ cache'[p] = o
      BY <1>1, <1>2, <2>1 DEF Remove, Left, Base, TypeOK
    <3> QED
      BY <1>1, <1>2, <2>1, <3>1 DEF Fresh
  <2>2. CASE ~(o # Nil /\ doc \in heap[o])
    <3>1. UNCHANGED <<heap, onDisk, disk, cache>>
      BY <2>2 DEF Remove, files
    <3> QED
      BY <1>1, <1>2, <2>2, <3>1 DEF Fresh, CopiesInv
  <2> QED
    BY <2>1, <2>2
<1>4. \A k \in Requests : ~InLock(k)' /\ (k # r => phase'[k] = phase[k])
  BY <1>1, OnlyHolder DEF InLock, Base, TypeOK
<1>5. phase'[r] = "ok" /\ NoLateJobs'
  BY <1>1, <1>4 DEF CopiesInv, NoLateJobs, Base, TypeOK
<1>6. DeletedIsGone'
  BY <1>1, <1>3, <1>4 DEF CopiesInv, DeletedIsGone
<1>7. \A q \in Procs : Fresh(q)'
  BY <1>1, <1>3 DEF OneProcess
<1> QED
  BY <1>3, <1>4, <1>5, <1>6, <1>7, CopiesUnlocked

LEMMA StoreCopies ==
  ASSUME OneProcess, Base, Base', CopiesInv, NEW r \in Requests, Store(r)
  PROVE  CopiesInv'
<1> DEFINE p == ask[r].proc
<1>1. /\ job[r] = "running" /\ r \notin stored /\ phase[r] = "submitted" /\ p \in Procs
      /\ UNCHANGED <<found, ask, phase, job, lock>>
      /\ stored' = stored \cup {r} /\ onDisk' = TRUE /\ disk' = heap'[vs'[r]]
  BY DEF Store, ChangeStore, CopiesInv, NoLateJobs, Base, Locking, Ask, db, queue
<1>2. /\ vs'[r] \in Objects /\ heap'[vs'[r]] \subseteq disk \cup {r}
      /\ ask[r].op = "upload" => cache'[p] = vs'[r]
  <2>1. CASE vs[r] # Nil
    <3>1. /\ vs[r] \in Objects /\ heap[vs[r]] \subseteq disk /\ vs' = vs
          /\ heap' = [heap EXCEPT ![vs[r]] = Grown(r)]
          /\ ask[r].op = "upload" => cache' = [cache EXCEPT ![p] = vs[r]]
      BY <1>1, <2>1 DEF Store, ChangeStore, CopiesInv, BeforeStore, Base, TypeOK
    <3>2. Grown(r) \subseteq disk \cup {r} /\ heap'[vs[r]] = Grown(r)
      BY <3>1 DEF Grown, Base, TypeOK
    <3> QED
      BY <1>1, <3>1, <3>2 DEF Base, TypeOK
  <2>2. CASE vs[r] = Nil
    BY <1>1, <2>2, NewIsNew DEF Store, ChangeStore, Base, TypeOK
  <2> QED
    BY <2>1, <2>2
<1>3. DeletedIsGone'
  <2>1. ASSUME NEW k \in Requests, phase[k] = "ok", ask[k].op = "delete"
        PROVE  found[k].doc \notin disk /\ found[k].doc \in stored
    BY <2>1 DEF CopiesInv, DeletedIsGone, Base, RowsStored
  <2> QED
    BY <1>1, <1>2, <2>1 DEF DeletedIsGone
<1>4. NoLateJobs' /\ InLock(r)' /\ r \in stored' /\ vs'[r] # Nil
  BY <1>1, <1>2, NilAssumption DEF CopiesInv, NoLateJobs, InLock
<1>5. ask'[r].op = "upload" => Fresh(p)'
  BY <1>1, <1>2 DEF Fresh
<1> QED
  BY <1>1, <1>3, <1>4, <1>5, CopiesOfHolder

LEMMA CommitCopies ==
  ASSUME OneProcess, Base, Base', CopiesInv, NEW r \in Requests, Commit(r)
  PROVE  CopiesInv'
<1> DEFINE p == ask[r].proc
<1>1. /\ phase[r] = "submitted" /\ InLock(r) /\ r \in stored /\ p \in Procs
      /\ ask[r].op \in {"upload", "update"}
      /\ UNCHANGED <<found, ask, job, stored, heap, vs, onDisk, disk>>
  BY CommitBase DEF Commit, Queue!Answer, InLock, Base, Locking, Progress, Ask, Ops, files
<1>2. PICK answer \in {"ok", "failed"} : phase' = [phase EXCEPT ![r] = answer]
  BY DEF Commit, Release
<1>3. vs[r] # Nil /\ onDisk /\ heap[vs[r]] = disk /\ (ask[r].op = "upload" => Fresh(p))
  BY <1>1 DEF CopiesInv, AfterStore
<1>4. Fresh(p)'
  <2>1. CASE ask[r].op = "update"
    <3>1. cache'[p] = vs[r]
      BY <1>1, <2>1 DEF Commit, Base, TypeOK
    <3> QED
      BY <1>1, <1>3, <3>1 DEF Fresh
  <2>2. CASE ask[r].op = "upload"
    BY <1>1, <1>3, <2>2 DEF Commit, Fresh
  <2> QED
    BY <1>1, <2>1, <2>2
<1>5. \A k \in Requests : ~InLock(k)' /\ (k # r => phase'[k] = phase[k])
  BY <1>1, <1>2, OnlyHolder DEF InLock, Base, TypeOK
<1>6. NoLateJobs' /\ DeletedIsGone'
  <2>1. job[r] = "finished"
    BY DEF Commit, Succeeded
  <2> QED
    BY <1>1, <1>5, <2>1 DEF CopiesInv, NoLateJobs, DeletedIsGone
<1>7. \A q \in Procs : Fresh(q)'
  BY <1>1, <1>4 DEF OneProcess
<1> QED
  BY <1>1, <1>5, <1>6, <1>7, CopiesUnlocked DEF CopiesInv

LEMMA ChatLoadCopies ==
  ASSUME OneProcess, Base, Base', CopiesInv, NEW p \in Procs, ChatLoad(p)
  PROVE  CopiesInv'
<1>1. UNCHANGED <<onDisk, disk, found, ask, phase, job, stored, vs, lock>>
  BY DEF ChatLoad, db, files, queue
<1>2. CASE onDisk
  <2>1. heap' = [heap EXCEPT ![New] = disk] /\ cache' = [cache EXCEPT ![p] = New]
    BY <1>2 DEF ChatLoad
  <2>2. \A q \in Procs : Fresh(q)'
    BY <1>1, <1>2, <2>1, NewIsNew DEF OneProcess, Fresh, Base, TypeOK
  <2>3. \A k \in Requests :
          phase[k] \in {"opened", "submitted"} => heap'[vs[k]] = heap[vs[k]] \/ vs[k] = Nil
    BY <2>1, NewApart DEF Base, TypeOK
  <2>4. BeforeStore'
    <3> SUFFICES ASSUME NEW k \in Requests, phase'[k] \in {"opened", "submitted"}, k \notin stored'
                 PROVE  /\ vs'[k] # Nil => onDisk' /\ heap'[vs'[k]] = disk' \ Taken(k)'
                        /\ vs'[k] = Nil => ~onDisk'
                        /\ ask'[k].op # "upload" => Fresh(ask[k].proc)'
      BY DEF BeforeStore
    <3>1. ask[k].proc \in Procs /\ Taken(k)' = Taken(k)
      BY <1>1 DEF Base, Locking, Ask, Taken
    <3> QED
      BY <1>1, <2>2, <2>3, <3>1 DEF CopiesInv, BeforeStore
  <2>5. AfterStore'
    <3> SUFFICES ASSUME NEW k \in Requests, phase'[k] = "submitted", k \in stored'
                 PROVE  /\ vs'[k] # Nil /\ onDisk' /\ heap'[vs'[k]] = disk'
                        /\ ask'[k].op = "upload" => Fresh(ask[k].proc)'
      BY DEF AfterStore
    <3>1. ask[k].proc \in Procs
      BY <1>1 DEF Base, Locking, Ask
    <3> QED
      BY <1>1, <2>2, <2>3, <3>1 DEF CopiesInv, AfterStore
  <2>6. ChatFresh'
    BY <2>2 DEF ChatFresh, Fresh
  <2> QED
    BY <1>1, <2>4, <2>5, <2>6 DEF CopiesInv, NoLateJobs, DeletedIsGone
<1>3. CASE ~onDisk
  <2>1. UNCHANGED <<heap, cache>>
    BY <1>3 DEF ChatLoad
  <2> QED
    BY <1>1, <2>1, CopiesLeft DEF CopiesInv, NoLateJobs
<1> QED
  BY <1>2, <1>3 DEF Base, TypeOK

LEMMA RestartCopies ==
  ASSUME OneProcess, Base, Base', CopiesInv, NEW p \in Procs, Restart(p)
  PROVE  CopiesInv'
<1>1. UNCHANGED <<onDisk, disk, found, ask, phase, job, stored, vs, lock, heap>>
  BY DEF Restart, db, files, queue
<1>2. \A k \in Requests : ~InLock(k)'
  BY <1>1 DEF Restart, Here, Busy, InLock, OneProcess, Base, Locking, Ask
<1>3. \A q \in Procs : Fresh(q)'
  BY <1>1 DEF Restart, OneProcess, Fresh, Base, TypeOK
<1> QED
  BY <1>1, <1>2, <1>3, CopiesUnlocked DEF CopiesInv, NoLateJobs, DeletedIsGone

LEMMA CrashCopies ==
  ASSUME OneProcess, Base, Base', CopiesInv, NEW p \in Procs, Crash(p)
  PROVE  CopiesInv'
<1>1. UNCHANGED <<onDisk, disk, found, ask, stored, vs, heap>>
  BY DEF Crash, db, files
<1>2. \A k \in Requests : phase[k] # "idle" => Here(k, p)
  BY DEF Here, OneProcess, Base, Locking, Ask
<1>3. \A k \in Requests :
        /\ ~InLock(k)'
        /\ phase'[k] = "ok" => phase[k] = "ok"
        /\ job'[k] # "failed" /\ job'[k] \notin {"accepted", "running"}
  BY <1>2 DEF Crash, InLock, CopiesInv, NoLateJobs, Here
<1>4. \A q \in Procs : Fresh(q)'
  BY <1>1 DEF Crash, OneProcess, Fresh, Base, TypeOK
<1> QED
  BY <1>1, <1>3, <1>4, CopiesUnlocked DEF CopiesInv, NoLateJobs, DeletedIsGone

LEMMA CopiesStep ==
  ASSUME OneProcess, Faults \subseteq {"crash"}, Base, CopiesInv, [Next]_vars
  PROVE  CopiesInv'
<1>1. Base'
  BY BaseStep
<1>2. CASE \E r \in Requests :
             OpenUpload(r) \/ ClearFiles(r) \/ OpenItem(r) \/ Remove(r) \/ Store(r) \/ Commit(r)
  BY <1>1, <1>2, OpenUploadCopies, ClearFilesCopies, OpenItemCopies, RemoveCopies, StoreCopies,
     CommitCopies
<1>3. CASE \E p \in Procs : ChatLoad(p) \/ Restart(p) \/ Crash(p)
  BY <1>1, <1>3, ChatLoadCopies, RestartCopies, CrashCopies
<1>4. CASE \E r \in Requests : Arrive(r)
  <2>1. PICK r \in Requests : Arrive(r)
    BY <1>4
  <2>2. /\ phase[r] = "idle" /\ phase'[r] = "arrived" /\ job' = job /\ job[r] = "none"
        /\ \A k \in Requests : k # r => phase'[k] = phase[k] /\ ask'[k] = ask[k]
        /\ UNCHANGED <<onDisk, disk, heap, cache, vs, found, stored, lock>>
    BY <2>1 DEF Arrive, memory, files, queue, Base, TypeOK, Progress
  <2>3. NoLateJobs'
    BY <2>2 DEF CopiesInv, NoLateJobs
  <2> QED
    BY <2>2, <2>3, CopiesLeft
<1>5. CASE \E r \in Requests : Submit(r)
  <2>1. PICK r \in Requests : Submit(r)
    BY <1>5
  <2>2. /\ phase[r] = "opened" /\ phase'[r] = "submitted" /\ r \notin stored
        /\ \A k \in Requests : k # r => phase'[k] = phase[k] /\ job'[k] = job[k]
        /\ job'[r] = "accepted"
        /\ UNCHANGED <<onDisk, disk, heap, cache, vs, found, stored, lock, ask>>
    BY <2>1 DEF Submit, Queue!Accept, memory, files, db, Base, TypeOK, Progress
  <2>3. NoLateJobs'
    BY <2>2 DEF CopiesInv, NoLateJobs
  <2> QED
    BY <2>2, <2>3, CopiesLeft
<1>6. CASE \/ \E r \in Requests : StartJob(r) \/ EndJob(r)
           \/ \E p \in Procs : ChatMiss(p)
           \/ UNCHANGED vars
  <2>1. UNCHANGED <<onDisk, disk, heap, cache, vs, found, stored, lock, phase, ask>>
    BY <1>6 DEF StartJob, EndJob, ChatMiss, vars, memory, files, db
  <2>2. NoLateJobs'
    BY <1>6, <2>1
    DEF StartJob, EndJob, ChatMiss, vars, queue, Queue!Start, Queue!Finish, CopiesInv, NoLateJobs,
        Base, TypeOK
  <2> QED
    BY <2>1, <2>2, CopiesLeft
<1>7. \A r \in Requests : ~Refused(r) /\ ~StoreNotWritten(r) /\ ~JobError(r) /\ ~Timeout(r)
  BY DEF Refused, StoreNotWritten, JobError, Timeout, CopiesInv, NoLateJobs
<1> QED
  BY <1>2, <1>3, <1>4, <1>5, <1>6, <1>7 DEF Next

LEMMA CopiesHold ==
  ASSUME OneProcess, Faults \subseteq {"crash"}
  PROVE  Spec => [](Base /\ CopiesInv)
<1>1. Init => Base /\ CopiesInv
  BY BaseStarts, CopiesStart
<1>2. Base /\ CopiesInv /\ [Next]_vars => Base' /\ CopiesInv'
  BY BaseStep, CopiesStep
<1> QED
  BY <1>1, <1>2, PTL DEF Spec

(* With one process that may crash, and no other fault, a chat turn between
   two requests reads what was last written, ... *)
THEOREM ChatReadsDisk ==
  ASSUME OneProcess, Faults \subseteq {"crash"}
  PROVE  Spec => []ChatFresh
<1>1. Base /\ CopiesInv => ChatFresh
  BY DEF CopiesInv
<1> QED
  BY <1>1, CopiesHold, PTL

(* ... and what an answered deletion took off the disk never comes back. *)
THEOREM DeletedStaysGone ==
  ASSUME OneProcess, Faults \subseteq {"crash"}
  PROVE  Spec => []DeletedIsGone
<1>1. Base /\ CopiesInv => DeletedIsGone
  BY DEF CopiesInv
<1> QED
  BY <1>1, CopiesHold, PTL
-----------------------------------------------------------------------------
(* The store and the rows, with one process that reads the last commit, and no
   faults. *)
Docs == {row.doc : row \in rows}

(* What the disk holds while r is under the lock *)
DiskFollows(r) ==
  disk = IF r \notin stored THEN Docs
         ELSE IF found[r] = Nil THEN Docs \cup {r} ELSE (Docs \ {found[r].doc}) \cup {r}

Idle == \A p \in Procs : lock[p] = Nil

TextFollows(r) ==
  /\ phase[r] = "submitted" => source[ask[r].file] = r
  /\ \A row \in rows :
       source[row.file] = row.doc \/ (phase[r] = "submitted" /\ row.file = ask[r].file)

ContentsInv ==
  /\ Idle => disk = Docs /\ \A row \in rows : source[row.file] = row.doc
  /\ \A r \in Requests : InLock(r) => DiskFollows(r) /\ TextFollows(r)
  /\ \A r \in Requests : phase[r] = "clearing" => rows = {}

Sound == Base /\ RowsInv /\ CopiesInv /\ ContentsInv

LEMMA ContentsStart == Init => ContentsInv
  BY DEF Init, ContentsInv, Docs, InLock

LEMMA IdleUnlocked ==
  ASSUME Base
  PROVE  Idle <=> \A k \in Requests : ~InLock(k)
  BY NilAssumption DEF Base, TypeOK, Locking, Idle, InLock, Ask

LEMMA ContentsLeft ==
  ASSUME ContentsInv, UNCHANGED <<rows, disk, source, stored, found, lock>>,
         \A k \in Requests : InLock(k)' => InLock(k) /\ phase'[k] = phase[k] /\ ask'[k] = ask[k]
  PROVE  ContentsInv'
<1>1. (Idle => disk = Docs /\ \A row \in rows : source[row.file] = row.doc)'
  BY DEF ContentsInv, Idle, Docs
<1>2. ASSUME NEW k \in Requests, InLock(k)'
      PROVE  DiskFollows(k)' /\ TextFollows(k)' /\ (phase'[k] = "clearing" => rows' = {})
  BY <1>2 DEF ContentsInv, DiskFollows, TextFollows, Docs
<1> QED
  BY <1>1, <1>2 DEF ContentsInv, InLock

LEMMA ContentsOfHolder ==
  ASSUME OneProcess, Base', NEW r \in Requests, InLock(r)', DiskFollows(r)', TextFollows(r)',
         phase'[r] = "clearing" => rows' = {}
  PROVE  ContentsInv'
<1>1. \A k \in Requests : InLock(k)' => k = r
  BY DEF Base, Locking, OneProcess, InLock, Ask
<1>2. ~Idle'
  BY NilAssumption DEF Base, Locking, Idle, InLock, Ask
<1> QED
  BY <1>1, <1>2 DEF ContentsInv, InLock

LEMMA ContentsUnlocked ==
  ASSUME \A k \in Requests : ~InLock(k)', disk' = Docs',
         \A row \in rows' : source'[row.file] = row.doc
  PROVE  ContentsInv'
  BY DEF ContentsInv, InLock

LEMMA OpenContents ==
  ASSUME OneProcess, ~SnapshotReads, Sound, Base', NEW r \in Requests, OpenUpload(r) \/ OpenItem(r)
  PROVE  ContentsInv'
<1>1. /\ phase[r] = "arrived" /\ ask[r].proc \in Procs /\ lock[ask[r].proc] = Nil
      /\ UNCHANGED <<rows, ask, disk, source, stored>> /\ View(r) = rows /\ r \notin stored
  BY DEF OpenUpload, OpenItem, MayLock, View, files, Sound, Base, Locking, Progress, Ask
<1>2. disk = Docs /\ \A row \in rows : source[row.file] = row.doc
  BY <1>1 DEF Idle, OneProcess, Sound, ContentsInv
<1>3. CASE phase'[r] \in {"clearing", "opened"}
  <2>1. phase'[r] = "clearing" => rows' = {}
    BY <1>1 DEF OpenUpload, OpenItem, Sound, Base, TypeOK
  <2>2. DiskFollows(r)' /\ TextFollows(r)'
    BY <1>1, <1>2, <1>3 DEF DiskFollows, TextFollows, Docs
  <2> QED
    BY <1>3, <2>1, <2>2, ContentsOfHolder DEF InLock
<1>4. CASE phase' = [phase EXCEPT ![r] = "failed"] /\ UNCHANGED <<found, lock>>
  BY <1>1, <1>4, ContentsLeft DEF InLock, Sound, Base, TypeOK
<1> QED
  BY <1>3, <1>4 DEF OpenUpload, OpenItem, Sound, Base, TypeOK

LEMMA ClearFilesContents ==
  ASSUME OneProcess, Sound, Base', NEW r \in Requests, ClearFiles(r)
  PROVE  ContentsInv'
<1>1. /\ rows = {} /\ disk' = {} /\ phase'[r] = "opened" /\ r \notin stored
      /\ UNCHANGED <<rows, stored>>
  BY DEF ClearFiles, db, Sound, Base, TypeOK, Progress, ContentsInv
<1>2. DiskFollows(r)' /\ TextFollows(r)'
  BY <1>1 DEF DiskFollows, TextFollows, Docs
<1> QED
  BY <1>1, <1>2, ContentsOfHolder DEF InLock

LEMMA SubmitContents ==
  ASSUME OneProcess, Sound, Base', NEW r \in Requests, Submit(r)
  PROVE  ContentsInv'
<1>1. /\ InLock(r) /\ phase[r] = "opened" /\ phase'[r] = "submitted" /\ ask[r].file \in Files
      /\ source' = [source EXCEPT ![ask[r].file] = r]
      /\ UNCHANGED <<rows, disk, stored, found, ask>>
  BY DEF Submit, InLock, db, files, Sound, Base, TypeOK, Locking, Ask
<1>2. DiskFollows(r)'
  BY <1>1 DEF Sound, ContentsInv, DiskFollows, Docs
<1>3. \A row \in rows : source[row.file] = row.doc
  BY <1>1 DEF Sound, ContentsInv, TextFollows
<1>4. TextFollows(r)'
  BY <1>1, <1>3 DEF TextFollows, Sound, Base, TypeOK, Row
<1> QED
  BY <1>1, <1>2, <1>4, ContentsOfHolder DEF InLock

LEMMA StoreContents ==
  ASSUME OneProcess, Sound, Base', NEW r \in Requests, Store(r)
  PROVE  ContentsInv'
<1>1. /\ job[r] = "running" /\ r \notin stored /\ phase[r] = "submitted" /\ InLock(r)
      /\ ask[r].op \in {"upload", "update"}
      /\ ask[r].op # "upload" => found[r] # Nil
      /\ UNCHANGED <<rows, found, ask, phase, source>>
      /\ stored' = stored \cup {r} /\ disk' = heap'[vs'[r]]
  BY DEF Store, ChangeStore, InLock, Sound, CopiesInv, NoLateJobs, Base, Locking, Progress, RowsStored,
         Ask, Ops, db
<1>2. disk = Docs /\ TextFollows(r)
  BY <1>1 DEF Sound, ContentsInv, DiskFollows
<1>3. heap'[vs'[r]] = IF found[r] = Nil THEN Docs \cup {r} ELSE (Docs \ {found[r].doc}) \cup {r}
  <2>1. CASE vs[r] # Nil
    <3>1. vs[r] \in Objects /\ heap[vs[r]] = Docs \ Taken(r)
      BY <1>1, <1>2, <2>1 DEF Sound, CopiesInv, BeforeStore, Base, TypeOK
    <3>2. vs' = vs /\ heap'[vs[r]] = Grown(r)
      BY <2>1, <3>1 DEF Store, ChangeStore, Sound, Base, TypeOK
    <3>3. CASE ask[r].op = "upload"
      BY <1>1, <3>1, <3>2, <3>3 DEF Grown, Taken
    <3>4. CASE ask[r].op = "update"
      BY <1>1, <3>1, <3>2, <3>4 DEF Grown, Taken
    <3> QED
      BY <1>1, <3>3, <3>4
  <2>2. CASE vs[r] = Nil
    <3>1. Docs = {}
      BY <1>1, <1>2, <2>2 DEF Sound, CopiesInv, BeforeStore
    <3>2. heap'[vs'[r]] = {r}
      BY <1>1, <2>2, NewIsNew DEF Store, ChangeStore, Sound, Base, TypeOK
    <3> QED
      BY <3>1, <3>2
  <2> QED
    BY <2>1, <2>2
<1>4. DiskFollows(r)'
  BY <1>1, <1>3 DEF DiskFollows, Docs
<1>5. TextFollows(r)'
  BY <1>1, <1>2 DEF TextFollows
<1> QED
  BY <1>1, <1>4, <1>5, ContentsOfHolder DEF InLock

(* Without the row of an id, its vectors are the ones that are missing. *)
LEMMA DocsWithout ==
  ASSUME RowsInv, NEW old \in rows
  PROVE  {row.doc : row \in {row \in rows : row.id # old.id}} = Docs \ {old.doc}
  BY DEF RowsInv, RowsUnique, Docs

LEMMA CommitContents ==
  ASSUME OneProcess, Sound, NEW r \in Requests, Commit(r)
  PROVE  ContentsInv'
<1>1. /\ InLock(r) /\ ask[r].file \in Files /\ phase[r] = "submitted" /\ phase' = [phase EXCEPT ![r] = "ok"]
      /\ UNCHANGED <<disk, source>> /\ r \in stored
  BY CommitFinds, CommitBase DEF Sound, Commit, files, Ask
<1>2. /\ source[ask[r].file] = r
      /\ \A row \in rows : row.file # ask[r].file => source[row.file] = row.doc
  BY <1>1 DEF Sound, ContentsInv, TextFollows
<1>3. disk = IF found[r] = Nil THEN Docs \cup {r} ELSE (Docs \ {found[r].doc}) \cup {r}
  BY <1>1 DEF Sound, ContentsInv, DiskFollows
<1>4. \A k \in Requests : ~InLock(k)'
  BY <1>1, OnlyHolder DEF InLock, Sound, Base, TypeOK
<1>5. CASE found[r] = Nil
  <2>1. /\ rows' = rows \cup {NewRow(r)} /\ \A row \in rows : row.file # ask[r].file
        /\ NewRow(r).file = ask[r].file /\ NewRow(r).doc = r
    BY <1>5, CommitFinds DEF Sound, NewRow
  <2>2. Docs' = Docs \cup {r}
    BY <2>1 DEF Docs
  <2>3. \A row \in rows' : source'[row.file] = row.doc
    BY <1>1, <1>2, <2>1
  <2> QED
    BY <1>1, <1>3, <1>4, <1>5, <2>2, <2>3, ContentsUnlocked
<1>6. CASE found[r] # Nil
  <2> DEFINE old == found[r]
             changed == [found[r] EXCEPT !.doc = r]
             others == {row \in rows : row.id # old.id}
  <2>1. /\ old \in rows /\ old.file = ask[r].file /\ rows' = others \cup {changed}
        /\ changed.file = old.file /\ changed.doc = r
    BY <1>6, CommitFinds DEF Sound, Row
  <2> HIDE DEF changed
  <2>2. Docs' = (Docs \ {old.doc}) \cup {r}
    <3>1. Docs' = {row.doc : row \in others} \cup {r}
      BY <2>1 DEF Docs
    <3> QED
      BY <2>1, <3>1, DocsWithout DEF Sound
  <2>3. \A row \in others : row.file # ask[r].file
    BY <2>1 DEF Sound, RowsInv, RowsUnique
  <2>4. \A row \in rows' : source'[row.file] = row.doc
    BY <1>1, <1>2, <2>1, <2>3
  <2> QED
    BY <1>1, <1>3, <1>4, <1>6, <2>2, <2>4, ContentsUnlocked
<1> QED
  BY <1>5, <1>6

LEMMA RemoveContents ==
  ASSUME OneProcess, Faults = {}, Sound, NEW r \in Requests, Remove(r)
  PROVE  ContentsInv'
<1> DEFINE old == found[r]
           o == vs[r]
<1>1. /\ phase[r] = "opened" /\ InLock(r) /\ ask[r].op = "delete" /\ ask[r].file \in Files /\ r \notin stored
      /\ phase' = [phase EXCEPT ![r] = "ok"] /\ old # Nil
      /\ source' = [source EXCEPT ![ask[r].file] = Nil]
      /\ rows' = {row \in rows : row.id # old.id}
  BY DEF Remove, Release, InLock, Sound, Base, Locking, Progress, RowsStored, Ask
<1>2. old \in rows /\ old.file = ask[r].file
  BY <1>1 DEF Sound, RowsInv, FoundHolds
<1>3. disk = Docs /\ \A row \in rows : source[row.file] = row.doc
  BY <1>1 DEF Sound, ContentsInv, DiskFollows, TextFollows
<1>4. disk' = disk \ {old.doc}
  <2>1. old.doc \in disk
    BY <1>2, <1>3 DEF Docs
  <2>2. o # Nil /\ heap[o] = disk \ Taken(r) /\ Taken(r) = {}
    BY <1>1, <2>1 DEF Sound, CopiesInv, BeforeStore, Taken
  <2>3. disk' = Left(o, old.doc)
    BY <2>1, <2>2 DEF Remove
  <2> QED
    BY <2>2, <2>3 DEF Left
<1>5. Docs' = Docs \ {old.doc}
  BY <1>1, <1>2, DocsWithout DEF Sound, Docs
<1>6. \A row \in rows' : source'[row.file] = row.doc
  <2>1. \A row \in rows' : row \in rows /\ row.file # ask[r].file /\ row.file \in Files
    BY <1>1, <1>2 DEF Sound, RowsInv, RowsUnique, Base, TypeOK, Row
  <2> QED
    BY <1>1, <1>3, <2>1 DEF Sound, Base, TypeOK
<1>7. \A k \in Requests : ~InLock(k)'
  BY <1>1, OnlyHolder DEF InLock, Sound, Base, TypeOK
<1> QED
  BY <1>3, <1>4, <1>5, <1>6, <1>7, ContentsUnlocked

LEMMA SoundStep ==
  ASSUME OneProcess, ~SnapshotReads, Faults = {}, Sound, [Next]_vars
  PROVE  Sound'
<1>1. Base' /\ RowsInv' /\ CopiesInv'
  BY BaseStep, RowsStep, CopiesStep DEF Sound
<1>2. CASE \E r \in Requests :
             OpenUpload(r) \/ ClearFiles(r) \/ OpenItem(r) \/ Submit(r) \/ Remove(r) \/ Store(r) \/ Commit(r)
  BY <1>1, <1>2, OpenContents, ClearFilesContents, SubmitContents, RemoveContents, StoreContents,
     CommitContents DEF Sound
<1>3. CASE \/ \E r \in Requests : Arrive(r) \/ StartJob(r) \/ EndJob(r)
           \/ \E p \in Procs : ChatMiss(p) \/ ChatLoad(p) \/ Restart(p)
           \/ UNCHANGED vars
  <2>1. UNCHANGED <<rows, disk, source, stored, found, lock>>
    BY <1>3 DEF Arrive, StartJob, EndJob, ChatMiss, ChatLoad, Restart, vars, db, files
  <2>2. \A k \in Requests : InLock(k)' => InLock(k) /\ phase'[k] = phase[k] /\ ask'[k] = ask[k]
    BY <1>3
    DEF Arrive, StartJob, EndJob, ChatMiss, ChatLoad, Restart, vars, InLock, Sound, Base, TypeOK
  <2> QED
    BY <1>1, <2>1, <2>2, ContentsLeft DEF Sound
<1>4. \A r \in Requests : ~Refused(r) /\ ~StoreNotWritten(r) /\ ~JobError(r) /\ ~Timeout(r)
  BY DEF Refused, StoreNotWritten, JobError, Timeout, Sound, CopiesInv, NoLateJobs
<1>5. \A p \in Procs : ~Crash(p)
  BY DEF Crash
<1> QED
  BY <1>1, <1>2, <1>3, <1>4, <1>5 DEF Next, Sound

LEMMA SoundHolds ==
  ASSUME OneProcess, ~SnapshotReads, Faults = {}
  PROVE  Spec => []Sound
<1>1. Init => Sound
  BY BaseStarts, RowsStart, CopiesStart, ContentsStart DEF Sound
<1>2. Sound /\ [Next]_vars => Sound'
  BY SoundStep
<1> QED
  BY <1>1, <1>2, PTL DEF Spec

(* When nothing fails, on one process that reads the last commit, the store,
   the rows and the source files agree: no row lacks its vectors but while its
   holder replaces them, *)
THEOREM StoreBacksRows ==
  ASSUME OneProcess, ~SnapshotReads, Faults = {}
  PROVE  Spec => []RowsBacked
<1>1. ASSUME Sound, NEW row \in rows
      PROVE  row.doc \in disk \/ \E r \in Requests : Replacing(r, row)
  <2>1. row.doc \in Docs
    BY DEF Docs
  <2>2. CASE Idle
    BY <1>1, <2>1, <2>2 DEF Sound, ContentsInv
  <2>3. CASE ~Idle
    <3>1. PICK r \in Requests : InLock(r)
      BY <1>1, <2>3, IdleUnlocked DEF Sound
    <3>2. DiskFollows(r) /\ Holder(r) /\ RowsUnique
      BY <1>1, <3>1 DEF Sound, ContentsInv, RowsInv, Base, Locking, InLock, Ask, Holder
    <3>3. found[r] # Nil => found[r] \in rows
      BY <1>1, <3>1 DEF Sound, RowsInv, FoundHolds
    <3> QED
      BY <2>1, <3>2, <3>3 DEF DiskFollows, Replacing, RowsUnique
  <2> QED
    BY <2>2, <2>3
<1>2. Sound => RowsBacked
  BY <1>1 DEF RowsBacked
<1> QED
  BY <1>2, SoundHolds, PTL

(* the disk holds nobody else's vectors, *)
THEOREM StoreHasNoOrphans ==
  ASSUME OneProcess, ~SnapshotReads, Faults = {}
  PROVE  Spec => []NoOrphans
<1>1. ASSUME Sound, NEW d \in disk
      PROVE  (\E row \in rows : row.doc = d) \/ (Holder(d) /\ d \in stored)
  <2>1. CASE Idle
    BY <1>1, <2>1 DEF Sound, ContentsInv, Docs
  <2>2. CASE ~Idle
    <3>1. PICK r \in Requests : InLock(r)
      BY <1>1, <2>2, IdleUnlocked DEF Sound
    <3>2. DiskFollows(r) /\ Holder(r)
      BY <1>1, <3>1 DEF Sound, ContentsInv, Base, Locking, InLock, Ask, Holder
    <3> QED
      BY <1>1, <3>2 DEF DiskFollows, Docs
  <2> QED
    BY <2>1, <2>2
<1>2. Sound => NoOrphans
  BY <1>1 DEF NoOrphans
<1> QED
  BY <1>2, SoundHolds, PTL

(* and the text of a file is the text that was embedded. *)
THEOREM TextIsEmbedded ==
  ASSUME OneProcess, ~SnapshotReads, Faults = {}
  PROVE  Spec => []SourceMatches
<1>1. Sound => SourceMatches
  BY DEF Sound, ContentsInv, SourceMatches, Idle
<1> QED
  BY <1>1, SoundHolds, PTL
=============================================================================
