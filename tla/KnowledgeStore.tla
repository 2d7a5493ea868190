--------------------------- MODULE KnowledgeStore ---------------------------
(***************************************************************************)
(* The knowledge base of one assistant (backend/services/vector_service.py):*)
(* the rows of knowledge_base, the FAISS store on disk, the copy every     *)
(* server process caches in memory, and the source files, under uploads,   *)
(* updates and deletions that arrive concurrently.                         *)
(*                                                                         *)
(* A request runs on the event loop of its process and keeps the           *)
(* process's asyncio write lock from its first query to its answer.  The   *)
(* heavy part of an upload or an update is a job of the queue (JobService, *)
(* which RagQueue implements) and runs in a thread, under the disk lock.   *)
(*                                                                         *)
(* Data is abstracted to what identifies it: the vectors an upload or an   *)
(* update puts into the store (its doc_ids) are the request itself, and so *)
(* is the text it writes to the source file and the id of the row it adds. *)
(* A FAISS store in memory is an object of the heap: the cache, a request  *)
(* and a job that hold the same object see each other's changes.           *)
(*                                                                         *)
(* An operator named X_... before an operator X is X as a plausible slip   *)
(* would have it; no specification uses it but the checks of the           *)
(* properties (README, "Mutants").                                         *)
(***************************************************************************)
EXTENDS Naturals, FiniteSets

CONSTANTS
  Requests,       \* the calls of the three endpoints
  Files,          \* the names of the uploaded files
  Procs,          \* the server's processes (UVICORN_WORKERS)
  Objects,        \* identities of the FAISS objects in memory
  Nil,            \* Python's None
  SnapshotReads,  \* the database reads a snapshot (MariaDB), or the last commit
  Faults          \* what may go wrong

FaultKinds == {
  "timeout",      \* RAG_QUEUE_TIMEOUT passes before the job is done
  "refuse",       \* 429, or a name without extension: raised before queueing
  "load",         \* the job raises before it touches the store
  "write",        \* the store is changed in memory and cannot be written
  "late",         \* the job raises after it has written the store
  "crash" }       \* a process dies

ASSUME NilAssumption == Nil \notin Requests \cup Files \cup Procs \cup Objects
ASSUME SwitchesAssumption == SnapshotReads \in BOOLEAN /\ Faults \subseteq FaultKinds
\* Each process's cache and chat read, and each request, keeps at most one object alive.
ASSUME ObjectsAssumption ==
  /\ IsFiniteSet(Objects) /\ IsFiniteSet(Procs) /\ IsFiniteSet(Requests)
  /\ Cardinality(Objects) > Cardinality(Procs) + Cardinality(Requests)

VARIABLES
  rows,           \* knowledge_base: [id, file, doc] records
  onDisk,         \* the store's two files exist
  disk,           \* the vectors in them
  source,         \* uploaded_files: whose text each file holds
  heap,           \* the vectors in each FAISS object
  cache,          \* vector_store[aid] of each process
  chat,           \* the processes where a chat turn is about to load the store
  lock,           \* the request that holds each process's write lock
  phase,          \* how far each request is
  ask,            \* what each request asks, and on which process
  snap,           \* the rows each request's transaction sees
  found,          \* the row each request has found (existing_entry, record)
  vs,             \* the FAISS object each request, or its job, works on
  stored,         \* the jobs that are past their store step
  call, job       \* the queue's side of each request

db == <<rows, snap, found>>
memory == <<heap, cache, vs>>
files == <<onDisk, disk>>
queue == <<call, job>>
vars == <<rows, onDisk, disk, source, heap, cache, chat, lock, phase, ask, snap,
          found, vs, stored, call, job>>

Queue == INSTANCE JobService WITH Jobs <- Requests

Ops == {"upload", "update", "delete"}
Row == [id : Requests, file : Files, doc : Requests]
ASSUME RowAssumption == Nil \notin Row
Ask == [op : Ops, file : Files, id : Requests \cup {Nil}, proc : Procs]

TypeOK ==
  /\ rows \subseteq Row
  /\ onDisk \in BOOLEAN
  /\ disk \subseteq Requests
  /\ source \in [Files -> Requests \cup {Nil}]
  /\ heap \in [Objects -> SUBSET Requests]
  /\ cache \in [Procs -> Objects \cup {Nil}]
  /\ chat \subseteq Procs
  /\ lock \in [Procs -> Requests \cup {Nil}]
  /\ phase \in [Requests -> {"idle", "arrived", "clearing", "opened", "submitted", "ok", "failed"}]
  /\ ask \in [Requests -> Ask \cup {Nil}]
  /\ snap \in [Requests -> SUBSET Row]
  /\ found \in [Requests -> Row \cup {Nil}]
  /\ vs \in [Requests -> Objects \cup {Nil}]
  /\ stored \subseteq Requests
  /\ call \in [Requests -> Queue!CallStates]
  /\ job \in [Requests -> Queue!JobStates]

Init ==
  /\ rows = {}
  /\ onDisk = FALSE
  /\ disk = {}
  /\ source = [f \in Files |-> Nil]
  /\ heap = [o \in Objects |-> {}]
  /\ cache = [p \in Procs |-> Nil]
  /\ chat = {}
  /\ lock = [p \in Procs |-> Nil]
  /\ phase = [r \in Requests |-> "idle"]
  /\ ask = [r \in Requests |-> Nil]
  /\ snap = [r \in Requests |-> {}]
  /\ found = [r \in Requests |-> Nil]
  /\ vs = [r \in Requests |-> Nil]
  /\ stored = {}
  /\ Queue!Init
-----------------------------------------------------------------------------
(* An object is alive while a cache, a request in progress or a job refers to it. *)
Working(r) == phase[r] \in {"opened", "submitted"} \/ job[r] \in {"accepted", "running"}
Alive(o) ==
  \/ \E p \in Procs : cache[p] = o
  \/ \E r \in Requests : Working(r) /\ vs[r] = o

(* The object a new FAISS instance gets: one that nothing refers to. *)
New == CHOOSE o \in Objects : ~Alive(o)

(* What a query of request r sees.  The endpoint's dependency get_owned_assistant
   reads through the same session before the write lock is taken, so under
   REPEATABLE READ the transaction's snapshot is as old as the arrival. *)
View(r) == IF SnapshotReads THEN snap[r] ELSE rows

(* "async with": the process's lock is waited for, and released with the answer. *)
MayLock_Always(p) == p \in Procs
MayLock(p) == lock[p] = Nil

Release_OnSuccess(r, answer) ==
  /\ lock' = IF answer = "ok" THEN [lock EXCEPT ![ask[r].proc] = Nil] ELSE lock
  /\ phase' = [phase EXCEPT ![r] = answer]
Release(r, answer) ==
  /\ lock' = [lock EXCEPT ![ask[r].proc] = Nil]
  /\ phase' = [phase EXCEPT ![r] = answer]

(* The row of an earlier upload under the same name. *)
SameName(r) == {row \in View(r) : row.file = ask[r].file}

Pruned_Nothing(vectors, gone) == vectors
Pruned(vectors, gone) == vectors \ gone

(* get_vector_store: the cached object, or the store loaded from disk and
   cached, or None.  The vectors of "gone" leave the object at once, in memory
   only: the files follow when a job writes the store. *)
GetStore(r, p, gone) ==
  \/ /\ cache[p] # Nil
     /\ vs' = [vs EXCEPT ![r] = cache[p]]
     /\ heap' = [heap EXCEPT ![cache[p]] = Pruned(@, gone)]
     /\ UNCHANGED cache
  \/ /\ cache[p] = Nil /\ onDisk
     /\ heap' = [heap EXCEPT ![New] = Pruned(disk, gone)]
     /\ cache' = [cache EXCEPT ![p] = New]
     /\ vs' = [vs EXCEPT ![r] = New]
  \/ /\ cache[p] = Nil /\ ~onDisk
     /\ vs' = [vs EXCEPT ![r] = Nil]
     /\ UNCHANGED <<heap, cache>>
-----------------------------------------------------------------------------
(* The request is authenticated and its assistant read; it now waits for the
   write lock.  An update or a deletion names a row the client has listed. *)
Arrive(r) ==
  /\ phase[r] = "idle"
  /\ \E p \in Procs :
       \/ \E f \in Files :
            ask' = [ask EXCEPT ![r] = [op |-> "upload", file |-> f, id |-> Nil, proc |-> p]]
       \/ \E row \in rows, op \in {"update", "delete"} :
            ask' = [ask EXCEPT ![r] = [op |-> op, file |-> row.file, id |-> row.id, proc |-> p]]
  /\ snap' = IF SnapshotReads THEN [snap EXCEPT ![r] = rows] ELSE snap
  /\ phase' = [phase EXCEPT ![r] = "arrived"]
  /\ UNCHANGED <<rows, found, memory, files, source, chat, lock, stored, queue>>

(* process_and_store_file takes the lock and looks up the row of this name.
   The store is opened and a previous upload's vectors leave it; but a store
   that no row accounts for is to be cleared: the cached copy goes first. *)
OpenUpload(r) ==
  LET p == ask[r].proc
      stale == View(r) = {} /\ onDisk
  IN
  /\ phase[r] = "arrived" /\ ask[r].op = "upload"
  /\ MayLock(p)
  /\ lock' = [lock EXCEPT ![p] = r]
  /\ \/ /\ stale
        /\ phase' = [phase EXCEPT ![r] = "clearing"]
        /\ cache' = [cache EXCEPT ![p] = Nil]
        /\ UNCHANGED <<found, vs, heap>>
     \/ /\ ~stale /\ SameName(r) = {}
        /\ phase' = [phase EXCEPT ![r] = "opened"]
        /\ GetStore(r, p, {})
        /\ UNCHANGED found
     \/ \E row \in SameName(r) :
        /\ phase' = [phase EXCEPT ![r] = "opened"]
        /\ found' = [found EXCEPT ![r] = row]
        /\ GetStore(r, p, {row.doc})
  /\ UNCHANGED <<rows, snap, files, source, chat, ask, stored, queue>>

(* clear_vector_store_files, under the disk lock: both files are removed. *)
ClearFiles(r) ==
  /\ phase[r] = "clearing"
  /\ onDisk' = FALSE
  /\ disk' = {}
  /\ phase' = [phase EXCEPT ![r] = "opened"]
  /\ UNCHANGED <<db, memory, source, chat, lock, ask, stored, queue>>

(* update_knowledge_base_item and delete_knowledge_base_item up to
   get_vector_store; a row that is gone is answered at once. *)
OpenItem(r) ==
  LET p == ask[r].proc IN
  /\ phase[r] = "arrived" /\ ask[r].op # "upload"
  /\ MayLock(p)
  /\ \/ \E row \in View(r) :
        /\ row.id = ask[r].id
        /\ found' = [found EXCEPT ![r] = row]
        /\ GetStore(r, p, {})
        /\ lock' = [lock EXCEPT ![p] = r]
        /\ phase' = [phase EXCEPT ![r] = "opened"]
     \/ /\ \A row \in View(r) : row.id # ask[r].id
        /\ phase' = [phase EXCEPT ![r] = "failed"]
        /\ UNCHANGED <<found, memory, lock>>
  /\ UNCHANGED <<rows, snap, files, source, chat, ask, stored, queue>>

(* The source file is written, then the job is queued. *)
Submit_KeepsText(r) ==
  /\ phase[r] = "opened" /\ ask[r].op # "delete"
  /\ source' = IF ask[r].op = "upload" THEN [source EXCEPT ![ask[r].file] = r] ELSE source
  /\ Queue!Accept(r)
  /\ phase' = [phase EXCEPT ![r] = "submitted"]
  /\ UNCHANGED <<db, files, memory, chat, lock, ask, stored>>
Submit(r) ==
  /\ phase[r] = "opened" /\ ask[r].op # "delete"
  /\ source' = [source EXCEPT ![ask[r].file] = r]
  /\ Queue!Accept(r)
  /\ phase' = [phase EXCEPT ![r] = "submitted"]
  /\ UNCHANGED <<db, files, memory, chat, lock, ask, stored>>

(* The source file is written, then the upload has no extension or the queue
   is full: the request fails and the lock is released. *)
Refused(r) ==
  /\ "refuse" \in Faults
  /\ phase[r] = "opened" /\ ask[r].op # "delete"
  /\ source' = [source EXCEPT ![ask[r].file] = r]
  /\ Queue!Refuse(r)
  /\ Release(r, "failed")
  /\ UNCHANGED <<db, files, memory, chat, ask, stored>>

Left_All(o, doc) == heap[o]
Left(o, doc) == heap[o] \ {doc}

(* The rest of delete_knowledge_base_item, in one go: the vectors leave the
   object and the store is written (an error there is logged and ignored; so
   is an id the object does not hold), the source file and the row go. *)
Remove(r) ==
  LET o == vs[r]
      doc == found[r].doc
      left == Left(o, doc)
      known == o # Nil /\ doc \in heap[o]
  IN
  /\ phase[r] = "opened" /\ ask[r].op = "delete"
  /\ \/ /\ known
        /\ heap' = [heap EXCEPT ![o] = left]
        /\ \/ /\ disk' = left
              /\ onDisk' = TRUE
              /\ cache' = [cache EXCEPT ![ask[r].proc] = o]
           \/ /\ "write" \in Faults
              /\ UNCHANGED <<files, cache>>
     \/ /\ ~known
        /\ UNCHANGED <<heap, files, cache>>
  /\ source' = [source EXCEPT ![ask[r].file] = Nil]
  /\ rows' = {row \in rows : row.id # found[r].id}
  /\ Release(r, "ok")
  /\ UNCHANGED <<snap, found, vs, chat, ask, stored, queue>>
-----------------------------------------------------------------------------
(* A worker takes the job: the file is loaded, split and embedded. *)
StartJob(r) ==
  /\ Queue!Start(r)
  /\ UNCHANGED <<db, files, memory, source, chat, lock, phase, ask, stored>>

(* What the object holds after the job's changes.  An update takes the old
   vectors out first; ids the object does not hold are ignored. *)
Grown(r) ==
  IF ask[r].op = "update" THEN (heap[vs[r]] \ {found[r].doc}) \cup {r}
                          ELSE heap[vs[r]] \cup {r}

ChangeStore_NotCached(r) ==
  /\ job[r] = "running" /\ r \notin stored
  /\ heap' = [heap EXCEPT ![New] = IF vs[r] = Nil THEN {r} ELSE Grown(r)]
  /\ vs' = [vs EXCEPT ![r] = New]
  /\ UNCHANGED cache

(* The store step, under the disk lock: add to the object the request opened,
   or build a new store from this file alone. *)
ChangeStore(r) ==
  LET p == ask[r].proc IN
  /\ job[r] = "running" /\ r \notin stored
  /\ \/ /\ vs[r] # Nil
        /\ heap' = [heap EXCEPT ![vs[r]] = Grown(r)]
        /\ cache' = IF ask[r].op = "upload" THEN [cache EXCEPT ![p] = vs[r]] ELSE cache
        /\ UNCHANGED vs
     \/ /\ vs[r] = Nil
        /\ heap' = [heap EXCEPT ![New] = {r}]
        /\ cache' = [cache EXCEPT ![p] = New]
        /\ vs' = [vs EXCEPT ![r] = New]

(* ... and write the whole object over the files. *)
Store(r) ==
  /\ ChangeStore(r)
  /\ onDisk' = TRUE
  /\ disk' = heap'[vs'[r]]
  /\ stored' = stored \cup {r}
  /\ UNCHANGED <<db, source, chat, lock, phase, ask, queue>>

StoreNotWritten(r) ==
  /\ "write" \in Faults
  /\ ChangeStore(r)
  /\ job' = [job EXCEPT ![r] = "failed"]
  /\ UNCHANGED <<db, files, source, chat, lock, phase, ask, stored, call>>

(* The summary is written and the job returns, or it raises on the way. *)
EndJob(r) ==
  /\ Queue!Finish(r)
  /\ job'[r] = "finished" => r \in stored
  /\ job'[r] = "failed" => (IF r \in stored THEN "late" ELSE "load") \in Faults
  /\ UNCHANGED <<db, files, memory, source, chat, lock, phase, ask, stored>>
-----------------------------------------------------------------------------
Succeeded_Ignored(r) == job[r] \in {"finished", "failed"}
Succeeded(r) == job[r] = "finished"

NewRow_WholeStore(r) == [id |-> r, file |-> ask[r].file, doc |-> vs[r]]
NewRow(r) == [id |-> r, file |-> ask[r].file, doc |-> r]

(* The job's outcome is back: the row is added, or points at the new vectors;
   an UPDATE that matches no row raises StaleDataError. *)
Commit(r) ==
  LET old == found[r] IN
  /\ Succeeded(r)
  /\ Queue!Answer(r)
  /\ cache' = IF ask[r].op = "update" THEN [cache EXCEPT ![ask[r].proc] = vs[r]] ELSE cache
  /\ \/ /\ old = Nil
        /\ rows' = rows \cup {NewRow(r)}
        /\ Release(r, "ok")
     \/ /\ old # Nil /\ \E row \in rows : row.id = old.id
        /\ rows' = {row \in rows : row.id # old.id} \cup {[old EXCEPT !.doc = r]}
        /\ Release(r, "ok")
     \/ /\ old # Nil /\ \A row \in rows : row.id # old.id
        /\ Release(r, "failed")
        /\ UNCHANGED rows
  /\ UNCHANGED <<snap, found, files, heap, vs, source, chat, ask, stored>>

(* The job raised, and so does the request. *)
JobError(r) ==
  /\ job[r] = "failed"
  /\ Queue!Answer(r)
  /\ Release(r, "failed")
  /\ UNCHANGED <<db, files, memory, source, chat, ask, stored>>

(* 504: the request ends and the lock is released; the job goes its way. *)
Timeout(r) ==
  /\ "timeout" \in Faults
  /\ Queue!Expire(r)
  /\ Release(r, "failed")
  /\ UNCHANGED <<db, files, memory, source, chat, ask, stored>>

(* A chat turn, in a thread of the LLM executor, finds nothing in the cache and
   the files on disk ... *)
ChatMiss(p) ==
  /\ cache[p] = Nil /\ onDisk
  /\ p \notin chat
  /\ chat' = chat \cup {p}
  /\ UNCHANGED <<db, memory, files, source, lock, phase, ask, stored, queue>>

(* ... and then loads them under the disk lock and caches the object; it fails
   when the files have gone in between. *)
ChatLoad(p) ==
  /\ p \in chat
  /\ chat' = chat \ {p}
  /\ \/ /\ onDisk
        /\ heap' = [heap EXCEPT ![New] = disk]
        /\ cache' = [cache EXCEPT ![p] = New]
     \/ /\ ~onDisk
        /\ UNCHANGED <<heap, cache>>
  /\ UNCHANGED <<db, vs, files, source, lock, phase, ask, stored, queue>>

Here(r, p) == phase[r] # "idle" /\ ask[r].proc = p
Busy(r) == phase[r] \notin {"idle", "ok", "failed"} \/ job[r] \in {"accepted", "running"}

(* The process is restarted when nothing is in progress: the cache is lost. *)
Restart(p) ==
  /\ \A r \in Requests : Here(r, p) => ~Busy(r)
  /\ cache' = [cache EXCEPT ![p] = Nil]
  /\ chat' = chat \ {p}
  /\ UNCHANGED <<db, heap, vs, files, source, lock, phase, ask, stored, queue>>

(* The process dies and comes back: its requests are never answered and its
   jobs never end.  (That the store's two files are written one after the
   other is a matter of VectorFiles.) *)
Crash(p) ==
  /\ "crash" \in Faults
  /\ \E r \in Requests : Here(r, p) /\ Busy(r)
  /\ phase' = [r \in Requests |->
                 IF Here(r, p) /\ phase[r] # "ok" THEN "failed" ELSE phase[r]]
  /\ call' = [r \in Requests |->
                 IF Here(r, p) /\ call[r] = "waiting" THEN "expired" ELSE call[r]]
  /\ job' = [r \in Requests |->
                 IF Here(r, p) /\ job[r] \in {"accepted", "running"} THEN "dropped" ELSE job[r]]
  /\ lock' = [lock EXCEPT ![p] = Nil]
  /\ cache' = [cache EXCEPT ![p] = Nil]
  /\ chat' = chat \ {p}
  /\ UNCHANGED <<db, heap, vs, files, source, ask, stored>>

Next ==
  \/ \E r \in Requests :
       \/ Arrive(r) \/ OpenUpload(r) \/ ClearFiles(r) \/ OpenItem(r) \/ Submit(r) \/ Refused(r) \/ Remove(r)
       \/ StartJob(r) \/ Store(r) \/ StoreNotWritten(r) \/ EndJob(r)
       \/ Commit(r) \/ JobError(r) \/ Timeout(r)
  \/ \E p \in Procs : ChatMiss(p) \/ ChatLoad(p) \/ Restart(p) \/ Crash(p)

Spec == Init /\ [][Next]_vars

(* The event loop resumes what is ready; asyncio.Lock serves its waiters in
   order, so one that can take the lock again and again gets it; the queue
   starts and ends every job (RagQueue!AcceptedRuns). *)
Fairness ==
  \A r \in Requests :
    /\ SF_vars(OpenUpload(r)) /\ SF_vars(OpenItem(r))
    /\ WF_vars(ClearFiles(r)) /\ WF_vars(Submit(r)) /\ WF_vars(Remove(r))
    /\ WF_vars(StartJob(r)) /\ WF_vars(Store(r)) /\ WF_vars(EndJob(r))
    /\ WF_vars(Commit(r)) /\ WF_vars(JobError(r))

FairSpec == Spec /\ Fairness
-----------------------------------------------------------------------------
Holder(r) == \E p \in Procs : lock[p] = r

(* The request that replaces a row's vectors and has already written the store. *)
Replacing(r, row) == Holder(r) /\ r \in stored /\ found[r] = row

(* Nothing a user was told is in the knowledge base is missing from the store:
   the vectors of every row are on disk, except while the request that
   replaces them stands between writing the store and updating the row. *)
RowsBacked ==
  \A row \in rows : row.doc \in disk \/ \E r \in Requests : Replacing(r, row)

(* Nothing is answered from a file that is not in the knowledge base: every
   vector on disk belongs to a row, or to the request that is about to add it. *)
NoOrphans ==
  \A d \in disk : (\E row \in rows : row.doc = d) \/ (Holder(d) /\ d \in stored)

(* A deletion that was answered has taken the vectors off the disk for good. *)
DeletedIsGone ==
  \A r \in Requests : phase[r] = "ok" /\ ask[r].op = "delete" => found[r].doc \notin disk

(* A chat turn reads what was last written: while no request is at work in a
   process its cached store, if any, holds what the files hold. *)
ChatFresh ==
  \A p \in Procs : lock[p] = Nil /\ cache[p] # Nil => onDisk /\ heap[cache[p]] = disk

(* The text a user can open and edit is the text that was embedded. *)
SourceMatches ==
  \A row \in rows : (\A p \in Procs : lock[p] = Nil) => source[row.file] = row.doc

(* What those who list the rows see: the texts under each name, what each
   request asked, and what it was told *)
listed == [f \in Files |-> {row.doc : row \in {named \in rows : named.file = f}}]
wished == [r \in Requests |->
             IF phase[r] = "idle" THEN Nil ELSE [op |-> ask[r].op, file |-> ask[r].file]]
told == [r \in Requests |->
           IF phase[r] \in {"ok", "failed"} THEN phase[r]
           ELSE IF phase[r] = "idle" THEN "none" ELSE "awaited"]

Listing == INSTANCE KnowledgeBase WITH texts <- listed, wish <- wished, answer <- told

(* The lock around several awaits makes each call one step on the listed rows,
   and a call that fails, times out or dies with its process changes none. *)
Atomic == Listing!Spec

(* A name has one row: a second upload replaces the first. *)
OneRowPerFile == \A row1, row2 \in rows : row1.file = row2.file => row1 = row2

(* Whatever fails, a row is added or changed only by the holder of a write
   lock whose own job has written the store and returned; and a request that
   fails leaves the rows alone. *)
RowsFollowJobs ==
  [][\A row \in rows' \ rows :
       /\ Holder(row.doc) /\ row.doc \in stored /\ job[row.doc] = "finished"
       /\ phase'[row.doc] = "ok"]_vars

(* Every request that has arrived is answered: no lock is kept by a request
   that has ended, and no job keeps its request for ever. *)
Served == \A r \in Requests : phase[r] = "arrived" ~> phase[r] \in {"ok", "failed"}
=============================================================================
