---------------------------- MODULE KnowledgeBase ----------------------------
(***************************************************************************)
(* What upload, update and deletion of a file (backend/routers/            *)
(* assistant.py, 238-329) promise to those who list the knowledge base,    *)
(* without saying how: a call that is answered with success has taken      *)
(* effect once, in one step between its arrival and its answer; one that   *)
(* fails has changed nothing; and a name has one text at a time.           *)
(***************************************************************************)
CONSTANTS
  Requests,   \* the calls, and the texts they bring
  Files,      \* the names
  Nil         \* no wish yet

VARIABLES
  texts,      \* what is listed under each name: the text of one call, or none
  wish,       \* what each call asks
  answer      \* what each call was told

vars == <<texts, wish, answer>>

Wish == [op : {"upload", "update", "delete"}, file : Files]

Init ==
  /\ texts = [f \in Files |-> {}]
  /\ wish = [r \in Requests |-> Nil]
  /\ answer = [r \in Requests |-> "none"]

(* A call arrives; what it updates or deletes is listed. *)
Ask(r) ==
  /\ answer[r] = "none"
  /\ \E w \in Wish :
       /\ w.op # "upload" => texts[w.file] # {}
       /\ wish' = [wish EXCEPT ![r] = w]
  /\ answer' = [answer EXCEPT ![r] = "awaited"]
  /\ UNCHANGED texts

(* An upload or an update takes effect and is answered: its text is the one
   text of its name; an update finds an older one. *)
Put(r) ==
  /\ answer[r] = "awaited" /\ wish[r].op # "delete"
  /\ wish[r].op = "update" => texts[wish[r].file] # {}
  /\ texts' = [texts EXCEPT ![wish[r].file] = {r}]
  /\ answer' = [answer EXCEPT ![r] = "ok"]
  /\ UNCHANGED wish

(* A deletion takes effect and is answered. *)
Delete(r) ==
  /\ answer[r] = "awaited" /\ wish[r].op = "delete"
  /\ texts[wish[r].file] # {}
  /\ texts' = [texts EXCEPT ![wish[r].file] = {}]
  /\ answer' = [answer EXCEPT ![r] = "ok"]
  /\ UNCHANGED wish

(* Calls fail, several at a time when a process dies. *)
Fail(failing) ==
  /\ \A r \in failing : answer[r] = "awaited"
  /\ answer' = [r \in Requests |-> IF r \in failing THEN "failed" ELSE answer[r]]
  /\ UNCHANGED <<texts, wish>>

Next ==
  \/ \E r \in Requests : Ask(r) \/ Put(r) \/ Delete(r)
  \/ \E failing \in SUBSET Requests : Fail(failing)

Spec == Init /\ [][Next]_vars
=============================================================================
