---------------------------- MODULE ChatSession ----------------------------
(***************************************************************************)
(* The server's side of one customer's chat (backend/routers/websocket.py):*)
(* the connections the customer's page makes one after the other, the      *)
(* handler each of them has, and the one entry the ConnectionManager keeps *)
(* for the customer (its key is the assistant and the customer, so two     *)
(* customers share nothing).                                               *)
(*                                                                         *)
(* A handler is a coroutine: an action takes it from one await to the      *)
(* next.  The LLM call runs in a thread and may take minutes.  Sending is  *)
(* always through the manager's entry, whichever connection that is.       *)
(*                                                                         *)
(* Outside the repository, and as starlette 0.40 and uvicorn 0.32 do it:   *)
(*  - sending to a connection the server knows to be closed raises         *)
(*    WebSocketDisconnect and marks it; sending to a marked one, or        *)
(*    starting to receive on it, raises RuntimeError;                      *)
(*  - a receive that is under way returns the texts that have come and     *)
(*    then raises WebSocketDisconnect;                                     *)
(*  - the server learns of a closed connection some time after the client  *)
(*    has gone (a close frame, or a ping that times out).                  *)
(*                                                                         *)
(* An operator named X_... before an operator X is X as a plausible slip   *)
(* would have it; no specification uses it but the checks of the           *)
(* properties (README, "Mutants").                                         *)
(***************************************************************************)
EXTENDS Naturals, FiniteSets

CONSTANTS
  Conns,          \* the customer's connections
  MaxTexts,       \* bound: the texts a client sends on one connection
  None,           \* no entry
  Overlap,        \* a page reconnects while an earlier handler is still there
  Faults          \* what may go wrong in a turn

FaultKinds == {
  "database",     \* a query or a commit raises
  "llm" }         \* the LLM call raises something else than a connection error

ASSUME NoneAssumption == None \notin Conns
ASSUME MaxTextsAssumption == MaxTexts \in Nat
ASSUME SwitchesAssumption == Overlap \in BOOLEAN /\ Faults \subseteq FaultKinds

VARIABLES
  active,         \* active_connections[key]
  pc,             \* where each handler is
  client,         \* each client: before, while and after it is connected
  link,           \* what the server knows of each connection
  inbox,          \* texts each handler has not read
  texts,          \* texts each client has sent
  asked, replied, \* messages of each conversation in the database
  thinking,       \* the page shows the indicator
  shown,          \* replies and apologies each page has shown
  hung            \* a handler loops without an await: the event loop stands still

world == <<client, link, inbox, texts>>
store == <<asked, replied>>
page == <<thinking, shown>>
vars == <<active, pc, world, store, page, hung>>

Steps == {"none", "receive", "saving", "llm", "answering", "apologising", "ended"}

TypeOK ==
  /\ active \in Conns \cup {None}
  /\ pc \in [Conns -> Steps]
  /\ client \in [Conns -> {"new", "on", "off"}]
  /\ link \in [Conns -> {"none", "up", "down", "marked"}]
  /\ inbox \in [Conns -> 0..MaxTexts]
  /\ texts \in [Conns -> 0..MaxTexts]
  /\ asked \in [Conns -> 0..MaxTexts]
  /\ replied \in [Conns -> 0..MaxTexts]
  /\ thinking \in [Conns -> BOOLEAN]
  /\ shown \in [Conns -> Nat]
  /\ hung \in BOOLEAN

Init ==
  /\ active = None
  /\ pc = [c \in Conns |-> "none"]
  /\ client = [c \in Conns |-> "new"]
  /\ link = [c \in Conns |-> "none"]
  /\ inbox = [c \in Conns |-> 0]
  /\ texts = [c \in Conns |-> 0]
  /\ asked = [c \in Conns |-> 0]
  /\ replied = [c \in Conns |-> 0]
  /\ thinking = [c \in Conns |-> FALSE]
  /\ shown = [c \in Conns |-> 0]
  /\ hung = FALSE
-----------------------------------------------------------------------------
(* What send_message does depends on the entry alone. *)
Reaches(c) == active = c /\ client[c] = "on"
SendsOrSkips == active = None \/ link[active] = "up"
SendRaisesDisconnect == active # None /\ link[active] = "down"
SendRaisesError == active # None /\ link[active] = "marked"
Marked == IF active = None THEN link ELSE [link EXCEPT ![active] = "marked"]

(* "@@@" and "###" switch the page's indicator; a text is shown. *)
ShowIndicator(on) == thinking' = [c \in Conns |-> IF Reaches(c) THEN on ELSE thinking[c]]
ShowText == shown' = [c \in Conns |-> IF Reaches(c) THEN shown[c] + 1 ELSE shown[c]]

(* WebSocketDisconnect, or an error outside a turn: the entry is deleted,
   whoever it belongs to, the handler returns and its connection is closed. *)
End_KeepsEntry(c, links) ==
  /\ pc' = [pc EXCEPT ![c] = "ended"]
  /\ link' = [links EXCEPT ![c] = IF @ = "up" THEN "down" ELSE @]
  /\ client' = [client EXCEPT ![c] = "off"]
  /\ UNCHANGED active
End(c, links) ==
  /\ active' = None
  /\ pc' = [pc EXCEPT ![c] = "ended"]
  /\ link' = [links EXCEPT ![c] = IF @ = "up" THEN "down" ELSE @]
  /\ client' = [client EXCEPT ![c] = "off"]

(* Any other exception in a turn: "###" and, after a pause, an apology.  An
   error in sending them is logged, and the handler goes back to receiving;
   on a marked connection that raises at once, and so on without an await. *)
Apologise_OnlyLogs(c) ==
  /\ pc' = [pc EXCEPT ![c] = "receive"]
  /\ UNCHANGED <<thinking, link, hung>>
Apologise_IndicatorStays(c) ==
  /\ pc' = [pc EXCEPT ![c] = "apologising"]
  /\ UNCHANGED <<thinking, link, hung>>
Apologise(c) ==
  \/ /\ SendsOrSkips
     /\ ShowIndicator(FALSE)
     /\ pc' = [pc EXCEPT ![c] = "apologising"]
     /\ UNCHANGED <<link, hung>>
  \/ /\ ~SendsOrSkips
     /\ link' = Marked
     /\ IF Marked[c] = "marked"
        THEN /\ hung' = TRUE
             /\ UNCHANGED pc
        ELSE /\ pc' = [pc EXCEPT ![c] = "receive"]
             /\ UNCHANGED hung
     /\ UNCHANGED thinking

(* The turn is over: receive again, which raises at once on a marked connection. *)
NextTurn(c) ==
  \/ /\ link[c] = "marked"
     /\ Apologise(c)
  \/ /\ link[c] # "marked"
     /\ pc' = [pc EXCEPT ![c] = "receive"]
     /\ UNCHANGED <<thinking, link, hung>>
-----------------------------------------------------------------------------
(* The page connects, with one connection at a time; the handler registers it
   and creates its conversation. *)
Connect(c) ==
  /\ ~hung
  /\ client[c] = "new" /\ \A d \in Conns : client[d] # "on"
  /\ Overlap \/ \A d \in Conns : pc[d] \in {"none", "ended"}
  /\ \/ /\ active' = c
        /\ pc' = [pc EXCEPT ![c] = "receive"]
        /\ client' = [client EXCEPT ![c] = "on"]
        /\ link' = [link EXCEPT ![c] = "up"]
     \/ /\ "database" \in Faults
        /\ End(c, [link EXCEPT ![c] = "up"])
  /\ UNCHANGED <<inbox, texts, store, page, hung>>

(* The user sends a text.  What is typed waits for the indicator to go out; what
   is said to the microphone does not. *)
Say(c) ==
  /\ client[c] = "on"
  /\ texts[c] < MaxTexts
  /\ texts' = [texts EXCEPT ![c] = @ + 1]
  /\ inbox' = [inbox EXCEPT ![c] = @ + 1]
  /\ UNCHANGED <<active, pc, client, link, store, page, hung>>

(* The client is gone: it has closed the connection, or the network has. *)
Leave(c) ==
  /\ client[c] = "on"
  /\ client' = [client EXCEPT ![c] = "off"]
  /\ UNCHANGED <<active, pc, link, inbox, texts, store, page, hung>>

(* ... and the server's protocol layer finds out. *)
Detect(c) ==
  /\ ~hung
  /\ client[c] = "off" /\ link[c] = "up"
  /\ link' = [link EXCEPT ![c] = "down"]
  /\ UNCHANGED <<active, pc, client, inbox, texts, store, page, hung>>

Read_Keeps(c) == UNCHANGED inbox
Read(c) == inbox' = [inbox EXCEPT ![c] = @ - 1]

(* receive_text returns a text; "@@@" is sent. *)
Receive(c) ==
  /\ ~hung
  /\ pc[c] = "receive" /\ inbox[c] > 0
  /\ Read(c)
  /\ \/ /\ SendsOrSkips
        /\ ShowIndicator(TRUE)
        /\ pc' = [pc EXCEPT ![c] = "saving"]
        /\ UNCHANGED <<active, client, link, hung>>
     \/ /\ SendRaisesDisconnect
        /\ End(c, Marked)
        /\ UNCHANGED <<thinking, hung>>
     \/ /\ SendRaisesError
        /\ Apologise(c)
        /\ UNCHANGED <<active, client>>
  /\ UNCHANGED <<texts, store, shown>>

(* receive_text raises WebSocketDisconnect. *)
ReceiveDisconnect(c) ==
  /\ ~hung
  /\ pc[c] = "receive" /\ inbox[c] = 0
  /\ link[c] \in {"down", "marked"}
  /\ End(c, link)
  /\ UNCHANGED <<inbox, texts, store, page, hung>>

SaveText_NotCommitted(c) ==
  /\ ~hung
  /\ pc[c] = "saving"
  /\ pc' = [pc EXCEPT ![c] = "llm"]
  /\ UNCHANGED <<active, world, store, page, hung>>

(* The assistant is read again and the text is saved; the LLM call begins. *)
SaveText(c) ==
  /\ ~hung
  /\ pc[c] = "saving"
  /\ \/ /\ asked' = [asked EXCEPT ![c] = @ + 1]
        /\ pc' = [pc EXCEPT ![c] = "llm"]
        /\ UNCHANGED <<link, thinking, hung>>
     \/ /\ "database" \in Faults
        /\ Apologise(c)
        /\ UNCHANGED asked
  /\ UNCHANGED <<active, client, inbox, texts, replied, shown>>

(* The LLM call returns a reply, or the no-idea text when the service cannot be
   reached; the reply is saved, then "###" is sent. *)
Reply(c) ==
  /\ ~hung
  /\ pc[c] = "llm"
  /\ replied' = [replied EXCEPT ![c] = @ + 1]
  /\ \/ /\ SendsOrSkips
        /\ ShowIndicator(FALSE)
        /\ pc' = [pc EXCEPT ![c] = "answering"]
        /\ UNCHANGED <<active, client, link, hung>>
     \/ /\ SendRaisesDisconnect
        /\ End(c, Marked)
        /\ UNCHANGED <<thinking, hung>>
     \/ /\ SendRaisesError
        /\ Apologise(c)
        /\ UNCHANGED <<active, client>>
  /\ UNCHANGED <<inbox, texts, asked, shown>>

(* The LLM call raises something else, or the reply cannot be saved. *)
ReplyFails(c) ==
  /\ ~hung
  /\ Faults # {}
  /\ pc[c] = "llm"
  /\ Apologise(c)
  /\ UNCHANGED <<active, client, inbox, texts, store, shown>>

(* The reply is sent, a tenth of a second after "###". *)
Answer(c) ==
  /\ ~hung
  /\ pc[c] = "answering"
  /\ \/ /\ SendsOrSkips
        /\ ShowText
        /\ NextTurn(c)
        /\ UNCHANGED <<active, client>>
     \/ /\ SendRaisesDisconnect
        /\ End(c, Marked)
        /\ UNCHANGED <<page, hung>>
     \/ /\ SendRaisesError
        /\ Apologise(c)
        /\ UNCHANGED <<active, client, shown>>
  /\ UNCHANGED <<inbox, texts, store>>

(* The apology is sent; an error there is treated as in Apologise. *)
Apology(c) ==
  /\ ~hung
  /\ pc[c] = "apologising"
  /\ \/ /\ SendsOrSkips
        /\ ShowText
        /\ NextTurn(c)
     \/ /\ ~SendsOrSkips
        /\ Apologise(c)
        /\ UNCHANGED shown
  /\ UNCHANGED <<active, client, inbox, texts, store>>

Next ==
  \E c \in Conns :
    \/ Connect(c) \/ Say(c) \/ Leave(c) \/ Detect(c)
    \/ Receive(c) \/ ReceiveDisconnect(c) \/ SaveText(c)
    \/ Reply(c) \/ ReplyFails(c) \/ Answer(c) \/ Apology(c)

Spec == Init /\ [][Next]_vars

(* The event loop resumes what is ready, the LLM call ends (its client has a
   timeout) and a dead connection is detected (uvicorn pings it).  Nobody has
   to connect, to write or to leave. *)
Fairness ==
  \A c \in Conns :
    /\ WF_vars(Receive(c)) /\ WF_vars(ReceiveDisconnect(c)) /\ WF_vars(SaveText(c))
    /\ WF_vars(Reply(c) \/ ReplyFails(c)) /\ WF_vars(Answer(c)) /\ WF_vars(Apology(c))
    /\ WF_vars(Detect(c))

FairSpec == Spec /\ Fairness
-----------------------------------------------------------------------------
Running(c) == pc[c] \notin {"none", "ended"}

(* The registry does not leak: its entry is a connection whose handler runs, so
   what it holds of a customer goes when the last handler ends. *)
EntryAlive == active # None => Running(active)

(* Replies have somewhere to go: the connection a page is on is the one that
   the manager sends to. *)
Registered == \A c \in Conns : client[c] = "on" => active = c

(* A conversation in the database reads as it went: a reply has its question, and
   a question was sent by the client of this very conversation. *)
HistoryOrdered == \A c \in Conns : replied[c] <= asked[c] /\ asked[c] + inbox[c] <= texts[c]

(* A user who stays is answered, text by text, with a reply or an apology. *)
EveryTextAnswered ==
  \A c \in Conns, n \in 1..MaxTexts :
    texts[c] >= n ~> (shown[c] >= n \/ client[c] = "off")

(* What the page sees of it: the connection it is on, the texts sent over it
   whose turn has not ended, and whether one runs. *)
Online == \E c \in Conns : client[c] = "on"
Current == CHOOSE c \in Conns : client[c] = "on"
Open(c) == IF pc[c] \in {"saving", "llm"} THEN inbox[c] + 1 ELSE inbox[c]

Turns == INSTANCE ChatTurns WITH
  online <- Online,
  asked <- IF Online THEN Open(Current) ELSE 0,
  inTurn <- Online /\ thinking[Current]

(* The server keeps what the pages are built on: one turn at a time, for a
   question asked over this very connection, and the indicator that keeps the
   user from writing goes out again. *)
TurnsPromise == Turns!Spec /\ Turns!TurnsEnd

(* A handler that loses its client does not stop the whole process. *)
LoopRuns == ~hung
=============================================================================
