------------------------------ MODULE WsClient ------------------------------
(***************************************************************************)
(* The chat page's connection                                              *)
(* (frontend/chatbot_ui/src/services/ws/createWsClient.ts, useWSClient):   *)
(* one current socket, a reconnect timer per lost socket, and the callers  *)
(* that wait for the connection.  JavaScript runs one callback at a time:  *)
(* an action is a call of the interface, or one event of the browser.      *)
(*                                                                         *)
(* The browser is outside the repository.  What is used of it: close() on  *)
(* a socket that is connecting or open makes it "closing", and its close   *)
(* event comes later, in a task of its own; a socket that fails or is      *)
(* closed by the network or the server gets the same event; no handler of  *)
(* a socket runs after that; a socket that was closed while connecting     *)
(* never opens.  A socket whose close event has run is an identity the     *)
(* next socket may get.                                                    *)
(*                                                                         *)
(* An operator named X_... before an operator X is X as a plausible slip   *)
(* would have it; no specification uses it but the checks of the           *)
(* properties (README, "Mutants").                                         *)
(***************************************************************************)
EXTENDS Naturals, FiniteSets

CONSTANTS
  Sockets,        \* identities of the browser's WebSocket objects
  Urls,           \* the addresses the page connects to
  Waiters,        \* the calls of waitUntilConntected
  MaxAttempts,    \* MAX_RECONNECT_ATTEMPTS
  Null            \* JavaScript's null

ASSUME NullAssumption == Null \notin Sockets \cup Urls \cup Waiters
ASSUME MaxAttemptsAssumption == MaxAttempts \in Nat
ASSUME SocketsAssumption == IsFiniteSet(Sockets)

VARIABLES
  sock,           \* readyState of each socket
  wsRef,          \* the current socket
  urlRef,         \* where the page wants to be connected
  status,         \* what the page shows
  attempts,       \* reconnectAttempsRef
  timers,         \* the reconnect timers that have not fired
  resolver,       \* openResolverRef: the waiter whose resolver it is
  waiter          \* the promise of each waiter

link == <<wsRef, urlRef, sock>>
vars == <<sock, wsRef, urlRef, status, attempts, timers, resolver, waiter>>

TypeOK ==
  /\ sock \in [Sockets -> {"connecting", "open", "closing", "closed"}]
  /\ wsRef \in Sockets \cup {Null}
  /\ urlRef \in Urls \cup {Null}
  /\ status \in {"disconnected", "connecting", "connected"}
  /\ attempts \in 0..MaxAttempts
  /\ timers \in Nat
  /\ resolver \in Waiters \cup {Null}
  /\ waiter \in [Waiters -> {"idle", "pending", "resolved", "rejected"}]

Init ==
  /\ sock = [s \in Sockets |-> "closed"]
  /\ wsRef = Null
  /\ urlRef = Null
  /\ status = "disconnected"
  /\ attempts = 0
  /\ timers = 0
  /\ resolver = Null
  /\ waiter = [w \in Waiters |-> "idle"]
-----------------------------------------------------------------------------
Live(s) == s # Null /\ sock[s] \in {"connecting", "open"}
IsOpen(s) == s # Null /\ sock[s] = "open"
Unfinished == {s \in Sockets : sock[s] # "closed"}

(* close() on the current socket, if there is one. *)
CloseCurrent_OpenOnly == [s \in Sockets |-> IF s = wsRef /\ IsOpen(s) THEN "closing" ELSE sock[s]]
CloseCurrent == [s \in Sockets |-> IF s = wsRef /\ Live(s) THEN "closing" ELSE sock[s]]

(* connect: nothing when the socket is open and goes there already; otherwise
   the current socket is closed and a new one takes its place. *)
ConnectTo(url) ==
  \/ /\ IsOpen(wsRef) /\ urlRef = url
     /\ UNCHANGED <<link, status>>
  \/ /\ ~(IsOpen(wsRef) /\ urlRef = url)
     /\ \E s \in Sockets :
        /\ sock[s] = "closed"
        /\ sock' = [CloseCurrent EXCEPT ![s] = "connecting"]
        /\ wsRef' = s
     /\ urlRef' = url
     /\ status' = "connecting"

(* The page connects, or its user presses the reconnect button.  Bound: no more
   sockets and timers at a time than there are identities. *)
Connect(url) ==
  /\ timers + Cardinality(Unfinished) < Cardinality(Sockets)
  /\ ConnectTo(url)
  /\ UNCHANGED <<attempts, timers, resolver, waiter>>

(* A reconnect timer fires and connects to wherever urlRef points by then; the
   timers are never cleared. *)
TimerFires ==
  /\ timers > 0
  /\ timers' = timers - 1
  /\ urlRef # Null
  /\ ConnectTo(urlRef)
  /\ UNCHANGED <<attempts, resolver, waiter>>

(* ... or to null: a browser that resolves "null" against the page's address
   makes a socket of it, an older one throws. *)
TimerFiresOnNull ==
  /\ timers > 0
  /\ timers' = timers - 1
  /\ urlRef = Null
  /\ \/ ConnectTo(Null)
     \/ /\ ~IsOpen(wsRef)
        /\ sock' = CloseCurrent
        /\ wsRef' = Null
        /\ status' = IF wsRef = Null THEN status ELSE "disconnected"
        /\ UNCHANGED urlRef
  /\ UNCHANGED <<attempts, resolver, waiter>>

(* onopen *)
OnOpen(s) ==
  /\ sock[s] = "connecting"
  /\ sock' = [sock EXCEPT ![s] = "open"]
  /\ attempts' = 0
  /\ status' = "connected"
  /\ resolver' = Null
  /\ waiter' = IF resolver = Null THEN waiter ELSE [waiter EXCEPT ![resolver] = "resolved"]
  /\ UNCHANGED <<wsRef, urlRef, timers>>

(* The network or the server begins to close an open socket. *)
Lose(s) ==
  /\ sock[s] = "open"
  /\ sock' = [sock EXCEPT ![s] = "closing"]
  /\ UNCHANGED <<wsRef, urlRef, status, attempts, timers, resolver, waiter>>

OnClose_StatusLeft(s) ==
  /\ sock[s] \in {"connecting", "closing"}
  /\ sock' = [sock EXCEPT ![s] = "closed"]
  /\ status' = IF urlRef = Null THEN "disconnected" ELSE status
  /\ \/ /\ attempts < MaxAttempts /\ urlRef # Null
        /\ attempts' = attempts + 1 /\ timers' = timers + 1
     \/ /\ attempts = MaxAttempts \/ urlRef = Null
        /\ UNCHANGED <<attempts, timers>>
  /\ UNCHANGED <<wsRef, urlRef, resolver, waiter>>

OnClose_CountsAlways(s) ==
  /\ sock[s] \in {"connecting", "closing"}
  /\ sock' = [sock EXCEPT ![s] = "closed"]
  /\ status' = "disconnected"
  /\ attempts' = attempts + 1
  /\ timers' = IF attempts < MaxAttempts /\ urlRef # Null THEN timers + 1 ELSE timers
  /\ UNCHANGED <<wsRef, urlRef, resolver, waiter>>

OnClose_OnlyAfterOpen(s) ==
  /\ sock[s] \in {"connecting", "closing"}
  /\ sock' = [sock EXCEPT ![s] = "closed"]
  /\ status' = "disconnected"
  /\ \/ /\ sock[s] = "closing" /\ attempts < MaxAttempts /\ urlRef # Null
        /\ attempts' = attempts + 1 /\ timers' = timers + 1
     \/ /\ sock[s] = "connecting" \/ attempts = MaxAttempts \/ urlRef = Null
        /\ UNCHANGED <<attempts, timers>>
  /\ UNCHANGED <<wsRef, urlRef, resolver, waiter>>

(* onclose, of any socket: the handler does not ask whether it is the current one. *)
OnClose(s) ==
  /\ sock[s] \in {"connecting", "closing"}
  /\ sock' = [sock EXCEPT ![s] = "closed"]
  /\ status' = "disconnected"
  /\ \/ /\ attempts < MaxAttempts /\ urlRef # Null
        /\ attempts' = attempts + 1
        /\ timers' = timers + 1
     \/ /\ attempts = MaxAttempts \/ urlRef = Null
        /\ UNCHANGED <<attempts, timers>>
  /\ UNCHANGED <<wsRef, urlRef, resolver, waiter>>

(* disconnect, when the page leaves the chat or changes the assistant. *)
Disconnect ==
  /\ urlRef' = Null
  /\ attempts' = 0
  /\ sock' = CloseCurrent
  /\ wsRef' = Null
  /\ status' = IF wsRef = Null THEN status ELSE "disconnected"
  /\ UNCHANGED <<timers, resolver, waiter>>

(* The effect's cleanup, when the component is unmounted (under StrictMode the
   component goes on afterwards, so nothing keeps it from connecting again). *)
Unmount ==
  /\ urlRef' = Null
  /\ sock' = CloseCurrent
  /\ wsRef' = Null
  /\ status' = "disconnected"
  /\ UNCHANGED <<attempts, timers, resolver, waiter>>

(* waitUntilConntected: at once when connected; otherwise the waiter's resolver
   is registered and the one it replaces is called with an error, which
   rejects that waiter and clears the registration, the new one included. *)
Wait(w) ==
  /\ waiter[w] = "idle"
  /\ \/ /\ IsOpen(wsRef) /\ urlRef # Null
        /\ waiter' = [waiter EXCEPT ![w] = "resolved"]
        /\ UNCHANGED resolver
     \/ /\ ~(IsOpen(wsRef) /\ urlRef # Null)
        /\ \/ /\ resolver = Null
              /\ resolver' = w
              /\ waiter' = [waiter EXCEPT ![w] = "pending"]
           \/ /\ resolver # Null
              /\ resolver' = Null
              /\ waiter' = [waiter EXCEPT ![w] = "pending", ![resolver] = "rejected"]
  /\ UNCHANGED <<sock, wsRef, urlRef, status, attempts, timers>>

WaitExpires_IfRegistered(w) ==
  /\ waiter[w] = "pending" /\ resolver = w
  /\ waiter' = [waiter EXCEPT ![w] = "rejected"]
  /\ resolver' = Null
  /\ UNCHANGED <<sock, wsRef, urlRef, status, attempts, timers>>

(* A waiter's five seconds pass: whoever is registered is registered no more. *)
WaitExpires(w) ==
  /\ waiter[w] = "pending"
  /\ waiter' = [waiter EXCEPT ![w] = "rejected"]
  /\ resolver' = Null
  /\ UNCHANGED <<sock, wsRef, urlRef, status, attempts, timers>>

Next ==
  \/ \E url \in Urls : Connect(url)
  \/ TimerFires \/ TimerFiresOnNull \/ Disconnect \/ Unmount
  \/ \E s \in Sockets : OnOpen(s) \/ Lose(s) \/ OnClose(s)
  \/ \E w \in Waiters : Wait(w) \/ WaitExpires(w)

Spec == Init /\ [][Next]_vars

(* Timers fire, and the browser ends every handshake, opening or closing, with
   an event.  Nobody has to connect or to wait, and no network has to fail. *)
Fairness ==
  /\ WF_vars(TimerFires) /\ WF_vars(TimerFiresOnNull)
  /\ \A s \in Sockets : WF_vars(OnOpen(s) \/ OnClose(s))
  /\ \A w \in Waiters : WF_vars(WaitExpires(w))

FairSpec == Spec /\ Fairness
-----------------------------------------------------------------------------
(* The connection as the page sees it: close() is never called on a socket
   that stays the current one, so a closing one is one that was lost. *)
CurrentSocket ==
  IF wsRef = Null THEN "closed" ELSE IF sock[wsRef] = "closing" THEN "lost" ELSE sock[wsRef]
OthersUnfinished == \E s \in Unfinished : s # wsRef
OthersWait == \E w \in Waiters : waiter[w] = "pending" /\ w # resolver

Link ==
  INSTANCE ChatLink WITH
    socket <- CurrentSocket, lateClose <- OthersUnfinished, shown <- status,
    wanted <- urlRef # Null, registered <- resolver # Null, orphaned <- OthersWait

(* However calls, timers and the events of replaced sockets interleave, the page
   sees one connection: a replaced socket's events change the status shown and
   nothing else, "connected" begins when the current socket opens, and of those
   who wait only the one registered is told. *)
Promise == Link!Spec

(* Replies are shown once and a text is sent once: however connects, timers and
   late close events interleave, no socket but the current one is open or
   on its way to be. *)
OneSocket == \A s \in Sockets : Live(s) => s = wsRef

(* The page lets the user send only while it shows "connected" (canSubmitChatMessage),
   and sendRaw drops the text when the socket is not open: "connected" is
   shown only of a current socket that has opened and is not known to be closed. *)
ConnectedIsReal == status = "connected" => wsRef # Null /\ sock[wsRef] \in {"open", "closing"}

(* A lost connection is not forgotten: while the page wants one, has none and
   has attempts left, a timer or a close event that sets one is on its way. *)
RetryPending ==
  urlRef # Null /\ ~Live(wsRef) /\ attempts < MaxAttempts
    => timers > 0 \/ (wsRef # Null /\ sock[wsRef] = "closing")

(* The registered resolver is that of a waiter that still waits: onopen settles
   no promise twice, and none that has timed out. *)
ResolverWaits == resolver # Null => waiter[resolver] = "pending"

(* Every wait ends, for a replaced waiter and for one whose registration
   another call has wiped out too. *)
WaitEnds == \A w \in Waiters : waiter[w] = "pending" ~> waiter[w] \in {"resolved", "rejected"}

(* After disconnect, and until the page connects again, there is no connection
   and none is attempted. *)
StaysDisconnected == urlRef = Null => \A s \in Sockets : ~Live(s)
=============================================================================
