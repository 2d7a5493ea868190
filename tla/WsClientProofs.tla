--------------------------- MODULE WsClientProofs ---------------------------
(***************************************************************************)
(* For every number of sockets, addresses and waiters, and any limit of    *)
(* attempts: WsClient's invariants, and that it implements ChatLink.       *)
(*                                                                         *)
(* Together they are inductive.  OneSocket carries the others: onopen runs *)
(* on a live socket, which is therefore the current one, so "connected" is *)
(* said of the current one; and a replaced socket's close event can take   *)
(* an attempt away but never the only sign that a retry is on its way.     *)
(* The refinement rests on the same: an event is one of ChatLink's current *)
(* socket or one of a replaced socket, as s is wsRef or not, and only a    *)
(* close event can be of the latter.                                       *)
(***************************************************************************)
EXTENDS WsClient, TLAPS

(* disconnect leaves the status alone when there is no socket. *)
NoSocketNoStatus == wsRef = Null => status = "disconnected"

Inv ==
  /\ TypeOK /\ OneSocket /\ ConnectedIsReal /\ RetryPending /\ ResolverWaits
  /\ NoSocketNoStatus

LEMMA InitInv == Init => Inv
  BY NullAssumption, MaxAttemptsAssumption
  DEF Init, Inv, TypeOK, OneSocket, ConnectedIsReal, RetryPending, ResolverWaits, NoSocketNoStatus, Live

(* What closing the current socket leaves behind: nothing live. *)
LEMMA CloseCurrentLeavesNoneLive ==
  ASSUME Inv
  PROVE  /\ CloseCurrent \in [Sockets -> {"connecting", "open", "closing", "closed"}]
         /\ \A s \in Sockets : CloseCurrent[s] \notin {"connecting", "open"}
         /\ \A s \in Sockets : CloseCurrent[s] = "closing" =>
              sock[s] \in {"connecting", "open", "closing"}
  BY NullAssumption DEF Inv, TypeOK, OneSocket, CloseCurrent, Live

(* connect, whoever calls it: it ends with the current socket live. *)
LEMMA ConnectStep ==
  ASSUME Inv, NEW url \in Urls \cup {Null}, ConnectTo(url),
         attempts' = attempts, timers' \in Nat, resolver' = resolver, waiter' = waiter
  PROVE  Inv'
<1>1. TypeOK' /\ OneSocket' /\ ConnectedIsReal' /\ NoSocketNoStatus' /\ (wsRef' # Null /\ Live(wsRef)')
  <2>1. CASE IsOpen(wsRef) /\ UNCHANGED <<link, status>>  /\ urlRef = url
    BY <2>1 DEF Inv, TypeOK, OneSocket, ConnectedIsReal, NoSocketNoStatus, Live, IsOpen, link
  <2>2. CASE \E s \in Sockets :
               /\ sock[s] = "closed"
               /\ sock' = [CloseCurrent EXCEPT ![s] = "connecting"]
               /\ wsRef' = s /\ urlRef' = url /\ status' = "connecting"
    <3>1. PICK s \in Sockets :
               /\ sock' = [CloseCurrent EXCEPT ![s] = "connecting"]
               /\ wsRef' = s /\ urlRef' = url /\ status' = "connecting"
      BY <2>2
    <3> QED
      BY <3>1, CloseCurrentLeavesNoneLive, NullAssumption
      DEF Inv, TypeOK, OneSocket, ConnectedIsReal, NoSocketNoStatus, Live
  <2> QED
    BY <2>1, <2>2 DEF ConnectTo
<1>2. RetryPending' /\ ResolverWaits'
  BY <1>1 DEF Inv, RetryPending, ResolverWaits
<1> QED
  BY <1>1, <1>2 DEF Inv

LEMMA NullStep == Inv /\ TimerFiresOnNull => Inv'
<1> SUFFICES ASSUME Inv, TimerFiresOnNull PROVE Inv'
  OBVIOUS
<1>1. timers' \in Nat
  BY DEF TimerFiresOnNull, Inv, TypeOK
<1>2. CASE ConnectTo(Null)
  BY <1>1, <1>2, ConnectStep DEF TimerFiresOnNull
<1>3. CASE ~ConnectTo(Null)
  BY <1>1, <1>3, CloseCurrentLeavesNoneLive
  DEF TimerFiresOnNull, Inv, TypeOK, OneSocket, ConnectedIsReal, RetryPending, ResolverWaits, NoSocketNoStatus, Live
<1> QED
  BY <1>2, <1>3

LEMMA OnOpenStep == \A s \in Sockets : Inv /\ OnOpen(s) => Inv'
  BY NullAssumption, MaxAttemptsAssumption
  DEF OnOpen, Inv, TypeOK, OneSocket, ConnectedIsReal, RetryPending, ResolverWaits, NoSocketNoStatus, Live

LEMMA LoseStep == \A s \in Sockets : Inv /\ Lose(s) => Inv'
  BY NullAssumption
  DEF Lose, Inv, TypeOK, OneSocket, ConnectedIsReal, RetryPending, ResolverWaits, NoSocketNoStatus, Live

LEMMA OnCloseStep == \A s \in Sockets : Inv /\ OnClose(s) => Inv'
<1> SUFFICES ASSUME NEW s \in Sockets, Inv, OnClose(s) PROVE Inv'
  OBVIOUS
<1>1. TypeOK' /\ OneSocket' /\ ConnectedIsReal' /\ ResolverWaits' /\ NoSocketNoStatus'
  BY MaxAttemptsAssumption
  DEF OnClose, Inv, TypeOK, OneSocket, ConnectedIsReal, ResolverWaits, NoSocketNoStatus, Live
<1>2. RetryPending'
  <2>1. CASE attempts < MaxAttempts /\ urlRef # Null
    BY <2>1, MaxAttemptsAssumption DEF OnClose, Inv, TypeOK, RetryPending
  <2>2. CASE ~(attempts < MaxAttempts /\ urlRef # Null)
    BY <2>2, MaxAttemptsAssumption DEF OnClose, Inv, TypeOK, RetryPending
  <2> QED
    BY <2>1, <2>2
<1> QED
  BY <1>1, <1>2 DEF Inv

LEMMA LeaveStep == Inv /\ (Disconnect \/ Unmount) => Inv'
  BY CloseCurrentLeavesNoneLive, MaxAttemptsAssumption
  DEF Disconnect, Unmount, Inv, TypeOK, OneSocket, ConnectedIsReal, RetryPending, ResolverWaits, NoSocketNoStatus, Live

LEMMA WaitStep == \A w \in Waiters : Inv /\ (Wait(w) \/ WaitExpires(w)) => Inv'
<1> SUFFICES ASSUME NEW w \in Waiters, Inv, Wait(w) \/ WaitExpires(w) PROVE Inv'
  OBVIOUS
<1>1. TypeOK' /\ ResolverWaits'
  BY NullAssumption DEF Wait, WaitExpires, Inv, TypeOK, ResolverWaits
<1>2. OneSocket' /\ ConnectedIsReal' /\ RetryPending' /\ NoSocketNoStatus'
  BY DEF Wait, WaitExpires, Inv, OneSocket, ConnectedIsReal, RetryPending, NoSocketNoStatus, Live
<1> QED
  BY <1>1, <1>2 DEF Inv

LEMMA NextInv == Inv /\ [Next]_vars => Inv'
<1> SUFFICES ASSUME Inv, [Next]_vars PROVE Inv'
  OBVIOUS
<1>1. ASSUME NEW url \in Urls, Connect(url) PROVE Inv'
  BY <1>1, ConnectStep DEF Connect, Inv, TypeOK
<1>2. CASE TimerFires
  <2>1. timers' \in Nat /\ urlRef \in Urls \cup {Null}
    BY <1>2 DEF TimerFires, Inv, TypeOK
  <2> QED
    BY <1>2, <2>1, ConnectStep DEF TimerFires
<1>3. CASE UNCHANGED vars
  BY <1>3
  DEF vars, Inv, TypeOK, OneSocket, ConnectedIsReal, RetryPending, ResolverWaits, NoSocketNoStatus, Live
<1> QED
  BY <1>1, <1>2, <1>3, NullStep, OnOpenStep, LoseStep, OnCloseStep, LeaveStep, WaitStep
  DEF Next

(* However calls of the page, timers and late events of replaced sockets
   interleave: only the current socket is live, "connected" is said of it only
   when it has opened, a lost connection has a retry on its way while attempts
   are left, and onopen never calls the resolver of a wait that is over. *)
THEOREM Connection == Spec => [](TypeOK /\ OneSocket /\ ConnectedIsReal /\ RetryPending /\ ResolverWaits)
<1>1. Inv => TypeOK /\ OneSocket /\ ConnectedIsReal /\ RetryPending /\ ResolverWaits
  BY DEF Inv
<1> QED
  BY <1>1, InitInv, NextInv, PTL DEF Spec
-----------------------------------------------------------------------------
(* ChatLink's variables, of which a step of one kind leaves those of the other
   alone. *)
LEMMA SocketsSeen ==
  ASSUME UNCHANGED <<sock, wsRef, urlRef, status>>
  PROVE  /\ CurrentSocket' = CurrentSocket /\ OthersUnfinished' = OthersUnfinished
         /\ status' = status /\ (urlRef # Null)' = (urlRef # Null)
  BY DEF CurrentSocket, OthersUnfinished, Unfinished

LEMMA WaitersSeen ==
  ASSUME UNCHANGED <<resolver, waiter>>
  PROVE  (resolver # Null)' = (resolver # Null) /\ OthersWait' = OthersWait
  BY DEF OthersWait

LEMMA LinkInit == Init => Link!Init
  BY NullAssumption
  DEF Init, Link!Init, CurrentSocket, OthersUnfinished, Unfinished, OthersWait

(* connect is a replacement, or nothing: the socket it closes is one more
   whose close event is to come, and the new one was nobody's. *)
LEMMA LinkConnect ==
  ASSUME Inv, NEW url \in Urls \cup {Null}, ConnectTo(url), url = Null => urlRef = Null,
         resolver' = resolver, waiter' = waiter
  PROVE  [Link!Next]_Link!vars
<1>1. (resolver # Null)' = (resolver # Null) /\ OthersWait' = OthersWait
  BY WaitersSeen
<1>2. CASE UNCHANGED <<link, status>>
  BY <1>1, <1>2, SocketsSeen DEF link, Link!vars
<1>3. CASE ~UNCHANGED <<link, status>>
  <2>1. PICK s \in Sockets :
             /\ sock[s] = "closed"
             /\ sock' = [CloseCurrent EXCEPT ![s] = "connecting"]
             /\ wsRef' = s /\ urlRef' = url /\ status' = "connecting"
    BY <1>3 DEF ConnectTo
  <2>2. s # Null /\ CurrentSocket' = "connecting"
    BY <2>1, NullAssumption, CloseCurrentLeavesNoneLive DEF CurrentSocket
  <2>3. \A t \in Sockets : t # s => (sock'[t] # "closed" <=> sock[t] # "closed")
    BY <2>1 DEF CloseCurrent, Live, Inv, TypeOK
  <2>4. OthersUnfinished' = (OthersUnfinished \/ CurrentSocket # "closed")
    <3>1. CurrentSocket # "closed" <=> wsRef \in Unfinished
      BY NullAssumption DEF CurrentSocket, Unfinished, Inv, TypeOK
    <3>2. \A t \in Sockets : t # s => (t \in Unfinished' <=> t \in Unfinished)
      BY <2>3 DEF Unfinished
    <3>3. s \notin Unfinished /\ Unfinished \subseteq Sockets /\ Unfinished' \subseteq Sockets
      BY <2>1 DEF Unfinished
    <3> QED
      BY <2>1, <3>1, <3>2, <3>3 DEF OthersUnfinished
  <2>5. (urlRef # Null) => (urlRef # Null)'
    BY <2>1, NullAssumption
  <2> QED
    BY <1>1, <2>1, <2>2, <2>4, <2>5 DEF Link!Next, Link!Replace, Link!waits
<1> QED
  BY <1>2, <1>3

(* What drops the current socket: disconnect, the cleanup, and connect(null) in
   a browser that refuses it. *)
LEMMA LinkLeave ==
  ASSUME Inv, sock' = CloseCurrent, wsRef' = Null, urlRef' = Null, status' = "disconnected",
         resolver' = resolver, waiter' = waiter
  PROVE  Link!Leave
<1>1. (resolver # Null)' = (resolver # Null) /\ OthersWait' = OthersWait
  BY WaitersSeen
<1>2. \A t \in Sockets : sock'[t] # "closed" <=> sock[t] # "closed"
  BY DEF CloseCurrent, Live, Inv, TypeOK
<1>3. OthersUnfinished' = (OthersUnfinished \/ CurrentSocket # "closed")
  BY <1>2, NullAssumption DEF OthersUnfinished, Unfinished, CurrentSocket, Inv, TypeOK
<1> QED
  BY <1>1, <1>3 DEF Link!Leave, Link!waits, CurrentSocket

LEMMA LinkOpens ==
  ASSUME Inv, NEW s \in Sockets, OnOpen(s)
  PROVE  Link!Opens
<1>1. s = wsRef /\ s # Null
  BY NullAssumption DEF OnOpen, Inv, OneSocket, Live
<1>2. CurrentSocket = "connecting" /\ CurrentSocket' = "open"
  BY <1>1 DEF OnOpen, CurrentSocket, Inv, TypeOK
<1>3. OthersUnfinished' = OthersUnfinished
  BY <1>1 DEF OnOpen, OthersUnfinished, Unfinished, Inv, TypeOK
<1>4. OthersWait' = OthersWait
  BY NullAssumption DEF OnOpen, OthersWait, Inv, TypeOK
<1> QED
  BY <1>2, <1>3, <1>4 DEF OnOpen, Link!Opens

LEMMA LinkLost ==
  ASSUME Inv, NEW s \in Sockets, Lose(s)
  PROVE  Link!Lost
<1>1. s = wsRef /\ s # Null
  BY NullAssumption DEF Lose, Inv, OneSocket, Live
<1>2. CurrentSocket = "open" /\ CurrentSocket' = "lost"
  BY <1>1 DEF Lose, CurrentSocket, Inv, TypeOK
<1>3. OthersUnfinished' = OthersUnfinished
  BY <1>1 DEF Lose, OthersUnfinished, Unfinished, Inv, TypeOK
<1>4. (resolver # Null)' = (resolver # Null) /\ OthersWait' = OthersWait
  BY WaitersSeen DEF Lose
<1> QED
  BY <1>2, <1>3, <1>4 DEF Lose, Link!Lost, Link!waits

(* A close event is the current socket's or a replaced one's. *)
LEMMA LinkClose ==
  ASSUME Inv, NEW s \in Sockets, OnClose(s)
  PROVE  Link!Closes \/ Link!LateCloses
<1>1. (resolver # Null)' = (resolver # Null) /\ OthersWait' = OthersWait
  BY WaitersSeen DEF OnClose
<1>2. status' = "disconnected" /\ wsRef' = wsRef /\ urlRef' = urlRef
  BY DEF OnClose
<1>3. CASE s = wsRef
  <2>1. s # Null
    BY NullAssumption
  <2>2. CurrentSocket \in {"connecting", "lost"} /\ CurrentSocket' = "closed"
    BY <1>3, <2>1 DEF OnClose, CurrentSocket, Inv, TypeOK
  <2>3. OthersUnfinished' = OthersUnfinished
    BY <1>3 DEF OnClose, OthersUnfinished, Unfinished, Inv, TypeOK
  <2> QED
    BY <1>1, <1>2, <2>2, <2>3 DEF Link!Closes, Link!waits
<1>4. CASE s # wsRef
  <2>1. OthersUnfinished
    BY <1>4 DEF OnClose, OthersUnfinished, Unfinished
  <2>2. CurrentSocket' = CurrentSocket
    BY <1>4 DEF OnClose, CurrentSocket, Inv, TypeOK
  <2>3. OthersUnfinished' \in BOOLEAN
    BY DEF OthersUnfinished
  <2> QED
    BY <1>1, <1>2, <2>1, <2>2, <2>3 DEF Link!LateCloses, Link!waits
<1> QED
  BY <1>3, <1>4

(* A wait over an open connection is over at once, which the page does not see
   here; every other is registered, or wipes the registration out. *)
LEMMA LinkWait ==
  ASSUME Inv, NEW w \in Waiters, Wait(w)
  PROVE  [Link!Next]_Link!vars
<1>1. /\ CurrentSocket' = CurrentSocket /\ OthersUnfinished' = OthersUnfinished
      /\ status' = status /\ (urlRef # Null)' = (urlRef # Null)
  BY SocketsSeen DEF Wait
<1>2. CurrentSocket = "open" <=> IsOpen(wsRef)
  BY DEF CurrentSocket, IsOpen
<1>3. waiter[w] = "idle" /\ w # Null /\ w # resolver
  BY NullAssumption DEF Wait, Inv, ResolverWaits
<1>4. CASE IsOpen(wsRef) /\ urlRef # Null
  <2>1. OthersWait' = OthersWait /\ resolver' = resolver
    BY <1>3, <1>4 DEF Wait, OthersWait, Inv, TypeOK
  <2> QED
    BY <1>1, <2>1 DEF Link!vars
<1>5. CASE ~(IsOpen(wsRef) /\ urlRef # Null) /\ resolver = Null
  <2>1. resolver' = w /\ waiter' = [waiter EXCEPT ![w] = "pending"]
    BY <1>5 DEF Wait
  <2>2. OthersWait' = OthersWait
    BY <1>3, <1>5, <2>1, NullAssumption DEF OthersWait, Inv, TypeOK
  <2>3. OthersWait' = (OthersWait \/ resolver # Null)
    BY <1>5, <2>2 DEF OthersWait
  <2> QED
    BY <1>1, <1>2, <1>3, <1>5, <2>1, <2>3 DEF Link!Next, Link!Wait
<1>6. CASE ~(IsOpen(wsRef) /\ urlRef # Null) /\ resolver # Null
  <2>1. resolver' = Null /\ waiter'[w] = "pending"
    BY <1>3, <1>6 DEF Wait, Inv, TypeOK
  <2>2. OthersWait'
    BY <1>3, <2>1 DEF OthersWait
  <2> QED
    BY <1>1, <1>2, <1>6, <2>1, <2>2 DEF Link!Next, Link!Wait
<1> QED
  BY <1>4, <1>5, <1>6

(* Who gives up is the one registered, whose leaving changes nothing for the
   others, or one of the others, and then the one registered becomes one of
   them. *)
LEMMA LinkGivesUp ==
  ASSUME Inv, NEW w \in Waiters, WaitExpires(w)
  PROVE  Link!GivesUp
<1>1. /\ CurrentSocket' = CurrentSocket /\ OthersUnfinished' = OthersUnfinished
      /\ status' = status /\ (urlRef # Null)' = (urlRef # Null)
  BY SocketsSeen DEF WaitExpires
<1>2. waiter[w] = "pending" /\ w # Null /\ resolver' = Null
  BY NullAssumption DEF WaitExpires
<1>3. CASE resolver = w
  <2>1. OthersWait' = OthersWait
    BY <1>2, <1>3, NullAssumption DEF WaitExpires, OthersWait, Inv, TypeOK
  <2> QED
    BY <1>1, <1>2, <1>3, <2>1 DEF Link!GivesUp
<1>4. CASE resolver # w
  <2>1. OthersWait /\ OthersWait' \in BOOLEAN
    BY <1>2, <1>4 DEF OthersWait
  <2>2. resolver # Null => OthersWait'
    BY <1>2, <1>4 DEF WaitExpires, OthersWait, Inv, TypeOK, ResolverWaits
  <2> QED
    BY <1>1, <1>2, <2>1, <2>2 DEF Link!GivesUp
<1> QED
  BY <1>3, <1>4

LEMMA LinkStep == Inv /\ [Next]_vars => [Link!Next]_Link!vars
<1> SUFFICES ASSUME Inv, [Next]_vars PROVE [Link!Next]_Link!vars
  OBVIOUS
<1>1. ASSUME NEW url \in Urls, Connect(url) PROVE [Link!Next]_Link!vars
  BY <1>1, LinkConnect, NullAssumption DEF Connect
<1>2. CASE TimerFires
  <2>1. urlRef \in Urls \cup {Null} /\ urlRef # Null
    BY <1>2 DEF TimerFires, Inv, TypeOK
  <2> QED
    BY <1>2, <2>1, LinkConnect DEF TimerFires
<1>3. CASE TimerFiresOnNull
  <2>1. CASE ConnectTo(Null)
    BY <1>3, <2>1, LinkConnect DEF TimerFiresOnNull
  <2>2. CASE ~ConnectTo(Null)
    <3>1. /\ sock' = CloseCurrent /\ wsRef' = Null /\ urlRef' = Null
          /\ status' = "disconnected" /\ resolver' = resolver /\ waiter' = waiter
      BY <1>3, <2>2 DEF TimerFiresOnNull, Inv, NoSocketNoStatus
    <3> QED
      BY <3>1, LinkLeave DEF Link!Next
  <2> QED
    BY <2>1, <2>2
<1>4. CASE Disconnect \/ Unmount
  <2>1. /\ sock' = CloseCurrent /\ wsRef' = Null /\ urlRef' = Null
        /\ status' = "disconnected" /\ resolver' = resolver /\ waiter' = waiter
    BY <1>4 DEF Disconnect, Unmount, Inv, NoSocketNoStatus
  <2> QED
    BY <2>1, LinkLeave DEF Link!Next
<1>5. ASSUME NEW s \in Sockets, OnOpen(s) \/ Lose(s) \/ OnClose(s)
      PROVE  [Link!Next]_Link!vars
  BY <1>5, LinkOpens, LinkLost, LinkClose DEF Link!Next
<1>6. ASSUME NEW w \in Waiters, Wait(w) \/ WaitExpires(w)
      PROVE  [Link!Next]_Link!vars
  BY <1>6, LinkWait, LinkGivesUp DEF Link!Next
<1>7. CASE UNCHANGED vars
  BY <1>7, SocketsSeen, WaitersSeen DEF vars, Link!vars
<1> QED
  BY <1>1, <1>2, <1>3, <1>4, <1>5, <1>6, <1>7 DEF Next

(* What the page relies on (ChatPage's actions are ChatLink's): whatever sockets,
   addresses, timers and waiters there are, it sees one connection, whose
   replaced predecessors can only change the status it shows. *)
THEOREM LinkPromised == Spec => Promise
  BY InitInv, NextInv, LinkInit, LinkStep, PTL DEF Spec, Promise, Link!Spec
=============================================================================
