------------------------------ MODULE ChatPage ------------------------------
(***************************************************************************)
(* The chat page (frontend/chatbot_ui/src/feature/chat/ChatInterface.jsx,  *)
(* and the same code in components/EmbeddableChatInterface.jsx): what may  *)
(* be sent, and the indicator of a turn that runs.                         *)
(*                                                                         *)
(* The connection is what ChatLink promises and WsClient implements, with  *)
(* an address that is wanted throughout; the server's turns are what       *)
(* ChatTurns promises and ChatSession implements.  What is said to the     *)
(* microphone is sent with the state of an earlier render (ChatMic), so it *)
(* may be sent at any time.                                                *)
(***************************************************************************)
EXTENDS Naturals

CONSTANT MaxAsked   \* bound: questions the server has not answered yet

ASSUME ChatPageAssumption == MaxAsked \in Nat \ {0}

VARIABLES
  socket, lateClose, shown, registered, orphaned,   \* the connection (ChatLink)
  misled,         \* history: the close event of a replaced socket hid an open one
  thinking,       \* isThinking
  sending,        \* isSending
  asked, inTurn   \* the server: questions to answer, and one being answered

linkVars == <<socket, lateClose, shown, registered, orphaned>>
chatVars == <<linkVars, misled, thinking, sending, asked, inTurn>>

Link == INSTANCE ChatLink WITH wanted <- TRUE

Turns == INSTANCE ChatTurns WITH online <- socket = "open"

ChatTypeOK ==
  /\ socket \in {"connecting", "open", "lost", "closed"}
  /\ shown \in {"disconnected", "connecting", "connected"}
  /\ {lateClose, registered, orphaned, misled, thinking, sending, inTurn} \subseteq BOOLEAN
  /\ asked \in 0..MaxAsked

(* The first render has run its effects: the connection is asked for. *)
ChatInit ==
  /\ socket = "connecting" /\ shown = "connecting" /\ lateClose = FALSE
  /\ registered = FALSE /\ orphaned = FALSE /\ misled = FALSE
  /\ thinking = FALSE /\ sending = FALSE /\ asked = 0 /\ inTurn = FALSE
-----------------------------------------------------------------------------
(* canSubmitChatMessage, but for the text, with what a render sees *)
MaySubmit(status, thinks, sends) == status = "connected" /\ ~thinks /\ ~sends

CanSubmit == MaySubmit(shown, thinking, sending)

(* The rest of sendMessage once the guard let it through: over an open socket
   the text goes out at once; otherwise it waits, and one that is registered
   fails, which ends the newcomer's isSending as well. *)
Submit ==
  /\ \/ /\ socket = "open" /\ asked < MaxAsked
        /\ asked' = asked + 1 /\ sending' = FALSE
        /\ UNCHANGED linkVars
     \/ /\ Link!Wait
        /\ sending' = ~registered
        /\ UNCHANGED asked
  /\ UNCHANGED <<misled, thinking, inTurn>>

(* The button and the Enter key *)
SendOffered == CanSubmit

(* handleSendMessage, with the render's own state *)
SendTyped == SendOffered /\ CanSubmit /\ Submit

(* A transcript whose recorder was started when the page could send *)
SendSpoken == Submit

(* waitUntilConntected gives up after five seconds. *)
WaitFails ==
  /\ Link!GivesUp
  /\ sending' = FALSE
  /\ UNCHANGED <<misled, thinking, asked, inTurn>>
-----------------------------------------------------------------------------
(* onopen: the connection is shown, and the text that is registered is sent. *)
SocketOpens ==
  /\ Link!Opens
  /\ asked' = IF registered THEN asked + 1 ELSE asked
  /\ sending' = (sending /\ ~registered)
  /\ UNCHANGED <<misled, thinking, inTurn>>

(* The connection breaks; the server's session ends with it. *)
SocketLost ==
  /\ Link!Lost
  /\ asked' = 0 /\ inTurn' = FALSE
  /\ UNCHANGED <<misled, thinking, sending>>

StatusEffect_Never(s) == UNCHANGED thinking

(* The effect on ws.status: it runs when the status changes to s, and hides the
   indicator when that is "disconnected". *)
StatusEffect(s) == thinking' = (thinking /\ ~(s = "disconnected" /\ shown # s))

SocketCloses ==
  /\ Link!Closes
  /\ StatusEffect("disconnected")
  /\ UNCHANGED <<misled, sending, asked, inTurn>>

ReplacedCloses ==
  /\ Link!LateCloses
  /\ misled' = (misled \/ socket = "open")
  /\ StatusEffect("disconnected")
  /\ UNCHANGED <<sending, asked, inTurn>>

(* ws.connect with the address it has: an open socket is left as it is, another
   is replaced. *)
Reconnect ==
  /\ socket # "open" /\ Link!Replace
  /\ StatusEffect("connecting")
  /\ UNCHANGED <<misled, sending, asked, inTurn>>

(* WsConnectionBar offers the button only when the page is shown as cut off. *)
ReconnectOffered == shown = "disconnected"

ClickReconnect == ReconnectOffered /\ Reconnect
RetryFires == Reconnect

(* The assistant or its welcome changes: the effect's cleanup disconnects and
   hides the indicator, and the effect connects and subscribes again. *)
AssistantChanges ==
  /\ Link!Replace
  /\ thinking' = FALSE
  /\ asked' = 0 /\ inTurn' = FALSE
  /\ UNCHANGED <<misled, sending>>
-----------------------------------------------------------------------------
(* The server's messages: "@@@" ... *)
TurnBegins ==
  /\ UNCHANGED <<linkVars, misled, sending>>
  /\ Turns!Begin
  /\ thinking' = TRUE

(* ... and "###". *)
TurnEnds ==
  /\ UNCHANGED <<linkVars, misled, sending>>
  /\ Turns!End
  /\ thinking' = FALSE

ChatNext ==
  \/ SendTyped \/ SendSpoken \/ WaitFails
  \/ SocketOpens \/ SocketLost \/ SocketCloses \/ ReplacedCloses
  \/ ClickReconnect \/ RetryFires \/ AssistantChanges
  \/ TurnBegins \/ TurnEnds

ChatSpec == ChatInit /\ [][ChatNext]_chatVars

(* The server ends a turn it began, and the browser ends every opening and closing
   with an event. *)
ChatFairness ==
  WF_chatVars(TurnEnds) /\ WF_chatVars(SocketOpens \/ SocketCloses) /\ WF_chatVars(ReplacedCloses)
-----------------------------------------------------------------------------
IndicatorShown == thinking

(* The indicator goes out, unless the late close event of a replaced socket hid
   an open one. *)
IndicatorClears == IndicatorShown ~> (~IndicatorShown \/ misled)
=============================================================================
