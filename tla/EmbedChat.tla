----------------------------- MODULE EmbedChat -----------------------------
(***************************************************************************)
(* The embedded chat page                                                  *)
(* (frontend/chatbot_ui/src/components/EmbeddableChatInterface.jsx): the   *)
(* chat of ChatPage, whose code it repeats, speech recognition, the idle   *)
(* video that covers the chat, and what the page around it is told.        *)
(*                                                                         *)
(* The recognition object, the timers and the parent page are external.    *)
(* The callbacks of recognition are made once, by an effect of the first   *)
(* render; those of the keyboard and of the idle timer by an effect on     *)
(* isListening, which runs after the render (EffectsRun).                  *)
(***************************************************************************)
EXTENDS ChatPage

CONSTANT MaxAsking   \* bound: requests for the microphone at a time

ASSUME EmbedAssumption == MaxAsking \in Nat

VARIABLES
  embedded,       \* isEmbeddedInParent
  loaded,         \* the assistant came, and speaks: enabledVoiceRef
  recognition,    \* "off", "starting", "on", or "ending": its end event is to come
  hearing,        \* isListening
  seen,           \* isListening as the effects saw it: isListeningRef, the idle timer
  activeView,     \* "chat" or "idleVideo"
  recent,         \* lastMicActivatedAtRef is less than three minutes old
  told,           \* the last MIC_STATE the parent got
  asking,         \* getUserMedia called and not answered
  restarting,     \* timers of 500 ms that start recognition again
  unsent          \* history: a transcript was dropped though the page could send

hostVars == <<embedded, loaded>>
recVars == <<recognition, hearing, told>>
viewVars == <<activeView, recent>>
voiceVars == <<recVars, viewVars, seen, asking, restarting, unsent>>
embedVars == <<chatVars, hostVars, voiceVars>>

EmbedTypeOK ==
  /\ {embedded, loaded, hearing, seen, recent, told, unsent} \subseteq BOOLEAN
  /\ recognition \in {"off", "starting", "on", "ending"}
  /\ activeView \in {"chat", "idleVideo"}
  /\ asking \in 0..MaxAsking
  /\ restarting \subseteq {"device", "capture"}

VoiceInit ==
  /\ embedded \in BOOLEAN /\ loaded = FALSE
  /\ recognition = "off" /\ hearing = FALSE /\ told = FALSE
  /\ activeView = "chat" /\ recent = TRUE
  /\ seen = FALSE /\ asking = 0 /\ restarting = {} /\ unsent = FALSE

(* Nothing is connected before the assistant is known. *)
EmbedInit ==
  /\ socket = "closed" /\ shown = "disconnected" /\ lateClose = FALSE
  /\ registered = FALSE /\ orphaned = FALSE /\ misled = FALSE
  /\ thinking = FALSE /\ sending = FALSE /\ asked = 0 /\ inTurn = FALSE
  /\ VoiceInit
-----------------------------------------------------------------------------
(* The assistant is answered for, or changes on the server: the effects take it
   over and connect. *)
Loads ==
  /\ AssistantChanges
  /\ loaded' = TRUE
  /\ UNCHANGED <<embedded, voiceVars>>

(* handleSendMessage; a text that asks for the video is not sent. *)
EmbedSendTyped ==
  /\ loaded
  /\ SendTyped \/ UNCHANGED chatVars
  /\ UNCHANGED <<hostVars, voiceVars>>

(* sendMessage and the connection do as ChatPage's. *)
EmbedConnection ==
  /\ loaded
  /\ \/ WaitFails \/ SocketOpens \/ SocketLost \/ SocketCloses \/ ReplacedCloses
     \/ ClickReconnect \/ RetryFires \/ TurnBegins \/ TurnEnds
  /\ UNCHANGED <<hostVars, voiceVars>>

EffectsRun ==
  /\ seen' = hearing
  /\ UNCHANGED <<chatVars, hostVars, recVars, viewVars, asking, restarting, unsent>>

RecognitionStarted(r) == IF r = "off" THEN "starting" ELSE r
RecognitionStopped(r) == IF r \in {"starting", "on"} THEN "ending" ELSE r

(* handleVoiceInput, made in a render where isListening was h: recognition is
   stopped, or the microphone asked for. *)
EmbedVoiceInput(h) ==
  \/ h /\ recognition' = RecognitionStopped(recognition) /\ UNCHANGED asking
  \/ ~h /\ ~loaded /\ UNCHANGED <<recognition, asking>>
  \/ ~h /\ loaded /\ asking < MaxAsking /\ asking' = asking + 1 /\ UNCHANGED recognition

ChatShown == activeView = "chat"

(* The button is part of the chat's view. *)
EmbedClickMic ==
  /\ loaded /\ ChatShown
  /\ EmbedVoiceInput(hearing)
  /\ UNCHANGED <<chatVars, hostVars, hearing, told, viewVars, seen, restarting, unsent>>

(* F9, or START_MIC from the parent: back to the chat, and on with the
   microphone unless it is on.  START_MIC calls the handler of the last render. *)
Summon(h) ==
  /\ activeView' = "chat" /\ recent' = TRUE
  /\ IF seen THEN UNCHANGED <<recognition, asking>> ELSE EmbedVoiceInput(h)
  /\ UNCHANGED <<chatVars, hostVars, hearing, told, seen, restarting, unsent>>

PressF9 == Summon(seen)
ParentStartsMic == embedded /\ Summon(hearing)

(* getUserMedia answers; start() on what is not off throws, and is caught. *)
MicAnswers ==
  /\ asking > 0
  /\ asking' = asking - 1
  /\ recognition' \in {recognition, RecognitionStarted(recognition)}
  /\ UNCHANGED <<chatVars, hostVars, hearing, told, viewVars, seen, restarting, unsent>>
-----------------------------------------------------------------------------
OnStart_KeepsTime ==
  /\ recognition = "starting"
  /\ recognition' = "on" /\ hearing' = TRUE /\ told' = embedded
  /\ activeView' = "chat"
  /\ UNCHANGED <<chatVars, hostVars, recent, seen, asking, restarting, unsent>>

(* The callbacks of recognition *)
OnStart ==
  /\ recognition = "starting"
  /\ recognition' = "on" /\ hearing' = TRUE /\ told' = embedded
  /\ activeView' = "chat" /\ recent' = TRUE
  /\ UNCHANGED <<chatVars, hostVars, seen, asking, restarting, unsent>>

(* onresult was made in the first render: its sendMessage sees the connection
   as it was then. *)
FirstRenderMaySend == MaySubmit("disconnected", FALSE, FALSE)

OnResult ==
  /\ recognition = "on"
  /\ recognition' = "ending"
  /\ \/ unsent' = (unsent \/ (CanSubmit /\ ~FirstRenderMaySend))
     \/ UNCHANGED unsent                \* VIDEO_SWITCH: the parent is told instead
  /\ UNCHANGED <<chatVars, hostVars, hearing, told, viewVars, seen, asking, restarting>>

OnEnd ==
  /\ recognition \in {"on", "ending"}
  /\ recognition' = "off" /\ hearing' = FALSE /\ told' = FALSE
  /\ UNCHANGED <<chatVars, hostVars, viewVars, seen, asking, restarting, unsent>>

OnError ==
  /\ recognition \in {"starting", "on"}
  /\ recognition' = "ending" /\ hearing' = FALSE
  /\ \E error \in {"aborted", "audio-capture", "no-speech"} :
       /\ told' = (told /\ error = "aborted")
       /\ restarting' = IF error = "audio-capture" THEN restarting \cup {"capture"} ELSE restarting
  /\ UNCHANGED <<chatVars, hostVars, viewVars, seen, asking, unsent>>

(* A device comes or goes while the page listens: recognition is stopped and,
   if it is still off half a second later, started. *)
DeviceChanges ==
  /\ seen
  /\ recognition' = RecognitionStopped(recognition)
  /\ restarting' = restarting \cup {"device"}
  /\ UNCHANGED <<chatVars, hostVars, hearing, told, viewVars, seen, asking, unsent>>

Restarts ==
  \E why \in restarting :
    /\ restarting' = restarting \ {why}
    /\ recognition' = IF why = "device" /\ seen THEN recognition ELSE RecognitionStarted(recognition)
    /\ UNCHANGED <<chatVars, hostVars, hearing, told, viewVars, seen, asking, unsent>>
-----------------------------------------------------------------------------
(* The effects of a render run long before three minutes are over. *)
ThreeMinutesPass ==
  /\ seen = hearing
  /\ recent' = FALSE
  /\ UNCHANGED <<chatVars, hostVars, recVars, activeView, seen, asking, restarting, unsent>>

(* The timer, each second, when no parent shows a video of its own *)
IdleTick ==
  /\ ~embedded
  /\ activeView' = IF seen THEN "chat" ELSE IF recent THEN activeView ELSE "idleVideo"
  /\ UNCHANGED <<chatVars, hostVars, recVars, recent, seen, asking, restarting, unsent>>

EmbedNext ==
  \/ Loads \/ EmbedSendTyped \/ EmbedConnection \/ EffectsRun
  \/ EmbedClickMic \/ PressF9 \/ ParentStartsMic \/ MicAnswers
  \/ OnStart \/ OnResult \/ OnEnd \/ OnError \/ DeviceChanges \/ Restarts
  \/ ThreeMinutesPass \/ IdleTick

EmbedSpec == EmbedInit /\ [][EmbedNext]_embedVars
-----------------------------------------------------------------------------
(* While the microphone is on, the chat is what is seen: the idle video never
   covers it. *)
ListeningShowsChat == hearing => ChatShown

(* "Sent automatically" (the comment in onresult): a transcript that comes when
   the page can send is sent. *)
SpokenIsSent == ~unsent
=============================================================================
