------------------------------ MODULE ChatMic ------------------------------
(***************************************************************************)
(* The microphone of the chat page                                         *)
(* (frontend/chatbot_ui/src/feature/chat/ChatInterface.jsx) and its restart*)
(* after an answer was read.                                               *)
(*                                                                         *)
(* The hard part is React's: a callback sees the state of the render it was*)
(* made in.  The subscription to the server's messages is made by an effect*)
(* of the first render, or of one in which the assistant changed, and so   *)
(* are the speech it starts and the microphone that speech restarts; what  *)
(* a recorder hears is sent with the state of the render that started it.  *)
(* A view is what such a callback sees.                                    *)
(*                                                                         *)
(* Whether the page may send is ChatPage's, and changes here at any time;  *)
(* what is read is SpeechOutput's, and ends at any time.                   *)
(***************************************************************************)
EXTENDS Naturals

CONSTANT MaxRecorders   \* bound: recorders at a time

ASSUME ChatMicAssumption == MaxRecorders \in Nat

VARIABLES
  maySend,        \* ChatPage's CanSubmit
  effect,         \* the view of the effect that subscribed
  reader,         \* the views of the speech that is read: none or one
  restart,        \* the views of the timer that restarts the microphone
  mic, micReady,  \* each recorder, and whether its view may send
  stream,         \* micStreamRef: whose stream, 0 for none
  recorder,       \* mediaRecorderRef
  listening,      \* isListening
  sttLoading,     \* isSttLoading
  autoMic,        \* autoRestartMicRef
  astray          \* history: while one listened the refs were given to one that failed

readVars == <<maySend, effect, reader, restart>>
micVars == <<mic, micReady, stream, recorder, listening, sttLoading, autoMic, astray>>
chatMicVars == <<readVars, micVars>>

Recorders == 1..MaxRecorders
Views == [ready : BOOLEAN, hears : BOOLEAN]

ChatMicTypeOK ==
  /\ {maySend, listening, sttLoading, autoMic, astray} \subseteq BOOLEAN
  /\ effect \in Views /\ reader \subseteq Views /\ restart \subseteq Views
  /\ mic \in [Recorders -> {"off", "asking", "recording", "stopping", "stt"}]
  /\ micReady \in [Recorders -> BOOLEAN]
  /\ {stream, recorder} \subseteq {0} \cup Recorders

(* The first render has run its effects, which see the page as disconnected. *)
ChatMicInit ==
  /\ maySend = FALSE
  /\ effect = [ready |-> FALSE, hears |-> FALSE] /\ reader = {} /\ restart = {}
  /\ mic = [r \in Recorders |-> "off"] /\ micReady = [r \in Recorders |-> FALSE]
  /\ stream = 0 /\ recorder = 0
  /\ listening = FALSE /\ sttLoading = FALSE /\ autoMic = FALSE /\ astray = FALSE
-----------------------------------------------------------------------------
Now == [ready |-> maySend, hears |-> listening]

(* ChatPage: the connection, the turn or a sending begins or ends. *)
PageChanges ==
  /\ maySend' = ~maySend
  /\ UNCHANGED <<effect, reader, restart, micVars>>

(* The assistant or its welcome changes: the effect subscribes again. *)
Resubscribe ==
  /\ effect' = Now
  /\ UNCHANGED <<maySend, reader, restart, micVars>>

(* An answer is read with the effect's view ... *)
ReadAnswer ==
  /\ reader' = {effect}
  /\ UNCHANGED <<maySend, effect, restart, micVars>>

(* ... and with the present one by the loudspeaker beside it. *)
ReadAgain ==
  /\ reader' = {Now}
  /\ UNCHANGED <<maySend, effect, restart, micVars>>

(* The speech is over: if the microphone is to go on, its timer is set. *)
ReadingEnds ==
  /\ reader # {}
  /\ reader' = {}
  /\ restart' = IF autoMic THEN reader ELSE restart
  /\ UNCHANGED <<maySend, effect, micVars>>
-----------------------------------------------------------------------------
(* handleVoiceInput with the view v: the recorder stops, or one is asked for. *)
VoiceInput(v) ==
  \/ /\ v.hears
     /\ autoMic' = FALSE
     /\ mic' = [r \in Recorders |-> IF r = recorder /\ mic[r] = "recording" THEN "stopping" ELSE mic[r]]
     /\ UNCHANGED micReady
  \/ /\ ~v.hears
     /\ \E r \in Recorders :
          /\ mic[r] = "off"
          /\ mic' = [mic EXCEPT ![r] = "asking"]
          /\ micReady' = [micReady EXCEPT ![r] = v.ready]
     /\ UNCHANGED autoMic

ClickMic ==
  /\ ~sttLoading
  /\ VoiceInput(Now)
  /\ UNCHANGED <<readVars, stream, recorder, listening, astray, sttLoading>>

(* The timer of 500 ms after a speech *)
RestartMic ==
  /\ restart # {}
  /\ restart' = {}
  /\ \/ autoMic /\ \E v \in restart : VoiceInput(v)
     \/ ~autoMic /\ UNCHANGED <<mic, micReady, autoMic>>
  /\ UNCHANGED <<maySend, effect, reader, stream, recorder, listening, astray, sttLoading>>

(* getUserMedia fails, ... *)
MicRefused(r) ==
  /\ mic[r] = "asking"
  /\ mic' = [mic EXCEPT ![r] = "off"]
  /\ UNCHANGED <<readVars, micReady, stream, recorder, listening, astray, sttLoading, autoMic>>

(* ... or what is done with its stream does (the recorder, the audio context, the
   start): what was kept of both stays, and nothing stops the stream's tracks. *)
MicFails(r) ==
  /\ mic[r] = "asking"
  /\ mic' = [mic EXCEPT ![r] = "off"]
  /\ stream' = r /\ recorder' \in {recorder, r}
  /\ astray' = listening
  /\ UNCHANGED <<readVars, micReady, listening, sttLoading, autoMic>>

MicGranted(r) ==
  /\ mic[r] = "asking"
  /\ mic' = [mic EXCEPT ![r] = "recording"]
  /\ stream' = r /\ recorder' = r
  /\ listening' = TRUE /\ autoMic' = TRUE /\ astray' = FALSE
  /\ UNCHANGED <<readVars, micReady, sttLoading>>

(* vadLoop: each recorder's loop stops the one mediaRecorderRef holds. *)
SilenceStops ==
  /\ recorder # 0 /\ mic[recorder] = "recording"
  /\ mic' = [mic EXCEPT ![recorder] = "stopping"]
  /\ UNCHANGED <<readVars, micReady, stream, recorder, listening, astray, sttLoading, autoMic>>

(* The device is unplugged. *)
TracksEnd(r) ==
  /\ mic[r] = "recording"
  /\ mic' = [mic EXCEPT ![r] = "stopping"]
  /\ UNCHANGED <<readVars, micReady, stream, recorder, listening, astray, sttLoading, autoMic>>

RecorderStops_KeepsListening(r) ==
  /\ mic[r] = "stopping"
  /\ \E loud \in BOOLEAN :
       /\ mic' = [s \in Recorders |->
                    IF s = r THEN IF loud THEN "stt" ELSE "off"
                    ELSE IF s = stream /\ mic[s] = "recording" THEN "stopping" ELSE mic[s]]
       /\ sttLoading' = (sttLoading \/ loud)
  /\ stream' = 0 /\ listening' = (listening /\ stream # r) /\ astray' = FALSE
  /\ UNCHANGED <<readVars, micReady, recorder, autoMic>>

(* onstop of a recorder: it stops the stream micStreamRef holds, be it another
   recorder's; what is loud enough goes to /api/stt/transcribe. *)
RecorderStops(r) ==
  /\ mic[r] = "stopping"
  /\ \E loud \in BOOLEAN :
       /\ mic' = [s \in Recorders |->
                    IF s = r THEN IF loud THEN "stt" ELSE "off"
                    ELSE IF s = stream /\ mic[s] = "recording" THEN "stopping" ELSE mic[s]]
       /\ sttLoading' = (sttLoading \/ loud)
  /\ stream' = 0 /\ listening' = FALSE /\ astray' = FALSE
  /\ UNCHANGED <<readVars, micReady, recorder, autoMic>>

(* The transcript is empty, the request fails, or the view may not send ... *)
TranscriptDropped(r) ==
  /\ mic[r] = "stt"
  /\ mic' = [mic EXCEPT ![r] = "off"]
  /\ sttLoading' = FALSE
  /\ UNCHANGED <<readVars, micReady, stream, recorder, listening, astray, autoMic>>

(* ... or it is sent (ChatPage's SendSpoken), whatever the present state. *)
TranscriptSent(r) ==
  /\ mic[r] = "stt" /\ micReady[r]
  /\ mic' = [mic EXCEPT ![r] = "off"]
  /\ sttLoading' = FALSE
  /\ UNCHANGED <<readVars, micReady, stream, recorder, listening, astray, autoMic>>

ChatMicNext ==
  \/ PageChanges \/ Resubscribe \/ ReadAnswer \/ ReadAgain \/ ReadingEnds
  \/ ClickMic \/ RestartMic \/ SilenceStops
  \/ \E r \in Recorders :
       \/ MicRefused(r) \/ MicFails(r) \/ MicGranted(r) \/ TracksEnd(r) \/ RecorderStops(r)
       \/ TranscriptDropped(r) \/ TranscriptSent(r)

ChatMicSpec == ChatMicInit /\ [][ChatMicNext]_chatMicVars
-----------------------------------------------------------------------------
(* The microphone shown as open is one: the page listens only while the
   recorder and the stream it can stop are of one recording, unless a second one
   that was asked for meanwhile has failed. *)
ListeningIsReal ==
  listening /\ ~astray =>
    /\ recorder # 0 /\ stream = recorder
    /\ mic[recorder] \in {"recording", "stopping"}
=============================================================================
