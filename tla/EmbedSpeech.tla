---------------------------- MODULE EmbedSpeech ----------------------------
(***************************************************************************)
(* Reading the answers aloud in the embedded page                          *)
(* (frontend/chatbot_ui/src/components/EmbeddableChatInterface.jsx): the   *)
(* code of ChatInterface.jsx written again.  It differs in three places:   *)
(* each answer is read as it comes, without waiting for the next; the text *)
(* is cut first and cleaned piece by piece; the segment is counted when the*)
(* pause after it ends.                                                    *)
(***************************************************************************)
EXTENDS SpeechOutput

(* The formatters: mail addresses are dropped, the rest is spelled out. *)
EmbedFormatted(t) == {k \in DOMAIN t : t[k] # "mail"}

EmbedCleanText(t) == {k \in EmbedFormatted(t) : t[k] # "sign"}

(* The pieces between marks, each cleaned, that are not empty: one for each
   word that is the first between two marks. *)
EmbedSegmentStarts(t) ==
  {k \in EmbedCleanText(t) :
     /\ t[k] = "word"
     /\ \A j \in 1..(k - 1) : t[j] = "word" => \E m \in j..k : t[m] = "mark"}

EmbedSegmentCount(t) == Cardinality(EmbedSegmentStarts(t))

EmbedSpeakText(t) == SpeakSegments(EmbedSegmentCount(t)) /\ UNCHANGED queueVars

(* fetchTtsAudio, stopCurrentAudio, waitAudioReady and their callbacks *)
EmbedSound(i) == Sound(i)

EmbedAudioEnds(i) ==
  /\ phase[i] = "play"
  /\ phase' = [Stopped(phase) EXCEPT ![i] = IF Newest(i) THEN "gap" ELSE "over"]
  /\ player' = 0
  /\ UNCHANGED <<queueVars, speechId, index, segments, speaking>>

EmbedUtteranceEnds(i) ==
  /\ phase[i] = "utter"
  /\ phase' = [phase EXCEPT ![i] = IF Newest(i) THEN "gap" ELSE "over"]
  /\ UNCHANGED <<queueVars, speechId, index, segments, player, speaking>>

(* speakNext, when the pause is over *)
EmbedSpeakNext(i) ==
  /\ phase[i] = "gap" /\ Newest(i)
  /\ index' = [index EXCEPT ![i] = @ + 1]
  /\ phase' = [phase EXCEPT ![i] = FetchTtsAudio(index'[i] < segments[i])]
  /\ speaking' = (index'[i] < segments[i])
  /\ UNCHANGED <<queueVars, speechId, segments, player>>

EmbedLeave == SilenceOnLeave

EmbedSpeechNext ==
  \/ \E t \in Texts : EmbedSpeakText(t)
  \/ \E i \in Speeches :
       EmbedSound(i) \/ EmbedAudioEnds(i) \/ EmbedUtteranceEnds(i) \/ EmbedSpeakNext(i)
  \/ EmbedLeave

EmbedSpeechSpec == SpeechInit /\ [][EmbedSpeechNext]_speechVars
=============================================================================
