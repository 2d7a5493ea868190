---------------------------- MODULE SpeechOutput ----------------------------
(***************************************************************************)
(* Reading the answers aloud (queueSpeakText and speakText in              *)
(* frontend/chatbot_ui/src/feature/chat/ChatInterface.jsx).  Answers that  *)
(* come close together are joined; the text is cleaned and cut into        *)
(* segments; each one is fetched as a sound and played by an audio element,*)
(* or spoken by the browser's synthesizer when that fails.  A new text     *)
(* takes a new number, and what goes on for an older number is to stop:    *)
(* each callback compares its number with the newest.                      *)
(*                                                                         *)
(* The browser is external: play() may begin or be refused at any time, a  *)
(* sound ends or breaks, pause() silences an element for good unless play()*)
(* comes after it and makes a pending play() fail.                         *)
(*                                                                         *)
(* An operator whose name ends in _ and a few words is a mutant of the one *)
(* after it: see README, "Mutants".                                        *)
(***************************************************************************)
EXTENDS Naturals, Sequences, FiniteSets

CONSTANTS
  Texts,          \* what the server may answer: sequences of Kinds
  MaxSpeeches,    \* bound: texts read aloud
  MaxPending      \* bound: pieces of the text that waits to be read

(* A text is a sequence of words, of marks that end a sentence, and of what is
   not read: mail addresses and signs (emoji, markup). *)
Kinds == {"word", "mark", "mail", "sign"}

ASSUME SpeechAssumption ==
  /\ Texts \subseteq Seq(Kinds)
  /\ MaxSpeeches \in Nat /\ MaxPending \in Nat

VARIABLES
  pending,        \* pendingSpeakTextRef
  debounce,       \* speakDebounceTimerRef: a timer is set
  speechId,       \* currentSpeechIdRef
  phase,          \* where each call of speakText stands
  index,          \* the segment it is at
  segments,       \* how many it has
  player,         \* audioRef: the call whose audio element it is, 0 for none
  speaking        \* isSpeaking

speechVars == <<pending, debounce, speechId, phase, index, segments, player, speaking>>

Speeches == 1..MaxSpeeches

(* fetch: the segment's sound is awaited; load: its element is made and
   not yet played; start: play() is pending; gap: the pause between segments;
   cut: its element was paused; over: nothing of it is left. *)
Phases == {"unsaid", "fetch", "load", "start", "play", "utter", "gap", "cut", "over"}

SpeechTypeOK ==
  /\ pending \in Seq(Kinds) /\ debounce \in BOOLEAN
  /\ speechId \in 0..MaxSpeeches
  /\ phase \in [Speeches -> Phases]
  /\ index \in [Speeches -> Nat] /\ segments \in [Speeches -> Nat]
  /\ \A i \in Speeches : index[i] <= segments[i]
  /\ player \in 0..MaxSpeeches
  /\ speaking \in BOOLEAN

SpeechInit ==
  /\ pending = <<>> /\ debounce = FALSE
  /\ speechId = 0
  /\ phase = [i \in Speeches |-> "unsaid"]
  /\ index = [i \in Speeches |-> 0]
  /\ segments = [i \in Speeches |-> 0]
  /\ player = 0
  /\ speaking = FALSE

queueVars == <<pending, debounce>>
-----------------------------------------------------------------------------
(* cleanText: what is not read is dropped; numbers, telephone numbers and
   capitals are spelled out, which leaves words.  These are the places of t
   that are left. *)
CleanText(t) == {k \in DOMAIN t : t[k] \notin {"mail", "sign"}}

(* speakText cuts at the marks and drops the empty pieces: a segment begins at
   a word before which, in what is left, there is nothing or a mark. *)
SegmentStarts(t) ==
  LET left == CleanText(t)
  IN {k \in left : /\ t[k] = "word"
                   /\ \A j \in left : j < k /\ left \cap (j + 1)..(k - 1) = {} => t[j] = "mark"}

SegmentCount(t) == Cardinality(SegmentStarts(t))

(* stopCurrentAudio, on the phases p: the current element is paused and given
   up.  A pending play() fails, and its handler turns to the synthesizer. *)
Stopped(p) ==
  [i \in Speeches |->
     CASE i = player /\ p[i] = "play" -> "cut"
       [] i = player /\ p[i] = "start" -> "utter"
       [] OTHER -> p[i]]

Newest(i) == i = speechId

Interrupt_KeepsTimer(p) == Stopped(p)

(* What speakText does to the calls before it: the element is stopped, and the
   timer of the pause between segments is cleared. *)
Interrupt(p) == [i \in Speeches |-> IF p[i] = "gap" THEN "over" ELSE Stopped(p)[i]]

(* fetchTtsAudio, when a segment is left: its sound is in the cache or asked of
   the server, and awaited either way. *)
FetchTtsAudio(left) == IF left THEN "fetch" ELSE "over"

(* What is read is interrupted, and the first of n segments is asked for. *)
SpeakSegments(n) ==
  /\ speechId < MaxSpeeches
  /\ speechId' = speechId + 1
  /\ segments' = [segments EXCEPT ![speechId + 1] = n]
  /\ phase' = [Interrupt(phase) EXCEPT ![speechId + 1] = FetchTtsAudio(n > 0)]
  /\ player' = 0
  /\ speaking' = (n > 0)
  /\ UNCHANGED index

SpeakText(t) == SpeakSegments(SegmentCount(t))

(* An answer joins what waits to be read, and its 280 ms begin anew. *)
QueueSpeakText(t) ==
  /\ Len(pending) + Len(t) <= MaxPending
  /\ pending' = pending \o t
  /\ debounce' = TRUE
  /\ UNCHANGED <<speechId, phase, index, segments, player, speaking>>

(* flushQueuedSpeakText, by the timer or by the end of the turn *)
FlushQueuedSpeakText ==
  /\ debounce' = FALSE /\ pending' = <<>>
  /\ IF pending = <<>>
     THEN UNCHANGED <<speechId, phase, index, segments, player, speaking>>
     ELSE SpeakText(pending)

(* The loudspeaker beside an answer reads it again. *)
SpeakAgain(t) == SpeakText(t) /\ UNCHANGED queueVars

(* fetchTtsAudio resolves, from its cache or from /api/tts/edge. *)
BlobArrives(i) ==
  /\ phase[i] = "fetch"
  /\ \/ /\ Newest(i)
        /\ phase' = [Stopped(phase) EXCEPT ![i] = "load"]
        /\ player' = i
     \/ /\ ~Newest(i)
        /\ phase' = [phase EXCEPT ![i] = "over"]
        /\ UNCHANGED player
  /\ UNCHANGED <<queueVars, speechId, index, segments, speaking>>

(* The element is ready, or 250 ms have passed: play() is called, without a
   look at the number. *)
Play(i) ==
  /\ phase[i] = "load"
  /\ phase' = [phase EXCEPT ![i] = "start"]
  /\ UNCHANGED <<queueVars, speechId, index, segments, player, speaking>>

Plays(i) ==
  /\ phase[i] = "start"
  /\ phase' = [phase EXCEPT ![i] = "play"]
  /\ UNCHANGED <<queueVars, speechId, index, segments, player, speaking>>

(* The fetch or play() fails: the synthesizer speaks the segment, whatever the
   number. *)
Fallback(i) ==
  /\ phase[i] \in {"fetch", "start"}
  /\ phase' = [phase EXCEPT ![i] = "utter"]
  /\ UNCHANGED <<queueVars, speechId, index, segments, player, speaking>>

(* onended of an element: it stops the current element, be it its own or a
   newer one; only the newest number sets the timer of the next segment. *)
AudioEnds(i) ==
  /\ phase[i] = "play"
  /\ phase' = [Stopped(phase) EXCEPT ![i] = IF Newest(i) THEN "gap" ELSE "over"]
  /\ player' = 0
  /\ index' = [index EXCEPT ![i] = @ + IF Newest(i) THEN 1 ELSE 0]
  /\ UNCHANGED <<queueVars, speechId, segments, speaking>>

(* onerror of an element: one that was to be played is not, and the handler of
   play() turns to the synthesizer. *)
AudioBreaks(i) ==
  /\ phase[i] \in {"load", "play"}
  /\ phase' = [Stopped(phase) EXCEPT ![i] = IF phase[i] = "play" THEN "over" ELSE "utter"]
  /\ player' = 0
  /\ speaking' = (speaking /\ ~Newest(i))
  /\ UNCHANGED <<queueVars, speechId, index, segments>>

(* onend and onerror of an utterance *)
UtteranceEnds(i) ==
  /\ phase[i] = "utter"
  /\ phase' = [phase EXCEPT ![i] = IF Newest(i) THEN "gap" ELSE "over"]
  /\ index' = [index EXCEPT ![i] = @ + IF Newest(i) THEN 1 ELSE 0]
  /\ UNCHANGED <<queueVars, speechId, segments, player, speaking>>

UtteranceBreaks(i) ==
  /\ phase[i] = "utter"
  /\ phase' = [phase EXCEPT ![i] = "over"]
  /\ speaking' = (speaking /\ ~Newest(i))
  /\ UNCHANGED <<queueVars, speechId, index, segments, player>>

PlayNextSegment_OneMore(i) ==
  /\ phase[i] = "gap" /\ Newest(i)
  /\ phase' = [phase EXCEPT ![i] = FetchTtsAudio(index[i] <= segments[i])]
  /\ speaking' = (index[i] <= segments[i])
  /\ UNCHANGED <<queueVars, speechId, index, segments, player>>

(* playNextSegment, when the pause is over: the next segment is asked for, or
   there is none. *)
PlayNextSegment(i) ==
  /\ phase[i] = "gap" /\ Newest(i)
  /\ phase' = [phase EXCEPT ![i] = FetchTtsAudio(index[i] < segments[i])]
  /\ speaking' = (index[i] < segments[i])
  /\ UNCHANGED <<queueVars, speechId, index, segments, player>>

(* The page is left: what waits is dropped, the element is stopped and the
   synthesizer silenced; the number stays, and so what is being fetched still
   comes to be played. *)
SilenceOnLeave ==
  /\ pending' = <<>> /\ debounce' = FALSE
  /\ phase' = [i \in Speeches |-> IF Stopped(phase)[i] = "utter" THEN "over" ELSE Stopped(phase)[i]]
  /\ player' = 0
  /\ UNCHANGED <<speechId, index, segments, speaking>>

Sound(i) == BlobArrives(i) \/ Play(i) \/ Plays(i) \/ Fallback(i) \/ AudioBreaks(i) \/ UtteranceBreaks(i)

SpeechNext ==
  \/ \E t \in Texts : QueueSpeakText(t) \/ SpeakAgain(t)
  \/ FlushQueuedSpeakText
  \/ \E i \in Speeches : Sound(i) \/ AudioEnds(i) \/ UtteranceEnds(i) \/ PlayNextSegment(i)
  \/ SilenceOnLeave

SpeechSpec == SpeechInit /\ [][SpeechNext]_speechVars
-----------------------------------------------------------------------------
(* What a new text interrupts gets no further segment: an older call holds neither
   the current element nor the timer that leads to its next segment.  What it has
   begun may still sound, see NewTextInterrupts. *)
InterruptedStays ==
  \A i \in Speeches : player = i \/ phase[i] = "gap" => Newest(i)

(* "A new message interrupts the old playback" (732), whose sequence its number
   makes invalid (741): what sounds belongs to the newest text.  The code does not
   keep this (README, 5): no run has it. *)
NewTextInterrupts ==
  \A i \in Speeches : phase[i] \in {"play", "utter"} => Newest(i)
=============================================================================
