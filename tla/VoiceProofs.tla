---------------------------- MODULE VoiceProofs ----------------------------
(***************************************************************************)
(* The chat pages, for any constants: speech output (types,                *)
(* InterruptedStays, that both pages cut a text alike), the microphone of  *)
(* the chat page (types, ListeningIsReal), the embedded page (types,       *)
(* ListeningShowsChat), and what both pages keep of the indicator (types,  *)
(* ClearingAhead, SendingWaits) and do in its turns (ChatTurns).           *)
(***************************************************************************)
EXTENDS EmbedSpeech, ChatMic, EmbedChat, FiniteSetTheorems, TLAPS

(* What of the types the argument needs. *)
Shape ==
  /\ phase \in [Speeches -> Phases]
  /\ speechId \in 0..MaxSpeeches /\ player \in 0..MaxSpeeches

SInv == Shape /\ InterruptedStays

(* stopCurrentAudio gives no call a timer. *)
LEMMA StoppedShape ==
  ASSUME Shape
  PROVE  /\ Stopped(phase) \in [Speeches -> Phases]
         /\ \A i \in Speeches : Stopped(phase)[i] = "gap" => phase[i] = "gap"
  BY DEF Shape, Stopped, Phases

(* speakText clears the timer there is. *)
LEMMA InterruptShape ==
  ASSUME Shape
  PROVE  /\ Interrupt(phase) \in [Speeches -> Phases]
         /\ \A i \in Speeches : Interrupt(phase)[i] # "gap"
  BY StoppedShape DEF Shape, Interrupt, Phases

LEMMA SpeechStarts == SpeechInit => SInv
  BY SpeechAssumption DEF SpeechInit, SInv, Shape, InterruptedStays, Speeches, Phases

(* A new text: nothing has a timer, and no element is the current one. *)
LEMMA SpeakStep ==
  ASSUME SInv, NEW n, SpeakSegments(n)
  PROVE  SInv'
<1>1. speechId + 1 \in Speeches
  BY SpeechAssumption DEF SInv, Shape, SpeakSegments, Speeches
<1>2. FetchTtsAudio(n > 0) \in Phases \ {"gap"}
  BY DEF FetchTtsAudio, Phases
<1>3. phase' \in [Speeches -> Phases] /\ \A i \in Speeches : phase'[i] # "gap"
  BY <1>1, <1>2, InterruptShape DEF SInv, SpeakSegments
<1> QED
  BY <1>1, <1>3, SpeechAssumption DEF SInv, Shape, InterruptedStays, SpeakSegments, Speeches

(* The steps of a sound that set no timer *)
LEMMA SoundStep ==
  ASSUME SInv, NEW i \in Speeches, Sound(i)
  PROVE  SInv'
<1>1. CASE BlobArrives(i)
  BY <1>1, StoppedShape, SpeechAssumption
  DEF BlobArrives, SInv, Shape, InterruptedStays, Newest, Phases, Speeches
<1>2. CASE Play(i) \/ Plays(i) \/ Fallback(i) \/ UtteranceBreaks(i)
  BY <1>2 DEF Play, Plays, Fallback, UtteranceBreaks, SInv, Shape, InterruptedStays,
      Newest, Phases
<1>3. CASE AudioBreaks(i)
  BY <1>3, StoppedShape, SpeechAssumption
  DEF AudioBreaks, SInv, Shape, InterruptedStays, Newest, Phases, Speeches
<1> QED
  BY <1>1, <1>2, <1>3 DEF Sound

(* The end of a segment: only the newest call gets the timer of the next. *)
LEMMA EndStep ==
  ASSUME SInv, NEW i \in Speeches,
         AudioEnds(i) \/ UtteranceEnds(i) \/ EmbedAudioEnds(i) \/ EmbedUtteranceEnds(i)
  PROVE  SInv'
<1>1. CASE AudioEnds(i) \/ EmbedAudioEnds(i)
  BY <1>1, StoppedShape, SpeechAssumption
  DEF AudioEnds, EmbedAudioEnds, SInv, Shape, InterruptedStays, Newest, Phases, Speeches
<1>2. CASE UtteranceEnds(i) \/ EmbedUtteranceEnds(i)
  BY <1>2 DEF UtteranceEnds, EmbedUtteranceEnds, SInv, Shape, InterruptedStays, Newest, Phases
<1> QED
  BY <1>1, <1>2

(* The timer fires. *)
LEMMA NextSegmentStep ==
  ASSUME SInv, NEW i \in Speeches, PlayNextSegment(i) \/ EmbedSpeakNext(i)
  PROVE  SInv'
<1>1. /\ FetchTtsAudio(index[i] < segments[i]) \in Phases \ {"gap"}
      /\ FetchTtsAudio(index'[i] < segments[i]) \in Phases \ {"gap"}
  BY DEF FetchTtsAudio, Phases
<1> QED
  BY <1>1 DEF PlayNextSegment, EmbedSpeakNext, SInv, Shape, InterruptedStays, Newest

(* The page is left; or nothing is said. *)
LEMMA QuietStep ==
  ASSUME SInv, SilenceOnLeave \/ UNCHANGED <<speechId, phase, player>>
  PROVE  SInv'
<1>1. CASE SilenceOnLeave
  BY <1>1, StoppedShape, SpeechAssumption
  DEF SilenceOnLeave, SInv, Shape, InterruptedStays, Newest, Phases, Speeches
<1>2. CASE UNCHANGED <<speechId, phase, player>>
  BY <1>2 DEF SInv, Shape, InterruptedStays, Newest
<1> QED
  BY <1>1, <1>2

LEMMA SpeechStep == SInv /\ [SpeechNext]_speechVars => SInv'
<1> SUFFICES ASSUME SInv, [SpeechNext]_speechVars PROVE SInv'
  OBVIOUS
<1>1. CASE \E t \in Texts : QueueSpeakText(t) \/ SpeakAgain(t)
  BY <1>1, SpeakStep, QuietStep DEF QueueSpeakText, SpeakAgain, SpeakText
<1>2. CASE FlushQueuedSpeakText
  BY <1>2, SpeakStep, QuietStep DEF FlushQueuedSpeakText, SpeakText
<1>3. CASE \E i \in Speeches : Sound(i) \/ AudioEnds(i) \/ UtteranceEnds(i) \/ PlayNextSegment(i)
  BY <1>3, SoundStep, EndStep, NextSegmentStep
<1>4. CASE SilenceOnLeave \/ UNCHANGED speechVars
  BY <1>4, QuietStep DEF speechVars
<1> QED
  BY <1>1, <1>2, <1>3, <1>4 DEF SpeechNext

LEMMA EmbedStep == SInv /\ [EmbedSpeechNext]_speechVars => SInv'
<1> SUFFICES ASSUME SInv, [EmbedSpeechNext]_speechVars PROVE SInv'
  OBVIOUS
<1>1. CASE \E t \in Texts : EmbedSpeakText(t)
  BY <1>1, SpeakStep DEF EmbedSpeakText
<1>2. CASE \E i \in Speeches :
             EmbedSound(i) \/ EmbedAudioEnds(i) \/ EmbedUtteranceEnds(i) \/ EmbedSpeakNext(i)
  BY <1>2, SoundStep, EndStep, NextSegmentStep DEF EmbedSound
<1>3. CASE EmbedLeave \/ UNCHANGED speechVars
  BY <1>3, QuietStep DEF EmbedLeave, speechVars
<1> QED
  BY <1>1, <1>2, <1>3 DEF EmbedSpeechNext

(* However fetches, sounds, utterances, pauses and new texts interleave
   (ChatInterface.jsx 684-897), what a new text interrupted has neither the
   element nor the timer of a next segment. *)
THEOREM Interruption == SpeechSpec => []InterruptedStays
<1>1. SInv => InterruptedStays
  BY DEF SInv
<1> QED
  BY <1>1, SpeechStarts, SpeechStep, PTL DEF SpeechSpec

(* The same of the embedded page (EmbeddableChatInterface.jsx 484-693). *)
THEOREM EmbedInterruption == EmbedSpeechSpec => []InterruptedStays
<1>1. SInv => InterruptedStays
  BY DEF SInv
<1> QED
  BY <1>1, SpeechStarts, EmbedStep, PTL DEF EmbedSpeechSpec
-----------------------------------------------------------------------------
(* A segment that is fetched, played or spoken is one of the text's: the phases
   in which that is so, but for the pause after it. *)
Saying == {"fetch", "load", "start", "play", "utter"}

(* The types, with what the bound on index needs: a call in one of the phases
   ahead has a segment yet to count.  The chat page counts a segment when its
   sound ends, the embedded page when the pause after it does. *)
Early == Saying
Late == Saying \cup {"gap"}

Counted(ahead) ==
  /\ speechId \in 0..MaxSpeeches /\ player \in 0..MaxSpeeches
  /\ phase \in [Speeches -> Phases]
  /\ index \in [Speeches -> Nat] /\ segments \in [Speeches -> Nat]
  /\ \A i \in Speeches : index[i] <= segments[i]
  /\ \A i \in Speeches : i > speechId => index[i] = 0
  /\ \A i \in Speeches : phase[i] \in ahead => index[i] < segments[i]

Flags == debounce \in BOOLEAN /\ speaking \in BOOLEAN
Waiting == pending \in Seq(Kinds)

(* A text has as many segments as it has places where one begins. *)
LEMMA CountIsNatural ==
  ASSUME NEW t \in Seq(Kinds)
  PROVE  SegmentCount(t) \in Nat /\ EmbedSegmentCount(t) \in Nat
<1>1. IsFiniteSet(DOMAIN t)
  BY FS_Interval
<1>2. SegmentStarts(t) \subseteq DOMAIN t /\ EmbedSegmentStarts(t) \subseteq DOMAIN t
  BY DEF SegmentStarts, CleanText, EmbedSegmentStarts, EmbedCleanText, EmbedFormatted
<1>3. IsFiniteSet(SegmentStarts(t)) /\ IsFiniteSet(EmbedSegmentStarts(t))
  BY <1>1, <1>2, FS_Subset
<1> QED
  BY <1>3, FS_CardinalityType DEF SegmentCount, EmbedSegmentCount

(* Of the places before k in a set of them, one is the last. *)
LEMMA LastBefore ==
  ASSUME NEW places \in SUBSET Nat, NEW k \in Nat, NEW j \in places, j < k
  PROVE  \E l \in places : l < k /\ \A i \in places : i < k => i <= l
<1> DEFINE gaps == {g \in Nat : \E i \in places : i < k /\ g = k - i}
<1>1. k - j \in gaps
  OBVIOUS
<1>2. PICK g \in gaps : \A h \in gaps : ~ (<<h, g>> \in OpToRel(<, Nat))
  <2> HIDE DEF gaps
  <2>1. gaps \subseteq Nat
    BY DEF gaps
  <2> QED
    BY <1>1, <2>1, NatLessThanWellFounded, WFMin
<1>3. ASSUME NEW h \in gaps PROVE g <= h
  <2>1. g \in Nat /\ h \in Nat
    OBVIOUS
  <2> HIDE DEF gaps
  <2>2. CASE h < g
    <3>1. <<h, g>> \in Nat \X Nat /\ <<h, g>>[1] = h /\ <<h, g>>[2] = g
      BY <2>1
    <3>2. <<h, g>> \in OpToRel(<, Nat)
      BY <2>2, <3>1 DEF OpToRel
    <3> QED
      BY <1>2, <3>2
  <2> QED
    BY <2>1, <2>2
<1>4. PICK l \in places : l < k /\ g = k - l
  OBVIOUS
<1>5. ASSUME NEW i \in places, i < k PROVE i <= l
  <2>1. k - i \in gaps
    BY <1>5
  <2>2. k - l <= k - i
    BY <1>3, <1>4, <2>1
  <2> QED
    BY <2>2
<1> QED
  BY <1>4, <1>5

(* The chat page drops what is not read and then cuts at the marks, the embedded
   page the other way round (ChatInterface.jsx 728-760, EmbeddableChatInterface.jsx
   560-582): of any text they read the same segments. *)
THEOREM SameCuts ==
  ASSUME NEW t \in Seq(Kinds)
  PROVE  SegmentStarts(t) = EmbedSegmentStarts(t) /\ SegmentCount(t) = EmbedSegmentCount(t)
<1> DEFINE left == CleanText(t)
           Begins(k) == \A j \in left :
                          j < k /\ left \cap (j + 1)..(k - 1) = {} => t[j] = "mark"
           Alone(k) == \A j \in 1..(k - 1) : t[j] = "word" => \E m \in j..k : t[m] = "mark"
<1>1. /\ DOMAIN t = 1..Len(t) /\ Len(t) \in Nat
      /\ \A i \in DOMAIN t : t[i] \in {"word", "mark", "mail", "sign"}
  BY DEF Kinds
<1>2. /\ left \subseteq DOMAIN t
      /\ \A i \in DOMAIN t : i \in left <=> t[i] \in {"word", "mark"}
  BY <1>1 DEF CleanText
<1> HIDE DEF left
<1>3. ASSUME NEW k \in DOMAIN t, t[k] = "word", Begins(k) PROVE Alone(k)
  <2>1. SUFFICES ASSUME NEW j \in 1..(k - 1), t[j] = "word"
                 PROVE  \E m \in j..k : t[m] = "mark"
    OBVIOUS
  <2>2. k \in Nat /\ j \in Nat /\ j < k /\ j \in left /\ left \subseteq Nat
    BY <1>1, <1>2, <2>1
  <2>3. PICK l \in left : l < k /\ \A i \in left : i < k => i <= l
    BY <2>2, LastBefore
  <2>4. left \cap (l + 1)..(k - 1) = {}
    BY <2>2, <2>3
  <2>5. t[l] = "mark" /\ j <= l
    BY <1>3, <2>2, <2>3, <2>4
  <2> QED
    BY <2>2, <2>3, <2>5
<1>4. ASSUME NEW k \in DOMAIN t, t[k] = "word", Alone(k) PROVE Begins(k)
  <2>1. SUFFICES ASSUME NEW j \in left, j < k, left \cap (j + 1)..(k - 1) = {}, t[j] # "mark"
                 PROVE  FALSE
    OBVIOUS
  <2>2. t[j] = "word" /\ j \in 1..(k - 1)
    BY <1>1, <1>2, <2>1
  <2>3. PICK m \in j..k : t[m] = "mark"
    BY <1>4, <2>2
  <2>4. m \in DOMAIN t /\ m # j /\ m # k
    BY <1>1, <1>4, <2>2, <2>3
  <2>5. m \in left /\ m \in (j + 1)..(k - 1)
    BY <1>1, <1>2, <2>3, <2>4
  <2> QED
    BY <2>1, <2>5
<1>5. SegmentStarts(t) = {k \in left : t[k] = "word" /\ Begins(k)}
  BY DEF SegmentStarts, left
<1>6. EmbedSegmentStarts(t) = {k \in EmbedCleanText(t) : t[k] = "word" /\ Alone(k)}
  BY DEF EmbedSegmentStarts
<1>7. EmbedCleanText(t) = left
  BY DEF EmbedCleanText, EmbedFormatted, CleanText, left
<1> HIDE DEF Begins, Alone
<1>8. SegmentStarts(t) = EmbedSegmentStarts(t)
  BY <1>2, <1>3, <1>4, <1>5, <1>6, <1>7
<1> QED
  BY <1>8 DEF SegmentCount, EmbedSegmentCount

(* What stopCurrentAudio and a new text make of the phases *)
Keeps(p, ahead) ==
  /\ p \in [Speeches -> Phases]
  /\ \A i \in Speeches : p[i] \in ahead => phase[i] \in ahead

LEMMA StoppedSays ==
  ASSUME phase \in [Speeches -> Phases], NEW ahead \in {Early, Late}
  PROVE  Keeps(Stopped(phase), ahead) /\ Keeps(Interrupt(phase), ahead)
<1>1. Stopped(phase) \in [Speeches -> Phases] /\ Interrupt(phase) \in [Speeches -> Phases]
  BY DEF Stopped, Interrupt, Phases
<1>2. ASSUME NEW i \in Speeches
      PROVE  /\ Stopped(phase)[i] \in ahead => phase[i] \in ahead
             /\ Interrupt(phase)[i] \in ahead => phase[i] \in ahead
  BY DEF Stopped, Interrupt, Phases, Saying, Early, Late
<1> QED
  BY <1>1, <1>2 DEF Keeps

LEMMA CountStarts ==
  ASSUME SpeechInit, NEW ahead \in {Early, Late}
  PROVE  Counted(ahead)
  BY SpeechAssumption DEF SpeechInit, Counted, Speeches, Phases, Saying, Early, Late

LEMMA CountSpeak ==
  ASSUME NEW ahead \in {Early, Late}, Counted(ahead), NEW n \in Nat, SpeakSegments(n)
  PROVE  Counted(ahead)'
<1>1. speechId + 1 \in Speeches /\ speechId' = speechId + 1 /\ speechId \in Nat
  BY SpeechAssumption DEF Counted, SpeakSegments, Speeches
<1>2. /\ phase' = [Interrupt(phase) EXCEPT ![speechId + 1] = FetchTtsAudio(n > 0)]
      /\ segments' = [segments EXCEPT ![speechId + 1] = n] /\ index' = index
      /\ player' = 0
  BY DEF SpeakSegments
<1>3. FetchTtsAudio(n > 0) \in Phases /\ (FetchTtsAudio(n > 0) \in ahead => n > 0)
  BY DEF FetchTtsAudio, Phases, Saying, Early, Late
<1>4. /\ index[speechId + 1] = 0 /\ index \in [Speeches -> Nat] /\ segments \in [Speeches -> Nat]
      /\ phase \in [Speeches -> Phases]
  BY <1>1 DEF Counted
<1>5. Keeps(Interrupt(phase), ahead)
  BY <1>4, StoppedSays
<1>6. phase' \in [Speeches -> Phases] /\ \A i \in Speeches : index'[i] <= segments'[i]
  BY <1>1, <1>2, <1>3, <1>4, <1>5 DEF Counted, Keeps
<1>7. ASSUME NEW i \in Speeches PROVE i > speechId' => index'[i] = 0
  BY <1>1, <1>2 DEF Counted, Speeches
<1>8. ASSUME NEW i \in Speeches, phase'[i] \in ahead PROVE index'[i] < segments'[i]
  <2>1. CASE i = speechId + 1
    BY <1>1, <1>2, <1>3, <1>4, <1>5, <1>8, <2>1 DEF Keeps
  <2>2. CASE i # speechId + 1
    <3>1. phase'[i] = Interrupt(phase)[i] /\ segments'[i] = segments[i]
      BY <1>2, <1>4, <1>5, <2>2 DEF Keeps
    <3> QED
      BY <1>2, <1>5, <1>8, <3>1 DEF Counted, Keeps
  <2> QED
    BY <2>1, <2>2
<1> QED
  BY <1>1, <1>2, <1>4, <1>6, <1>7, <1>8, SpeechAssumption DEF Counted, Speeches

(* What neither begins a segment nor ends one *)
Unmoved(ahead) ==
  /\ UNCHANGED <<speechId, index, segments>>
  /\ player' \in 0..MaxSpeeches
  /\ Keeps(phase', ahead)

LEMMA CountSound ==
  ASSUME NEW ahead \in {Early, Late}, Counted(ahead),
         (\E i \in Speeches : Sound(i)) \/ SilenceOnLeave
  PROVE  Counted(ahead)'
<1>1. /\ phase \in [Speeches -> Phases] /\ player \in 0..MaxSpeeches
      /\ Keeps(Stopped(phase), ahead)
  BY StoppedSays DEF Counted
<1>2. "over" \notin ahead /\ "cut" \notin ahead /\ Saying \subseteq ahead
  BY DEF Early, Late, Saying
<1>3. ASSUME SilenceOnLeave PROVE Unmoved(ahead)
  <2>1. phase' \in [Speeches -> Phases] /\ \A i \in Speeches : phase'[i] \in {Stopped(phase)[i], "over"}
    BY <1>1, <1>3 DEF SilenceOnLeave, Keeps, Phases
  <2> QED
    BY <1>1, <1>2, <1>3, <2>1, SpeechAssumption DEF SilenceOnLeave, Unmoved, Keeps
<1>4. ASSUME NEW i \in Speeches, BlobArrives(i) PROVE Unmoved(ahead)
  <2>1. phase[i] = "fetch" /\ UNCHANGED <<speechId, index, segments>>
    BY <1>4 DEF BlobArrives
  <2>2. player' \in 0..MaxSpeeches
    BY <1>1, <1>4 DEF BlobArrives, Speeches
  <2>3. \/ phase' = [Stopped(phase) EXCEPT ![i] = "load"]
        \/ phase' = [phase EXCEPT ![i] = "over"]
    BY <1>4 DEF BlobArrives
  <2>4. Keeps(phase', ahead)
    BY <1>1, <1>2, <2>1, <2>3 DEF Keeps, Phases, Saying
  <2> QED
    BY <2>1, <2>2, <2>4 DEF Unmoved
<1>5. ASSUME NEW i \in Speeches, AudioBreaks(i) PROVE Unmoved(ahead)
  BY <1>1, <1>2, <1>5, SpeechAssumption DEF AudioBreaks, queueVars, Unmoved, Keeps,
      Phases, Saying
<1>6. ASSUME NEW i \in Speeches, Play(i) \/ Plays(i) \/ Fallback(i) \/ UtteranceBreaks(i)
      PROVE  Unmoved(ahead)
  BY <1>1, <1>2, <1>6 DEF Play, Plays, Fallback, UtteranceBreaks, queueVars, Unmoved,
      Keeps, Phases, Saying
<1>7. Unmoved(ahead)
  BY <1>3, <1>4, <1>5, <1>6 DEF Sound
<1> QED
  BY <1>7 DEF Unmoved, Keeps, Counted

(* The end of a segment, and the next one after the pause *)
LEMMA CountEnds ==
  ASSUME Counted(Early), NEW i \in Speeches,
         AudioEnds(i) \/ UtteranceEnds(i) \/ PlayNextSegment(i)
  PROVE  Counted(Early)'
<1>1. /\ phase \in [Speeches -> Phases] /\ player \in 0..MaxSpeeches
      /\ Keeps(Stopped(phase), Early)
  BY StoppedSays DEF Counted
<1>2. ASSUME phase[i] \in Early,
             index' = [index EXCEPT ![i] = @ + IF Newest(i) THEN 1 ELSE 0],
             phase' \in [Speeches -> Phases], phase'[i] \notin Early,
             \A k \in Speeches \ {i} : phase'[k] \in Early => phase[k] \in Early,
             UNCHANGED <<speechId, segments>>, player' \in 0..MaxSpeeches
      PROVE  Counted(Early)'
  <2>1. index[i] < segments[i]
    BY <1>2 DEF Counted
  <2>2. index' \in [Speeches -> Nat] /\ \A k \in Speeches : index'[k] <= segments[k]
    BY <1>2, <2>1 DEF Counted
  <2>3. \A k \in Speeches : k > speechId => index'[k] = 0
    BY <1>2, SpeechAssumption DEF Newest, Speeches, Counted
  <2>4. \A k \in Speeches : phase'[k] \in Early => index'[k] < segments[k]
    BY <1>2 DEF Counted
  <2> QED
    BY <1>2, <2>2, <2>3, <2>4 DEF Counted
<1>3. CASE AudioEnds(i)
  BY <1>1, <1>2, <1>3, SpeechAssumption DEF AudioEnds, queueVars, Keeps, Phases, Early, Saying
<1>4. CASE UtteranceEnds(i)
  BY <1>1, <1>2, <1>4 DEF UtteranceEnds, queueVars, Phases, Early, Saying
<1>5. CASE PlayNextSegment(i)
  BY <1>5 DEF PlayNextSegment, FetchTtsAudio, queueVars, Phases, Early, Saying, Counted
<1> QED
  BY <1>3, <1>4, <1>5

LEMMA EmbedCountEnds ==
  ASSUME Counted(Late), NEW i \in Speeches,
         EmbedAudioEnds(i) \/ EmbedUtteranceEnds(i) \/ EmbedSpeakNext(i)
  PROVE  Counted(Late)'
<1>1. /\ phase \in [Speeches -> Phases] /\ player \in 0..MaxSpeeches
      /\ Keeps(Stopped(phase), Late)
  BY StoppedSays DEF Counted
<1>2. CASE EmbedAudioEnds(i)
  <2>1. Unmoved(Late)
    BY <1>1, <1>2, SpeechAssumption DEF EmbedAudioEnds, queueVars, Unmoved, Keeps, Phases, Late, Saying
  <2> QED
    BY <2>1 DEF Unmoved, Keeps, Counted
<1>3. CASE EmbedUtteranceEnds(i)
  <2>1. Unmoved(Late)
    BY <1>1, <1>3 DEF EmbedUtteranceEnds, queueVars, Unmoved, Keeps, Phases, Late, Saying
  <2> QED
    BY <2>1 DEF Unmoved, Keeps, Counted
<1>4. CASE EmbedSpeakNext(i)
  <2>1. /\ index' = [index EXCEPT ![i] = @ + 1] /\ phase[i] = "gap" /\ i = speechId
        /\ phase' = [phase EXCEPT ![i] = FetchTtsAudio(index'[i] < segments[i])]
        /\ UNCHANGED <<speechId, segments, player>>
    BY <1>4 DEF EmbedSpeakNext, queueVars, Newest
  <2>2. index' \in [Speeches -> Nat] /\ \A k \in Speeches : index'[k] <= segments[k]
    BY <2>1 DEF Counted, Late
  <2>3. phase' \in [Speeches -> Phases]
    BY <1>1, <2>1 DEF FetchTtsAudio, Phases
  <2>4. \A k \in Speeches : k > speechId => index'[k] = 0
    BY <2>1, SpeechAssumption DEF Speeches, Counted
  <2>5. \A k \in Speeches : phase'[k] \in Late => index'[k] < segments[k]
    BY <1>1, <2>1, <2>2 DEF FetchTtsAudio, Saying, Late, Counted
  <2> QED
    BY <2>1, <2>2, <2>3, <2>4, <2>5 DEF Counted
<1> QED
  BY <1>2, <1>3, <1>4

LEMMA WaitingStarts == SpeechInit => Waiting
  BY DEF SpeechInit, Waiting

LEMMA WaitingStep == Waiting /\ [SpeechNext \/ EmbedSpeechNext]_speechVars => Waiting'
<1> SUFFICES ASSUME Waiting, [SpeechNext \/ EmbedSpeechNext]_speechVars PROVE Waiting'
  OBVIOUS
<1> USE DEF Waiting, queueVars
<1>1. ASSUME NEW t \in Texts, QueueSpeakText(t) PROVE Waiting'
  <2>1. t \in Seq(Kinds)
    BY SpeechAssumption
  <2> QED
    BY <1>1, <2>1 DEF QueueSpeakText
<1>2. CASE FlushQueuedSpeakText \/ SilenceOnLeave
  <2>1. pending' = <<>>
    BY <1>2 DEF FlushQueuedSpeakText, SilenceOnLeave
  <2> QED
    BY <2>1
<1>3. ASSUME NEW i,
             \/ SpeakAgain(i) \/ EmbedSpeakText(i) \/ Sound(i) \/ AudioEnds(i) \/ UtteranceEnds(i)
             \/ PlayNextSegment(i) \/ EmbedAudioEnds(i) \/ EmbedUtteranceEnds(i) \/ EmbedSpeakNext(i)
      PROVE  UNCHANGED pending
  BY <1>3 DEF SpeakAgain, EmbedSpeakText, Sound, BlobArrives, Play, Plays, Fallback,
      AudioBreaks,
              UtteranceBreaks, AudioEnds, UtteranceEnds, PlayNextSegment, EmbedAudioEnds,
              EmbedUtteranceEnds, EmbedSpeakNext
<1>4. CASE UNCHANGED speechVars
  BY <1>4 DEF speechVars
<1> QED
  BY <1>1, <1>2, <1>3, <1>4 DEF SpeechNext, EmbedSpeechNext, EmbedSound, EmbedLeave

LEMMA CountStep == Waiting /\ Counted(Early) /\ [SpeechNext]_speechVars => Counted(Early)'
<1> SUFFICES ASSUME Waiting, Counted(Early), [SpeechNext]_speechVars PROVE Counted(Early)'
  OBVIOUS
<1>1. ASSUME NEW t \in Texts, QueueSpeakText(t) PROVE Counted(Early)'
  BY <1>1 DEF QueueSpeakText, Counted
<1>2. ASSUME NEW t \in Seq(Kinds), SpeakText(t) PROVE Counted(Early)'
  <2>1. SegmentCount(t) \in Nat
    BY CountIsNatural
  <2> QED
    BY <1>2, <2>1, CountSpeak DEF SpeakText
<1>3. ASSUME NEW t \in Texts, SpeakAgain(t) PROVE Counted(Early)'
  BY <1>2, <1>3, SpeechAssumption DEF SpeakAgain
<1>4. CASE FlushQueuedSpeakText
  <2>1. CASE pending = <<>>
    BY <1>4, <2>1 DEF FlushQueuedSpeakText, Counted
  <2>2. CASE pending # <<>>
    BY <1>2, <1>4, <2>2 DEF FlushQueuedSpeakText, Waiting
  <2> QED
    BY <2>1, <2>2
<1>5. CASE \E i \in Speeches : AudioEnds(i) \/ UtteranceEnds(i) \/ PlayNextSegment(i)
  BY <1>5, CountEnds
<1>6. CASE (\E i \in Speeches : Sound(i)) \/ SilenceOnLeave
  BY <1>6, CountSound
<1>7. CASE UNCHANGED speechVars
  BY <1>7 DEF speechVars, Counted
<1> QED
  BY <1>1, <1>3, <1>4, <1>5, <1>6, <1>7 DEF SpeechNext

LEMMA EmbedCountStep == Counted(Late) /\ [EmbedSpeechNext]_speechVars => Counted(Late)'
<1> SUFFICES ASSUME Counted(Late), [EmbedSpeechNext]_speechVars PROVE Counted(Late)'
  OBVIOUS
<1>1. ASSUME NEW t \in Texts, EmbedSpeakText(t) PROVE Counted(Late)'
  <2>1. EmbedSegmentCount(t) \in Nat
    BY CountIsNatural, SpeechAssumption
  <2> QED
    BY <1>1, <2>1, CountSpeak DEF EmbedSpeakText
<1>2. CASE \E i \in Speeches : EmbedAudioEnds(i) \/ EmbedUtteranceEnds(i) \/ EmbedSpeakNext(i)
  BY <1>2, EmbedCountEnds
<1>3. CASE (\E i \in Speeches : EmbedSound(i)) \/ EmbedLeave
  BY <1>3, CountSound DEF EmbedSound, EmbedLeave
<1>4. CASE UNCHANGED speechVars
  BY <1>4 DEF speechVars, Counted
<1> QED
  BY <1>1, <1>2, <1>3, <1>4 DEF EmbedSpeechNext

LEMMA FlagsStart == SpeechInit => Flags
  BY DEF SpeechInit, Flags

LEMMA FlagsStep == Flags /\ [SpeechNext \/ EmbedSpeechNext]_speechVars => Flags'
<1> SUFFICES ASSUME Flags, [SpeechNext \/ EmbedSpeechNext]_speechVars PROVE Flags'
  OBVIOUS
<1> USE DEF Flags, queueVars
<1>1. ASSUME NEW n, SpeakSegments(n) PROVE speaking' \in BOOLEAN
  BY <1>1 DEF SpeakSegments
<1>2. ASSUME NEW t, SpeakAgain(t) \/ EmbedSpeakText(t) PROVE Flags'
  BY <1>1, <1>2 DEF SpeakAgain, EmbedSpeakText, SpeakText
<1>3. ASSUME NEW t, QueueSpeakText(t) PROVE Flags'
  BY <1>3, Zenon DEF QueueSpeakText
<1>4. CASE FlushQueuedSpeakText
  <2>1. speaking' = speaking \/ SpeakText(pending)
    BY <1>4 DEF FlushQueuedSpeakText
  <2>2. debounce' = FALSE
    BY <1>4 DEF FlushQueuedSpeakText
  <2> QED
    BY <1>1, <2>1, <2>2, Zenon DEF SpeakText
<1>5. ASSUME NEW i, Sound(i) PROVE Flags'
  BY <1>5 DEF Sound, BlobArrives, Play, Plays, Fallback, AudioBreaks, UtteranceBreaks
<1>6. ASSUME NEW i, PlayNextSegment(i) PROVE Flags'
  BY <1>6 DEF PlayNextSegment
<1>7. ASSUME NEW i, EmbedSpeakNext(i) PROVE Flags'
  BY <1>7 DEF EmbedSpeakNext
<1>8. ASSUME NEW i, AudioEnds(i) \/ UtteranceEnds(i) \/ EmbedAudioEnds(i) \/ EmbedUtteranceEnds(i)
      PROVE  Flags'
  BY <1>8 DEF AudioEnds, UtteranceEnds, EmbedAudioEnds, EmbedUtteranceEnds
<1>9. CASE SilenceOnLeave \/ UNCHANGED speechVars
  BY <1>9 DEF SilenceOnLeave, speechVars
<1> QED
  BY <1>2, <1>3, <1>4, <1>5, <1>6, <1>7, <1>8, <1>9
  DEF SpeechNext, EmbedSpeechNext, EmbedSound, EmbedLeave

LEMMA SpeechTypes ==
  ASSUME Flags, Waiting, NEW ahead, Counted(ahead)
  PROVE  SpeechTypeOK
  BY DEF Flags, Waiting, Counted, SpeechTypeOK

(* A call is never past its last segment, in either page: the chat page counts
   a segment when its sound ends, the embedded page when the pause after it does
   (ChatInterface.jsx 684-897, EmbeddableChatInterface.jsx 599-693). *)
THEOREM SpeechTyped == SpeechSpec => []SpeechTypeOK
<1>1. SpeechInit => Flags /\ Waiting /\ Counted(Early)
  BY CountStarts, FlagsStart, WaitingStarts
<1>2. Flags /\ Waiting /\ Counted(Early) /\ [SpeechNext]_speechVars => (Flags /\ Waiting /\ Counted(Early))'
  BY CountStep, FlagsStep, WaitingStep
<1>3. Flags /\ Waiting /\ Counted(Early) => SpeechTypeOK
  BY SpeechTypes
<1> QED
  BY <1>1, <1>2, <1>3, PTL DEF SpeechSpec

THEOREM EmbedSpeechTyped == EmbedSpeechSpec => []SpeechTypeOK
<1>1. SpeechInit => Flags /\ Waiting /\ Counted(Late)
  BY CountStarts, FlagsStart, WaitingStarts
<1>2. Flags /\ Waiting /\ Counted(Late) /\ [EmbedSpeechNext]_speechVars => (Flags /\ Waiting /\ Counted(Late))'
  BY EmbedCountStep, FlagsStep, WaitingStep
<1>3. Flags /\ Waiting /\ Counted(Late) => SpeechTypeOK
  BY SpeechTypes
<1> QED
  BY <1>1, <1>2, <1>3, PTL DEF EmbedSpeechSpec
-----------------------------------------------------------------------------
(* What is listened to is a recorder that runs, or is about to stop. *)
MInv ==
  /\ mic \in [Recorders -> {"off", "asking", "recording", "stopping", "stt"}]
  /\ recorder \in {0} \cup Recorders
  /\ ListeningIsReal

LEMMA MicStarts == ChatMicInit => MInv
  BY DEF ChatMicInit, MInv, ListeningIsReal

(* handleVoiceInput, with whatever view: a recorder that is asked for was off,
   so it is not the one that is listened to. *)
LEMMA VoiceInputStep ==
  ASSUME MInv, NEW v, VoiceInput(v), UNCHANGED <<stream, recorder, listening, astray>>
  PROVE  MInv'
  BY DEF MInv, ListeningIsReal, VoiceInput, Recorders

LEMMA RecorderStep ==
  ASSUME MInv, NEW r \in Recorders,
         \/ MicRefused(r) \/ MicFails(r) \/ MicGranted(r) \/ TracksEnd(r) \/ RecorderStops(r)
         \/ TranscriptDropped(r) \/ TranscriptSent(r)
  PROVE  MInv'
<1> USE DEF MInv, ListeningIsReal
<1>1. CASE MicRefused(r)
  BY <1>1 DEF MicRefused
<1>2. CASE MicGranted(r)
  BY <1>2, ChatMicAssumption DEF MicGranted, Recorders
<1>3. CASE TracksEnd(r)
  BY <1>3 DEF TracksEnd
<1>4. CASE RecorderStops(r)
  BY <1>4 DEF RecorderStops
<1>5. CASE TranscriptDropped(r) \/ TranscriptSent(r)
  BY <1>5 DEF TranscriptDropped, TranscriptSent
<1>6. CASE MicFails(r)
  BY <1>6 DEF MicFails
<1> QED
  BY <1>1, <1>2, <1>3, <1>4, <1>5, <1>6

LEMMA MicStep == MInv /\ [ChatMicNext]_chatMicVars => MInv'
<1> SUFFICES ASSUME MInv, [ChatMicNext]_chatMicVars PROVE MInv'
  OBVIOUS
<1>1. CASE PageChanges \/ Resubscribe \/ ReadAnswer \/ ReadAgain \/ ReadingEnds
  BY <1>1 DEF PageChanges, Resubscribe, ReadAnswer, ReadAgain, ReadingEnds, micVars,
              MInv, ListeningIsReal
<1>2. CASE ClickMic
  BY <1>2, VoiceInputStep DEF ClickMic
<1>3. CASE RestartMic
  BY <1>3, VoiceInputStep DEF RestartMic, MInv, ListeningIsReal
<1>4. CASE SilenceStops
  BY <1>4 DEF SilenceStops, MInv, ListeningIsReal
<1>5. CASE \E r \in Recorders :
             \/ MicRefused(r) \/ MicFails(r) \/ MicGranted(r) \/ TracksEnd(r) \/ RecorderStops(r)
             \/ TranscriptDropped(r) \/ TranscriptSent(r)
  BY <1>5, RecorderStep
<1>6. CASE UNCHANGED chatMicVars
  BY <1>6 DEF chatMicVars, micVars, MInv, ListeningIsReal
<1> QED
  BY <1>1, <1>2, <1>3, <1>4, <1>5, <1>6 DEF ChatMicNext

(* What the microphone's state is made of: a view a callback sees, and what a
   recorder may send, is a view of some render. *)
MicFlags == {maySend, listening, sttLoading, autoMic, astray} \subseteq BOOLEAN

MicViews ==
  /\ effect \in Views /\ reader \subseteq Views /\ restart \subseteq Views
  /\ micReady \in [Recorders -> BOOLEAN]
  /\ stream \in {0} \cup Recorders

LEMMA MicFlagsStep == MicFlags /\ [ChatMicNext]_chatMicVars => MicFlags'
<1> SUFFICES ASSUME MicFlags, [ChatMicNext]_chatMicVars PROVE MicFlags'
  OBVIOUS
<1>1. CASE PageChanges \/ Resubscribe \/ ReadAnswer \/ ReadAgain \/ ReadingEnds \/ UNCHANGED chatMicVars
  BY Zenon, <1>1 DEF PageChanges, Resubscribe, ReadAnswer, ReadAgain, ReadingEnds, micVars, readVars,
      chatMicVars, MicFlags
<1>2. CASE ClickMic \/ RestartMic \/ SilenceStops
  BY Zenon, <1>2 DEF ClickMic, RestartMic, SilenceStops, VoiceInput, readVars, MicFlags
<1>3. ASSUME NEW r \in Recorders,
             \/ MicRefused(r) \/ MicFails(r) \/ MicGranted(r) \/ TracksEnd(r) \/ RecorderStops(r)
             \/ TranscriptDropped(r) \/ TranscriptSent(r)
      PROVE  MicFlags'
  BY Zenon, <1>3 DEF MicRefused, MicFails, MicGranted, TracksEnd, RecorderStops, TranscriptDropped,
      TranscriptSent, readVars, MicFlags
<1> QED
  BY <1>1, <1>2, <1>3 DEF ChatMicNext

LEMMA NowIsView == MicFlags => Now \in Views
  BY DEF MicFlags, Now, Views

LEMMA VoiceInputViews ==
  ASSUME MicViews, NEW v \in Views, VoiceInput(v), UNCHANGED stream,
         UNCHANGED effect, UNCHANGED reader, restart' \subseteq restart
  PROVE  MicViews'
<1>1. v.ready \in BOOLEAN
  BY DEF Views
<1> QED
  BY <1>1 DEF MicViews, VoiceInput

LEMMA MicViewsStep == MicFlags /\ MicViews /\ [ChatMicNext]_chatMicVars => MicViews'
<1> SUFFICES ASSUME MicFlags, MicViews, [ChatMicNext]_chatMicVars PROVE MicViews'
  OBVIOUS
<1>1. CASE PageChanges \/ Resubscribe \/ ReadAnswer \/ ReadAgain \/ ReadingEnds \/ UNCHANGED chatMicVars
  BY <1>1, NowIsView DEF PageChanges, Resubscribe, ReadAnswer, ReadAgain, ReadingEnds, micVars,
      readVars, chatMicVars, MicViews
<1>2. CASE ClickMic
  BY <1>2, NowIsView, VoiceInputViews DEF ClickMic, readVars
<1>3. CASE RestartMic
  <2>1. CASE \E v \in restart : VoiceInput(v)
    <3>1. PICK v \in restart : VoiceInput(v)
      BY <2>1
    <3>2. v \in Views
      BY DEF MicViews
    <3> QED
      BY <1>3, <3>1, <3>2, VoiceInputViews DEF RestartMic
  <2>2. CASE UNCHANGED micReady
    BY <1>3, <2>2 DEF RestartMic, MicViews
  <2> QED
    BY <1>3, <2>1, <2>2 DEF RestartMic
<1>4. CASE SilenceStops
  BY <1>4 DEF SilenceStops, readVars, MicViews
<1>5. ASSUME NEW r \in Recorders,
             \/ MicRefused(r) \/ MicFails(r) \/ MicGranted(r) \/ TracksEnd(r) \/ RecorderStops(r)
             \/ TranscriptDropped(r) \/ TranscriptSent(r)
      PROVE  MicViews'
  BY <1>5 DEF MicRefused, MicFails, MicGranted, TracksEnd, RecorderStops, TranscriptDropped,
      TranscriptSent, readVars, MicViews
<1> QED
  BY <1>1, <1>2, <1>3, <1>4, <1>5 DEF ChatMicNext

LEMMA MicTypesStart == ChatMicInit => MicFlags /\ MicViews
<1>1. ChatMicInit => MicFlags
  BY DEF ChatMicInit, MicFlags
<1>2. ChatMicInit => MicViews
  BY DEF ChatMicInit, MicViews, Views
<1> QED
  BY <1>1, <1>2

LEMMA MicTypes == MInv /\ MicFlags /\ MicViews => ChatMicTypeOK
  BY DEF MInv, MicFlags, MicViews, ChatMicTypeOK

(* Whatever views clicks, restarts and recorders have (ChatInterface.jsx
   250-388): a page that shows the microphone on holds the recorder and the
   stream that are on, and can turn them off, unless another one that was asked
   for meanwhile has failed with what it took of both. *)
THEOREM Listening == ChatMicSpec => [](ChatMicTypeOK /\ ListeningIsReal)
<1>1. MInv => ListeningIsReal
  BY DEF MInv
<1> QED
  BY <1>1, MicStarts, MicStep, MicTypesStart, MicFlagsStep, MicViewsStep, MicTypes, PTL
  DEF ChatMicSpec
-----------------------------------------------------------------------------
(* The idle timer looks at what the effects saw: until they have seen the
   microphone on, the three minutes that its start began keep the chat. *)
EInv == ListeningShowsChat /\ (hearing /\ ~seen => recent)

LEMMA EmbedStarts == VoiceInit => EInv
  BY DEF VoiceInit, EInv, ListeningShowsChat, ChatShown

LEMMA EmbedPageStep == EInv /\ [EmbedNext]_embedVars => EInv'
<1> SUFFICES ASSUME EInv, [EmbedNext]_embedVars PROVE EInv'
  OBVIOUS
<1> USE DEF EInv, ListeningShowsChat, ChatShown
<1>1. CASE Loads \/ EmbedSendTyped \/ EmbedConnection \/ UNCHANGED embedVars
  BY <1>1 DEF Loads, EmbedSendTyped, EmbedConnection, embedVars, voiceVars, recVars, viewVars
<1>2. CASE EffectsRun
  BY <1>2 DEF EffectsRun, recVars, viewVars
<1>3. CASE EmbedClickMic \/ MicAnswers \/ OnResult \/ DeviceChanges \/ Restarts
  BY <1>3 DEF EmbedClickMic, MicAnswers, OnResult, DeviceChanges, Restarts, viewVars
<1>4. CASE PressF9 \/ ParentStartsMic
  BY <1>4 DEF PressF9, ParentStartsMic, Summon
<1>5. CASE OnStart
  BY <1>5 DEF OnStart
<1>6. CASE OnEnd \/ OnError
  BY <1>6 DEF OnEnd, OnError, viewVars
<1>7. CASE ThreeMinutesPass \/ IdleTick
  BY <1>7 DEF ThreeMinutesPass, IdleTick, recVars
<1> QED
  BY <1>1, <1>2, <1>3, <1>4, <1>5, <1>6, <1>7 DEF EmbedNext

(* What the embedded page's state is made of *)
EmbedFlags == {embedded, loaded, hearing, seen, recent, told, unsent} \subseteq BOOLEAN

EmbedRest ==
  /\ recognition \in {"off", "starting", "on", "ending"}
  /\ activeView \in {"chat", "idleVideo"}
  /\ asking \in 0..MaxAsking
  /\ restarting \subseteq {"device", "capture"}

LEMMA EmbedTypesStart == VoiceInit => EmbedFlags /\ EmbedRest
<1>1. VoiceInit => EmbedFlags
  BY Zenon DEF VoiceInit, EmbedFlags
<1>2. VoiceInit => EmbedRest
  BY EmbedAssumption DEF VoiceInit, EmbedRest
<1> QED
  BY <1>1, <1>2

LEMMA EmbedFlagsStep == EmbedFlags /\ [EmbedNext]_embedVars => EmbedFlags'
<1> SUFFICES ASSUME EmbedFlags, [EmbedNext]_embedVars PROVE EmbedFlags'
  OBVIOUS
<1> USE DEF EmbedFlags, hostVars
<1>1. CASE Loads \/ EmbedSendTyped \/ EmbedConnection \/ UNCHANGED embedVars
  BY Zenon, <1>1 DEF Loads, EmbedSendTyped, EmbedConnection, embedVars, voiceVars, recVars, viewVars
<1>2. CASE EffectsRun \/ ThreeMinutesPass \/ IdleTick
  BY Zenon, <1>2 DEF EffectsRun, ThreeMinutesPass, IdleTick, recVars, viewVars
<1>3. CASE EmbedClickMic \/ PressF9 \/ ParentStartsMic \/ MicAnswers
  BY Zenon, <1>3 DEF EmbedClickMic, PressF9, ParentStartsMic, Summon, MicAnswers, viewVars
<1>4. CASE OnStart \/ OnEnd \/ DeviceChanges \/ Restarts
  BY Zenon, <1>4 DEF OnStart, OnEnd, DeviceChanges, Restarts, viewVars
<1>5. CASE OnResult
  BY Zenon, <1>5 DEF OnResult, viewVars
<1>6. CASE OnError
  BY Zenon, <1>6 DEF OnError, viewVars
<1> QED
  BY <1>1, <1>2, <1>3, <1>4, <1>5, <1>6 DEF EmbedNext

LEMMA SummonRest ==
  ASSUME EmbedRest, NEW h, Summon(h)
  PROVE  EmbedRest'
<1>1. asking' \in 0..MaxAsking /\ recognition' \in {recognition, RecognitionStopped(recognition)}
  BY EmbedAssumption DEF EmbedRest, Summon, EmbedVoiceInput
<1> QED
  BY <1>1 DEF EmbedRest, Summon, RecognitionStopped

LEMMA EmbedRestStep == EmbedRest /\ [EmbedNext]_embedVars => EmbedRest'
<1> SUFFICES ASSUME EmbedRest, [EmbedNext]_embedVars PROVE EmbedRest'
  OBVIOUS
<1> USE EmbedAssumption DEF EmbedRest
<1>1. CASE Loads \/ EmbedSendTyped \/ EmbedConnection \/ UNCHANGED embedVars
  BY <1>1 DEF Loads, EmbedSendTyped, EmbedConnection, embedVars, voiceVars, recVars, viewVars
<1>2. CASE EffectsRun \/ ThreeMinutesPass \/ IdleTick
  BY <1>2 DEF EffectsRun, ThreeMinutesPass, IdleTick, recVars, viewVars
<1>3. CASE EmbedClickMic
  BY <1>3 DEF EmbedClickMic, EmbedVoiceInput, RecognitionStopped, viewVars
<1>4. CASE PressF9 \/ ParentStartsMic
  BY <1>4, SummonRest DEF PressF9, ParentStartsMic
<1>5. CASE MicAnswers
  BY <1>5 DEF MicAnswers, RecognitionStarted, viewVars
<1>6. CASE OnStart \/ OnEnd \/ OnResult
  BY <1>6 DEF OnStart, OnEnd, OnResult, viewVars
<1>7. CASE OnError
  BY <1>7 DEF OnError, viewVars
<1>8. CASE DeviceChanges \/ Restarts
  BY <1>8 DEF DeviceChanges, Restarts, RecognitionStopped, RecognitionStarted, viewVars
<1> QED
  BY <1>1, <1>2, <1>3, <1>4, <1>5, <1>6, <1>7, <1>8 DEF EmbedNext

LEMMA EmbedTypes == EmbedFlags /\ EmbedRest => EmbedTypeOK
  BY DEF EmbedFlags, EmbedRest, EmbedTypeOK

(* Whatever renders, timers and callbacks of recognition interleave
   (EmbeddableChatInterface.jsx 318-412 and 695-815): the idle video does not
   cover a page that listens. *)
THEOREM NeverCovered == EmbedSpec => [](EmbedTypeOK /\ ListeningShowsChat)
<1>1. EInv => ListeningShowsChat
  BY DEF EInv
<1>2. EmbedInit => VoiceInit
  BY DEF EmbedInit
<1> QED
  BY <1>1, <1>2, EmbedStarts, EmbedPageStep, EmbedTypesStart, EmbedFlagsStep, EmbedRestStep,
     EmbedTypes, PTL
  DEF EmbedSpec
-----------------------------------------------------------------------------
(* The server answers only over an open connection: when there is none, nothing
   is asked and no turn runs. *)
AskedOverOpen ==
  /\ asked \in 0..MaxAsked
  /\ socket # "open" => asked = 0 /\ ~inTurn
  /\ inTurn => asked > 0

LinkShape ==
  /\ socket \in {"connecting", "open", "lost", "closed"}
  /\ shown \in {"disconnected", "connecting", "connected"}

ChatFlags == {lateClose, registered, orphaned, misled, thinking, sending, inTurn} \subseteq BOOLEAN

(* While the indicator is shown something that hides it is on its way: the end
   of the turn, the close event of a lost connection, or that of a replaced
   one; and the page is not shown as disconnected already, which would keep the
   effect of a close event from running.  A late close event that hid an open
   connection (misled) is what breaks this. *)
ClearingAhead ==
  thinking /\ ~misled =>
    /\ shown # "disconnected"
    /\ inTurn \/ socket = "lost" \/ lateClose

(* An open connection is shown as such, with the same exception. *)
OpenIsShown == socket = "open" /\ ~misled => shown = "connected"

(* The input is blocked for a text only while that text is registered: it will be
   sent when the connection opens, or given up. *)
SendingWaits == sending => registered

CInv == AskedOverOpen /\ LinkShape /\ ChatFlags /\ OpenIsShown /\ ClearingAhead /\ SendingWaits

LEMMA ChatStarts == ChatInit \/ EmbedInit => CInv
<1>1. ChatInit \/ EmbedInit =>
        AskedOverOpen /\ LinkShape /\ OpenIsShown /\ ClearingAhead /\ SendingWaits
  BY ChatPageAssumption DEF ChatInit, EmbedInit, AskedOverOpen, LinkShape, OpenIsShown,
      ClearingAhead, SendingWaits
<1>2. ChatInit \/ EmbedInit => ChatFlags
  BY DEF ChatInit, EmbedInit, ChatFlags
<1> QED
  BY <1>1, <1>2 DEF CInv

(* The user sends, and the wait for the connection ends. *)
LEMMA AskStep ==
  ASSUME CInv, Submit \/ WaitFails
  PROVE  CInv'
<1>1. AskedOverOpen'
  BY ChatPageAssumption DEF Submit, WaitFails, linkVars, Link!Wait, Link!waits,
      Link!GivesUp, CInv, AskedOverOpen, LinkShape
<1>2. LinkShape' /\ OpenIsShown' /\ ClearingAhead'
  BY DEF Submit, WaitFails, linkVars, Link!Wait, Link!waits, Link!GivesUp, CInv,
      AskedOverOpen, LinkShape, OpenIsShown, ClearingAhead
<1>3. SendingWaits'
  BY DEF Submit, WaitFails, linkVars, Link!Wait, Link!waits, Link!GivesUp, CInv, SendingWaits
<1>4. ChatFlags'
  BY Zenon DEF Submit, WaitFails, linkVars, Link!Wait, Link!waits, Link!GivesUp, CInv,
      ChatFlags
<1> QED
  BY <1>1, <1>2, <1>3, <1>4 DEF CInv

(* The events of the connection *)
LEMMA OpenStep ==
  ASSUME CInv, SocketOpens
  PROVE  CInv'
<1>1. AskedOverOpen'
  BY ChatPageAssumption DEF SocketOpens, Link!Opens, CInv, AskedOverOpen, LinkShape
<1>2. LinkShape' /\ OpenIsShown' /\ ClearingAhead'
  BY DEF SocketOpens, Link!Opens, CInv, AskedOverOpen, LinkShape, OpenIsShown, ClearingAhead
<1>3. SendingWaits'
  BY DEF SocketOpens, Link!Opens, CInv, SendingWaits
<1>4. ChatFlags'
  BY Zenon DEF SocketOpens, Link!Opens, CInv, ChatFlags
<1> QED
  BY <1>1, <1>2, <1>3, <1>4 DEF CInv

LEMMA LostStep ==
  ASSUME CInv, SocketLost
  PROVE  CInv'
<1>1. AskedOverOpen'
  BY ChatPageAssumption DEF SocketLost, Link!Lost, Link!waits, CInv, AskedOverOpen, LinkShape
<1>2. LinkShape' /\ OpenIsShown' /\ ClearingAhead'
  BY DEF SocketLost, Link!Lost, Link!waits, CInv, AskedOverOpen, LinkShape, OpenIsShown,
      ClearingAhead
<1>3. SendingWaits'
  BY DEF SocketLost, Link!Lost, Link!waits, CInv, SendingWaits
<1>4. ChatFlags'
  BY Zenon DEF SocketLost, Link!Lost, Link!waits, CInv, ChatFlags
<1> QED
  BY <1>1, <1>2, <1>3, <1>4 DEF CInv

LEMMA CloseStep ==
  ASSUME CInv, SocketCloses \/ ReplacedCloses
  PROVE  CInv'
<1>1. AskedOverOpen'
  BY ChatPageAssumption DEF SocketCloses, ReplacedCloses, Link!Closes, Link!LateCloses,
      Link!waits, StatusEffect, CInv, AskedOverOpen, LinkShape
<1>2. LinkShape' /\ OpenIsShown' /\ ClearingAhead'
  BY DEF SocketCloses, ReplacedCloses, Link!Closes, Link!LateCloses, Link!waits,
      StatusEffect, CInv, AskedOverOpen, LinkShape, OpenIsShown, ClearingAhead
<1>3. SendingWaits'
  BY DEF SocketCloses, ReplacedCloses, Link!Closes, Link!LateCloses, Link!waits,
      StatusEffect, CInv, SendingWaits
<1>4. ChatFlags'
  BY Zenon DEF SocketCloses, ReplacedCloses, Link!Closes, Link!LateCloses, Link!waits,
      StatusEffect, CInv, ChatFlags
<1> QED
  BY <1>1, <1>2, <1>3, <1>4 DEF CInv

(* The page connects anew. *)
LEMMA ReplaceStep ==
  ASSUME CInv, Reconnect \/ AssistantChanges
  PROVE  CInv'
<1>1. AskedOverOpen'
  BY ChatPageAssumption DEF Reconnect, AssistantChanges, Link!Replace, Link!waits,
      StatusEffect, CInv, AskedOverOpen, LinkShape
<1>2. LinkShape' /\ OpenIsShown' /\ ClearingAhead'
  BY DEF Reconnect, AssistantChanges, Link!Replace, Link!waits, StatusEffect, CInv,
      AskedOverOpen, LinkShape, OpenIsShown, ClearingAhead
<1>3. SendingWaits'
  BY DEF Reconnect, AssistantChanges, Link!Replace, Link!waits, StatusEffect, CInv,
      SendingWaits
<1>4. ChatFlags'
  BY Zenon DEF Reconnect, AssistantChanges, Link!Replace, Link!waits, StatusEffect, CInv,
      ChatFlags
<1> QED
  BY <1>1, <1>2, <1>3, <1>4 DEF CInv

(* The server's messages *)
LEMMA TurnStep ==
  ASSUME CInv, TurnBegins \/ TurnEnds
  PROVE  CInv'
<1>1. AskedOverOpen'
  BY ChatPageAssumption DEF TurnBegins, TurnEnds, Turns!Begin, Turns!End, linkVars, CInv,
      AskedOverOpen, LinkShape
<1>2. LinkShape' /\ OpenIsShown' /\ ClearingAhead'
  BY DEF TurnBegins, TurnEnds, Turns!Begin, Turns!End, linkVars, CInv,
      AskedOverOpen, LinkShape, OpenIsShown, ClearingAhead
<1>3. SendingWaits'
  BY DEF TurnBegins, TurnEnds, Turns!Begin, Turns!End, linkVars, CInv, SendingWaits
<1>4. ChatFlags'
  BY Zenon DEF TurnBegins, TurnEnds, Turns!Begin, Turns!End, linkVars, CInv, ChatFlags
<1> QED
  BY <1>1, <1>2, <1>3, <1>4 DEF CInv

LEMMA ChatStill == CInv /\ UNCHANGED chatVars => CInv'
  BY DEF chatVars, linkVars, CInv, LinkShape, ChatFlags, AskedOverOpen, OpenIsShown,
      ClearingAhead, SendingWaits

LEMMA ChatPageStep == CInv /\ [ChatNext]_chatVars => CInv'
  BY AskStep, OpenStep, LostStep, CloseStep, ReplaceStep, TurnStep, ChatStill
  DEF ChatNext, SendTyped, SendSpoken, ClickReconnect, RetryFires

(* The embedded page's chat does what the chat page's does, or nothing. *)
LEMMA EmbedChatStep == CInv /\ [EmbedNext]_embedVars => CInv'
<1> SUFFICES ASSUME CInv, [EmbedNext]_embedVars PROVE CInv'
  OBVIOUS
<1>1. CASE Loads \/ EmbedSendTyped \/ EmbedConnection
  BY <1>1, AskStep, OpenStep, LostStep, CloseStep, ReplaceStep, TurnStep, ChatStill
  DEF Loads, EmbedSendTyped, EmbedConnection, SendTyped, ClickReconnect, RetryFires
<1>2. CASE ~(Loads \/ EmbedSendTyped \/ EmbedConnection)
  <2>1. UNCHANGED chatVars
    BY <1>2
    DEF EmbedNext, EffectsRun, EmbedClickMic, PressF9, ParentStartsMic, Summon, MicAnswers,
        OnStart, OnResult, OnEnd, OnError, DeviceChanges, Restarts, ThreeMinutesPass, IdleTick,
        embedVars
  <2> QED
    BY <2>1, ChatStill
<1> QED
  BY <1>1, <1>2

LEMMA ChatTypes == CInv => ChatTypeOK /\ ClearingAhead /\ SendingWaits
  BY DEF CInv, ChatTypeOK, AskedOverOpen, LinkShape, ChatFlags

(* However connections are lost, replaced and made again while questions are
   asked and answered (ChatInterface.jsx 134-182, createWsClient.ts 34-96): an
   indicator that is shown has an end on its way, unless a late close event hid
   an open connection; and the input is not blocked by a text that nobody waits
   to send. *)
THEOREM Indicator == ChatSpec => [](ChatTypeOK /\ ClearingAhead /\ SendingWaits)
  BY ChatTypes, ChatStarts, ChatPageStep, PTL DEF ChatSpec

(* The same of the embedded page (EmbeddableChatInterface.jsx). *)
THEOREM EmbedIndicator == EmbedSpec => [](ChatTypeOK /\ ClearingAhead /\ SendingWaits)
  BY ChatTypes, ChatStarts, EmbedChatStep, PTL DEF EmbedSpec
-----------------------------------------------------------------------------
(* What the two sides of ChatTurns are to the page: a step of its own leaves the
   turns as they are, or asks, connects or loses the connection. *)
LEMMA AskTurns ==
  ASSUME CInv, Submit \/ WaitFails \/ SocketOpens
  PROVE  [Turns!Next]_Turns!vars
<1>1. CASE Submit
  BY <1>1 DEF Submit, linkVars, Link!Wait, Link!waits, Turns!Next, Turns!Ask, Turns!vars
<1>2. CASE WaitFails
  BY <1>2 DEF WaitFails, Link!GivesUp, Turns!vars
<1>3. CASE SocketOpens
  <2>1. socket # "open" /\ socket' = "open" /\ asked' \in {0, 1}
    BY <1>3 DEF SocketOpens, Link!Opens, CInv, AskedOverOpen
  <2>2. inTurn' = FALSE
    BY <1>3, Zenon DEF SocketOpens, Link!Opens, CInv, AskedOverOpen, ChatFlags
  <2> QED
    BY <2>1, <2>2 DEF Turns!Next, Turns!Connect
<1> QED
  BY <1>1, <1>2, <1>3

LEMMA CutTurns ==
  ASSUME CInv, SocketLost \/ SocketCloses \/ ReplacedCloses \/ Reconnect \/ AssistantChanges
  PROVE  [Turns!Next]_Turns!vars
<1>1. CASE SocketLost
  BY <1>1 DEF SocketLost, Link!Lost, Turns!Next, Turns!Drop
<1>2. CASE SocketCloses \/ ReplacedCloses
  BY <1>2 DEF SocketCloses, ReplacedCloses, Link!Closes, Link!LateCloses, Link!waits,
      Turns!vars
<1>3. CASE Reconnect
  BY <1>3 DEF Reconnect, Link!Replace, Turns!vars
<1>4. CASE AssistantChanges /\ socket = "open"
  BY <1>4 DEF AssistantChanges, Link!Replace, Turns!Next, Turns!Drop
<1>5. CASE AssistantChanges /\ socket # "open"
  <2>1. socket' # "open" /\ asked' = asked
    BY <1>5 DEF AssistantChanges, Link!Replace, CInv, AskedOverOpen
  <2>2. inTurn' = inTurn
    BY <1>5, Zenon DEF AssistantChanges, CInv, AskedOverOpen, ChatFlags
  <2> QED
    BY <1>5, <2>1, <2>2 DEF Turns!vars
<1> QED
  BY <1>1, <1>2, <1>3, <1>4, <1>5

LEMMA ServerTurns == TurnBegins \/ TurnEnds => Turns!Next
  BY DEF TurnBegins, TurnEnds, Turns!Next

LEMMA TurnsStart == ChatInit \/ EmbedInit => Turns!Init
  BY DEF ChatInit, EmbedInit, Turns!Init

LEMMA StillTurns == UNCHANGED chatVars => UNCHANGED Turns!vars
  BY DEF chatVars, linkVars, Turns!vars

LEMMA PageTurns == CInv /\ [ChatNext]_chatVars => [Turns!Next]_Turns!vars
  BY StillTurns, AskTurns, CutTurns, ServerTurns
  DEF ChatNext, SendTyped, SendSpoken, ClickReconnect, RetryFires

LEMMA EmbedPageTurns == CInv /\ [EmbedNext]_embedVars => [Turns!Next]_Turns!vars
<1> SUFFICES ASSUME CInv, [EmbedNext]_embedVars PROVE [Turns!Next]_Turns!vars
  OBVIOUS
<1>1. CASE Loads \/ EmbedSendTyped \/ EmbedConnection
  BY <1>1, StillTurns, AskTurns, CutTurns, ServerTurns
  DEF Loads, EmbedSendTyped, EmbedConnection, SendTyped, ClickReconnect, RetryFires
<1>2. CASE ~(Loads \/ EmbedSendTyped \/ EmbedConnection)
  <2>1. UNCHANGED chatVars
    BY <1>2
    DEF EmbedNext, EffectsRun, EmbedClickMic, PressF9, ParentStartsMic, Summon, MicAnswers,
        OnStart, OnResult, OnEnd, OnError, DeviceChanges, Restarts, ThreeMinutesPass, IdleTick,
        embedVars
  <2> QED
    BY <2>1, StillTurns
<1> QED
  BY <1>1, <1>2

(* The chat page keeps to what it and the server promise each other, for any
   number of questions (ChatInterface.jsx 134-182 and 447-490,
   createWsClient.ts 34-163): it asks over an open connection only, and a
   connection that is lost or replaced takes what was asked over it along. *)
THEOREM TurnsKept == ChatSpec => Turns!Spec
  BY ChatStarts, ChatPageStep, TurnsStart, PageTurns, PTL DEF ChatSpec, Turns!Spec

(* The same of the embedded page (EmbeddableChatInterface.jsx). *)
THEOREM EmbedTurnsKept == EmbedSpec => Turns!Spec
  BY ChatStarts, EmbedChatStep, TurnsStart, EmbedPageTurns, PTL DEF EmbedSpec, Turns!Spec
=============================================================================
