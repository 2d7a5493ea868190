---------------------------- MODULE PagesProofs ----------------------------
(***************************************************************************)
(* The pages of the browser together, whichever of them is open: what the  *)
(* run on MCPages checks of a small instance holds for any constants.  The *)
(* steps of each page are proved in VoiceProofs and AdminProofs; here a    *)
(* step of the whole is one of the open page, and leaves the others alone. *)
(***************************************************************************)
EXTENDS MCPages, VoiceProofs, AdminProofs

(* A step of the whole, as each page sees it *)
SpeechSees ==
  /\ chosen = "speech" => [SpeechNext]_speechVars
  /\ chosen # "speech" => [EmbedSpeechNext]_speechVars
  /\ chosen' = chosen

ChatSees ==
  \/ [ChatNext]_chatVars /\ UNCHANGED voicePageVars
  \/ [EmbedNext]_embedVars

OthersSee ==
  /\ [ChatMicNext]_chatMicVars /\ [KnowledgePagesNext]_knowledgePageVars
  /\ [FormNext]_formVars /\ [ShellNext]_shellVars /\ [RulesNext]_rulesVars

LEMMA OnePageSteps == [PagesNext]_pagesVars => SpeechSees /\ ChatSees /\ OthersSee
<1> SUFFICES ASSUME [PagesNext]_pagesVars PROVE SpeechSees /\ ChatSees /\ OthersSee
  OBVIOUS
<1>1. SpeechSees
  BY Zenon DEF PagesNext, Speaks, Chats, Hears, EditsKnowledge, FillsForm, LogsInAndOut, EditsRules,
      pagesVars, SpeechSees
<1>2. ChatSees
  BY Zenon DEF PagesNext, Speaks, Chats, Hears, EditsKnowledge, FillsForm, LogsInAndOut, EditsRules,
      pagesVars, ChatSees
<1>3. OthersSee
  BY Zenon DEF PagesNext, Speaks, Chats, Hears, EditsKnowledge, FillsForm, LogsInAndOut, EditsRules,
      pagesVars, OthersSee
<1> QED
  BY <1>1, <1>2, <1>3

(* Reading aloud: the two pages count their segments at different times. *)
SpeechKept ==
  /\ SInv /\ Flags /\ Waiting
  /\ chosen = "speech" => Counted(Early)
  /\ chosen # "speech" => Counted(Late)

LEMMA SpeechKeeps == SpeechKept /\ SpeechSees => SpeechKept'
<1> SUFFICES ASSUME SpeechKept, SpeechSees PROVE SpeechKept'
  OBVIOUS
<1>1. CASE chosen = "speech"
  BY <1>1, SpeechStep, FlagsStep, WaitingStep, CountStep DEF SpeechKept, SpeechSees
<1>2. CASE chosen # "speech"
  BY <1>2, EmbedStep, FlagsStep, WaitingStep, EmbedCountStep DEF SpeechKept, SpeechSees
<1> QED
  BY <1>1, <1>2

(* The chat of either page *)
ChatKept == CInv /\ EInv /\ EmbedFlags /\ EmbedRest

LEMMA ChatKeeps == ChatKept /\ ChatSees => ChatKept'
<1> SUFFICES ASSUME ChatKept, ChatSees PROVE ChatKept'
  OBVIOUS
<1>1. CASE [ChatNext]_chatVars /\ UNCHANGED voicePageVars
  <2>1. CInv'
    BY <1>1, ChatPageStep DEF ChatKept
  <2>2. EInv' /\ EmbedRest'
    BY <1>1 DEF ChatKept, EInv, EmbedRest, ListeningShowsChat, ChatShown, voicePageVars, hostVars,
                voiceVars, recVars, viewVars
  <2>3. EmbedFlags'
    BY Zenon, <1>1 DEF ChatKept, EmbedFlags, voicePageVars, hostVars, voiceVars, recVars, viewVars
  <2> QED
    BY <2>1, <2>2, <2>3 DEF ChatKept
<1>2. CASE [EmbedNext]_embedVars
  BY <1>2, EmbedChatStep, EmbedPageStep, EmbedFlagsStep, EmbedRestStep DEF ChatKept
<1> QED
  BY <1>1, <1>2 DEF ChatSees

(* The other pages, each with the parts of its own proof *)
OthersKept ==
  /\ MInv /\ MicFlags /\ MicViews
  /\ KInv
  /\ FInv /\ FormShape
  /\ SessionInv /\ ShellFlags /\ ShellShape
  /\ RInv /\ RuleFlags /\ RuleShape

LEMMA OthersKeep == OthersKept /\ OthersSee => OthersKept'
<1> SUFFICES ASSUME OthersKept, OthersSee PROVE OthersKept'
  OBVIOUS
<1> USE DEF OthersKept, OthersSee
<1>1. (MInv /\ MicFlags /\ MicViews)'
  BY MicStep, MicFlagsStep, MicViewsStep
<1>2. KInv'
  BY KnowledgeStep
<1>3. (FInv /\ FormShape)'
  BY FormStep, FormShapeStep
<1>4. (SessionInv /\ ShellFlags /\ ShellShape)'
  BY ShellStep, ShellFlagsStep, ShellShapeStep, SessionHolds
<1>5. (RInv /\ RuleFlags /\ RuleShape)'
  BY RulesStep, RuleFlagsStep, RuleShapeStep
<1> QED
  BY <1>1, <1>2, <1>3, <1>4, <1>5

LEMMA PagesStarts == PagesInit => SpeechKept /\ ChatKept /\ OthersKept
<1> SUFFICES ASSUME PagesInit PROVE SpeechKept /\ ChatKept /\ OthersKept
  OBVIOUS
<1>1. /\ SpeechInit /\ ChatMicInit /\ KnowledgePagesInit /\ FormInit /\ ShellInit /\ RulesInit
      /\ (ChatInit \/ EmbedInit) /\ VoiceInit
  BY DEF PagesInit, EmbedInit
<1>2. SpeechKept
  BY <1>1, SpeechStarts, FlagsStart, WaitingStarts, CountStarts DEF SpeechKept
<1>3. ChatKept
  BY <1>1, ChatStarts, EmbedStarts, EmbedTypesStart DEF ChatKept
<1>4. OthersKept
  BY <1>1, MicStarts, MicTypesStart, PagesStart, FormStarts, FormShapeStarts, SessionStarts,
     ShellShapeStarts, RulesStart, RuleShapeStarts
  DEF OthersKept
<1> QED
  BY <1>2, <1>3, <1>4

(* What is kept is what the pages promise. *)
LEMMA KeptHolds ==
  SpeechKept /\ ChatKept /\ OthersKept =>
    /\ PagesTypeOK
    /\ InterruptedStays /\ ListeningIsReal /\ ListeningShowsChat /\ EditorOwn /\ FormMatches
    /\ SessionOwn /\ RulesFresh
<1> SUFFICES ASSUME SpeechKept, ChatKept, OthersKept
             PROVE  /\ PagesTypeOK
                    /\ InterruptedStays /\ ListeningIsReal /\ ListeningShowsChat /\ EditorOwn
                    /\ FormMatches /\ SessionOwn /\ RulesFresh
  OBVIOUS
<1>1. SpeechTypeOK /\ InterruptedStays
  BY SpeechTypes DEF SpeechKept, SInv
<1>2. ChatTypeOK /\ EmbedTypeOK /\ ListeningShowsChat
  BY EmbedTypes, ChatTypes DEF ChatKept, EInv
<1>3. ChatMicTypeOK /\ ListeningIsReal
  BY MicTypes DEF OthersKept, MInv
<1>4. KnowledgePagesTypeOK /\ EditorOwn
  BY DEF OthersKept, KInv
<1>5. FormTypeOK /\ FormMatches
  BY FormShapeTypes, FormHolds DEF OthersKept
<1>6. ShellTypeOK /\ SessionOwn
  BY ShellTypes, SessionHolds DEF OthersKept
<1>7. RulesTypeOK /\ RulesFresh
  BY RuleTypes, RulesHold DEF OthersKept
<1> QED
  BY <1>1, <1>2, <1>3, <1>4, <1>5, <1>6, <1>7 DEF PagesTypeOK

(* Whichever page is open (the components under frontend/chatbot_ui/src): what the
   pages promise holds in every state of it. *)
THEOREM EveryPage ==
  PagesSpec =>
    [](/\ PagesTypeOK
       /\ InterruptedStays /\ ListeningIsReal /\ ListeningShowsChat /\ EditorOwn /\ FormMatches
       /\ SessionOwn /\ RulesFresh)
<1>1. SpeechKept /\ ChatKept /\ OthersKept /\ [PagesNext]_pagesVars
        => SpeechKept' /\ ChatKept' /\ OthersKept'
  BY OnePageSteps, SpeechKeeps, ChatKeeps, OthersKeep
<1> QED
  BY <1>1, PagesStarts, KeptHolds, PTL DEF PagesSpec
=============================================================================
