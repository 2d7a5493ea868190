------------------------------ MODULE MCPages ------------------------------
(* The pages of the browser, each on its own: chosen says which one is open.
   They share no state, so that a run of one after the other shows no more. *)
EXTENDS EmbedSpeech, ChatMic, EmbedChat, KnowledgePages, AssistantForm, Shell, RulesPage, SpeechEngine

VARIABLE chosen

(* The two ways of cutting a text give the same number of segments (of every
   text: VoiceProofs, SameCuts). *)
ASSUME SameSegments ==
  \A n \in 0..4 : \A t \in [1..n -> Kinds] : SegmentCount(t) = EmbedSegmentCount(t)

(* Pairs of rules, as the database lets them be: no wrong text twice, none that
   is its own correction. *)
Letters == {"a", "b"}
Words == UNION {[1..n -> Letters] : n \in 1..2}
RulePairs ==
  {p \in [1..2 -> [wrong : Words, correct : Words, priority : 1..2]] :
     p[1].wrong # p[2].wrong /\ \A i \in 1..2 : p[i].wrong # p[i].correct}
RuleSet(p) ==
  {[id |-> i, enabled |-> TRUE, wrong |-> p[i].wrong, correct |-> p[i].correct,
    priority |-> p[i].priority] : i \in 1..2}
Heard == UNION {[1..n -> Letters] : n \in 1..3}

(* The server and the embedded page correct alike when no two rules are equal in
   priority and length, ... *)
ASSUME EngineAgrees ==
  \A p \in RulePairs : \A heard \in Heard :
    \/ ServerApplyRules(heard, RuleSet(p)) = EngineApplyRules(heard, RuleSet(p))
    \/ p[1].priority = p[2].priority /\ Len(p[1].wrong) = Len(p[2].wrong)

(* ... but not always; *)
ASSUME EngineDiffers ==
  \E p \in RulePairs : \E heard \in Heard :
    ServerApplyRules(heard, RuleSet(p)) # EngineApplyRules(heard, RuleSet(p))

(* the chat page agrees with the server on the rules of one keyword, ... *)
ASSUME PageAgrees ==
  \A p \in RulePairs : \A heard \in Heard :
    p[1].correct = p[2].correct =>
      ServerApplyRules(heard, RuleSet(p)) = PageApplyRules(heard, RuleSet(p))

(* and does not heed priorities between keywords. *)
ASSUME PageDiffers ==
  \E p \in RulePairs : \E heard \in Heard :
    /\ p[1].priority # p[2].priority
    /\ ServerApplyRules(heard, RuleSet(p)) # PageApplyRules(heard, RuleSet(p))

MCTexts == {<<"sign">>, <<"word", "mark", "word">>}

Pages == {"speech", "embedSpeech", "chat", "mic", "embed", "knowledge", "form", "shell", "rules"}

voicePageVars == <<hostVars, voiceVars>>
pagesVars ==
  <<chosen, speechVars, chatVars, chatMicVars, voicePageVars, knowledgePageVars, formVars,
    shellVars, rulesVars>>

(* The pages that are not open are in one of their initial states. *)
PagesInit ==
  /\ chosen \in Pages
  /\ SpeechInit /\ ChatMicInit /\ KnowledgePagesInit /\ FormInit /\ ShellInit /\ RulesInit
  /\ IF chosen = "embed" THEN EmbedInit ELSE ChatInit /\ VoiceInit /\ ~embedded
  /\ chosen # "knowledge" => page = {"edit"}
  /\ chosen # "shell" => token = Nobody /\ assistantId = NoAgent
  /\ chosen # "rules" => rules = [w \in Wrongs |-> NoText]

Speaks ==
  /\ \/ chosen = "speech" /\ SpeechNext
     \/ chosen = "embedSpeech" /\ EmbedSpeechNext
  /\ UNCHANGED <<chosen, chatVars, chatMicVars, voicePageVars, knowledgePageVars, formVars,
                 shellVars, rulesVars>>

Chats ==
  /\ \/ chosen = "chat" /\ ChatNext /\ UNCHANGED voicePageVars
     \/ chosen = "embed" /\ EmbedNext
  /\ UNCHANGED <<chosen, speechVars, chatMicVars, knowledgePageVars, formVars, shellVars,
                 rulesVars>>

Hears ==
  /\ chosen = "mic" /\ ChatMicNext
  /\ UNCHANGED <<chosen, speechVars, chatVars, voicePageVars, knowledgePageVars, formVars,
                 shellVars, rulesVars>>

EditsKnowledge ==
  /\ chosen = "knowledge" /\ KnowledgePagesNext
  /\ UNCHANGED <<chosen, speechVars, chatVars, chatMicVars, voicePageVars, formVars,
                 shellVars, rulesVars>>

FillsForm ==
  /\ chosen = "form" /\ FormNext
  /\ UNCHANGED <<chosen, speechVars, chatVars, chatMicVars, voicePageVars, knowledgePageVars,
                 shellVars, rulesVars>>

LogsInAndOut ==
  /\ chosen = "shell" /\ ShellNext
  /\ UNCHANGED <<chosen, speechVars, chatVars, chatMicVars, voicePageVars, knowledgePageVars,
                 formVars, rulesVars>>

EditsRules ==
  /\ chosen = "rules" /\ RulesNext
  /\ UNCHANGED <<chosen, speechVars, chatVars, chatMicVars, voicePageVars, knowledgePageVars,
                 formVars, shellVars>>

PagesNext ==
  Speaks \/ Chats \/ Hears \/ EditsKnowledge \/ FillsForm \/ LogsInAndOut \/ EditsRules

(* ChatFairness, of the two chat pages *)
ChatStep(A) ==
  /\ chosen \in {"chat", "embed"} /\ A
  /\ UNCHANGED <<chosen, speechVars, chatMicVars, voicePageVars, knowledgePageVars, formVars,
                 shellVars, rulesVars>>

PagesFairness ==
  /\ WF_pagesVars(ChatStep(TurnEnds))
  /\ WF_pagesVars(ChatStep(SocketOpens \/ SocketCloses))
  /\ WF_pagesVars(ChatStep(ReplacedCloses))

PagesSpec == PagesInit /\ [][PagesNext]_pagesVars /\ PagesFairness

PagesTypeOK ==
  /\ SpeechTypeOK /\ ChatTypeOK /\ ChatMicTypeOK /\ EmbedTypeOK
  /\ KnowledgePagesTypeOK /\ FormTypeOK /\ ShellTypeOK /\ RulesTypeOK
=============================================================================
