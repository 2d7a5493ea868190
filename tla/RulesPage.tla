----------------------------- MODULE RulesPage -----------------------------
(***************************************************************************)
(* The speech correction rules of one assistant in the browser: the panel  *)
(* that edits them (frontend/chatbot_ui/src/feature/speechCorrection), the *)
(* conversation that is read and whose words become rules                  *)
(* (feature/chat/ConversationManagement.jsx), the query that keeps the list*)
(* (hook/useSpeechCorrectionRules.ts, queries/speechCorrectionRule.ts), and*)
(* the server's two transactions that write them                           *)
(* (backend/services/speech_correction_service.py).                        *)
(*                                                                         *)
(* The query library is external: a list is fetched when there is none or  *)
(* it is stale, by one fetch at a time; a write that succeeds marks it     *)
(* stale and, where it is watched, fetches it again, giving up a fetch     *)
(* under way only when there is a list already.  A list that arrives is    *)
(* fresh, whenever it was read.                                            *)
(***************************************************************************)
EXTENDS Naturals, FiniteSets

CONSTANTS
  Wrongs, Corrects, NoText,
  MaxSaves      \* bound: writes under way

ASSUME RulesAssumption == NoText \notin Corrects /\ MaxSaves \in Nat

VARIABLES
  rules,        \* server: the correct text of each wrong one, or NoText
  cached,       \* the list of the query: none or one
  stale,        \* it is marked, or a minute old
  ruleFetch,    \* the fetch under way: none, or what it has read (none or one list)
  failed,       \* the last fetch failed
  view,         \* "none", "panel", "list" of conversations, or "talk": one is open
  watching,     \* fetchConfig: the view has asked for the list
  modal,        \* "none", "form" or "pick": of a keyword for a selected text
  oldText,      \* the correct text of the group the form was opened for
  saves,        \* writes under way
  missed        \* history: a write is not, or not surely, in the list that comes

queryVars == <<cached, stale, ruleFetch, failed>>
placeVars == <<view, watching, modal, oldText>>
rulesVars == <<rules, queryVars, placeVars, saves, missed>>

RuleLists == [Wrongs -> Corrects \cup {NoText}]
RuleSaves ==
  [kind : {"form", "pick", "gone"}, old : Corrects \cup {NoText}, correct : Corrects,
   wrongs : (SUBSET Wrongs) \ {{}}, answer : {"none", "done", "refused"}]

RulesTypeOK ==
  /\ rules \in RuleLists
  /\ cached \subseteq RuleLists /\ Cardinality(cached) <= 1
  /\ ruleFetch \subseteq SUBSET RuleLists /\ Cardinality(ruleFetch) <= 1
  /\ {stale, failed, watching, missed} \subseteq BOOLEAN
  /\ view \in {"none", "panel", "list", "talk"}
  /\ modal \in {"none", "form", "pick"}
  /\ oldText \in Corrects \cup {NoText}
  /\ saves \subseteq RuleSaves /\ Cardinality(saves) <= MaxSaves

RulesInit ==
  /\ rules \in RuleLists
  /\ cached = {} /\ stale = FALSE /\ ruleFetch = {} /\ failed = FALSE
  /\ view = "none" /\ watching = FALSE /\ modal = "none" /\ oldText = NoText
  /\ saves = {} /\ missed = FALSE
-----------------------------------------------------------------------------
NoRead == {{}}

(* loadRules: refresh does no more than ensureLoaded. *)
LoadRules ==
  /\ watching' = TRUE
  /\ ruleFetch' = IF ruleFetch = {} /\ (cached = {} \/ stale) THEN NoRead ELSE ruleFetch

(* SpeechCorrectionRulesPanel, and a conversation that is opened *)
OpenRules ==
  /\ modal = "none"
  /\ \/ view = "none" /\ view' = "panel"
     \/ view = "list" /\ view' = "talk"
  /\ LoadRules
  /\ UNCHANGED <<rules, cached, stale, failed, modal, oldText, saves, missed>>

(* ConversationManagement; its dialog stays, with its query, when it is closed. *)
ShowConversations ==
  /\ modal = "none" /\ view \in {"none", "talk"}
  /\ view' = "list"
  /\ UNCHANGED <<rules, queryVars, watching, modal, oldText, saves, missed>>

(* Another page: what is under way goes on, for no modal. *)
LeaveRules ==
  /\ view # "none"
  /\ view' = "none" /\ watching' = FALSE /\ modal' = "none" /\ oldText' = NoText
  /\ saves' = {[s EXCEPT !.kind = "gone"] : s \in saves}
  /\ UNCHANGED <<rules, queryVars, missed>>

(* staleTime *)
MinutePasses ==
  /\ cached # {} /\ stale' = TRUE
  /\ UNCHANGED <<rules, cached, ruleFetch, failed, placeVars, saves, missed>>

(* list: the server reads the rules. *)
FetchReads ==
  /\ ruleFetch = NoRead
  /\ ruleFetch' = {{rules}} /\ missed' = FALSE
  /\ UNCHANGED <<rules, cached, stale, failed, placeVars, saves>>

FetchArrives ==
  /\ ruleFetch \notin {{}, NoRead}
  /\ cached' \in ruleFetch /\ ruleFetch' = {}
  /\ stale' = FALSE /\ failed' = FALSE
  /\ UNCHANGED <<rules, placeVars, saves, missed>>

(* An answer that is lost is asked for once more, then given up. *)
FetchFails ==
  /\ ruleFetch # {}
  /\ \/ ruleFetch' = NoRead /\ failed' = failed
     \/ ruleFetch' = {} /\ failed' = TRUE
  /\ UNCHANGED <<rules, cached, stale, placeVars, saves, missed>>
-----------------------------------------------------------------------------
(* One write of each kind at a time: submitting, selectionSubmitting. *)
Submitting(kind) == \E s \in saves : s.kind = kind

(* openCreate, openEditGroup *)
OpenForm ==
  /\ modal = "none"
  /\ \/ view = "panel" /\ oldText' = NoText
     \/ /\ view = "panel"
        /\ \E list \in cached, w \in Wrongs : list[w] # NoText /\ oldText' = list[w]
  /\ modal' = "form"
  /\ UNCHANGED <<rules, queryVars, view, watching, saves, missed>>

(* A text of the conversation is selected. *)
SelectText ==
  /\ view = "talk" /\ modal = "none"
  /\ modal' = "pick"
  /\ UNCHANGED <<rules, queryVars, view, watching, oldText, saves, missed>>

(* handleOpenCreateFromSelection *)
OpenCreateFromSelection ==
  /\ modal = "pick" /\ ~Submitting("pick")
  /\ modal' = "form" /\ oldText' = NoText
  /\ UNCHANGED <<rules, queryVars, view, watching, saves, missed>>

(* Escape or a click beside it closes a modal that is submitting, too. *)
CloseModal ==
  /\ modal # "none"
  /\ modal' = "none" /\ oldText' = NoText
  /\ UNCHANGED <<rules, queryVars, view, watching, saves, missed>>

(* handleSubmit, handleRulesModalSubmit: a new keyword is its own old one. *)
SubmitForm ==
  /\ modal = "form" /\ ~Submitting("form") /\ Cardinality(saves) < MaxSaves
  /\ \E c \in Corrects, ws \in (SUBSET Wrongs) \ {{}} :
       saves' = saves \cup
         {[kind |-> "form", old |-> IF oldText = NoText THEN c ELSE oldText,
           correct |-> c, wrongs |-> ws, answer |-> "none"]}
  /\ UNCHANGED <<rules, queryVars, placeVars, missed>>

(* handleConfirmExisting, of a keyword of the list *)
ConfirmExisting ==
  /\ modal = "pick" /\ ~Submitting("pick") /\ Cardinality(saves) < MaxSaves
  /\ \E list \in cached, v, w \in Wrongs :
       /\ list[v] # NoText
       /\ saves' = saves \cup
            {[kind |-> "pick", old |-> NoText, correct |-> list[v], wrongs |-> {w},
              answer |-> "none"]}
  /\ UNCHANGED <<rules, queryVars, placeVars, missed>>

(* upsert_rules_group and create_rules_batch: a wrong text that is another
   keyword's refuses the write.  A group becomes what was sent: its other wrong
   texts are deleted. *)
Applies(s) ==
  LET group == {w \in Wrongs : rules[w] = s.old /\ s.old # NoText}
  IN IF \E w \in s.wrongs \ group : rules[w] # NoText
     THEN rules' = rules /\ saves' = (saves \ {s}) \cup {[s EXCEPT !.answer = "refused"]}
     ELSE /\ rules' = [w \in Wrongs |-> IF w \in s.wrongs THEN s.correct
                                        ELSE IF w \in group THEN NoText ELSE rules[w]]
          /\ saves' = (saves \ {s}) \cup {[s EXCEPT !.answer = "done"]}

ServerSaves ==
  /\ \E s \in saves : s.answer = "none" /\ Applies(s)
  /\ UNCHANGED <<queryVars, placeVars, missed>>

InvalidateSpeechRules_WatchedOnly ==
  /\ stale' = (stale \/ (cached # {} /\ watching))
  /\ ruleFetch' = IF watching /\ (ruleFetch = {} \/ cached # {}) THEN NoRead ELSE ruleFetch

(* invalidateSpeechRules *)
InvalidateSpeechRules ==
  /\ stale' = (stale \/ cached # {})
  /\ ruleFetch' = IF watching /\ (ruleFetch = {} \/ cached # {}) THEN NoRead ELSE ruleFetch

(* The write has succeeded: the list is stale and the modal closes, whosever it is
   by now. *)
RuleSaved ==
  /\ \E s \in saves :
       /\ s.answer = "done"
       /\ saves' = saves \ {s}
       /\ modal' = IF s.kind = modal THEN "none" ELSE modal
       /\ oldText' = IF modal' = "form" THEN oldText ELSE NoText
  /\ InvalidateSpeechRules
  /\ missed' = (missed \/ ruleFetch' \notin {{}, NoRead})
  /\ UNCHANGED <<rules, cached, failed, view, watching>>

(* It was refused, or there is no answer, and it may have been made. *)
RuleNotSaved ==
  /\ \E s \in saves : saves' = saves \ {s} /\ missed' = (missed \/ s.answer = "done")
  /\ UNCHANGED <<rules, queryVars, placeVars>>

RulesNext ==
  \/ OpenRules \/ ShowConversations \/ LeaveRules \/ MinutePasses
  \/ FetchReads \/ FetchArrives \/ FetchFails
  \/ OpenForm \/ SelectText \/ OpenCreateFromSelection \/ CloseModal
  \/ SubmitForm \/ ConfirmExisting \/ ServerSaves \/ RuleSaved \/ RuleNotSaved

RulesSpec == RulesInit /\ [][RulesNext]_rulesVars
-----------------------------------------------------------------------------
(* The list that is shown when nothing is under way is the server's: whatever page
   was left while a rule was written, and whichever fetch the write met, unless the
   answer was lost or the fetch had been read before the write. *)
RulesFresh ==
  watching /\ ruleFetch = {} /\ saves = {} /\ ~failed /\ ~missed => cached = {rules}
=============================================================================
