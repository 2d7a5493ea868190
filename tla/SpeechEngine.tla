---------------------------- MODULE SpeechEngine ----------------------------
(***************************************************************************)
(* Correcting what was heard, written three times: on the server           *)
(* (apply_rules in backend/services/speech_correction_service.py), for the *)
(* embedded page (frontend/chatbot_ui/src/utils/speechCorrectionEngine.ts) *)
(* and in the chat page (the loop in onstop of feature/chat/               *)
(* ChatInterface.jsx).  They replace alike, one rule after the other, so   *)
(* that a rule works on what the ones before it left; they differ in the   *)
(* order of the rules.                                                     *)
(*                                                                         *)
(* A rule is [wrong, correct, enabled, priority, id]; texts are sequences  *)
(* of characters, and no wrong text is empty (normalize_wrong_texts).      *)
(***************************************************************************)
EXTENDS Naturals, Sequences, FiniteSets
LOCAL INSTANCE SequencesExt

(* text.split(wrong).join(correct): from the left, without overlaps *)
Replaced(phrase, rule) ==
  LET n == Len(rule.wrong)
      found(i) == i + n <= Len(phrase) + 1 /\ SubSeq(phrase, i, i + n - 1) = rule.wrong
      from[i \in 1..(Len(phrase) + 1)] ==
        CASE i > Len(phrase) -> <<>>
          [] i <= Len(phrase) /\ found(i) -> rule.correct \o from[i + n]
          [] OTHER -> <<phrase[i]>> \o from[i + 1]
  IN from[1]

Corrected(phrase, ordered) ==
  FoldLeft(LAMBDA t, rule : IF rule.enabled THEN Replaced(t, rule) ELSE t, phrase, ordered)

Ordered(ruleSet, Before(_, _)) ==
  [k \in 1..Cardinality(ruleSet) |->
     CHOOSE r \in ruleSet : Cardinality({q \in ruleSet : Before(q, r)}) = k - 1]

(* Priority, then length of the wrong text: the higher and the longer first *)
Tied(r, s) == r.priority = s.priority /\ Len(r.wrong) = Len(s.wrong)

Precedes(r, s) ==
  \/ r.priority > s.priority
  \/ r.priority = s.priority /\ Len(r.wrong) > Len(s.wrong)

(* _rule_sort_key: of equals, the older rule first ... *)
ServerKey(r, s) == Precedes(r, s) \/ (Tied(r, s) /\ r.id < s.id)

(* ... and ruleSortKey: the newer one. *)
RuleSortKey(r, s) == Precedes(r, s) \/ (Tied(r, s) /\ r.id > s.id)

(* list_rules_grouped and flattenGroups: the groups of one correct text, the one
   with the oldest rule first, each in the server's order. *)
Oldest(ruleSet, r) ==
  CHOOSE n \in {q.id : q \in ruleSet} :
    /\ \E q \in ruleSet : q.id = n /\ q.correct = r.correct
    /\ \A q \in ruleSet : q.correct = r.correct => n <= q.id

Listed(ruleSet) ==
  LET Before(r, s) == \/ Oldest(ruleSet, r) < Oldest(ruleSet, s)
                      \/ r.correct = s.correct /\ ServerKey(r, s)
  IN Ordered(ruleSet, Before)

ServerApplyRules(phrase, ruleSet) == Corrected(phrase, Ordered(ruleSet, ServerKey))
EngineApplyRules(phrase, ruleSet) == Corrected(phrase, Ordered(ruleSet, RuleSortKey))
PageApplyRules(phrase, ruleSet) == Corrected(phrase, Listed(ruleSet))
=============================================================================
