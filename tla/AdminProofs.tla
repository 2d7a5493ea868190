---------------------------- MODULE AdminProofs ----------------------------
(***************************************************************************)
(* The pages around the chat, for any users, documents, assistants, texts  *)
(* and writes under way: what a dialog shows and sends is its own          *)
(* (EditorOwn, FormMatches), a session shows its own user (SessionOwn), the*)
(* rules that are shown are the server's (RulesFresh), and each page's     *)
(* state is what it is meant to be made of (their type invariants).        *)
(***************************************************************************)
EXTENDS KnowledgePages, AssistantForm, Shell, RulesPage, FiniteSetTheorems, TLAPS

(* Unless the editor was closed while something was awaited, a text that is
   awaited is that of the document it is open for, and keeps it blocked. *)
Awaiting ==
  ~cut["edit"] /\ fetches # {} =>
    open["edit"] /\ fetching /\ fetches = {selected} /\ saving["edit"] = NoItem

KInv == KnowledgePagesTypeOK /\ EditorOwn /\ Awaiting

LEMMA PagesStart == KnowledgePagesInit => KInv
<1> SUFFICES ASSUME KnowledgePagesInit PROVE KInv
  OBVIOUS
<1>1. 0 \in 0..MaxClosers
  BY KnowledgePagesAssumption
<1>2. KnowledgePagesTypeOK
  BY <1>1 DEF KnowledgePagesInit, KnowledgePagesTypeOK
<1>3. EditorOwn /\ Awaiting
  BY DEF KnowledgePagesInit, EditorOwn, ShowsOwnText, InputKept, Awaiting, Dialogs
<1> QED
  BY <1>2, <1>3 DEF KInv

(* The text of a document is asked for, comes or does not. *)
LEMMA EditStep ==
  ASSUME KInv, NEW i \in Items, EditKnowledge(i) \/ ContentArrives(i) \/ ContentFails(i)
  PROVE  KInv'
<1> USE DEF KInv, EditorOwn, ShowsOwnText, InputKept, Awaiting, Dialogs
<1>1. CASE EditKnowledge(i)
  BY <1>1 DEF EditKnowledge, KnowledgePagesTypeOK, NoneOpen
<1>2. CASE ContentArrives(i)
  BY <1>2 DEF ContentArrives, KnowledgePagesTypeOK
<1>3. CASE ContentFails(i)
  BY <1>3 DEF ContentFails, Shut, KnowledgePagesTypeOK
<1> QED
  BY <1>1, <1>2, <1>3

(* A dialog is opened, filled, emptied and closed by the user. *)
LEMMA UserStep ==
  ASSUME KInv, NEW d \in Dialogs,
         OpenNew(d) \/ EnterText(d) \/ ClearText(d) \/ CloseDialog(d)
         \/ SelectFile \/ DropFile \/ CancelUpload
  PROVE  KInv'
<1> USE DEF KInv, EditorOwn, ShowsOwnText, InputKept, Awaiting, Dialogs
<1>1. CASE OpenNew(d)
  BY <1>1 DEF OpenNew, editVars, KnowledgePagesTypeOK, NoneOpen
<1>2. CASE EnterText(d)
  BY <1>2 DEF EnterText, IsBlockingClose, editVars, KnowledgePagesTypeOK
<1>3. CASE ClearText(d)
  BY <1>3 DEF ClearText, IsBlockingClose, editVars, KnowledgePagesTypeOK
<1>4. CASE CloseDialog(d)
  BY <1>4 DEF CloseDialog, Shut, IsBlockingClose, KnowledgePagesTypeOK
<1>5. CASE CancelUpload
  BY <1>5 DEF CancelUpload, Shut, KnowledgePagesTypeOK
<1>6. CASE SelectFile
  BY <1>6 DEF SelectFile, IsBlockingClose, editVars, KnowledgePagesTypeOK
<1>7. CASE DropFile
  BY <1>7, EntriesAssumption DEF DropFile, editVars, KnowledgePagesTypeOK
<1> QED
  BY <1>1, <1>2, <1>3, <1>4, <1>5, <1>6, <1>7

(* The bound of the timers *)
LEMMA CloserCount ==
  ASSUME closers \in [Dialogs -> 0..MaxClosers], NEW d \in Dialogs,
         SubmitSucceeds(d) \/ CloserFires(d)
  PROVE  closers' \in [Dialogs -> 0..MaxClosers]
<1>1. closers[d] \in Nat /\ closers[d] <= MaxClosers /\ MaxClosers \in Nat
  BY KnowledgePagesAssumption
<1>2. CASE SubmitSucceeds(d)
  <2>1. closers[d] + 1 \in 0..MaxClosers /\ closers' = [closers EXCEPT ![d] = closers[d] + 1]
    BY <1>1, <1>2 DEF SubmitSucceeds
  <2> QED BY <2>1
<1>3. CASE CloserFires(d)
  <2>1. closers[d] > 0 /\ closers' = [closers EXCEPT ![d] = closers[d] - 1]
    BY <1>3 DEF CloserFires
  <2>2. closers[d] - 1 \in 0..MaxClosers
    BY <1>1, <2>1
  <2> QED BY <2>1, <2>2
<1> QED BY <1>2, <1>3

(* A submission and what becomes of it *)
LEMMA SubmitStep ==
  ASSUME KInv, NEW d \in Dialogs,
         SubmitDialog(d) \/ SubmitSucceeds(d) \/ SubmitFails(d) \/ CloserFires(d)
  PROVE  KInv'
<1> USE DEF KInv, EditorOwn, ShowsOwnText, InputKept, Awaiting, Dialogs
<1>1. CASE SubmitDialog(d)
  <2>1. [item |-> selected, of |-> content[d]] \in Submissions
    <3>1. selected \in Items \cup {NoItem} /\ content[d] \in Items \cup Entries
      BY <1>1 DEF SubmitDialog, SubmitOffered, KnowledgePagesTypeOK
    <3> QED
      BY <3>1 DEF Submissions
  <2>2. saving' \in [Dialogs -> Submissions \cup {NoItem}]
    BY <1>1, <2>1 DEF SubmitDialog, KnowledgePagesTypeOK
  <2>3. KnowledgePagesTypeOK'
    BY <1>1, <2>2 DEF SubmitDialog, editVars, KnowledgePagesTypeOK
  <2>4. /\ saving'[d].item = selected /\ saving'[d].of = content[d]
        /\ \A e \in Dialogs \ {d} : saving'[e] = saving[e]
    BY <1>1 DEF SubmitDialog, KnowledgePagesTypeOK
  <2>5. /\ open[d] /\ ~IsBlockingClose(d) /\ content[d] # ""
        /\ UNCHANGED <<page, open, content, closers, cut, selected, editing, fetching, fetches>>
        /\ dropped' = (dropped /\ d # "file")
    BY <1>1 DEF SubmitDialog, SubmitOffered, editVars
  <2>6. EditorOwn' /\ Awaiting'
    BY <2>4, <2>5 DEF IsBlockingClose, KnowledgePagesTypeOK
  <2> QED
    BY <2>3, <2>6
<1>2. CASE SubmitSucceeds(d)
  BY <1>2, CloserCount DEF SubmitSucceeds, KnowledgePagesTypeOK
<1>3. CASE SubmitFails(d)
  BY <1>3 DEF SubmitFails, editVars, KnowledgePagesTypeOK
<1>4. CASE CloserFires(d)
  BY <1>4, CloserCount DEF CloserFires, Shut, KnowledgePagesTypeOK
<1> QED
  BY <1>1, <1>2, <1>3, <1>4

LEMMA KnowledgeStep == KInv /\ [KnowledgePagesNext]_knowledgePageVars => KInv'
<1> SUFFICES ASSUME KInv, [KnowledgePagesNext]_knowledgePageVars PROVE KInv'
  OBVIOUS
<1>1. CASE UNCHANGED knowledgePageVars
  BY <1>1 DEF knowledgePageVars, dialogVars, editVars, KInv, KnowledgePagesTypeOK, EditorOwn,
              ShowsOwnText, InputKept, Awaiting
<1>2. CASE KnowledgePagesNext
  <2>1. "file" \in Dialogs
    BY DEF Dialogs
  <2> QED
    BY <1>2, <2>1, EditStep, UserStep, SubmitStep DEF KnowledgePagesNext
<1> QED
  BY <1>1, <1>2

(* Whenever answers come, closing timers fire and files are dropped
   (TextInputDialog.jsx 39-127, FileUploadDialog.jsx 62-132,
   KnowledgeExistingPage.jsx 68-134): the editor shows and saves its own document,
   and what a pending submission has sent stays in its dialog, unless a timer has
   closed that or a file was dropped on it since. *)
THEOREM Editing == KnowledgePagesSpec => [](KnowledgePagesTypeOK /\ EditorOwn)
<1>1. KInv => KnowledgePagesTypeOK /\ EditorOwn
  BY DEF KInv
<1> QED
  BY <1>1, PagesStart, KnowledgeStep, PTL DEF KnowledgePagesSpec
-----------------------------------------------------------------------------
(* The fields while the form is open: those of a new assistant are empty but for
   a description that the template will replace; those of another are its
   detail's, or the detail is on its way. *)
Filled ==
  formOpen =>
    IF formOf = NewOne
    THEN text = NewOne /\ (template = "asked" \/ description \in {NewOne, "template"})
    ELSE IF formOf \in details
    THEN text = formOf /\ description \in {formOf, "template"}
    ELSE formOf \in detailAsked

(* What a pending save sends was one assistant's. *)
SentOwn == \A s \in formSaving : s.text = s.of /\ s.notebooks \subseteq {s.of}

FInv == Filled /\ SentOwn /\ notebooks \subseteq {formOf}

LEMMA FormStarts == FormInit => FInv
  BY DEF FormInit, FInv, Filled, SentOwn

(* The form is opened for an assistant, and what fills it comes or does not. *)
LEMMA FillStep ==
  ASSUME FInv, NEW a \in Assistants,
         \/ OpenAssistant(a) \/ DetailArrives(a) \/ DetailFails(a)
         \/ BindingsArrive(a) \/ BindingsFail(a)
  PROVE  FInv'
<1> USE AssistantFormAssumption DEF FInv, Filled, SentOwn, Shows
<1>1. CASE OpenAssistant(a)
  BY <1>1 DEF OpenAssistant, Enabled, ApplyDetail, ShutForm
<1>2. CASE DetailArrives(a)
  BY <1>2 DEF DetailArrives, ApplyDetail, bindingVars
<1>3. CASE DetailFails(a)
  BY <1>3 DEF DetailFails, ShutForm, bindingVars
<1>4. CASE BindingsArrive(a) \/ BindingsFail(a)
  BY <1>4 DEF BindingsArrive, BindingsFail, detailVars, fieldVars
<1> QED
  BY <1>1, <1>2, <1>3, <1>4

(* What the user does, what was awaited, and the save *)
LEMMA UseStep ==
  ASSUME FInv,
         \/ ReloadTemplate \/ ChooseFile \/ TemplateReloaded \/ (\E o \in Owners : FileRead(o))
         \/ PressSave \/ AssistantUpdated \/ SaveEnds \/ SaveFails \/ CloseForm \/ LeaveManagement
  PROVE  FInv'
<1> USE DEF FInv, Filled, SentOwn
<1>1. CASE ReloadTemplate \/ ChooseFile
  BY <1>1 DEF ReloadTemplate, ChooseFile, Await, fieldVars, detailVars, bindingVars
<1>2. CASE TemplateReloaded \/ (\E o \in Owners : FileRead(o))
  BY <1>2 DEF TemplateReloaded, FileRead, detailVars, bindingVars
<1>3. CASE PressSave
  BY <1>3 DEF PressSave, SaveOffered, DetailLoading, fieldVars, detailVars, bindingVars
<1>4. CASE AssistantUpdated
  BY <1>4 DEF AssistantUpdated, fieldVars, bindingVars
<1>5. CASE SaveEnds
  BY <1>5 DEF SaveEnds, ShutForm, detailVars
<1>6. CASE SaveFails
  BY <1>6 DEF SaveFails, fieldVars, detailVars, bindingVars
<1>7. CASE CloseForm \/ LeaveManagement
  BY <1>7 DEF CloseForm, LeaveManagement, ShutForm, detailVars, bindingVars
<1> QED
  BY <1>1, <1>2, <1>3, <1>4, <1>5, <1>6, <1>7

LEMMA FormStep == FInv /\ [FormNext]_formVars => FInv'
<1> SUFFICES ASSUME FInv, [FormNext]_formVars PROVE FInv'
  OBVIOUS
<1>1. CASE UNCHANGED formVars
  BY <1>1 DEF formVars, fieldVars, detailVars, bindingVars, FInv, Filled, SentOwn
<1>2. CASE OpenNewOne
  BY <1>2, AssistantFormAssumption DEF OpenNewOne, detailVars, bindingVars, FInv, Filled, SentOwn
<1>3. CASE TemplateArrives
  BY <1>3, AssistantFormAssumption
  DEF TemplateArrives, Shows, detailVars, bindingVars, FInv, Filled, SentOwn
<1>4. CASE FormNext /\ ~OpenNewOne /\ ~TemplateArrives
  BY <1>4, FillStep, UseStep DEF FormNext
<1> QED
  BY <1>1, <1>2, <1>3, <1>4

(* What the form's state is made of: what a pending save sends is that of an
   assistant, or of a new one. *)
FormSaves ==
  [of : Owners, text : Owners, notebooks : SUBSET Assistants, step : {"form", "notebooks"}]

FormShape ==
  /\ formOpen \in BOOLEAN /\ formOf \in Owners /\ text \in Owners
  /\ description \in Owners \cup {"template"}
  /\ notebooks \subseteq Assistants /\ files \subseteq Owners
  /\ details \subseteq Assistants /\ detailAsked \subseteq Assistants
  /\ bindings \subseteq Assistants /\ bindingsAsked \subseteq Assistants
  /\ awaited \subseteq Owners \cup {"template"}
  /\ template \in {"none", "asked", "there"}
  /\ formSaving \subseteq FormSaves

LEMMA FormShapeStarts == FormInit => FormShape
  BY DEF FormInit, FormShape, Owners

LEMMA FormShapeTypes == FormShape => FormTypeOK
  BY DEF FormShape, FormTypeOK, FormSaves

LEMMA FillShape ==
  ASSUME FormShape, NEW a \in Assistants,
         \/ OpenAssistant(a) \/ DetailArrives(a) \/ DetailFails(a)
         \/ BindingsArrive(a) \/ BindingsFail(a)
  PROVE  FormShape'
<1> USE DEF FormShape
<1>1. a \in Owners /\ NewOne \in Owners
  BY DEF Owners
<1>2. CASE OpenAssistant(a)
  <2>1. detailAsked' \subseteq Assistants /\ bindingsAsked' \subseteq Assistants
    BY <1>2 DEF OpenAssistant, Enabled
  <2>2. /\ text' \in Owners /\ description' \in Owners \cup {"template"} /\ files' \subseteq Owners
        /\ formOpen' \in BOOLEAN /\ formOf' \in Owners /\ notebooks' \subseteq Assistants
    BY <1>1, <1>2 DEF OpenAssistant, ApplyDetail, ShutForm
  <2> QED
    BY <1>2, <2>1, <2>2 DEF OpenAssistant
<1>3. CASE DetailArrives(a)
  BY <1>1, <1>3 DEF DetailArrives, ApplyDetail, bindingVars
<1>4. CASE DetailFails(a)
  BY <1>1, <1>4 DEF DetailFails, ShutForm, bindingVars
<1>5. CASE BindingsArrive(a) \/ BindingsFail(a)
  BY <1>5 DEF BindingsArrive, BindingsFail, detailVars, fieldVars
<1> QED
  BY <1>2, <1>3, <1>4, <1>5

LEMMA UseShape ==
  ASSUME FormShape,
         \/ OpenNewOne \/ TemplateArrives
         \/ ReloadTemplate \/ ChooseFile \/ TemplateReloaded \/ (\E o \in Owners : FileRead(o))
         \/ CloseForm \/ LeaveManagement
  PROVE  FormShape'
<1> USE DEF FormShape
<1>1. NewOne \in Owners
  BY DEF Owners
<1>2. CASE OpenNewOne \/ TemplateArrives
  BY <1>1, <1>2 DEF OpenNewOne, TemplateArrives, detailVars, bindingVars
<1>3. CASE ReloadTemplate \/ ChooseFile
  BY <1>3 DEF ReloadTemplate, ChooseFile, Await, fieldVars, detailVars, bindingVars
<1>4. CASE TemplateReloaded \/ (\E o \in Owners : FileRead(o))
  BY <1>4 DEF TemplateReloaded, FileRead, detailVars, bindingVars
<1>5. CASE CloseForm \/ LeaveManagement
  BY <1>1, <1>5 DEF CloseForm, LeaveManagement, ShutForm, detailVars, bindingVars
<1> QED
  BY <1>2, <1>3, <1>4, <1>5

(* The save, from the press to its end *)
LEMMA SaveShapeStep ==
  ASSUME FormShape, PressSave \/ AssistantUpdated \/ SaveEnds \/ SaveFails
  PROVE  FormShape'
<1> USE DEF FormShape
<1>1. CASE PressSave
  <2>1. formSaving' \subseteq FormSaves
    BY <1>1 DEF PressSave, FormSaves
  <2> QED
    BY <1>1, <2>1 DEF PressSave, fieldVars, detailVars, bindingVars
<1>2. CASE AssistantUpdated
  <2>1. PICK s \in formSaving :
          /\ s.of # NewOne
          /\ formSaving' = {[s EXCEPT !.step = "notebooks"]}
          /\ detailAsked' = IF Shows(s.of) THEN detailAsked \cup {s.of} ELSE detailAsked
          /\ UNCHANGED <<formOpen, formOf, fieldVars, details, bindingVars, template, awaited>>
    BY <1>2 DEF AssistantUpdated
  <2>2. s.of \in Assistants /\ formSaving' \subseteq FormSaves
    BY <2>1 DEF FormSaves, Owners
  <2> QED
    BY <2>1, <2>2 DEF fieldVars, bindingVars
<1>3. CASE SaveEnds
  <2>1. PICK s \in formSaving :
          /\ formSaving' = {} /\ ShutForm
          /\ bindingsAsked' =
               IF s.of # NewOne /\ Shows(s.of) THEN bindingsAsked \cup {s.of} ELSE bindingsAsked
          /\ UNCHANGED <<text, description, files, detailVars, bindings, template, awaited>>
    BY <1>3 DEF SaveEnds
  <2>2. s.of # NewOne => s.of \in Assistants
    BY DEF FormSaves, Owners
  <2> QED
    BY <2>1, <2>2 DEF ShutForm, detailVars, Owners
<1>4. CASE SaveFails
  BY <1>4 DEF SaveFails, fieldVars, detailVars, bindingVars
<1> QED
  BY <1>1, <1>2, <1>3, <1>4

LEMMA FormShapeStep == FormShape /\ [FormNext]_formVars => FormShape'
<1>1. FormShape /\ UNCHANGED formVars => FormShape'
  BY DEF formVars, fieldVars, detailVars, bindingVars, FormShape
<1> QED
  BY <1>1, FillShape, UseShape, SaveShapeStep DEF FormNext

LEMMA FormHolds == FInv => FormMatches
  BY DEF FInv, Filled, SentOwn, FormMatches, SaveOffered, DetailLoading

(* Whatever the cache holds and whatever comes late (EditAIAssistantDialog.jsx
   106-526): what the form offers to save, and what it saves, is its
   assistant's. *)
THEOREM Saving == FormSpec => [](FormTypeOK /\ FormMatches)
  BY FormStarts, FormStep, FormHolds, FormShapeStarts, FormShapeStep, FormShapeTypes, PTL
  DEF FormSpec
-----------------------------------------------------------------------------
(* The login page has at most one request on its way, of a user; what it needs
   of the second factor is there. *)
LoginPage ==
  /\ OneAttempt
  /\ attempt \subseteq [what : {"login", "init", "verify"}, of : Users]
  /\ attempt # {} => ~isAuthenticated /\ ~loading
  /\ \A r \in attempt : r.what # "verify" => mfaStage = "login"
  /\ mfaStage # "login" \/ (\E r \in attempt : r.what = "init") => tempToken \in Users

(* While the page loads, the one answer it waits for is the token's user's. *)
LoadsOwn ==
  loading =>
    /\ ~isAuthenticated /\ token \in Users /\ answers \subseteq {token}
    /\ agents = Nobody /\ currentAgent = NoAgent

(* Nobody is logged in: nothing of anybody is left, unless it came late. *)
LoggedOut ==
  ~isAuthenticated /\ ~loading =>
    /\ token = Nobody /\ agents = Nobody /\ currentAgent = NoAgent
    /\ ~late => userData = Nobody

(* Somebody is: the token is there, and the lists follow it. *)
LoggedIn == isAuthenticated => ~loading /\ token \in Users

SessionInv ==
  /\ {isAuthenticated, loading, late} \subseteq BOOLEAN
  /\ token \in Users \cup {Nobody} /\ answers \subseteq Users
  /\ LoginPage /\ LoadsOwn /\ LoggedOut /\ LoggedIn /\ ShownIsOwn

LEMMA SessionStarts == ShellInit => SessionInv
  BY ShellAssumption
  DEF ShellInit, SessionInv, LoginPage, OneAttempt, LoadsOwn, LoggedOut, LoggedIn, ShownIsOwn

(* The chosen assistant is one of the listed ones, or what it was. *)
LEMMA FollowsListed ==
  ASSUME NEW u, NEW agent, NEW id, Follows(u, agent, id)
  PROVE  currentAgent' = agent \/ currentAgent' \in AssistantsOf(u)
  BY DEF Follows, AssistantsOf

LEMMA AgentStep ==
  ASSUME SessionInv, AssistantsArrive \/ SelectAgent \/ Navigate
  PROVE  SessionInv'
<1>1. UNCHANGED <<sessionVars, loginVars>> /\ isAuthenticated
  BY DEF AssistantsArrive, SelectAgent, Navigate
<1>2. ~late => /\ agents' \in {Nobody, token}
               /\ currentAgent' \in AssistantsOf(token) \cup {NoAgent}
  <2>1. CASE AssistantsArrive
    BY <2>1, FollowsListed DEF AssistantsArrive, SessionInv, ShownIsOwn
  <2>2. CASE SelectAgent
    BY <2>2, FollowsListed DEF SelectAgent, SessionInv, ShownIsOwn, AssistantsOf
  <2>3. CASE Navigate
    BY <2>3, FollowsListed DEF Navigate, SessionInv, ShownIsOwn, AssistantsOf
  <2> QED
    BY <2>1, <2>2, <2>3
<1> QED
  BY <1>1, <1>2
  DEF SessionInv, LoginPage, OneAttempt, LoadsOwn, LoggedOut, LoggedIn, ShownIsOwn, sessionVars,
      loginVars

(* A login: what the last session left is gone, or is known to be late. *)
LEMMA LogsInStep ==
  ASSUME SessionInv, NEW r \in attempt, LogsIn(r.of)
  PROVE  SessionInv'
<1>1. r.of \in Users /\ r.of # Nobody /\ ~isAuthenticated /\ ~loading
  BY ShellAssumption DEF SessionInv, LoginPage
<1>2. LoginPage' /\ LoadsOwn' /\ LoggedOut' /\ LoggedIn'
  BY <1>1 DEF LogsIn, SessionInv, LoginPage, OneAttempt, LoadsOwn, LoggedOut, LoggedIn
<1>3. ShownIsOwn'
  BY <1>1 DEF LogsIn, SessionInv, LoggedOut, ShownIsOwn
<1> QED
  BY <1>1, <1>2, <1>3 DEF LogsIn, SessionInv

(* One request is on its way ... *)
LEMMA Attempting ==
  ASSUME NEW w \in {"login", "init", "verify"}, NEW u \in Users,
         attempt' = {[what |-> w, of |-> u]}, isLoading', ~isAuthenticated', ~loading',
         w # "verify" => mfaStage' = "login",
         mfaStage' # "login" \/ w = "init" => tempToken' \in Users
  PROVE  LoginPage'
<1>1. [what |-> w, of |-> u] \in [what : {"login", "init", "verify"}, of : Users]
  OBVIOUS
<1>2. [what |-> w, of |-> u].what = w
  OBVIOUS
<1> QED
  BY <1>1, <1>2 DEF LoginPage, OneAttempt

(* ... or none. *)
LEMMA NotAttempting ==
  ASSUME attempt' = {}, ~isLoading', mfaStage' # "login" => tempToken' \in Users
  PROVE  LoginPage'
  BY DEF LoginPage, OneAttempt

LEMMA LoginPageStep ==
  ASSUME SessionInv,
         \/ HandleLogin \/ LoginAnswers \/ StartMfaSetup \/ HandleMfaVerify \/ MfaAnswers
         \/ BackToLogin
  PROVE  SessionInv'
<1>1. ASSUME LoginPage', UNCHANGED <<sessionVars, agentVars>> PROVE SessionInv'
  <2>1. UNCHANGED <<isAuthenticated, loading, late, token, answers, userData, agents, currentAgent>>
    BY <1>1 DEF sessionVars, agentVars
  <2> QED
    BY <1>1, <2>1 DEF SessionInv, LoadsOwn, LoggedOut, LoggedIn, ShownIsOwn
<1>2. CASE HandleLogin
  <2>1. PICK u \in Users : attempt' = attempt \cup {[what |-> "login", of |-> u]}
    BY <1>2 DEF HandleLogin
  <2>2. attempt' = {[what |-> "login", of |-> u]}
    BY <1>2, <2>1 DEF HandleLogin, SessionInv, LoginPage, OneAttempt
  <2>3. LoginPage'
    BY <1>2, <2>2, Attempting DEF HandleLogin, LoginShown, sessionVars
  <2> QED
    BY <1>1, <1>2, <2>3 DEF HandleLogin
<1>3. CASE LoginAnswers
  <2>1. PICK r \in attempt :
          /\ r.what = "login"
          /\ \/ LogsIn(r.of)
             \/ /\ tempToken' = r.of
                /\ attempt' = {[what |-> "init", of |-> r.of]}
                /\ UNCHANGED <<sessionVars, mfaStage, isLoading, agentVars>>
             \/ /\ tempToken' = r.of /\ mfaStage' = "verify"
                /\ isLoading' = FALSE /\ attempt' = attempt \ {r}
                /\ UNCHANGED <<sessionVars, agentVars>>
             \/ /\ isLoading' = FALSE /\ attempt' = attempt \ {r}
                /\ UNCHANGED <<sessionVars, mfaStage, tempToken, agentVars>>
    BY <1>3 DEF LoginAnswers
  <2>2. r.of \in Users /\ attempt \ {r} = {} /\ isLoading
    BY <2>1 DEF SessionInv, LoginPage, OneAttempt
  <2>3. CASE LogsIn(r.of)
    BY <2>3, LogsInStep
  <2>4. CASE ~LogsIn(r.of)
    <3>1. UNCHANGED <<sessionVars, agentVars>> /\ mfaStage = "login"
      BY <2>1, <2>4 DEF SessionInv, LoginPage
    <3>2. ~isAuthenticated' /\ ~loading'
      BY <3>1, <2>1 DEF SessionInv, LoginPage, sessionVars
    <3>3. CASE attempt' = {[what |-> "init", of |-> r.of]}
      <4>1. tempToken' = r.of /\ mfaStage' = mfaStage /\ isLoading' = isLoading
        BY <2>1, <2>2, <2>4, <3>3
      <4> QED
        BY <1>1, <2>2, <3>1, <3>2, <3>3, <4>1, Attempting
    <3>4. CASE attempt' = {}
      <4>1. ~isLoading' /\ (mfaStage' = "login" \/ tempToken' = r.of)
        BY <2>1, <2>4, <3>1, <3>4
      <4> QED
        BY <1>1, <2>2, <3>1, <3>4, <4>1, NotAttempting
    <3> QED
      BY <2>1, <2>2, <2>4, <3>3, <3>4
  <2> QED
    BY <2>3, <2>4
<1>4. CASE StartMfaSetup
  <2>1. attempt' = {} /\ isLoading' = FALSE /\ tempToken \in Users
    BY <1>4 DEF StartMfaSetup, SessionInv, LoginPage, OneAttempt
  <2>2. LoginPage'
    BY <1>4, <2>1 DEF StartMfaSetup, LoginPage, OneAttempt
  <2> QED
    BY <1>1, <1>4, <2>2 DEF StartMfaSetup
<1>5. CASE HandleMfaVerify
  <2>1. attempt' = {[what |-> "verify", of |-> tempToken]} /\ tempToken \in Users
    BY <1>5 DEF HandleMfaVerify, VerifyOffered, SessionInv, LoginPage, OneAttempt
  <2>2. LoginPage'
    BY <1>5, <2>1, Attempting DEF HandleMfaVerify, VerifyOffered, LoginShown, sessionVars
  <2> QED
    BY <1>1, <1>5, <2>2 DEF HandleMfaVerify
<1>6. CASE MfaAnswers
  <2>1. PICK r \in attempt :
          \/ LogsIn(r.of)
          \/ /\ isLoading' = FALSE /\ attempt' = attempt \ {r}
             /\ UNCHANGED <<sessionVars, mfaStage, tempToken, agentVars>>
    BY <1>6 DEF MfaAnswers
  <2>2. CASE LogsIn(r.of)
    BY <2>2, LogsInStep
  <2>3. CASE ~LogsIn(r.of)
    <3>1. attempt' = {} /\ isLoading' = FALSE
      BY <2>1, <2>3 DEF SessionInv, LoginPage, OneAttempt
    <3>2. LoginPage'
      BY <2>1, <2>3, <3>1 DEF SessionInv, LoginPage, OneAttempt
    <3> QED
      BY <1>1, <2>1, <2>3, <3>2
  <2> QED
    BY <2>2, <2>3
<1>7. CASE BackToLogin
  <2>1. LoginPage'
    BY <1>7 DEF BackToLogin, LoginShown, sessionVars, SessionInv, LoginPage, OneAttempt
  <2> QED
    BY <1>1, <1>7, <2>1 DEF BackToLogin
<1> QED
  BY <1>2, <1>3, <1>4, <1>5, <1>6, <1>7

LEMMA SessionStep ==
  ASSUME SessionInv,
         \/ \E u \in Users : UserDataArrives(u) \/ UserDataFails(u)
         \/ UpdateProfile \/ Logout \/ Reload \/ UNCHANGED shellVars
  PROVE  SessionInv'
<1> USE ShellAssumption
    DEF SessionInv, LoginPage, OneAttempt, LoadsOwn, LoggedOut, LoggedIn, ShownIsOwn
<1>1. ASSUME NEW u \in Users, UserDataArrives(u) PROVE SessionInv'
  <2>1. CASE loading
    <3>1. /\ u = token /\ userData' = token /\ isAuthenticated' = TRUE /\ loading' = FALSE
          /\ agents' = Nobody
      BY <1>1, <2>1 DEF UserDataArrives
    <3> QED
      BY <1>1, <3>1 DEF UserDataArrives, loginVars
  <2>2. CASE ~loading
    <3>1. /\ isAuthenticated' = isAuthenticated /\ loading' = FALSE /\ agents' \in {agents, Nobody}
          /\ late' \in BOOLEAN /\ (~late' => ~late /\ u = token)
      BY <1>1, <2>2 DEF UserDataArrives
    <3> QED
      BY <1>1, <2>2, <3>1 DEF UserDataArrives, loginVars
  <2> QED
    BY <2>1, <2>2
<1>2. ASSUME NEW u \in Users, UserDataFails(u) PROVE SessionInv'
  <2>1. CASE loading
    BY <1>2, <2>1 DEF UserDataFails, loginVars, agentVars
  <2>2. CASE ~loading
    BY <1>2, <2>2 DEF UserDataFails, loginVars, agentVars
  <2> QED
    BY <2>1, <2>2
<1>3. CASE UpdateProfile
  BY <1>3 DEF UpdateProfile, loginVars, agentVars
<1>4. CASE Logout
  BY <1>4 DEF Logout, loginVars
<1>5. CASE Reload
  BY <1>5 DEF Reload
<1>6. CASE UNCHANGED shellVars
  BY <1>6 DEF shellVars, sessionVars, loginVars, agentVars
<1> QED
  BY <1>1, <1>2, <1>3, <1>4, <1>5, <1>6

(* What the session's state is made of: users, and assistants of users. *)
ShellFlags == {isAuthenticated, loading, late, isLoading} \subseteq BOOLEAN

ShellShape ==
  /\ {token, userData, tempToken, agents} \subseteq Users \cup {Nobody}
  /\ answers \subseteq Users
  /\ mfaStage \in {"login", "setup", "verify"}
  /\ {currentAgent, assistantId} \subseteq Agents \cup {NoAgent}

LEMMA ShellShapeStarts == ShellInit => ShellFlags /\ ShellShape
<1>1. ShellInit => ShellFlags
  BY DEF ShellInit, ShellFlags
<1>2. ShellInit => ShellShape
  BY DEF ShellInit, ShellShape
<1> QED
  BY <1>1, <1>2

LEMMA ShellTypes == SessionInv /\ ShellFlags /\ ShellShape => ShellTypeOK
  BY DEF SessionInv, LoginPage, ShellFlags, ShellShape, ShellTypeOK

LEMMA OwnAgents == ASSUME NEW u \in Users \cup {Nobody} PROVE AssistantsOf(u) \subseteq Agents
  BY DEF AssistantsOf, Agents

(* The address and the chosen assistant stay those of a user. *)
LEMMA FollowsShape ==
  ASSUME NEW u \in Users \cup {Nobody}, NEW agent \in Agents \cup {NoAgent},
         NEW id \in Agents \cup {NoAgent}, Follows(u, agent, id)
  PROVE  {currentAgent', assistantId'} \subseteq Agents \cup {NoAgent}
<1>1. CASE u = Nobody
  BY <1>1 DEF Follows
<1>2. CASE u # Nobody
  <2>1. <<u, 1>> \in AssistantsOf(u)
    BY <1>2 DEF AssistantsOf
  <2>2. currentAgent' \in Agents /\ assistantId' = currentAgent'
    BY <1>2, <2>1, OwnAgents DEF Follows
  <2> QED
    BY <2>2
<1> QED
  BY <1>1, <1>2

LEMMA AgentShape ==
  ASSUME ShellShape, AssistantsArrive \/ SelectAgent \/ Navigate
  PROVE  ShellShape'
<1>1. UNCHANGED <<sessionVars, loginVars>> /\ agents' \in Users \cup {Nobody}
  BY DEF AssistantsArrive, SelectAgent, Navigate, ShellShape
<1>2. {currentAgent', assistantId'} \subseteq Agents \cup {NoAgent}
  <2>1. CASE AssistantsArrive
    BY <1>1, <2>1, FollowsShape DEF AssistantsArrive, ShellShape
  <2>2. CASE SelectAgent
    <3>1. PICK a \in AssistantsOf(agents) : Follows(agents, a, a)
      BY <2>2 DEF SelectAgent
    <3>2. a \in Agents
      BY OwnAgents DEF ShellShape
    <3> QED
      BY <3>1, <3>2, FollowsShape DEF ShellShape
  <2>3. CASE Navigate
    BY <2>3, FollowsShape DEF Navigate, ShellShape
  <2> QED
    BY <2>1, <2>2, <2>3
<1> QED
  BY <1>1, <1>2 DEF ShellShape, sessionVars, loginVars

LEMMA LoginShape ==
  ASSUME ShellShape, LoginPage,
         \/ HandleLogin \/ LoginAnswers \/ StartMfaSetup \/ HandleMfaVerify \/ MfaAnswers
         \/ BackToLogin
  PROVE  ShellShape'
<1> USE DEF ShellShape, sessionVars, agentVars
<1>1. \A r \in attempt : r.of \in Users
  BY DEF LoginPage
<1>2. ASSUME NEW r \in attempt, LogsIn(r.of) PROVE ShellShape'
  BY <1>1, <1>2 DEF LogsIn
<1>3. CASE HandleLogin \/ HandleMfaVerify \/ BackToLogin
  BY <1>3 DEF HandleLogin, HandleMfaVerify, BackToLogin
<1>4. CASE LoginAnswers
  BY <1>1, <1>2, <1>4 DEF LoginAnswers
<1>5. CASE StartMfaSetup \/ MfaAnswers
  BY <1>2, <1>5 DEF StartMfaSetup, MfaAnswers
<1> QED
  BY <1>3, <1>4, <1>5

LEMMA ShellShapeStep == LoginPage /\ ShellShape /\ [ShellNext]_shellVars => ShellShape'
<1> SUFFICES ASSUME LoginPage, ShellShape, [ShellNext]_shellVars PROVE ShellShape'
  OBVIOUS
<1>1. ASSUME NEW u \in Users, UserDataArrives(u) \/ UserDataFails(u) PROVE ShellShape'
  BY <1>1 DEF UserDataArrives, UserDataFails, ShellShape, loginVars, agentVars
<1>2. CASE UpdateProfile
  BY <1>2 DEF UpdateProfile, ShellShape, loginVars, agentVars
<1>3. CASE Logout \/ Reload
  BY <1>3 DEF Logout, Reload, ShellShape, loginVars
<1>4. CASE UNCHANGED shellVars
  BY <1>4 DEF ShellShape, shellVars, sessionVars, loginVars, agentVars
<1> QED
  BY <1>1, <1>2, <1>3, <1>4, AgentShape, LoginShape DEF ShellNext

LEMMA ShellFlagsStep == ShellFlags /\ [ShellNext]_shellVars => ShellFlags'
<1> SUFFICES ASSUME ShellFlags, [ShellNext]_shellVars PROVE ShellFlags'
  OBVIOUS
<1> USE DEF ShellFlags, sessionVars, loginVars
<1>1. CASE AssistantsArrive \/ SelectAgent \/ Navigate \/ UNCHANGED shellVars
  BY Zenon, <1>1 DEF AssistantsArrive, SelectAgent, Navigate, shellVars
<1>2. CASE HandleLogin \/ StartMfaSetup \/ HandleMfaVerify \/ BackToLogin
  BY Zenon, <1>2 DEF HandleLogin, StartMfaSetup, HandleMfaVerify, BackToLogin
<1>3. CASE LoginAnswers \/ MfaAnswers
  BY Zenon, <1>3 DEF LoginAnswers, MfaAnswers, LogsIn
<1>4. ASSUME NEW u \in Users, UserDataArrives(u) \/ UserDataFails(u) PROVE ShellFlags'
  BY Zenon, <1>4 DEF UserDataArrives, UserDataFails
<1>5. CASE UpdateProfile \/ Logout \/ Reload
  BY Zenon, <1>5 DEF UpdateProfile, Logout, Reload
<1> QED
  BY <1>1, <1>2, <1>3, <1>4, <1>5 DEF ShellNext

LEMMA ShellStep == SessionInv /\ [ShellNext]_shellVars => SessionInv'
  BY AgentStep, LoginPageStep, SessionStep DEF ShellNext

LEMMA SessionHolds == SessionInv => SessionOwn /\ LoginPage
  BY DEF SessionInv, LoginPage, SessionOwn

(* Whatever answers overtake logouts, and however users go back and forth in the
   second factor (AuthContext.jsx 10-74, LoginPage.jsx 57-134, AssistantContext.jsx
   24-92): a session shows its own user and assistants, or what came late. *)
THEOREM OwnSession == ShellSpec => [](ShellTypeOK /\ SessionOwn)
  BY SessionStarts, ShellStep, SessionHolds, ShellShapeStarts, ShellShapeStep, ShellFlagsStep,
     ShellTypes, PTL
  DEF ShellSpec
-----------------------------------------------------------------------------
(* No write has been made that the page has not been told of. *)
AllTold == \A s \in saves : s.answer # "done"

FetchShape == ruleFetch \in {{}, NoRead} \/ \E list : ruleFetch = {{list}}

(* A fetch is under way only when the list is not there or is stale. *)
FetchNeeded == ruleFetch # {} => cached = {} \/ stale

(* When all is told, a list that counts as fresh, one that has been read, and one
   that is shown without a fetch are the server's. *)
ListTrue ==
  AllTold /\ ~missed =>
    /\ ruleFetch = {} /\ cached # {} /\ ~stale => cached = {rules}
    /\ \A list : ruleFetch = {{list}} => list = rules
    /\ ruleFetch = {} /\ ~failed /\ watching => cached = {rules}

IsSave(s) ==
  s \in [kind : {s.kind}, old : {s.old}, correct : {s.correct}, wrongs : {s.wrongs},
         answer : {s.answer}]

SaveShape == \A s \in saves : IsSave(s)

RInv ==
  /\ {stale, missed, failed, watching} \subseteq BOOLEAN
  /\ SaveShape /\ FetchShape /\ FetchNeeded /\ ListTrue

(* What a page that is left, or the server, changes of a write *)
LEMMA SaveFields ==
  ASSUME SaveShape, NEW s \in saves, NEW v
  PROVE  /\ [s EXCEPT !.kind = v].answer = s.answer /\ IsSave([s EXCEPT !.kind = v])
         /\ [s EXCEPT !.answer = v].answer = v /\ IsSave([s EXCEPT !.answer = v])
<1>1. IsSave(s)
  BY DEF SaveShape
<1> QED
  BY <1>1 DEF IsSave

LEMMA RulesStart == RulesInit => RInv
  BY DEF RulesInit, RInv, SaveShape, FetchShape, FetchNeeded, ListTrue

(* The views: what is shown first is fetched unless it is fresh. *)
LEMMA ViewStep ==
  ASSUME RInv, OpenRules \/ ShowConversations \/ LeaveRules \/ MinutePasses
  PROVE  RInv'
<1> USE DEF RInv, FetchShape, FetchNeeded, ListTrue, AllTold
<1>1. CASE OpenRules
  <2>1. ruleFetch' \in {ruleFetch, NoRead} /\ \A list : NoRead # {{list}} /\ NoRead # {}
    BY <1>1 DEF OpenRules, LoadRules, NoRead
  <2> QED
    BY <1>1, <2>1 DEF OpenRules, LoadRules, SaveShape
<1>2. CASE ShowConversations
  BY <1>2 DEF ShowConversations, queryVars, SaveShape
<1>3. CASE LeaveRules
  <2>1. saves' = {[s EXCEPT !.kind = "gone"] : s \in saves}
    BY <1>3 DEF LeaveRules
  <2>2. AllTold' => AllTold
    <3>1. SUFFICES ASSUME NEW s \in saves, AllTold' PROVE s.answer # "done"
      OBVIOUS
    <3>2. [s EXCEPT !.kind = "gone"] \in saves'
      BY <2>1
    <3> QED
      BY <3>1, <3>2, SaveFields
  <2>3. SaveShape'
    <3>1. SUFFICES ASSUME NEW t \in saves' PROVE IsSave(t)
      BY DEF SaveShape
    <3>2. PICK s \in saves : t = [s EXCEPT !.kind = "gone"]
      BY <2>1
    <3> QED
      BY <3>2, SaveFields
  <2> QED
    BY <1>3, <2>2, <2>3 DEF LeaveRules, queryVars
<1>4. CASE MinutePasses
  BY <1>4 DEF MinutePasses, placeVars, SaveShape
<1> QED
  BY <1>1, <1>2, <1>3, <1>4

LEMMA FetchStep ==
  ASSUME RInv, FetchReads \/ FetchArrives \/ FetchFails
  PROVE  RInv'
<1> USE DEF RInv, FetchShape, FetchNeeded, ListTrue, AllTold
<1>1. CASE FetchReads
  BY <1>1 DEF FetchReads, NoRead, placeVars, SaveShape
<1>2. CASE FetchArrives
  <2>1. PICK list : ruleFetch = {{list}}
    BY <1>2 DEF FetchArrives
  <2>2. cached' = {list} /\ ruleFetch' = {}
    BY <1>2, <2>1 DEF FetchArrives
  <2> QED
    BY <1>2, <2>1, <2>2 DEF FetchArrives, placeVars, SaveShape
<1>3. CASE FetchFails
  BY <1>3 DEF FetchFails, NoRead, placeVars, SaveShape
<1> QED
  BY <1>1, <1>2, <1>3

LEMMA FormsStep ==
  ASSUME RInv,
         \/ OpenForm \/ SelectText \/ OpenCreateFromSelection \/ CloseModal
         \/ SubmitForm \/ ConfirmExisting \/ UNCHANGED rulesVars
  PROVE  RInv'
<1> USE DEF RInv, FetchShape, FetchNeeded, ListTrue, AllTold
<1>1. CASE OpenForm \/ SelectText \/ OpenCreateFromSelection \/ CloseModal \/ UNCHANGED rulesVars
  <2>1. UNCHANGED <<rules, cached, stale, ruleFetch, failed, watching, saves, missed>>
    BY <1>1 DEF OpenForm, SelectText, OpenCreateFromSelection, CloseModal, rulesVars, queryVars,
                placeVars
  <2> QED
    BY <2>1 DEF SaveShape
<1>2. CASE SubmitForm \/ ConfirmExisting
  <2>1. AllTold' => AllTold
    BY <1>2 DEF SubmitForm, ConfirmExisting
  <2>2. SaveShape'
    BY <1>2 DEF SubmitForm, ConfirmExisting, SaveShape, IsSave
  <2>3. UNCHANGED <<rules, cached, stale, ruleFetch, failed, watching, missed>>
    BY <1>2 DEF SubmitForm, ConfirmExisting, queryVars, placeVars
  <2> QED
    BY <2>1, <2>2, <2>3
<1> QED
  BY <1>1, <1>2

(* A write: made, it is not told; told, it makes the list stale and fetches it
   anew where it is watched; lost, it is known to be missed. *)
LEMMA WriteStep ==
  ASSUME RInv, ServerSaves \/ RuleSaved \/ RuleNotSaved
  PROVE  RInv'
<1> USE DEF RInv, FetchShape, FetchNeeded, ListTrue, AllTold
<1>1. CASE ServerSaves
  <2>1. PICK s \in saves : s.answer = "none" /\ Applies(s)
    BY <1>1 DEF ServerSaves
  <2>2. CASE rules' = rules /\ saves' = (saves \ {s}) \cup {[s EXCEPT !.answer = "refused"]}
    <3>1. (AllTold' => AllTold) /\ SaveShape'
      BY <2>1, <2>2, SaveFields DEF SaveShape
    <3> QED
      BY <1>1, <2>2, <3>1 DEF ServerSaves, queryVars, placeVars
  <2>3. CASE saves' = (saves \ {s}) \cup {[s EXCEPT !.answer = "done"]}
    <3>1. [s EXCEPT !.answer = "done"].answer = "done" /\ SaveShape'
      BY <2>3, SaveFields DEF SaveShape
    <3>2. ~AllTold'
      BY <2>3, <3>1
    <3> QED
      BY <1>1, <3>1, <3>2 DEF ServerSaves, queryVars, placeVars
  <2> QED
    BY <2>1, <2>2, <2>3 DEF Applies
<1>2. CASE RuleSaved
  BY <1>2 DEF RuleSaved, InvalidateSpeechRules, NoRead, SaveShape
<1>3. CASE RuleNotSaved
  BY <1>3 DEF RuleNotSaved, queryVars, placeVars, SaveShape
<1> QED
  BY <1>1, <1>2, <1>3

(* What the panel's state is made of: the lists are the server's of some time,
   at most one of them is kept and at most one is on its way, and no more than
   MaxSaves writes are. *)
RuleFlags == {stale, failed, watching, missed} \subseteq BOOLEAN

ListShape ==
  /\ rules \in RuleLists
  /\ cached = {} \/ \E list \in RuleLists : cached = {list}
  /\ ruleFetch \in {{}, NoRead} \/ \E list \in RuleLists : ruleFetch = {{list}}

PlaceShape ==
  /\ view \in {"none", "panel", "list", "talk"}
  /\ modal \in {"none", "form", "pick"}
  /\ oldText \in Corrects \cup {NoText}

SavesShape ==
  /\ saves \subseteq RuleSaves
  /\ IsFiniteSet(saves) /\ Cardinality(saves) <= MaxSaves

RuleShape == ListShape /\ PlaceShape /\ SavesShape

LEMMA RuleShapeStarts == RulesInit => RuleFlags /\ RuleShape
<1>1. RulesInit => RuleFlags
  BY DEF RulesInit, RuleFlags
<1>2. RulesInit => RuleShape
  BY FS_EmptySet, RulesAssumption DEF RulesInit, RuleShape, ListShape, PlaceShape, SavesShape
<1> QED
  BY <1>1, <1>2

LEMMA RuleTypes == RuleFlags /\ RuleShape => RulesTypeOK
<1> SUFFICES ASSUME RuleFlags, RuleShape PROVE RulesTypeOK
  OBVIOUS
<1>1. cached \subseteq RuleLists /\ Cardinality(cached) <= 1
  BY FS_EmptySet, FS_Singleton DEF RuleShape, ListShape
<1>2. ruleFetch \subseteq SUBSET RuleLists /\ Cardinality(ruleFetch) <= 1
  <2>1. CASE ruleFetch = {}
    BY <2>1, FS_EmptySet
  <2>2. ASSUME NEW read \in SUBSET RuleLists, ruleFetch = {read}
        PROVE  ruleFetch \subseteq SUBSET RuleLists /\ Cardinality(ruleFetch) <= 1
    <3>1. Cardinality({read}) = 1
      BY FS_Singleton
    <3> QED
      BY <2>2, <3>1
  <2>3. CASE ruleFetch = NoRead
    BY <2>2, <2>3 DEF NoRead
  <2>4. CASE \E list \in RuleLists : ruleFetch = {{list}}
    <3>1. PICK list \in RuleLists : ruleFetch = {{list}}
      BY <2>4
    <3>2. {list} \in SUBSET RuleLists
      OBVIOUS
    <3> QED
      BY <2>2, <3>1, <3>2
  <2> QED
    BY <2>1, <2>3, <2>4 DEF RuleShape, ListShape
<1> QED
  BY <1>1, <1>2 DEF RuleFlags, RuleShape, ListShape, PlaceShape, SavesShape, RulesTypeOK

LEMMA RuleFlagsStep == RuleFlags /\ [RulesNext]_rulesVars => RuleFlags'
<1> SUFFICES ASSUME RuleFlags, [RulesNext]_rulesVars PROVE RuleFlags'
  OBVIOUS
<1> USE DEF RuleFlags, queryVars, placeVars
<1>1. CASE OpenRules \/ ShowConversations \/ LeaveRules \/ MinutePasses \/ UNCHANGED rulesVars
  BY Zenon, <1>1 DEF OpenRules, LoadRules, ShowConversations, LeaveRules, MinutePasses, rulesVars
<1>2. CASE FetchReads \/ FetchArrives \/ FetchFails
  BY Zenon, <1>2 DEF FetchReads, FetchArrives, FetchFails
<1>3. CASE OpenForm \/ SelectText \/ OpenCreateFromSelection \/ CloseModal
  BY Zenon, <1>3 DEF OpenForm, SelectText, OpenCreateFromSelection, CloseModal
<1>4. CASE SubmitForm \/ ConfirmExisting \/ ServerSaves
  BY Zenon, <1>4 DEF SubmitForm, ConfirmExisting, ServerSaves
<1>5. CASE RuleSaved
  BY Zenon, <1>5 DEF RuleSaved, InvalidateSpeechRules
<1>6. CASE RuleNotSaved
  BY Zenon, <1>6 DEF RuleNotSaved
<1> QED
  BY <1>1, <1>2, <1>3, <1>4, <1>5, <1>6 DEF RulesNext

(* A page that is left renames the writes under way; there are no more of them. *)
LEMMA GoneSaves ==
  ASSUME SavesShape, saves' = {[s EXCEPT !.kind = "gone"] : s \in saves}
  PROVE  SavesShape'
<1> DEFINE gone == [s \in saves |-> [s EXCEPT !.kind = "gone"]]
<1>1. saves' \subseteq RuleSaves
  BY DEF SavesShape, RuleSaves
<1>2. gone \in Surjection(saves, saves')
  <2>1. gone \in [saves -> saves']
    OBVIOUS
  <2>2. \A t \in saves' : \E s \in saves : gone[s] = t
    OBVIOUS
  <2> HIDE DEF gone
  <2> QED
    BY <2>1, <2>2 DEF Surjection
<1> HIDE DEF gone
<1>3. IsFiniteSet(saves') /\ Cardinality(saves') <= Cardinality(saves)
  BY <1>2, FS_Surjection DEF SavesShape
<1>4. Cardinality(saves) \in Nat /\ Cardinality(saves') \in Nat
  BY <1>3, FS_CardinalityType DEF SavesShape
<1> QED
  BY <1>1, <1>3, <1>4, RulesAssumption DEF SavesShape

(* One write more, and one that is gone or answered *)
LEMMA MoreSaves ==
  ASSUME SavesShape, NEW s \in RuleSaves, Cardinality(saves) < MaxSaves, saves' = saves \cup {s}
  PROVE  SavesShape'
<1>1. /\ IsFiniteSet(saves \cup {s})
      /\ Cardinality(saves \cup {s}) \in {Cardinality(saves), Cardinality(saves) + 1}
  BY FS_AddElement DEF SavesShape
<1>2. Cardinality(saves) \in Nat
  BY FS_CardinalityType DEF SavesShape
<1>3. Cardinality(saves \cup {s}) <= MaxSaves
  BY <1>1, <1>2, RulesAssumption
<1> QED
  BY <1>1, <1>3 DEF SavesShape

LEMMA FewerSaves ==
  ASSUME SavesShape, NEW s \in saves, saves' = saves \ {s}
  PROVE  SavesShape'
<1>1. IsFiniteSet(saves \ {s}) /\ Cardinality(saves \ {s}) = Cardinality(saves) - 1
  BY FS_RemoveElement DEF SavesShape
<1>2. Cardinality(saves) \in Nat
  BY FS_CardinalityType DEF SavesShape
<1>3. Cardinality(saves \ {s}) <= MaxSaves
  BY <1>1, <1>2, RulesAssumption DEF SavesShape
<1> QED
  BY <1>1, <1>3 DEF SavesShape

LEMMA AnsweredSaves ==
  ASSUME SavesShape, NEW s \in saves, NEW t \in RuleSaves, saves' = (saves \ {s}) \cup {t}
  PROVE  SavesShape'
<1> DEFINE others == saves \ {s}
<1>1. IsFiniteSet(others) /\ Cardinality(others) = Cardinality(saves) - 1
  BY FS_RemoveElement DEF SavesShape
<1>2. Cardinality(saves) \in Nat
  BY FS_CardinalityType DEF SavesShape
<1>3. others \subseteq RuleSaves /\ saves' = others \cup {t}
  BY DEF SavesShape
<1> HIDE DEF others
<1>4. /\ IsFiniteSet(others \cup {t})
      /\ Cardinality(others \cup {t}) \in {Cardinality(others), Cardinality(others) + 1}
  BY <1>1, FS_AddElement
<1>5. Cardinality(others \cup {t}) <= MaxSaves
  BY <1>1, <1>2, <1>4, RulesAssumption DEF SavesShape
<1> QED
  BY <1>3, <1>4, <1>5 DEF SavesShape

LEMMA ViewShape ==
  ASSUME RuleShape, OpenRules \/ ShowConversations \/ LeaveRules \/ MinutePasses
  PROVE  RuleShape'
<1> USE DEF RuleShape, ListShape, PlaceShape
<1>1. CASE OpenRules
  BY <1>1 DEF OpenRules, LoadRules, SavesShape
<1>2. CASE ShowConversations \/ MinutePasses
  BY <1>2 DEF ShowConversations, MinutePasses, queryVars, placeVars, SavesShape
<1>3. CASE LeaveRules
  <2>1. SavesShape'
    BY <1>3, GoneSaves DEF LeaveRules
  <2> QED
    BY <1>3, <2>1 DEF LeaveRules, queryVars
<1> QED
  BY <1>1, <1>2, <1>3

LEMMA FetchedShape ==
  ASSUME RuleShape, FetchReads \/ FetchArrives \/ FetchFails
  PROVE  RuleShape'
<1> USE DEF RuleShape, PlaceShape, SavesShape, placeVars
<1>1. CASE FetchReads
  BY <1>1 DEF FetchReads, ListShape
<1>2. CASE FetchArrives
  <2>1. PICK list \in RuleLists : ruleFetch = {{list}}
    BY <1>2 DEF FetchArrives, ListShape
  <2>2. cached' = {list} /\ ruleFetch' = {}
    BY <1>2, <2>1 DEF FetchArrives
  <2> QED
    BY <1>2, <2>2 DEF FetchArrives, ListShape
<1>3. CASE FetchFails
  BY <1>3 DEF FetchFails, ListShape
<1> QED
  BY <1>1, <1>2, <1>3

(* The texts of a write are of the page's lists. *)
LEMMA FormsShape ==
  ASSUME RuleShape,
         \/ OpenForm \/ SelectText \/ OpenCreateFromSelection \/ CloseModal
         \/ SubmitForm \/ ConfirmExisting \/ UNCHANGED rulesVars
  PROVE  RuleShape'
<1> USE DEF RuleShape, ListShape, PlaceShape
<1>1. \A list \in cached, w \in Wrongs : list[w] \in Corrects \cup {NoText}
  BY DEF RuleLists
<1>2. CASE OpenForm
  BY <1>1, <1>2 DEF OpenForm, queryVars, SavesShape
<1>3. CASE SelectText \/ OpenCreateFromSelection \/ CloseModal \/ UNCHANGED rulesVars
  BY <1>3 DEF SelectText, OpenCreateFromSelection, CloseModal, rulesVars, queryVars, placeVars,
              SavesShape
<1>4. CASE SubmitForm
  <2>1. PICK c \in Corrects, ws \in (SUBSET Wrongs) \ {{}} :
          saves' = saves \cup
            {[kind |-> "form", old |-> IF oldText = NoText THEN c ELSE oldText,
              correct |-> c, wrongs |-> ws, answer |-> "none"]}
    BY <1>4 DEF SubmitForm
  <2>2. [kind |-> "form", old |-> IF oldText = NoText THEN c ELSE oldText,
         correct |-> c, wrongs |-> ws, answer |-> "none"] \in RuleSaves
    BY DEF RuleSaves
  <2>3. SavesShape'
    BY <1>4, <2>1, <2>2, MoreSaves DEF SubmitForm
  <2> QED
    BY <1>4, <2>3 DEF SubmitForm, queryVars, placeVars
<1>5. CASE ConfirmExisting
  <2>1. PICK list \in cached, v \in Wrongs, w \in Wrongs :
          /\ list[v] # NoText
          /\ saves' = saves \cup
               {[kind |-> "pick", old |-> NoText, correct |-> list[v], wrongs |-> {w},
                 answer |-> "none"]}
    BY <1>5 DEF ConfirmExisting
  <2>2. [kind |-> "pick", old |-> NoText, correct |-> list[v], wrongs |-> {w}, answer |-> "none"]
          \in RuleSaves
    <3>1. list[v] \in Corrects
      BY <1>1, <2>1
    <3>2. {w} \in (SUBSET Wrongs) \ {{}}
      OBVIOUS
    <3> QED
      BY <3>1, <3>2 DEF RuleSaves
  <2>3. SavesShape'
    BY <1>5, <2>1, <2>2, MoreSaves DEF ConfirmExisting
  <2> QED
    BY <1>5, <2>3 DEF ConfirmExisting, queryVars, placeVars
<1> QED
  BY <1>2, <1>3, <1>4, <1>5

LEMMA WriteShape ==
  ASSUME RuleShape, ServerSaves \/ RuleSaved \/ RuleNotSaved
  PROVE  RuleShape'
<1> USE DEF RuleShape, PlaceShape
<1>1. CASE ServerSaves
  <2>1. PICK s \in saves : Applies(s)
    BY <1>1 DEF ServerSaves
  <2>2. /\ s.correct \in Corrects
        /\ \A a \in {"refused", "done"} : [s EXCEPT !.answer = a] \in RuleSaves
    BY DEF SavesShape, RuleSaves
  <2>3. SavesShape'
    BY <2>1, <2>2, AnsweredSaves DEF Applies
  <2>4. rules' \in RuleLists
    BY <2>1, <2>2 DEF Applies, ListShape, RuleLists
  <2> QED
    BY <1>1, <2>3, <2>4 DEF ServerSaves, queryVars, placeVars, ListShape
<1>2. CASE RuleSaved
  <2>1. SavesShape'
    BY <1>2, FewerSaves DEF RuleSaved
  <2>2. ListShape'
    BY <1>2 DEF RuleSaved, InvalidateSpeechRules, ListShape
  <2> QED
    BY <1>2, <2>1, <2>2 DEF RuleSaved
<1>3. CASE RuleNotSaved
  <2>1. SavesShape'
    BY <1>3, FewerSaves DEF RuleNotSaved
  <2> QED
    BY <1>3, <2>1 DEF RuleNotSaved, queryVars, placeVars, ListShape
<1> QED
  BY <1>1, <1>2, <1>3

LEMMA RuleShapeStep == RuleShape /\ [RulesNext]_rulesVars => RuleShape'
  BY ViewShape, FetchedShape, FormsShape, WriteShape DEF RulesNext

LEMMA RulesStep == RInv /\ [RulesNext]_rulesVars => RInv'
  BY ViewStep, FetchStep, FormsStep, WriteStep DEF RulesNext

LEMMA RulesHold == RInv => RulesFresh
  BY DEF RInv, ListTrue, AllTold, RulesFresh

(* Whichever page was left while a rule was written and whichever fetch the write
   met (useSpeechCorrectionRules.ts 79-139, speechCorrectionRule.ts 44-97): the
   list that is shown when nothing is under way is the server's. *)
THEOREM Freshness == RulesSpec => [](RulesTypeOK /\ RulesFresh)
  BY RulesStart, RulesStep, RulesHold, RuleShapeStarts, RuleFlagsStep, RuleShapeStep, RuleTypes, PTL
  DEF RulesSpec
=============================================================================
