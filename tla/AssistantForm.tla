--------------------------- MODULE AssistantForm ---------------------------
(***************************************************************************)
(* The form of an assistant (frontend/chatbot_ui/src/feature/setting):     *)
(* AIAssistantManagement.jsx, which opens it for an assistant or for a new *)
(* one, EditAIAssistantDialog.jsx, and the queries of queries/assistant.ts *)
(* that fill it.                                                           *)
(*                                                                         *)
(* The dialog is one component that stays while it is closed.  What a query*)
(* has once answered is kept and shown at once, and asked for again when it*)
(* is old; an answer that comes while the form is open overwrites what was *)
(* typed.  A field is told apart by the assistant it was filled from.      *)
(*                                                                         *)
(* The server answers or fails at any time, and a chosen file is read at   *)
(* any time.                                                               *)
(***************************************************************************)
EXTENDS Naturals, FiniteSets

CONSTANTS
  Assistants,   \* the assistants of the user
  NewOne,       \* no assistant: the form of a new one
  MaxAwaited    \* bound: files and templates that the dialog awaits at a time

ASSUME AssistantFormAssumption == NewOne \notin Assistants /\ MaxAwaited \in Nat

VARIABLES
  formOpen,     \* isDialogOpen
  formOf,       \* editingAssistant
  text,         \* the name and the other texts: filled from whom
  description,  \* filled from whom, or from the template
  notebooks,    \* selectedNotebooks: whose bindings; none or one
  files,        \* the image and videos to be sent: chosen in whose form; none or one
  details,      \* whose detail the cache holds
  detailAsked,  \* whose detail is asked for
  bindings,     \* whose bindings the cache holds
  bindingsAsked,\* whose bindings are asked for
  template,     \* descriptionTemplateQuery: "none", "asked" or "there"
  awaited,      \* in whose forms the files were chosen that are being read; the
                \* template, if it is to be loaded again
  formSaving    \* handleSave: what it sends and where it stands; none or one

fieldVars == <<text, description, notebooks, files>>
detailVars == <<details, detailAsked>>
bindingVars == <<bindings, bindingsAsked>>
formVars == <<formOpen, formOf, fieldVars, detailVars, bindingVars, template, awaited, formSaving>>

Owners == Assistants \cup {NewOne}

FormTypeOK ==
  /\ formOpen \in BOOLEAN
  /\ {formOf, text} \subseteq Owners
  /\ description \in Owners \cup {"template"}
  /\ notebooks \cup details \cup detailAsked \cup bindings \cup bindingsAsked
       \subseteq Assistants
  /\ files \subseteq Owners
  /\ awaited \subseteq Owners \cup {"template"}
  /\ template \in {"none", "asked", "there"}
  /\ \A s \in formSaving :
       /\ {s.of, s.text} \subseteq Owners /\ s.notebooks \subseteq Assistants
       /\ s.step \in {"form", "notebooks"}

FormInit ==
  /\ formOpen = FALSE /\ formOf = NewOne
  /\ text = NewOne /\ description = NewOne /\ notebooks = {} /\ files = {}
  /\ details = {} /\ detailAsked = {}
  /\ bindings = {} /\ bindingsAsked = {} /\ template = "none"
  /\ awaited = {} /\ formSaving = {}
-----------------------------------------------------------------------------
Shows(a) == formOpen /\ formOf = a

(* handleCloseDialog; the effect of the bindings empties the selection. *)
ShutForm ==
  /\ formOpen' = FALSE /\ formOf' = NewOne
  /\ notebooks' = {}

(* applyAssistantDetail: every text is a's; a chosen file is dropped only if a
   has none on the server. *)
ApplyDetail(a) ==
  /\ text' = a /\ description' = a
  /\ files' \in {files, {}}

(* A query that is enabled: what is not in the cache is asked for, what is may be
   old and is asked for behind it. *)
Enabled(cached, asked, a) == {asked \cup {a}} \cup (IF a \in cached THEN {asked} ELSE {})

(* handleOpenDialog(assistant), and the effects of the dialog: the queries are
   enabled, and the form takes what the cache holds.  When the last fetch of the
   detail failed the form says so and closes again. *)
OpenAssistant(a) ==
  /\ ~formOpen
  /\ detailAsked' \in Enabled(details, detailAsked, a)
  /\ bindingsAsked' \in Enabled(bindings, bindingsAsked, a)
  /\ IF a \in details THEN ApplyDetail(a) ELSE UNCHANGED <<text, description, files>>
  /\ \/ formOpen' = TRUE /\ formOf' = a /\ notebooks' = bindings \cap {a}
     \/ a \in details /\ ShutForm
  /\ UNCHANGED <<details, bindings, template, awaited, formSaving>>

(* handleOpenDialog() and resetFormForCreate: all is emptied but the description,
   which the template replaces. *)
OpenNewOne ==
  /\ ~formOpen
  /\ formOpen' = TRUE /\ formOf' = NewOne
  /\ text' = NewOne /\ files' = {} /\ notebooks' = {}
  /\ IF template = "there" THEN description' = "template" /\ UNCHANGED template
     ELSE template' = "asked" /\ UNCHANGED description
  /\ UNCHANGED <<detailVars, bindingVars, awaited, formSaving>>

(* The detail comes; what is equal to the cache's changes nothing. *)
DetailArrives(a) ==
  /\ a \in detailAsked
  /\ detailAsked' = detailAsked \ {a}
  /\ details' = details \cup {a}
  /\ \/ Shows(a) /\ ApplyDetail(a)
     \/ ~Shows(a) /\ UNCHANGED <<text, description, files>>
     \/ a \in details /\ UNCHANGED <<text, description, files>>
  /\ UNCHANGED <<formOpen, formOf, notebooks, bindingVars, template, awaited, formSaving>>

(* It does not: the form says so and closes, also while it saves. *)
DetailFails(a) ==
  /\ a \in detailAsked
  /\ detailAsked' = detailAsked \ {a}
  /\ IF Shows(a) THEN ShutForm ELSE UNCHANGED <<formOpen, formOf, notebooks>>
  /\ UNCHANGED <<text, description, files, details, bindingVars, template, awaited, formSaving>>

(* The bindings come, and replace what was selected ... *)
BindingsArrive(a) ==
  /\ a \in bindingsAsked
  /\ bindingsAsked' = bindingsAsked \ {a}
  /\ bindings' = bindings \cup {a}
  /\ notebooks' = IF Shows(a) THEN {a} ELSE notebooks
  /\ UNCHANGED <<formOpen, formOf, text, description, files, detailVars, template, awaited, formSaving>>

(* ... or do not, which nobody is told. *)
BindingsFail(a) ==
  /\ a \in bindingsAsked
  /\ bindingsAsked' = bindingsAsked \ {a}
  /\ UNCHANGED <<formOpen, formOf, fieldVars, detailVars, bindings, template, awaited, formSaving>>

(* The template comes, or the built-in one stands in for it. *)
TemplateArrives ==
  /\ template = "asked"
  /\ template' \in {"there", "none"}
  /\ description' = IF Shows(NewOne) THEN "template" ELSE description
  /\ UNCHANGED <<formOpen, formOf, text, notebooks, files, detailVars, bindingVars, awaited, formSaving>>
-----------------------------------------------------------------------------
DetailLoading ==
  IF formOf = NewOne THEN template = "asked" ELSE formOf \in detailAsked \ details

(* handleReloadTemplate; handleImageUpload, handleVideoUpload1 and 2, for a file
   that is not too large *)
Await(w) ==
  /\ formOpen /\ ~DetailLoading
  /\ Cardinality(awaited \cup {w}) <= MaxAwaited
  /\ awaited' = awaited \cup {w}
  /\ UNCHANGED <<formOpen, formOf, fieldVars, detailVars, bindingVars, template, formSaving>>

ReloadTemplate == Await("template")
ChooseFile == Await(formOf)

(* What was awaited is taken, whosever form is open by then. *)
TemplateReloaded ==
  /\ "template" \in awaited
  /\ awaited' = awaited \ {"template"} /\ description' = "template"
  /\ UNCHANGED <<formOpen, formOf, text, notebooks, files, detailVars, bindingVars, template, formSaving>>

FileRead(o) ==
  /\ o \in awaited
  /\ awaited' = awaited \ {o} /\ files' = {o}
  /\ UNCHANGED <<formOpen, formOf, text, description, notebooks, detailVars, bindingVars, template, formSaving>>

SaveOffered_AtOnce == formOpen /\ formSaving = {}

SaveOffered == formOpen /\ ~DetailLoading /\ formSaving = {}

(* handleSave, with a name and a description and no more than 500 MB *)
PressSave ==
  /\ SaveOffered
  /\ formSaving' = {[of |-> formOf, text |-> text, notebooks |-> notebooks, step |-> "form"]}
  /\ UNCHANGED <<formOpen, formOf, fieldVars, detailVars, bindingVars, template, awaited>>

(* The assistant is updated; the detail is asked for again, and its notebooks are
   to be replaced by the selected ones. *)
AssistantUpdated ==
  \E s \in formSaving :
    /\ s.step = "form" /\ s.of # NewOne
    /\ formSaving' = {[s EXCEPT !.step = "notebooks"]}
    /\ detailAsked' = IF Shows(s.of) THEN detailAsked \cup {s.of} ELSE detailAsked
    /\ UNCHANGED <<formOpen, formOf, fieldVars, details, bindingVars, template, awaited>>

(* All is saved: onSaved, and onClose of whatever form is open by then. *)
SaveEnds ==
  \E s \in formSaving :
    /\ s.of = NewOne \/ s.step = "notebooks"
    /\ formSaving' = {}
    /\ bindingsAsked' = IF s.of # NewOne /\ Shows(s.of) THEN bindingsAsked \cup {s.of} ELSE bindingsAsked
    /\ ShutForm
    /\ UNCHANGED <<text, description, files, detailVars, bindings, template, awaited>>

(* Either call fails, the second perhaps after the first has changed the
   assistant. *)
SaveFails ==
  /\ formSaving # {}
  /\ formSaving' = {}
  /\ UNCHANGED <<formOpen, formOf, fieldVars, detailVars, bindingVars, template, awaited>>

CloseForm ==
  /\ formOpen /\ formSaving = {}
  /\ ShutForm
  /\ UNCHANGED <<text, description, files, detailVars, bindingVars, template, awaited, formSaving>>

(* AppLayout closes the management: the component is gone, the cache is not. *)
LeaveManagement ==
  /\ ~formOpen
  /\ text' = NewOne /\ description' = NewOne /\ notebooks' = {} /\ files' = {}
  /\ awaited' = {} /\ formSaving' = {}
  /\ UNCHANGED <<formOpen, formOf, detailVars, bindingVars, template>>

FormNext ==
  \/ \E a \in Assistants :
       \/ OpenAssistant(a) \/ DetailArrives(a) \/ DetailFails(a)
       \/ BindingsArrive(a) \/ BindingsFail(a)
  \/ OpenNewOne \/ TemplateArrives \/ ReloadTemplate \/ TemplateReloaded
  \/ ChooseFile \/ \E o \in Owners : FileRead(o)
  \/ PressSave \/ AssistantUpdated \/ SaveEnds \/ SaveFails
  \/ CloseForm \/ LeaveManagement

FormSpec == FormInit /\ [][FormNext]_formVars
-----------------------------------------------------------------------------
(* What can be saved, and what is, belongs to the assistant the form was opened
   for, whatever the cache held and whatever comes late: its own texts, and its
   own notebooks if any. *)
FormMatches ==
  /\ SaveOffered =>
       /\ text = formOf /\ description \in {formOf, "template"}
       /\ notebooks \subseteq {formOf}
  /\ \A s \in formSaving : s.text = s.of /\ s.notebooks \subseteq {s.of}
=============================================================================
