--------------------------- MODULE KnowledgePages ---------------------------
(***************************************************************************)
(* The dialogs of the knowledge pages (frontend/chatbot_ui/src/feature/    *)
(* knowledge): TextInputDialog.jsx, which edits a document of              *)
(* KnowledgeExistingPage.jsx or takes a new one of KnowledgeNewPage.jsx,   *)
(* and FileUploadDialog.jsx.                                               *)
(*                                                                         *)
(* A dialog is a component that stays while it is closed, and so do the    *)
(* answers it waits for and its timers: a submission that succeeds closes  *)
(* it at once and, by a timer, closes it again a second and a half later,  *)
(* whatever it shows by then.                                              *)
(*                                                                         *)
(* The server (KnowledgeStore) answers or fails at any time, and a file    *)
(* may be dropped on its dialog at any time, while one is sent too.        *)
(***************************************************************************)
EXTENDS Naturals

CONSTANTS
  Items,        \* the documents that can be edited
  NoItem,       \* knowledgeId of none; also: no submission
  Entries,      \* what the user may type, or the files that may be chosen
  MaxClosers    \* bound: timers that close a dialog, for each

ASSUME KnowledgePagesAssumption == NoItem \notin Items /\ MaxClosers \in Nat
ASSUME EntriesAssumption == "" \notin Entries

Dialogs == {"edit", "text", "file"}

VARIABLES
  page,         \* the page: the dialogs it has
  open,         \* isTextDialogOpen, isUploadDialogOpen
  content,      \* textContent or selectedFile: "", an entry, or a document's text
  saving,       \* the submission that is pending
  closers,      \* timers of 1.5 s that will close it
  cut,          \* history: it was closed while something was awaited that still is
  dropped,      \* history: a file was dropped on the dialog while the last one was sent
  selected,     \* selectedItem
  editing,      \* editingContent: whose
  fetching,     \* isFetchingEditContent
  fetches       \* documents whose text is asked for

dialogVars == <<open, content, saving, closers, cut, dropped>>
editVars == <<selected, editing, fetching, fetches>>
knowledgePageVars == <<page, dialogVars, editVars>>

Submissions == [item : Items \cup {NoItem}, of : Items \cup Entries]

KnowledgePagesTypeOK ==
  /\ page \in {{"edit"}, {"text", "file"}}
  /\ open \in [Dialogs -> BOOLEAN] /\ cut \in [Dialogs -> BOOLEAN]
  /\ content \in [Dialogs -> Items \cup Entries \cup {""}] /\ dropped \in BOOLEAN
  /\ saving \in [Dialogs -> Submissions \cup {NoItem}]
  /\ closers \in [Dialogs -> 0..MaxClosers]
  /\ selected \in Items \cup {NoItem}
  /\ editing \in Items \cup {""}
  /\ fetching \in BOOLEAN
  /\ fetches \subseteq Items

KnowledgePagesInit ==
  /\ page \in {{"edit"}, {"text", "file"}}
  /\ open = [d \in Dialogs |-> FALSE] /\ cut = [d \in Dialogs |-> FALSE]
  /\ content = [d \in Dialogs |-> ""] /\ dropped = FALSE
  /\ saving = [d \in Dialogs |-> NoItem]
  /\ closers = [d \in Dialogs |-> 0]
  /\ selected = NoItem /\ editing = "" /\ fetching = FALSE /\ fetches = {}
-----------------------------------------------------------------------------
(* A dialog is modal: nothing is opened beside it. *)
NoneOpen == \A d \in Dialogs : ~open[d]

(* onClose as the page of d gives it *)
Shut(d) ==
  /\ open' = [open EXCEPT ![d] = FALSE]
  /\ IF d = "edit" THEN selected' = NoItem /\ fetching' = FALSE
     ELSE UNCHANGED <<selected, fetching>>

(* handleEditKnowledge: the dialog opens empty and the document is asked for. *)
EditKnowledge(i) ==
  /\ "edit" \in page /\ NoneOpen
  /\ selected' = i /\ editing' = "" /\ fetching' = TRUE
  /\ fetches' = fetches \cup {i}
  /\ open' = [open EXCEPT !["edit"] = TRUE]
  /\ content' = [content EXCEPT !["edit"] = ""]
  /\ cut' = [cut EXCEPT !["edit"] = @ /\ (fetches # {} \/ saving["edit"] # NoItem)]
  /\ UNCHANGED <<page, saving, closers, dropped>>

(* Its text comes: initialContent changes, and an open dialog takes it. *)
ContentArrives(i) ==
  /\ i \in fetches
  /\ fetches' = fetches \ {i}
  /\ editing' = i /\ fetching' = FALSE
  /\ content' = IF open["edit"] /\ editing # i THEN [content EXCEPT !["edit"] = i] ELSE content
  /\ UNCHANGED <<page, open, saving, closers, cut, dropped, selected>>

(* It does not: the dialog is closed, whosever it is. *)
ContentFails(i) ==
  /\ i \in fetches
  /\ fetches' = fetches \ {i}
  /\ editing' = ""
  /\ Shut("edit")
  /\ cut' = [cut EXCEPT !["edit"] = @ \/ fetches' # {}]
  /\ UNCHANGED <<page, content, saving, closers, dropped>>

(* handleKnowledgeItemClick: a new text opens empty; the file that was chosen
   last is still there. *)
OpenNew(d) ==
  /\ d \in page \ {"edit"} /\ NoneOpen
  /\ open' = [open EXCEPT ![d] = TRUE]
  /\ content' = IF d = "text" THEN [content EXCEPT ![d] = ""] ELSE content
  /\ cut' = [cut EXCEPT ![d] = @ /\ saving[d] # NoItem]
  /\ UNCHANGED <<page, saving, closers, dropped, editVars>>
-----------------------------------------------------------------------------
IsBlockingClose_Loading(d) == saving[d] # NoItem

IsBlockingClose(d) == saving[d] # NoItem \/ (d = "edit" /\ fetching)

(* handleTextChange; what blocks closing hides the field too. *)
EnterText(d) ==
  /\ d # "file" /\ open[d] /\ ~IsBlockingClose(d)
  /\ \E x \in Entries : content' = [content EXCEPT ![d] = x]
  /\ UNCHANGED <<page, open, saving, closers, cut, dropped, editVars>>

(* handleFileSelect: the chooser is not there during an upload; left without a
   choice, it empties the selection. *)
SelectFile ==
  /\ open["file"] /\ ~IsBlockingClose("file")
  /\ \E x \in Entries \cup {""} : content' = [content EXCEPT !["file"] = x]
  /\ UNCHANGED <<page, open, saving, closers, cut, dropped, editVars>>

(* handleDrop does not ask whether an upload is pending. *)
DropFile ==
  /\ open["file"]
  /\ \E x \in Entries : content' = [content EXCEPT !["file"] = x]
  /\ dropped' = (saving["file"] # NoItem)
  /\ UNCHANGED <<page, open, saving, closers, cut, editVars>>

(* handleClear *)
ClearText(d) ==
  /\ d # "file" /\ open[d] /\ ~IsBlockingClose(d)
  /\ content' = [content EXCEPT ![d] = ""]
  /\ UNCHANGED <<page, open, saving, closers, cut, dropped, editVars>>

(* handleClose by the user *)
CloseDialog(d) ==
  /\ open[d] /\ ~IsBlockingClose(d)
  /\ content' = [content EXCEPT ![d] = ""]
  /\ Shut(d)
  /\ UNCHANGED <<page, saving, closers, cut, dropped, editing, fetches>>

(* "Cancel" of the file dialog closes without emptying it. *)
CancelUpload ==
  /\ open["file"] /\ saving["file"] = NoItem
  /\ Shut("file")
  /\ UNCHANGED <<page, content, saving, closers, cut, dropped, editing, fetches>>

SubmitOffered(d) == open[d] /\ ~IsBlockingClose(d) /\ content[d] # ""

(* handleSubmit, handleUpload *)
SubmitDialog(d) ==
  /\ SubmitOffered(d)
  /\ saving' = [saving EXCEPT ![d] = [item |-> selected, of |-> content[d]]]
  /\ dropped' = (dropped /\ d # "file")
  /\ UNCHANGED <<page, open, content, closers, cut, editVars>>

(* The answer: the page closes the dialog, and the timer is set that does it
   again. *)
SubmitSucceeds(d) ==
  /\ saving[d] # NoItem /\ closers[d] < MaxClosers
  /\ saving' = [saving EXCEPT ![d] = NoItem]
  /\ open' = [open EXCEPT ![d] = FALSE]
  /\ selected' = IF d = "edit" THEN NoItem ELSE selected
  /\ closers' = [closers EXCEPT ![d] = @ + 1]
  /\ cut' = [cut EXCEPT ![d] = @ \/ (d = "edit" /\ fetches # {})]
  /\ UNCHANGED <<page, content, dropped, editing, fetching, fetches>>

(* An error: the message shows for three seconds, and all else stays. *)
SubmitFails(d) ==
  /\ saving[d] # NoItem
  /\ saving' = [saving EXCEPT ![d] = NoItem]
  /\ UNCHANGED <<page, open, content, closers, cut, dropped, editVars>>

(* handleClose by the timer, which asks for nothing. *)
CloserFires(d) ==
  /\ closers[d] > 0
  /\ closers' = [closers EXCEPT ![d] = @ - 1]
  /\ content' = [content EXCEPT ![d] = ""]
  /\ Shut(d)
  /\ cut' = [cut EXCEPT ![d] = @ \/ saving[d] # NoItem \/ (d = "edit" /\ fetches # {})]
  /\ UNCHANGED <<page, saving, dropped, editing, fetches>>

KnowledgePagesNext ==
  \/ \E i \in Items : EditKnowledge(i) \/ ContentArrives(i) \/ ContentFails(i)
  \/ \E d \in Dialogs :
       \/ OpenNew(d) \/ EnterText(d) \/ ClearText(d) \/ CloseDialog(d)
       \/ SubmitDialog(d) \/ SubmitSucceeds(d) \/ SubmitFails(d) \/ CloserFires(d)
  \/ SelectFile \/ DropFile \/ CancelUpload

KnowledgePagesSpec == KnowledgePagesInit /\ [][KnowledgePagesNext]_knowledgePageVars
-----------------------------------------------------------------------------
(* The editor shows and saves the text of the document it was opened for, or
   what was typed into it. *)
ShowsOwnText ==
  ~cut["edit"] =>
    /\ open["edit"] => content["edit"] \in Entries \cup {"", selected}
    /\ saving["edit"] # NoItem =>
         saving["edit"].item = selected /\ saving["edit"].of \in Entries \cup {selected}

(* While a submission is pending its dialog stays open with what was sent, so that
   it can be sent again when it fails; but a file that is dropped meanwhile takes
   the place of the one that is sent. *)
InputKept ==
  \A d \in Dialogs :
    saving[d] # NoItem /\ ~cut[d] =>
      /\ open[d] /\ content[d] # ""
      /\ content[d] = saving[d].of \/ (d = "file" /\ dropped)

(* What a dialog shows and sends is its own: unless it was closed while something
   was awaited, a document gets its own text, and nothing but the user's own drop
   of another file replaces what a pending submission has sent. *)
EditorOwn == ShowsOwnText /\ InputKept
=============================================================================
