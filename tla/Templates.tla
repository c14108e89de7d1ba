------------------------------- MODULE Templates -------------------------------
(***************************************************************************)
(* The template page (app/templates): the searched and paged catalog       *)
(* (hooks/useTemplateCatalog.ts), the editor with its detail requests and  *)
(* its save (useTemplateEditor.ts), the leave guard                        *)
(* (useTemplateLeaveGuard.ts), creation, deletion and use of a template    *)
(* (useTemplates.ts), and the dialogs of page.tsx.                         *)
(*                                                                         *)
(* The content of a template is the number of the edit that produced it;   *)
(* its name, description and tags are edited and saved the same way.       *)
(***************************************************************************)
EXTENDS Integers, Sequences, FiniteSets, SequencesExt, Subsequences

CONSTANTS TemplateIDs,     \* the templates there may be
          Spare,           \* the one that "New template" creates
          MaxEdits,        \* bound: edits typed
          Matching,        \* for each query the templates in the server's order
          CatalogPage      \* TEMPLATE_META_PAGE_LIMIT

VARIABLES templates,  \* content of each template on the server, or Gone
          selectedID, loaded, content,   \* useTemplateCatalog, useTemplateEditor
          details,    \* requests for a template: the current one and late ones
          detail,     \* "shown", "loading" or "error"
          saving,     \* the save under way, or none
          guard,      \* the action that waits for a decision, or none
          posts,      \* creations under way
          removal,    \* pendingDelete and the deletion under way
          modal,      \* the variable dialog
          edits, typed   \* history: edits so far; the last one not given up, and whether
                         \* something ran beside it that ends by filling the form anew
editorVars == <<templates, selectedID, loaded, content, details, detail, saving, guard,
                posts, removal, modal, edits, typed>>

Gone == -1
NoModal == [view |-> "closed", dirty |-> FALSE, creating |-> FALSE]
NoRemoval == [asked |-> "", id |-> "", phase |-> "idle", selected |-> FALSE]
Existing == {t \in TemplateIDs : templates[t] # Gone}
selectedTemplate == loaded.id = selectedID /\ selectedID # ""
isDirty == selectedTemplate /\ content # loaded.content
\* What the form offers, or what stands in its place.
TemplateEditor ==
  CASE detail = "loading" -> {}
    [] detail = "error"   -> {"retry"}
    [] detail = "shown"   -> IF ~selectedTemplate THEN {}
                             ELSE {"type"} \cup (IF saving # {} THEN {}
                                                ELSE IF isDirty THEN {"use", "save"} ELSE {"use"})
\* The buttons of the dialogs.
UnsavedTemplateDialog == IF guard # {} /\ saving = {} THEN {"cancel", "discard", "save"} ELSE {}
DeleteTemplateDialog  == IF removal.asked # "" /\ removal.phase = "idle" THEN {"cancel", "delete"} ELSE {}
VariableModal         == CASE modal.view = "confirm" -> {"keep", "discard"}
                           [] modal.view = "edit" /\ ~modal.creating -> {"type", "close", "apply"}
                           [] OTHER -> {}
\* A dialog over the page: the page below takes no input.
Free == guard = {} /\ removal.asked = "" /\ modal = NoModal

(***************************************************************************)
(* Selecting and loading                                                   *)
(***************************************************************************)

Stale(D) == {[d EXCEPT !.current = FALSE] : d \in D}
Read(id) == IF id = "" THEN {} ELSE {[id |-> id, current |-> TRUE]}
\* The effect on selectedID aborts the request before and starts the next.
setSelectedID(id) ==
  IF id = selectedID THEN UNCHANGED <<selectedID, details, detail>>
  ELSE /\ selectedID' = id
       /\ details' = Stale(details) \cup Read(id)
       /\ detail' = IF id # "" THEN "loading" ELSE IF detail = "loading" THEN "shown" ELSE detail
\* An aborted request, or one that is not the last, changes nothing.
DetailAnswer ==
  \E d \in details :
    /\ details' = details \ {d}
    /\ IF d.current /\ templates[d.id] # Gone
       THEN /\ loaded' = [id |-> d.id, content |-> templates[d.id]]
            /\ content' = templates[d.id] /\ detail' = "shown"
       ELSE UNCHANGED <<loaded, content, detail>>
    /\ d.current => templates[d.id] # Gone
    /\ UNCHANGED <<templates, selectedID, saving, guard, posts, removal, modal, edits, typed>>
DetailFails ==
  \E d \in details :
    /\ d.current
    /\ details' = details \ {d} /\ detail' = "error"
    /\ UNCHANGED <<templates, selectedID, loaded, content, saving, guard, posts, removal, modal,
                   edits, typed>>
retryDetail ==
  /\ Free /\ "retry" \in TemplateEditor /\ selectedID # ""
  /\ details' = Stale(details) \cup Read(selectedID) /\ detail' = "loading"
  /\ UNCHANGED <<templates, selectedID, loaded, content, saving, guard, posts, removal, modal,
                 edits, typed>>

\* Something is under way that will put another text into the form: a save whose
\* answer is awaited, a creation, the deletion of what was selected.
Refills == posts # {} \/ removal.selected \/ \E s \in saving : s.phase # "reload"
\* No field is disabled while a save, a creation or a deletion is under way.
TypeContent ==
  /\ Free /\ "type" \in TemplateEditor /\ edits < MaxEdits
  /\ edits' = edits + 1 /\ content' = edits + 1
  /\ typed' = [id |-> selectedID, content |-> edits + 1, beside |-> Refills]
  /\ UNCHANGED <<templates, selectedID, loaded, details, detail, saving, guard, posts, removal, modal>>

(***************************************************************************)
(* The guarded actions                                                     *)
(***************************************************************************)

\* What an action does once it is let through.
Perform(a) ==
  \/ /\ a.do = "select" /\ setSelectedID(a.id) /\ UNCHANGED <<posts, removal>>
  \/ /\ a.do = "create" /\ posts' = posts \cup {"wire"}
     /\ UNCHANGED <<selectedID, details, detail, removal>>
  \/ /\ a.do = "delete" /\ removal' = [removal EXCEPT !.asked = a.id]
     /\ UNCHANGED <<selectedID, details, detail, posts>>
Actions == [do : {"select"}, id : TemplateIDs] \cup [do : {"delete"}, id : TemplateIDs]
             \cup {[do |-> "create", id |-> ""]}
\* Deleting a template that is not selected asks no one.
Guarded(a) == a.do = "delete" => a.id = selectedID
Sensible(a) == IF a.do = "create" THEN posts = {} /\ Spare \notin Existing
               ELSE a.id \in Existing /\ (a.do = "select" => a.id # selectedID)
request ==
  /\ Free
  /\ \E a \in Actions :
       /\ Sensible(a)
       /\ Guarded(a) => saving = {}
       /\ IF Guarded(a) /\ isDirty
          THEN guard' = {a} /\ UNCHANGED <<selectedID, details, detail, posts, removal>>
          ELSE Perform(a) /\ UNCHANGED guard
  /\ UNCHANGED <<templates, loaded, content, saving, modal, edits, typed>>
Untyped == [id |-> "", content |-> 0, beside |-> FALSE]
GiveUp == typed' = Untyped
cancelPendingChange ==
  /\ "cancel" \in UnsavedTemplateDialog
  /\ guard' = {}
  /\ UNCHANGED <<templates, selectedID, loaded, content, details, detail, saving, posts, removal,
                 modal, edits, typed>>
discardAndContinue ==
  /\ "discard" \in UnsavedTemplateDialog
  /\ \E a \in guard : Perform(a)
  /\ guard' = {} /\ GiveUp
  /\ UNCHANGED <<templates, loaded, content, saving, modal, edits>>

(***************************************************************************)
(* Saving                                                                  *)
(***************************************************************************)

Put(then) == {[id |-> selectedID, content |-> content, phase |-> "wire", then |-> then]}
\* then: what waits for the save: nothing, the guarded action, the variables.
saveTemplate ==
  /\ \/ Free /\ "save" \in TemplateEditor /\ saving' \in {Put("stay"), Put("use")}
     \/ "save" \in UnsavedTemplateDialog /\ selectedTemplate /\ saving' = Put("continue")
  /\ UNCHANGED <<templates, selectedID, loaded, content, details, detail, guard, posts, removal,
                 modal, edits, typed>>
SaveStored ==
  \E s \in saving :
    /\ s.phase = "wire" /\ templates[s.id] # Gone
    /\ templates' = [templates EXCEPT ![s.id] = s.content]
    /\ saving' = {[s EXCEPT !.phase = "stored"]}
    /\ UNCHANGED <<selectedID, loaded, content, details, detail, guard, posts, removal, modal,
                   edits, typed>>
SaveFails ==
  /\ \E s \in saving : s.phase # "reload"
  /\ saving' = {}
  /\ UNCHANGED <<templates, selectedID, loaded, content, details, detail, guard, posts, removal,
                 modal, edits, typed>>
\* The answer writes the saved content back into the draft, and the catalog reloads.
SaveAnswer ==
  \E s \in saving :
    /\ s.phase = "stored"
    /\ loaded' = [id |-> s.id, content |-> s.content] /\ content' = s.content
    /\ saving' = {[s EXCEPT !.phase = "reload"]}
    /\ UNCHANGED <<templates, selectedID, details, detail, guard, posts, removal, modal, edits, typed>>
SaveDone ==
  \E s \in saving :
    /\ s.phase = "reload" /\ saving' = {}
    /\ IF s.then = "continue" /\ guard # {}
       THEN \E a \in guard : Perform(a)
       ELSE UNCHANGED <<selectedID, details, detail, posts, removal>>
    /\ guard' = {}
    /\ modal' = IF s.then = "use" THEN [NoModal EXCEPT !.view = "edit"] ELSE modal
    /\ UNCHANGED <<templates, loaded, content, edits, typed>>

(***************************************************************************)
(* Creating, deleting, using                                               *)
(***************************************************************************)

\* The new template is selected when it exists and the catalog has reloaded.
TemplateCreateAnswer ==
  /\ \/ posts = {"wire"} /\ posts' = {"stored"} /\ Spare \notin Existing
        /\ templates' = [templates EXCEPT ![Spare] = 0] /\ UNCHANGED <<selectedID, details, detail>>
     \/ posts = {"stored"} /\ posts' = {} /\ setSelectedID(Spare) /\ UNCHANGED templates
     \/ posts # {} /\ posts' = {} /\ UNCHANGED <<templates, selectedID, details, detail>>
  /\ UNCHANGED <<loaded, content, saving, guard, removal, modal, edits, typed>>
cancelDelete ==
  /\ "cancel" \in DeleteTemplateDialog /\ removal' = NoRemoval
  /\ UNCHANGED <<templates, selectedID, loaded, content, details, detail, saving, guard, posts,
                 modal, edits, typed>>
\* Which template is selected is what the click saw, and remembered until the end.
confirmDelete ==
  /\ "delete" \in DeleteTemplateDialog
  /\ removal' = [removal EXCEPT !.id = removal.asked, !.phase = "wire", !.selected = removal.asked = selectedID]
  /\ UNCHANGED <<templates, selectedID, loaded, content, details, detail, saving, guard, posts,
                 modal, edits, typed>>
\* The template is gone and the dialog closes; or the answer is lost and it stays.
DeleteStored ==
  /\ removal.phase = "wire"
  /\ removal' \in {[removal EXCEPT !.asked = "", !.phase = "reload"],
                  [NoRemoval EXCEPT !.asked = removal.asked]}
  /\ templates' = [templates EXCEPT ![removal.id] = Gone]
  /\ IF typed.id = removal.id THEN GiveUp ELSE UNCHANGED typed
  /\ UNCHANGED <<selectedID, loaded, content, details, detail, saving, guard, posts, modal, edits>>
\* The reloaded page, or nothing when it fails, decides the next selection.
TemplateDeleteAnswer ==
  /\ removal.phase = "reload" /\ removal' = [NoRemoval EXCEPT !.asked = removal.asked]
  /\ IF removal.selected THEN \E id \in Existing \cup {""} : setSelectedID(id)
     ELSE UNCHANGED <<selectedID, details, detail>>
  /\ UNCHANGED <<templates, loaded, content, saving, guard, posts, modal, edits, typed>>
DeleteFails ==
  /\ removal.phase = "wire" /\ removal' = [NoRemoval EXCEPT !.asked = removal.asked]
  /\ UNCHANGED <<templates, selectedID, loaded, content, details, detail, saving, guard, posts,
                 modal, edits, typed>>

\* The dialog with the variables and its own question about what was typed.
Modal(m) ==
  /\ modal' = m
  /\ UNCHANGED <<templates, selectedID, loaded, content, details, detail, saving, guard, posts,
                 removal, edits, typed>>
prepareUse == /\ Free /\ "use" \in TemplateEditor /\ ~isDirty
              /\ Modal([NoModal EXCEPT !.view = "edit"])
typeVariable == "type" \in VariableModal /\ ~modal.dirty /\ Modal([modal EXCEPT !.dirty = TRUE])
requestClose == /\ "close" \in VariableModal
                /\ Modal(IF modal.dirty THEN [modal EXCEPT !.view = "confirm"] ELSE NoModal)
decideClose  == "keep" \in VariableModal /\ (Modal([modal EXCEPT !.view = "edit"]) \/ Modal(NoModal))
createFromTemplate == "apply" \in VariableModal /\ Modal([modal EXCEPT !.creating = TRUE])
createAnswer == modal.creating /\ (Modal(NoModal) \/ Modal([modal EXCEPT !.creating = FALSE]))

EditorStart ==
  /\ templates = [t \in TemplateIDs |-> IF t = Spare THEN Gone ELSE 0]
  /\ selectedID = "" /\ loaded = [id |-> "", content |-> 0] /\ content = 0
  /\ details = {} /\ detail = "shown" /\ saving = {} /\ guard = {} /\ posts = {}
  /\ removal = NoRemoval /\ modal = NoModal /\ edits = 0 /\ typed = Untyped
EditorStep ==
  \/ DetailAnswer \/ DetailFails \/ retryDetail \/ TypeContent
  \/ request \/ cancelPendingChange \/ discardAndContinue
  \/ saveTemplate \/ SaveStored \/ SaveFails \/ SaveAnswer \/ SaveDone
  \/ TemplateCreateAnswer \/ cancelDelete \/ confirmDelete \/ DeleteStored \/ TemplateDeleteAnswer \/ DeleteFails
  \/ prepareUse \/ typeVariable \/ requestClose \/ decideClose \/ createFromTemplate \/ createAnswer

(***************************************************************************)
(* The catalog                                                             *)
(***************************************************************************)

VARIABLES catalog,   \* items, total, flags, search and query
          lists      \* requests for pages
catalogVars == <<catalog, lists>>

NewCatalog == [items |-> <<>>, total |-> 0, loading |-> TRUE, appending |-> FALSE,
               error |-> FALSE, moreError |-> FALSE, search |-> "", query |-> ""]
Request(reset, off, q) == [reset |-> reset, off |-> off, query |-> q, current |-> TRUE]
\* What the panel offers: its rows, or what stands in their place.
TemplateList ==
  (CASE catalog.loading -> {}
     [] ~catalog.loading /\ catalog.error -> {"retry"}
     [] ~catalog.loading /\ ~catalog.error /\ catalog.items = <<>> ->
          IF catalog.search = "" THEN {} ELSE {"clear"}
     [] OTHER -> {"rows"})
  \cup (IF catalog.moreError THEN {"retry more"} ELSE {})
\* A newer request takes the number of the last; only a reset aborts.
loadTemplates(c, reset, off) ==
  /\ catalog' = IF reset THEN [c EXCEPT !.loading = TRUE, !.error = FALSE]
                ELSE [c EXCEPT !.appending = TRUE, !.moreError = FALSE]
  /\ lists' = {Request(reset, off, c.query)}
setSearch(s) ==
  /\ s # catalog.search
  /\ IF s = "" /\ catalog.query # ""
     THEN loadTemplates([catalog EXCEPT !.search = s, !.query = ""], TRUE, 0)
     ELSE catalog' = [catalog EXCEPT !.search = s] /\ UNCHANGED lists
searchTimer ==
  /\ catalog.search \notin {"", catalog.query}
  /\ loadTemplates([catalog EXCEPT !.query = catalog.search], TRUE, 0)
reload == loadTemplates(catalog, TRUE, 0)
handleTemplateListScroll ==
  /\ ~catalog.loading /\ ~catalog.appending /\ Len(catalog.items) < catalog.total
  /\ loadTemplates(catalog, FALSE, Len(catalog.items))
retryLoadMore == "retry more" \in TemplateList /\ loadTemplates(catalog, FALSE, Len(catalog.items))
PageOf(r) == LET all == Matching[r.query] IN
             SubSeq(all, r.off + 1, IF r.off + CatalogPage > Len(all) THEN Len(all) ELSE r.off + CatalogPage)
Ended(c, r) == IF r.reset THEN [c EXCEPT !.loading = FALSE] ELSE [c EXCEPT !.appending = FALSE]
TemplateListAnswer ==
  \E r \in lists :
    /\ lists' = {}
    /\ catalog' = Ended([catalog EXCEPT
                    !.total = Len(Matching[r.query]),
                    !.items = IF r.reset THEN PageOf(r)
                              ELSE WithNew(@, PageOf(r))], r)
TemplateListFails ==
  \E r \in lists :
    /\ lists' = {}
    /\ catalog' = Ended(IF r.reset THEN [catalog EXCEPT !.error = TRUE]
                        ELSE [catalog EXCEPT !.moreError = TRUE], r)
CatalogInit == catalog = NewCatalog /\ lists = {Request(TRUE, 0, "")}
CatalogNext ==
  \/ \E s \in DOMAIN Matching : setSearch(s)
  \/ searchTimer \/ reload \/ handleTemplateListScroll \/ retryLoadMore
  \/ TemplateListAnswer \/ TemplateListFails

(***************************************************************************)
(* Properties                                                              *)
(***************************************************************************)

TemplatesTypeOK ==
  /\ templates \in [TemplateIDs -> Gone..MaxEdits]
  /\ selectedID \in TemplateIDs \cup {""} /\ content \in 0..MaxEdits
  /\ Cardinality(saving) <= 1 /\ Cardinality(guard) <= 1

TypedIsSafe ==
  \/ selectedTemplate /\ selectedID = typed.id /\ content = typed.content
  \/ templates[typed.id] = typed.content
  \/ \E s \in saving : s.id = typed.id /\ s.content = typed.content

\* Creating, changing, switching and deleting templates loses no unsaved
\* content: the last text typed and not given up is in the form, on its way to
\* the server or stored there. Left out is only what was typed while something
\* ran whose end fills the form anew (NothingTypedIsLost).
NoEditLost == typed.id # "" /\ ~typed.beside => TypedIsSafe

\* docs/009:98: "no unsaved content is lost", without that exception. The answer
\* of a save puts the saved content over what was typed since, the end of a
\* creation or of a deletion selects another template.
NothingTypedIsLost == typed.id # "" => TypedIsSafe

\* The form belongs to the selected template, and a page that loads has the
\* request under way that will end it.
DetailIsCurrent ==
  /\ detail = "loading" => \E d \in details : d.current /\ d.id = selectedID
  /\ \A d \in details : d.current => d.id = selectedID

\* The list shows only templates that match the query it was asked for, and each once.
CatalogMatchesQuery ==
  "rows" \in TemplateList => /\ ToSet(catalog.items) \subseteq ToSet(Matching[catalog.query])
                          /\ IsInjective(catalog.items)
==============================================================================
