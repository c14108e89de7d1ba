------------------------------ MODULE EditorMenus ------------------------------
(***************************************************************************)
(* What opens over the editor and reads notes: quick open (hooks/          *)
(* useQuickOpen.ts), the wikilink menu (useWikilinkMenu.ts), the preview   *)
(* of another note (usePreviewDoc.ts), the similar notes (useSimilarDocs)  *)
(* and the context rail (useEditorContextRail.ts).  The five do not share  *)
(* state.  A list of notes is known by the query it answers; "" is the     *)
(* list of recent notes or, in the wikilink menu, of all notes.            *)
(***************************************************************************)
EXTENDS Integers, FiniteSets

CONSTANTS Typed,      \* queries that can be typed
          Documents,  \* documents that can be previewed or opened in the editor
          MaxAsked    \* bound: requests per machine

NoNotes == "no notes"
Queries == Typed \cup {""}

(***************************************************************************)
(* Quick open                                                              *)
(***************************************************************************)

VARIABLES quick,     \* show, query, results, recent, loading; timer: a search is about to start
          searches,  \* searches in flight: their query and whether they were aborted
          recents    \* 1 while the request for the recent notes is in flight, not aborted
quickVars == <<quick, searches, recents>>

QuickClosed == [show |-> FALSE, query |-> "", results |-> NoNotes, recent |-> NoNotes,
                loading |-> FALSE, timer |-> FALSE, failed |-> FALSE, asked |-> 0]
\* searchAbortRef: the request that was not aborted.
Current == {s \in searches : ~s.aborted}
Aborted == {[s EXCEPT !.aborted = TRUE] : s \in searches}
\* The effect on query and showQuickOpen: aborts on close, the recent notes for an empty
\* query, a search after 200 ms otherwise.
QuickEffect(q) ==
  IF ~q.show THEN quick' = [q EXCEPT !.timer = FALSE] /\ searches' = Aborted /\ recents' = 0
  ELSE IF q.query = ""
  THEN quick' = [q EXCEPT !.timer = FALSE, !.results = NoNotes] /\ recents' = 1 /\ UNCHANGED searches
  ELSE quick' = [q EXCEPT !.timer = TRUE] /\ UNCHANGED <<searches, recents>>

handleOpenQuickOpen == ~quick.show /\ QuickEffect([quick EXCEPT !.show = TRUE, !.query = ""])
handleCloseQuickOpen == quick.show /\ QuickEffect([quick EXCEPT !.show = FALSE, !.query = ""])
setQuickOpenQuery == quick.show /\ \E q \in Queries \ {quick.query} : QuickEffect([quick EXCEPT !.query = q])
\* The notes under the field; Enter takes one of them.
quickOpenDocs == IF quick.query # "" THEN quick.results ELSE quick.recent
\* What the dialog shows; the notes of an older answer stay while a search runs.
QuickOpenDialog ==
  (IF quick.loading THEN {"Searching notes"} ELSE {}) \cup
  (IF quickOpenDocs # NoNotes THEN {"notes"} ELSE IF quick.loading THEN {} ELSE {"No notes found"})
handleQuickOpenSelect == quick.show /\ "notes" \in QuickOpenDialog
                         /\ QuickEffect([quick EXCEPT !.show = FALSE, !.query = ""])
fetchQuickOpenSearch ==
  /\ quick.timer /\ quick.asked < MaxAsked
  /\ quick' = [quick EXCEPT !.timer = FALSE, !.loading = TRUE, !.asked = @ + 1]
  /\ searches' = Aborted \cup {[query |-> quick.query, aborted |-> FALSE, n |-> quick.asked]}
  /\ UNCHANGED recents
SearchAnswered(s) ==
  /\ searches' = searches \ {s} /\ UNCHANGED recents
  /\ \/ /\ ~s.aborted
        /\ \E ok \in BOOLEAN : quick' = [quick EXCEPT !.results = IF ok THEN s.query ELSE NoNotes,
                                                      !.failed = ~ok, !.loading = FALSE]
     \* aborted: only the last request takes the loading message away
     \/ /\ s.aborted
        /\ quick' = [quick EXCEPT !.loading = @ /\ \E o \in searches \ {s} : o.n > s.n]
fetchRecentDocs ==
  /\ recents = 1 /\ recents' = 0 /\ UNCHANGED searches
  /\ \E ok \in BOOLEAN : quick' = [quick EXCEPT !.recent = IF ok THEN "" ELSE NoNotes]
QuickInit == quick = QuickClosed /\ searches = {} /\ recents = 0
QuickNext == \/ handleOpenQuickOpen \/ handleCloseQuickOpen \/ setQuickOpenQuery
             \/ handleQuickOpenSelect \/ fetchQuickOpenSearch \/ fetchRecentDocs
             \/ \E s \in searches : SearchAnswered(s)

(***************************************************************************)
(* The wikilink menu                                                       *)
(***************************************************************************)

VARIABLES wiki,     \* open, query, results, loading; timer: a search is about to start
          wikiAsks,  \* requests in flight
          inserted  \* history: the query and the list of the last note that was inserted
wikiVars == <<wiki, wikiAsks, inserted>>

\* The effect on open and query: its clean-up stops the timer and aborts the request.
WikiEffect(w) ==
  /\ wiki' = [w EXCEPT !.timer = w.open, !.results = IF w.open THEN @ ELSE NoNotes]
  /\ wikiAsks' = {[l EXCEPT !.aborted = TRUE] : l \in wikiAsks}
\* The text before the cursor starts, goes on or ends a link.
WikiType ==
  /\ \/ \E q \in Queries : ~(wiki.open /\ q = wiki.query) /\ WikiEffect([wiki EXCEPT !.open = TRUE, !.query = q])
     \/ wiki.open /\ WikiEffect([wiki EXCEPT !.open = FALSE])
  /\ UNCHANGED inserted
WikiFetch ==
  /\ wiki.timer /\ wiki.asked < MaxAsked
  /\ wiki' = [wiki EXCEPT !.timer = FALSE, !.loading = TRUE, !.asked = @ + 1]
  /\ wikiAsks' = wikiAsks \cup {[query |-> wiki.query, aborted |-> FALSE, n |-> wiki.asked]}
  /\ UNCHANGED inserted
WikiAnswered(l) ==
  /\ wikiAsks' = wikiAsks \ {l} /\ UNCHANGED inserted
  /\ IF l.aborted THEN UNCHANGED wiki
     ELSE \E ok \in BOOLEAN : wiki' = [wiki EXCEPT !.results = IF ok THEN l.query ELSE NoNotes,
                                                   !.loading = FALSE]
\* handleWikilinkKeyDown: Enter inserts a note, Escape closes; without results both
\* are left to the editor.
handleWikilinkSelect ==
  /\ wiki.open /\ wiki.results # NoNotes
  /\ inserted' = [query |-> wiki.query, list |-> wiki.results]
  /\ WikiEffect([wiki EXCEPT !.open = FALSE])
WikiEscape == wiki.open /\ wiki.results # NoNotes /\ WikiEffect([wiki EXCEPT !.open = FALSE]) /\ UNCHANGED inserted
WikiInit ==
  /\ wiki = [open |-> FALSE, query |-> "", results |-> NoNotes, loading |-> FALSE, timer |-> FALSE, asked |-> 0]
  /\ wikiAsks = {} /\ inserted = [query |-> "", list |-> ""]
WikiNext == WikiType \/ WikiFetch \/ handleWikilinkSelect \/ WikiEscape \/ \E l \in wikiAsks : WikiAnswered(l)

(***************************************************************************)
(* The preview of a note and the similar notes                             *)
(***************************************************************************)

VARIABLES peek,     \* the document in the preview dialog, loading, and the request that counts
          wanted,   \* history: the document the reader last asked to see, "none" when closed
          peeks,    \* requests in flight: number and document
          similar,  \* document of the editor, collapsed, icon, status, loading, whose notes are
                    \* listed, and the request that counts
          asks      \* requests for similar notes in flight: number and document
peekVars == <<peek, wanted, peeks, similar, asks>>

handleOpenPreview ==
  /\ peek.last < MaxAsked
  /\ \E d \in Documents :
       /\ peeks' = peeks \cup {[n |-> peek.last + 1, doc |-> d]} /\ wanted' = d
       /\ peek' = [peek EXCEPT !.active = peek.last + 1, !.last = @ + 1, !.loading = TRUE]
  /\ UNCHANGED <<similar, asks>>
\* What the dialog offers.
DocPreviewModal ==
  IF peek.doc = "none" /\ ~peek.loading THEN {}
  ELSE {"Close"} \cup (IF peek.loading THEN {} ELSE {"Open full note"})
\* Mutant: closing drops the request and leaves the loading message.
closeWhileLoading == /\ "Close" \in DocPreviewModal
                     /\ peek' = [peek EXCEPT !.doc = "none", !.active = 0] /\ wanted' = "none"
                     /\ UNCHANGED <<peeks, similar, asks>>
\* setPreviewDoc(null): the dialog closes, also while it is loading.
updatePreviewDoc ==
  /\ "Close" \in DocPreviewModal
  /\ peek' = [peek EXCEPT !.doc = "none", !.active = 0, !.loading = FALSE] /\ wanted' = "none"
  /\ UNCHANGED <<peeks, similar, asks>>
\* Mutant: whichever answer comes is shown.
PeekAnsweredLate(p) ==
  /\ peeks' = peeks \ {p} /\ UNCHANGED <<wanted, similar, asks>>
  /\ peek' = [peek EXCEPT !.doc = p.doc, !.active = 0, !.loading = FALSE]
PeekAnswered(p) ==
  /\ peeks' = peeks \ {p}
  /\ IF p.n # peek.active THEN UNCHANGED <<peek, wanted>>
     ELSE \/ peek' = [peek EXCEPT !.doc = p.doc, !.active = 0, !.loading = FALSE] /\ UNCHANGED wanted
          \/ peek' = [peek EXCEPT !.active = 0, !.loading = FALSE] /\ wanted' = peek.doc
  /\ UNCHANGED <<similar, asks>>

fetchSimilar(s) ==
  /\ similar' = [s EXCEPT !.active = s.last + 1, !.last = @ + 1, !.loading = TRUE]
  /\ asks' = asks \cup {[n |-> s.last + 1, doc |-> s.doc]}
handleToggleSimilar ==
  /\ similar.icon /\ UNCHANGED <<peek, wanted, peeks>>
  /\ \/ similar.collapsed /\ similar.last < MaxAsked /\ fetchSimilar([similar EXCEPT !.collapsed = FALSE])
     \/ ~similar.collapsed /\ similar' = [similar EXCEPT !.collapsed = TRUE] /\ UNCHANGED asks
handleCloseSimilar ==
  /\ similar.icon /\ ~similar.collapsed
  /\ similar' = [similar EXCEPT !.collapsed = TRUE, !.icon = FALSE, !.of = "none"]
  /\ UNCHANGED <<peek, wanted, peeks, asks>>
\* fetchAbortRef: an answer to another request is dropped.
SimilarAnswered(a) ==
  /\ asks' = asks \ {a} /\ UNCHANGED <<peek, wanted, peeks>>
  /\ IF a.n # similar.active THEN UNCHANGED similar
     ELSE \E status \in {"ready", "pending", "building", "disabled", "unavailable"} :
            similar' = [similar EXCEPT !.active = 0, !.loading = FALSE, !.status = status,
                                       !.of = IF status = "unavailable" THEN "none" ELSE a.doc]
\* The editor shows another document.
DocumentChanges ==
  /\ \E d \in Documents \ {similar.doc} :
       similar' = [similar EXCEPT !.doc = d, !.active = 0, !.of = "none", !.loading = FALSE,
                                  !.collapsed = TRUE, !.status = "pending", !.icon = TRUE]
  /\ UNCHANGED <<peek, wanted, peeks, asks>>
\* SimilarNotesPanel.
SimilarView ==
  IF ~similar.icon THEN "nothing" ELSE IF similar.collapsed THEN "icon"
  ELSE IF similar.loading /\ similar.of = "none" THEN "loading"
  ELSE IF similar.status # "ready" THEN similar.status
  ELSE IF similar.of = "none" THEN "empty" ELSE "list"
\* A similar note is opened from the list, in the preview or in the editor.
OpenSimilar == SimilarView = "list" /\ handleOpenPreview
PeekInit ==
  /\ peek = [doc |-> "none", loading |-> FALSE, active |-> 0, last |-> 0] /\ peeks = {} /\ wanted = "none"
  /\ \E d \in Documents :
       similar = [doc |-> d, collapsed |-> TRUE, icon |-> TRUE, status |-> "pending", loading |-> FALSE,
                  of |-> "none", active |-> 0, last |-> 0]
  /\ asks = {}
PeekNext ==
  \/ handleOpenPreview \/ updatePreviewDoc \/ handleToggleSimilar \/ handleCloseSimilar
  \/ DocumentChanges \/ OpenSimilar \/ (\E p \in peeks : PeekAnswered(p)) \/ \E a \in asks : SimilarAnswered(a)

(***************************************************************************)
(* The context rail                                                        *)
(***************************************************************************)

VARIABLES rail,        \* view, tab, drawerOpen, temporarilyExpandedForDetails, of one document
          preference,  \* whether the rail is collapsed, as localStorage has it
          isDocked     \* whether the window is at least 1280 pixels wide
railVars == <<rail, preference, isDocked>>

DefaultRail == [view |-> "outline", tab |-> "history", drawerOpen |-> FALSE, expanded |-> FALSE]
collapsed == preference /\ ~rail.expanded
Visible == IF isDocked THEN ~collapsed ELSE rail.drawerOpen
outlineOpen == rail.view = "outline" /\ Visible
detailsOpen == rail.view = "details" /\ Visible

setCollapsed(next) == rail' = [rail EXCEPT !.expanded = FALSE] /\ preference' = next /\ UNCHANGED isDocked
toggleCollapsed == isDocked /\ setCollapsed(~collapsed)
openOutline ==
  /\ rail' = [rail EXCEPT !.view = "outline", !.drawerOpen = ~isDocked, !.expanded = FALSE]
  /\ preference' = (preference /\ ~isDocked) /\ UNCHANGED isDocked
openDetails(tab) ==
  /\ rail' = [rail EXCEPT !.view = "details", !.tab = tab, !.drawerOpen = ~isDocked,
                          !.expanded = isDocked /\ preference]
  /\ UNCHANGED <<preference, isDocked>>
toggleDetails ==
  IF detailsOpen
  THEN /\ rail' = [rail EXCEPT !.view = "outline", !.drawerOpen = ~isDocked, !.expanded = FALSE]
       /\ UNCHANGED <<preference, isDocked>>
  ELSE openDetails("history")
closeDrawer == rail.drawerOpen /\ rail' = [rail EXCEPT !.drawerOpen = FALSE] /\ UNCHANGED <<preference, isDocked>>
Resize ==
  /\ isDocked' = ~isDocked /\ UNCHANGED preference
  /\ rail' = [rail EXCEPT !.drawerOpen = @ /\ ~isDocked']
OtherDocument == rail # DefaultRail /\ rail' = DefaultRail /\ UNCHANGED <<preference, isDocked>>
RailInit == rail = DefaultRail /\ preference \in BOOLEAN /\ isDocked \in BOOLEAN
RailNext == \/ toggleCollapsed \/ openOutline \/ toggleDetails \/ closeDrawer \/ Resize \/ OtherDocument
            \/ \E tab \in {"history", "share"} : openDetails(tab)

(***************************************************************************)
(* Properties                                                              *)
(***************************************************************************)

MenusTypeOK ==
  /\ quick.results \in Queries \cup {NoNotes} /\ wiki.results \in Queries \cup {NoNotes}
  /\ peek.doc \in Documents \cup {"none"} /\ similar.of \in Documents \cup {"none"}
  /\ rail.view \in {"outline", "details"} /\ {preference, isDocked} \subseteq BOOLEAN
\* No menu says for ever that it is loading.
MenusNeverStuck ==
  /\ quick.loading => searches # {}
  /\ peek.loading => \E p \in peeks : p.n = peek.active
  /\ similar.loading => \E a \in asks : a.n = similar.active
\* Once a search settled, the notes under the field are the ones it asked for.
QuickOpenAnswersQuery ==
  quick.show /\ quick.query # "" /\ ~quick.timer /\ ~quick.loading
    => quick.results = quick.query \/ (quick.failed /\ quick.results = NoNotes)
\* The dialog shows the note that was last asked for: no late answer reopens a closed
\* preview or covers a newer one, and the similar notes are those of the open document.
PreviewIsLastAsked ==
  /\ ~peek.loading => peek.doc = wanted
  /\ similar.of \in {"none", similar.doc}
================================================================================
