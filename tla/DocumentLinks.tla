---------------------------- MODULE DocumentLinks ----------------------------
(***************************************************************************)
(* The linked notes of the note that is open in the editor                 *)
(* (app/docs/[id]/hooks/useDocumentLinks.ts, components/LinkedNotes*.tsx): *)
(* two paged lists with a cache of 60 seconds, refreshed when the panel    *)
(* opens, when a save is confirmed and on request, beside other clients    *)
(* that change the relations on the server.                                *)
(*                                                                         *)
(* A relation is [id, at]: the other note and the time it was last saved;  *)
(* a cursor is the time of the last row of a page.  A request that is      *)
(* aborted or overtaken never writes (isCurrentRequest), so only the       *)
(* current one of each kind is kept.                                       *)
(***************************************************************************)
EXTENDS Integers, Sequences, FiniteSets, SequencesExt, Subsequences

CONSTANTS LinkDocs,   \* notes that are opened in the editor
          Others,     \* notes at the other end of a link
          LinkPage,   \* limit=20
          MaxClock    \* bound: saves on the server

VARIABLES doc,      \* docId
          links,    \* DocumentLinksState
          meta,     \* cacheMetaRef: "none", "fresh", "old" (60 s passed) or "stale"
          refreshReq, moreReq,   \* the current request of each kind, or none
          world,    \* the server: world[d][direction], a set of relations
          clock,    \* the server's time, a count of saves
          saved,    \* saves of the open note that the client has not heard of
          heard,    \* serverRevision: the time of the last save it has heard of
          readAt    \* history: when the shown first pages were read

linksVars == <<doc, links, meta, refreshReq, moreReq, world, clock, saved, heard, readAt>>

Directions == {"incoming", "outgoing"}
Relation   == [id : Others, at : 0..MaxClock]
Pages      == [rows : Seq(Relation), next : -1..MaxClock]
End        == -1   \* the empty cursor

LinksStart == [open |-> FALSE, status |-> "idle", refreshing |-> FALSE, refreshError |-> FALSE,
               loaded |-> FALSE, page |-> [x \in Directions |-> [rows |-> <<>>, next |-> End]],
               more |-> {}, moreError |-> {}]

(***************************************************************************)
(* The server: mtime DESC, pages by value                                  *)
(***************************************************************************)

Later == {p \in Relation \X Relation : p[1].at > p[2].at}   \* no two saves have the same time
PageAfter(d, x, cursor) ==
  LET rest == SortedBy(SetToSeq({r \in world[d][x] : cursor = End \/ r.at < cursor}), Later)
  IN  IF Len(rest) <= LinkPage THEN [rows |-> rest, next |-> End]
      ELSE [rows |-> SubSeq(rest, 1, LinkPage), next |-> rest[LinkPage].at]

\* A save elsewhere links the other note to d, or moves it to the front.
Touched(d, x, o) ==
  [world EXCEPT ![d][x] = {r \in @ : r.id # o} \cup {[id |-> o, at |-> clock + 1]}]
OthersSave ==
  \E d \in LinkDocs, o \in Others :
    /\ clock < MaxClock
    /\ world' = Touched(d, "incoming", o)
    /\ clock' = clock + 1
    /\ UNCHANGED <<doc, links, meta, refreshReq, moreReq, saved, heard, readAt>>
\* The server accepts a save of the open note that links o.
SaveAccepted ==
  \E o \in Others :
    /\ clock < MaxClock
    /\ world' = Touched(doc, "outgoing", o)
    /\ clock' = clock + 1
    /\ saved' = clock + 1
    /\ UNCHANGED <<doc, links, meta, refreshReq, moreReq, heard, readAt>>

(***************************************************************************)
(* refresh and loadMore                                                    *)
(***************************************************************************)

refreshStarted(s) ==
  [s EXCEPT !.status = IF s.loaded THEN "ready" ELSE "loading", !.refreshing = s.loaded,
            !.refreshError = FALSE, !.more = {}, !.moreError = {}]
refreshSucceeded(s, got) ==
  [s EXCEPT !.status = "ready", !.refreshing = FALSE, !.refreshError = FALSE, !.loaded = TRUE,
            !.page = got, !.more = {}, !.moreError = {}]
refreshFailed(s) ==
  [s EXCEPT !.status = IF s.loaded THEN "ready" ELSE "error", !.refreshing = FALSE,
            !.refreshError = s.loaded]
appendUnique(a, b) ==
  a \o Within(b, {r \in Relation : \A i \in DOMAIN a : a[i].id # r.id})
loadMoreSucceeded(s, x, got) ==
  [s EXCEPT !.page[x] = [rows |-> appendUnique(@.rows, got.rows), next |-> got.next],
            !.more = {}, !.moreError = {}]

\* startRequest aborts the request it replaces.
started(req, r) == {r}
NewRefresh == [phase |-> "wire", at |-> 0, got |-> LinksStart.page]
refresh(s) ==
  /\ links' = refreshStarted(s)
  /\ refreshReq' = started(refreshReq, NewRefresh)
  /\ moreReq' = {}

ReadRefresh ==
  \E r \in refreshReq :
    /\ r.phase = "wire"
    /\ refreshReq' = (refreshReq \ {r}) \cup
         {[phase |-> "read", at |-> clock,
           got |-> [x \in Directions |-> PageAfter(doc, x, End)]]}
    /\ UNCHANGED <<doc, links, meta, moreReq, world, clock, saved, heard, readAt>>
RefreshAnswer ==
  \E r \in refreshReq :
    /\ r.phase = "read"
    /\ links' = refreshSucceeded(links, r.got)
    /\ meta' = "fresh"
    /\ readAt' = r.at
    /\ refreshReq' = refreshReq \ {r}
    /\ UNCHANGED <<doc, moreReq, world, clock, saved, heard>>
RefreshFails ==
  \E r \in refreshReq :
    /\ links' = refreshFailed(links)
    /\ refreshReq' = refreshReq \ {r}
    /\ UNCHANGED <<doc, meta, moreReq, world, clock, saved, heard, readAt>>

canLoadMore(x) == /\ links.page[x].next # End /\ links.status = "ready"
                  /\ ~links.refreshing /\ links.more = {}
\* The button of a list: LinkedNotesPanel shows it in the open panel.
loadMore(x) ==
  /\ links.open /\ canLoadMore(x)
  /\ links' = [links EXCEPT !.more = {x}, !.moreError = {}]
  /\ moreReq' = started(moreReq, [dir |-> x, cursor |-> links.page[x].next, phase |-> "wire",
                                  got |-> LinksStart.page[x]])
  /\ UNCHANGED <<doc, meta, refreshReq, world, clock, saved, heard, readAt>>
ReadMore ==
  \E r \in moreReq :
    /\ r.phase = "wire"
    /\ moreReq' = (moreReq \ {r}) \cup
         {[r EXCEPT !.phase = "read", !.got = PageAfter(doc, r.dir, r.cursor)]}
    /\ UNCHANGED <<doc, links, meta, refreshReq, world, clock, saved, heard, readAt>>
MoreAnswer ==
  \E r \in moreReq :
    /\ r.phase = "read"
    /\ links' = loadMoreSucceeded(links, r.dir, r.got)
    /\ moreReq' = moreReq \ {r}
    /\ UNCHANGED <<doc, meta, refreshReq, world, clock, saved, heard, readAt>>
MoreFails ==
  \E r \in moreReq :
    /\ links' = [links EXCEPT !.more = {}, !.moreError = {r.dir}]
    /\ moreReq' = moreReq \ {r}
    /\ UNCHANGED <<doc, meta, refreshReq, world, clock, saved, heard, readAt>>

(***************************************************************************)
(* The panel, the cache and the effects of the hook                        *)
(***************************************************************************)

\* What LinkedNotesPanel shows for a direction.
PanelView(x) == IF links.status \in {"idle", "loading"} THEN "loading"
                ELSE IF links.status = "error" THEN "error"
                ELSE IF links.page[x].rows = <<>> THEN "empty" ELSE "rows"

openPanel ==
  /\ ~links.open
  /\ LET s == [links EXCEPT !.open = TRUE]
     IN  IF links.status = "loading" \/ links.refreshing \/ meta = "fresh"
         THEN links' = s /\ UNCHANGED <<refreshReq, moreReq>>
         ELSE refresh(s)
  /\ UNCHANGED <<doc, meta, world, clock, saved, heard, readAt>>
\* The close button, Escape, a pointer outside, Tab past the end.
closePanel ==
  /\ links.open
  /\ links' = [links EXCEPT !.open = FALSE]
  /\ UNCHANGED <<doc, meta, refreshReq, moreReq, world, clock, saved, heard, readAt>>
retry ==
  /\ links.open
  /\ (links.refreshError /\ ~links.refreshing) \/ links.status = "error"
  /\ meta' = "stale"
  /\ refresh(links)
  /\ UNCHANGED <<doc, world, clock, saved, heard, readAt>>
\* DOCUMENT_LINKS_CACHE_TTL_MS passes.
CacheExpires ==
  /\ meta = "fresh"
  /\ meta' = "old"
  /\ UNCHANGED <<doc, links, refreshReq, moreReq, world, clock, saved, heard, readAt>>

\* The editor hears that its save was accepted: the revision effect.
RevisionChanges ==
  /\ saved > heard
  /\ heard' = saved
  /\ meta' = "stale"
  /\ refresh(links)
  /\ UNCHANGED <<doc, world, clock, saved, readAt>>
\* Another note is opened: everything in flight is aborted, its page starts anew.
OpenDocument(d) ==
  /\ d # doc
  /\ doc' = d
  /\ links' = refreshStarted(LinksStart)
  /\ meta' = "none"
  /\ refreshReq' = {NewRefresh} /\ moreReq' = {}
  /\ saved' = 0 /\ heard' = 0 /\ readAt' = 0
  /\ UNCHANGED <<world, clock>>

LinksInit ==
  /\ doc \in LinkDocs
  /\ links = refreshStarted(LinksStart)
  /\ meta = "none"
  /\ refreshReq = {NewRefresh} /\ moreReq = {}
  /\ world = [d \in LinkDocs |-> [x \in Directions |-> {}]]
  /\ clock = 0 /\ saved = 0 /\ heard = 0 /\ readAt = 0

LinksReact == ReadRefresh \/ RefreshAnswer \/ RefreshFails \/ ReadMore \/ MoreAnswer \/ MoreFails
              \/ CacheExpires \/ RevisionChanges
LinksUse   == \/ openPanel \/ closePanel \/ retry
              \/ \E x \in Directions : loadMore(x)
              \/ \E d \in LinkDocs : OpenDocument(d)
LinksNext  == LinksReact \/ LinksUse \/ OthersSave \/ SaveAccepted
LinksSpec  == LinksInit /\ [][LinksNext]_linksVars

(***************************************************************************)
(* Properties                                                              *)
(***************************************************************************)

LinksTypeOK ==
  /\ doc \in LinkDocs
  /\ links.status \in {"idle", "loading", "ready", "error"}
  /\ links.page \in [Directions -> Pages]
  /\ links.more \subseteq Directions /\ links.moreError \subseteq Directions
  /\ meta \in {"none", "fresh", "old", "stale"}

\* Paging loses nothing: a note that was linked when the first page was read
\* and has not been saved since is a row, or lies behind the cursor.  A page
\* that was asked for before a refresh must not be appended after it.
NothingSkipped ==
  \A x \in Directions : \A r \in world[doc][x] :
    links.loaded /\ r.at <= readAt =>
      \/ \E i \in DOMAIN links.page[x].rows : links.page[x].rows[i].id = r.id
      \/ r.at < links.page[x].next

\* The cache never vouches for a list that was read before a save the editor
\* knows of.
FreshIsAfterSave == meta = "fresh" => readAt >= heard

\* Each load indicator has a request behind it.
LinksNeverStuck ==
  /\ links.status = "loading" \/ links.refreshing => refreshReq # {}
  /\ links.more # {} => moreReq # {}
==============================================================================
