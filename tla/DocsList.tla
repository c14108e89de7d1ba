------------------------------ MODULE DocsList ------------------------------
(***************************************************************************)
(* The note list of the web client's /docs page: the filters               *)
(* (app/docs/page.tsx), the paged list with its cancellation, the pin and  *)
(* star toggles and the semantic search beside it (hooks/useDocsData.ts),  *)
(* and what the grid shows (components/DocumentGrid.tsx).                  *)
(*                                                                         *)
(* A note is a natural number that stands for its modification time too.   *)
(* A request is a record that goes from "wire" (no answer yet) to "read"   *)
(* (the server has answered, the client has not run its continuation) and, *)
(* for a page whose tags are unknown, to "tags" (the continuation waits    *)
(* for POST /tags/ids, which no abort reaches).                            *)
(***************************************************************************)
EXTENDS Integers, Sequences, FiniteSets, SequencesExt, Subsequences

CONSTANTS Notes,        \* the user's notes
          Tags,         \* the tags one can filter by
          Queries,      \* search texts; "" is no search, "/" asks for tags
          Hits,         \* Hits[q] and Hits[t]: the notes a search or a tag selects
          Tagged,       \* the shared notes that carry a tag
          Used,         \* bound: the filters that are used
          PageSize,     \* limit=20
          Toggles,      \* bound: the <<note, kind>> buttons that are used
          MaxLate,      \* bound: cancelled fetches that still wait for tags
          CutBodies     \* the connection may break inside an answer's body

VARIABLES filter,  \* [q, view]: search, selectedTag, showStarred, showShared
          wait,    \* the 300 ms timer of the filter effect is armed
          list,    \* the states and refs of useDocsData; origin: the filter whose
                   \* first page is shown; stray: a cancelled page came on top
          late,    \* cancelled fetches that still wait for their tags
          sem,     \* useSemanticSearch
          flags,   \* what the server stores: flags[d] = [pin, star]
          puts,    \* pendingRef with the request of each key
          asked    \* history: {value of the last toggle}, {} after a failure

docsVars == <<filter, wait, list, late, sem, flags, puts, asked>>

Views   == {"all", "starred", "shared"} \cup Tags
Filters == [q : Queries, view : Views]
Kinds   == {"pin", "star"}
Card    == [id : Notes, pin : {0, 1}, star : {0, 1}]
Fetch   == [f : Filters, off : Nat, append : BOOLEAN,
            phase : {"wire", "read", "tags"}, got : Seq(Card)]
Put     == [id : Notes, kind : Kinds, old : {0, 1}, new : {0, 1},
            phase : {"wire", "read"}]

Everything == [q |-> "", view |-> "all"]
ListStart == [docs |-> <<>>, loading |-> TRUE, more |-> FALSE, err |-> FALSE,
              moreErr |-> FALSE, hasMore |-> TRUE, next |-> 0, busy |-> FALSE,
              cur |-> {}, origin |-> "none", stray |-> FALSE]
SemStart == [status |-> "idle", docsFor |-> "", cur |-> {}, crashed |-> FALSE]

\* sortDocs: pinned notes first, then the most recently modified.
Newer == {p \in Card \X Card : \/ p[1].pin > p[2].pin
                                \/ (p[1].pin = p[2].pin /\ p[1].id > p[2].id)}
sortDocs(s) == SortedBy(s, Newer)

\* The notes the server lists for a filter, in its order.
Selected(f) ==
  {d \in Notes : /\ d \in Hits[f.q]
                 /\ f.view = "starred" => flags[d].star = 1
                 /\ f.view \in Tags => d \in Hits[f.view]}
ServerList(f) ==
  sortDocs(SetToSeq({[id |-> d, pin |-> flags[d].pin, star |-> flags[d].star] :
                     d \in Selected(f)}))

\* mapSharedItem: a shared note is shown without its flags.
SharedItem(c) == [c EXCEPT !.pin = 0, !.star = 0]

\* OFFSET and LIMIT.
Window(s, off) == SubSeq(s, off + 1, IF off + PageSize > Len(s) THEN Len(s) ELSE off + PageSize)

\* One answer of the list endpoint: GET /shares has no pages.
PageOf(r) == LET all == ServerList(r.f)
             IN  IF r.f.view = "shared"
                 THEN [i \in 1..Len(all) |-> SharedItem(all[i])]
                 ELSE Window(all, r.off)

Ids(s) == {s[i].id : i \in DOMAIN s}

(***************************************************************************)
(* fetchDocs                                                               *)
(***************************************************************************)

\* Aborting the current fetch: AbortError drops it, unless the answer's body
\* was on its way: apiFetch turns that into {}, and the continuation fails on
\* it like on any other broken answer.  One that waits for tags is not reached.
Broken(l, cut) ==
  IF cut /\ \E r \in l.cur : r.append THEN [l EXCEPT !.cur = {}, !.moreErr = TRUE]
  ELSE IF cut THEN [l EXCEPT !.cur = {}, !.err = TRUE]
  ELSE [l EXCEPT !.cur = {}]
CanCancel(l) == Cardinality(late \cup {r \in l.cur : r.phase = "tags"}) <= MaxLate
MayCut(l)   == {cut \in BOOLEAN : cut => \E r \in l.cur : r.phase = "read"}
NowLate(l)  == {r \in l.cur : r.phase = "tags"}

\* The start of fetchDocs(offset, append): nothing while a fetch is in flight.
Started(l, off, append) ==
  LET r == [f |-> filter, off |-> off, append |-> append, phase |-> "wire", got |-> <<>>]
  IN  IF append
      THEN [l EXCEPT !.cur = {r}, !.busy = TRUE, !.more = TRUE, !.moreErr = FALSE]
      ELSE [l EXCEPT !.cur = {r}, !.busy = TRUE, !.loading = TRUE, !.err = FALSE]

fetchDocs(l, off, append) ==
  IF l.busy
  THEN list' = l /\ UNCHANGED late
  ELSE \E cut \in MayCut(l) :
         /\ CanCancel(l)
         /\ list' = Started(Broken(l, cut), off, append)
         /\ late' = late \cup NowLate(l)

\* setDocs, setHasMore and setNextOffset for an answer that is complete.
Shown(l, r) ==
  IF r.append
  THEN [l EXCEPT !.docs = @ \o Within(r.got, {c \in Card : c.id \notin Ids(l.docs)})]
  ELSE [l EXCEPT !.docs = sortDocs(r.got), !.origin = r.f, !.stray = FALSE]
Paged(l, r) ==
  IF r.f.view = "shared"
  THEN [l EXCEPT !.hasMore = FALSE, !.next = 0]
  ELSE [Shown(l, r) EXCEPT !.hasMore = Len(r.got) = PageSize,
                           !.next = r.off + Len(r.got)]
Done(l) == [l EXCEPT !.cur = {}, !.loading = FALSE, !.more = FALSE, !.busy = FALSE]

\* The server answers GET /documents or GET /shares.
ReadList ==
  \E r \in list.cur :
    /\ r.phase = "wire"
    /\ list' = [list EXCEPT !.cur = {[r EXCEPT !.phase = "read", !.got = PageOf(r)]}]
    /\ UNCHANGED <<filter, wait, late, sem, flags, puts, asked>>

\* The continuation: shared items are shown before their tags are fetched,
\* pages after. A page comes with its tags, unless one was deleted between the
\* server's reads of the notes and of their tags.
TagsMissing(r) == IF r.f.view = "shared" THEN {Ids(r.got) \cap Tagged # {}}
                  ELSE {FALSE, r.got # <<>>}
ListAnswer ==
  \E r \in list.cur : \E missing \in TagsMissing(r) :
    /\ r.phase = "read"
    /\ LET l == IF r.f.view = "shared"
                THEN [list EXCEPT !.docs = r.got, !.origin = r.f, !.stray = FALSE] ELSE list
       IN  list' = IF missing THEN [l EXCEPT !.cur = {[r EXCEPT !.phase = "tags"]}]
                              ELSE Done(Paged(l, r))
    /\ UNCHANGED <<filter, wait, late, sem, flags, puts, asked>>

\* fetchTagsByIDs returns, whatever became of it.
TagsAnswer ==
  \E r \in list.cur :
    /\ r.phase = "tags"
    /\ list' = Done(Paged(list, r))
    /\ UNCHANGED <<filter, wait, late, sem, flags, puts, asked>>
\* Nothing asks whether the fetch was cancelled while it waited for its tags.
LateTagsAnswer ==
  \E r \in late :
    /\ LET l == Paged(list, r)
       IN  list' = [l EXCEPT !.stray = @ \/ (r.f.view # "shared" /\ r.f # filter)]
    /\ late' = late \ {r}
    /\ UNCHANGED <<filter, wait, sem, flags, puts, asked>>

\* The list request fails.
ListFails ==
  \E r \in list.cur :
    /\ r.phase # "tags"
    /\ list' = Done(IF r.append THEN [list EXCEPT !.moreErr = TRUE]
                                ELSE [list EXCEPT !.err = TRUE])
    /\ UNCHANGED <<filter, wait, late, sem, flags, puts, asked>>

(***************************************************************************)
(* Filters, the effect behind them, and the grid                           *)
(***************************************************************************)

\* NotesContent
GridView == IF list.err THEN "error"
            ELSE IF list.loading THEN "loading"
            ELSE IF list.docs = <<>> THEN "empty" ELSE "cards"
\* Mutant: the buttons stay enabled while their request is under way.
DocumentActionsAlways(d) == IF filter.view = "shared" THEN {"copy"} ELSE Kinds
\* The card of a note offers these buttons; a button with a request pending is
\* disabled.
DocumentActions(d) ==
  IF filter.view = "shared" THEN {"copy"}
  ELSE {k \in Kinds : ~\E p \in puts : p.id = d /\ p.kind = k}
DocumentCard(d) == [actions |-> DocumentActions(d), shared |-> filter.view = "shared"]
\* The chips above the grid, each of which clears what it names.
FilterStatus == (IF filter.view # "all" THEN {"filter"} ELSE {})
                \cup (IF filter.q # "" THEN {"search"} ELSE {})

\* cancelSemanticSearch: the continuation sees the abort; its finally clears.
SemCancelled == [sem EXCEPT !.cur = {}]

\* The effect of useDocsData is torn down and armed again.
SetFilter(f) ==
  /\ f \in Used \ {filter} /\ CanCancel(list)
  /\ filter' = f
  /\ wait' = TRUE
  /\ \E cut \in MayCut(list) : list' = Broken(list, cut)
  /\ late' = late \cup NowLate(list)
  /\ sem' = SemCancelled
  /\ UNCHANGED <<flags, puts, asked>>
setSearch(q)     == SetFilter([filter EXCEPT !.q = q])
showView(v)      == SetFilter([filter EXCEPT !.view = v])
pickSuggested(t) == SetFilter([q |-> "", view |-> t])
\* An empty list offers to clear whatever made it empty, or a new note.
EmptyOffers == IF FilterStatus = {} THEN "New note" ELSE "Clear filters"
clearAll == /\ GridView = "empty" /\ EmptyOffers = "Clear filters"
            /\ SetFilter(Everything)

fetchSearch(q) == [sem EXCEPT !.cur = {q}, !.status = "searching"]
resetSearch    == [sem EXCEPT !.cur = {}, !.status = "idle", !.docsFor = ""]
WantsSemantic  == filter.q \notin {"", "/"} /\ filter.view = "all"

\* The timer: the first page is asked for whatever was in flight.
Debounced ==
  /\ wait
  /\ wait' = FALSE
  /\ fetchDocs([list EXCEPT !.docs = <<>>, !.hasMore = TRUE, !.next = 0, !.loading = TRUE,
                            !.err = FALSE, !.moreErr = FALSE, !.more = FALSE,
                            !.busy = FALSE, !.origin = "none", !.stray = FALSE], 0, FALSE)
  /\ sem' = IF WantsSemantic THEN fetchSearch(filter.q) ELSE resetSearch
  /\ UNCHANGED <<filter, flags, puts, asked>>

\* The sentinel below the cards comes into view.
LoadMore ==
  /\ GridView = "cards" /\ list.hasMore /\ ~list.moreErr /\ ~list.more
  /\ fetchDocs(list, list.next, TRUE)
  /\ UNCHANGED <<filter, wait, sem, flags, puts, asked>>
retryInitial ==
  /\ GridView = "error"
  /\ fetchDocs([list EXCEPT !.busy = FALSE], 0, FALSE)
  /\ UNCHANGED <<filter, wait, sem, flags, puts, asked>>
retryLoadMore ==
  /\ GridView = "cards" /\ list.moreErr
  /\ fetchDocs([list EXCEPT !.busy = FALSE], list.next, TRUE)
  /\ UNCHANGED <<filter, wait, sem, flags, puts, asked>>

SemAnswer ==
  \E q \in sem.cur :
    /\ \/ sem' = [sem EXCEPT !.cur = {}, !.status = "ready", !.docsFor = q]
       \/ sem' = [sem EXCEPT !.cur = {}, !.status = "unavailable", !.docsFor = ""]
       \* setDocs(undefined): SemanticResults reads docs.length of it
       \/ CutBodies /\ sem' = [sem EXCEPT !.cur = {}, !.status = "ready", !.crashed = TRUE]
    /\ UNCHANGED <<filter, wait, list, late, flags, puts, asked>>

(***************************************************************************)
(* useDocumentActions                                                      *)
(***************************************************************************)

WithFlag(s, d, k, v) ==
  LET t == [i \in DOMAIN s |-> IF s[i].id = d THEN [s[i] EXCEPT ![k] = v] ELSE s[i]]
  IN  IF k = "pin" THEN sortDocs(t) ELSE t

runAction(d, k) ==
  /\ GridView = "cards" /\ k \in DocumentCard(d).actions
  /\ \E i \in DOMAIN list.docs :
       LET old == list.docs[i][k]
       IN  /\ list.docs[i].id = d
           /\ list' = [list EXCEPT !.docs = WithFlag(@, d, k, 1 - old)]
           /\ puts' = puts \cup {[id |-> d, kind |-> k, old |-> old, new |-> 1 - old,
                                  phase |-> "wire"]}
           /\ asked' = [asked EXCEPT ![d][k] = {1 - old}]
  /\ UNCHANGED <<filter, wait, late, sem, flags>>

ServerPut ==
  \E p \in puts :
    /\ p.phase = "wire"
    /\ flags' = [flags EXCEPT ![p.id][p.kind] = p.new]
    /\ puts' = (puts \ {p}) \cup {[p EXCEPT !.phase = "read"]}
    /\ UNCHANGED <<filter, wait, list, late, sem, asked>>
PutAnswer ==
  \E p \in puts :
    /\ p.phase = "read"
    /\ puts' = puts \ {p}
    /\ UNCHANGED <<filter, wait, list, late, sem, flags, asked>>
\* The request or its answer is lost: the card goes back to the old value.
PutFails ==
  \E p \in puts :
    /\ puts' = puts \ {p}
    /\ list' = [list EXCEPT !.docs = WithFlag(@, p.id, p.kind, p.old)]
    /\ asked' = [asked EXCEPT ![p.id][p.kind] = {}]
    /\ UNCHANGED <<filter, wait, late, sem, flags>>

\* The page is left (handleCreate, a link) or broke, and is opened again.
Reopen ==
  /\ filter' = Everything /\ wait' = TRUE
  /\ list' = ListStart /\ late' = {} /\ sem' = SemStart
  /\ asked' = [d \in Notes |-> [k \in Kinds |-> {}]]
  /\ puts' = {}
  /\ UNCHANGED flags

DocsInit ==
  /\ filter = Everything /\ wait = TRUE
  /\ list = ListStart /\ late = {} /\ sem = SemStart
  /\ flags = [d \in Notes |-> [k \in Kinds |-> 0]]
  /\ asked = [d \in Notes |-> [k \in Kinds |-> {}]]
  /\ puts = {}

Use == \/ \E q \in Queries : setSearch(q)
       \/ \E v \in Views : showView(v)
       \/ \E t \in Tags : pickSuggested(t)
       \/ clearAll \/ LoadMore \/ retryInitial \/ retryLoadMore
       \/ \E t \in Toggles : runAction(t[1], t[2])
React == ReadList \/ ListAnswer \/ TagsAnswer \/ LateTagsAnswer \/ ListFails \/ Debounced
         \/ SemAnswer \/ ServerPut \/ PutAnswer \/ PutFails
DocsNext == \/ ~sem.crashed /\ (Use \/ React)
            \/ Reopen

(***************************************************************************)
(* Properties                                                              *)
(***************************************************************************)

DocsTypeOK ==
  /\ filter \in Filters /\ wait \in BOOLEAN
  /\ list.docs \in Seq(Card) /\ list.cur \subseteq Fetch /\ late \subseteq Fetch
  /\ list.next \in Nat /\ Cardinality(list.cur) <= 1
  /\ flags \in [Notes -> [Kinds -> {0, 1}]] /\ puts \subseteq Put

\* The page never waits for nobody: while it shows that it loads, or refuses
\* to fetch because a fetch is in flight, there is a fetch that nobody
\* cancelled, or the timer that starts one (the finally of fetchDocs skips the
\* flags of a cancelled fetch and leaves them to the effect).
NeverStuckLoading ==
  list.loading \/ list.more \/ list.busy => wait \/ list.cur # {}

\* Once the timer of the last change has fired, what the grid shows as the
\* list - cards, or that there are none - is the answer for the filter shown,
\* unless a cancelled page has come on top of it since (OldAnswersStayOut).
ListMatchesFilter ==
  ~wait /\ GridView \in {"cards", "empty"} => list.origin = filter \/ list.stray

\* docs/003:94: when the search, the tag or the view changes, no old answer is
\* appended to the new result. A page that waited for its tags when it was
\* cancelled is.
OldAnswersStayOut == ~wait /\ GridView = "cards" => ~list.stray

\* No note has two cards, although notes move between pages while one scrolls.
NoDuplicateCards ==
  \A i, j \in DOMAIN list.docs : list.docs[i].id = list.docs[j].id => i = j

\* When the request of a toggle has been answered, the server has what the
\* last click on that button asked for: two requests never overtake each other.
LastClickWins ==
  \A d \in Notes, k \in Kinds :
    ~(\E p \in puts : p.id = d /\ p.kind = k) => asked[d][k] \subseteq {flags[d][k]}
=============================================================================
