---------------------------- MODULE AnswersProofs ----------------------------
(***************************************************************************)
(* Pages whose answers come late or not at all: the list of notes, the     *)
(* linked notes, a shared note, the previews of links and diagrams, and    *)
(* the dialogs of import and export, for any number of notes, requests and *)
(* saves.                                                                  *)
(***************************************************************************)
EXTENDS DocsList, DocumentLinks, SharePage, PreviewParts, ImportFlow, SubsequencesProofs

-----------------------------------------------------------------------------
(* The list of notes. The fetch that counts is for the filter shown; one    *)
(* that was cancelled while it waited for tags may still put its page on    *)
(* top, and the list is marked then until it is read anew.                  *)

DocsSpec == DocsInit /\ [][DocsNext]_docsVars

\* What a list, a fetch and a request of a button are made of.
ListStates(l) == [docs : {l.docs}, loading : BOOLEAN, more : BOOLEAN, err : BOOLEAN, moreErr : BOOLEAN, hasMore : BOOLEAN,
                  next : {l.next}, busy : BOOLEAN, cur : {l.cur}, origin : {l.origin}, stray : BOOLEAN]
Fetches(r) == [f : {r.f}, off : {r.off}, append : BOOLEAN, phase : {"wire", "read", "tags"}, got : {r.got}]

Agrees(l) == wait \/ l.origin = filter \/ l.stray
FetchSound(r) ==
  /\ r \in Fetches(r) /\ r.f = filter
  /\ IF r.append THEN ~list.loading /\ Agrees(list) ELSE list.loading
  /\ r.phase = "tags" /\ r.f.view = "shared" => Agrees(list)
ListIInv ==
  /\ list \in ListStates(list) /\ wait \in BOOLEAN
  /\ \A r \in list.cur : FetchSound(r)
  /\ list.loading \/ list.more \/ list.busy => wait \/ list.cur # {}
  /\ ~list.loading /\ ~list.err => Agrees(list)

LEMMA BrokenList ==
  ASSUME NEW l, l \in ListStates(l), NEW cut \in BOOLEAN
  PROVE  /\ Broken(l, cut) \in ListStates(Broken(l, cut)) /\ Broken(l, cut).cur = {}
         /\ Broken(l, cut).loading = l.loading /\ Broken(l, cut).origin = l.origin
         /\ Broken(l, cut).stray = l.stray
         /\ Broken(l, cut).err = l.err \/ Broken(l, cut).err = TRUE
  BY DEF ListStates, Broken

LEMMA StartedList ==
  ASSUME NEW l, l \in ListStates(l), NEW off, NEW append \in BOOLEAN
  PROVE  \E r : /\ r \in Fetches(r) /\ r.f = filter /\ r.append = append /\ r.phase = "wire"
                /\ Started(l, off, append) \in ListStates(Started(l, off, append))
                /\ Started(l, off, append).cur = {r} /\ Started(l, off, append).origin = l.origin
                /\ Started(l, off, append).stray = l.stray
                /\ Started(l, off, append).loading = (~append \/ l.loading)
  <1>1. PICK r : r = [f |-> filter, off |-> off, append |-> append, phase |-> "wire", got |-> <<>>]
    OBVIOUS
  <1>2. r \in Fetches(r) /\ r.f = filter /\ r.append = append /\ r.phase = "wire"
    BY <1>1 DEF Fetches
  <1>3. Started(l, off, append) = IF append
                                  THEN [l EXCEPT !.cur = {r}, !.busy = TRUE, !.more = TRUE, !.moreErr = FALSE]
                                  ELSE [l EXCEPT !.cur = {r}, !.busy = TRUE, !.loading = TRUE, !.err = FALSE]
    BY <1>1 DEF Started
  <1> QED
    BY <1>2, <1>3 DEF ListStates

LEMMA DoneList ==
  ASSUME NEW l, l \in ListStates(l)
  PROVE  /\ Done(l) \in ListStates(Done(l)) /\ Done(l).cur = {} /\ ~Done(l).loading /\ ~Done(l).more /\ ~Done(l).busy
         /\ Done(l).origin = l.origin /\ Done(l).err = l.err /\ Done(l).stray = l.stray
  BY DEF ListStates, Done

\* An answer that is complete: only a first page of the user's own notes names its filter here.
LEMMA PagedList ==
  ASSUME NEW l, l \in ListStates(l), NEW r
  PROVE  /\ Paged(l, r) \in ListStates(Paged(l, r)) /\ Paged(l, r).cur = l.cur
         /\ Paged(l, r).loading = l.loading /\ Paged(l, r).more = l.more /\ Paged(l, r).busy = l.busy
         /\ Paged(l, r).err = l.err
         /\ IF r.f.view = "shared" \/ r.append
            THEN Paged(l, r).origin = l.origin /\ Paged(l, r).stray = l.stray ELSE Paged(l, r).origin = r.f
  <1>1. PICK docs, all : Shown(l, r) = IF r.append THEN [l EXCEPT !.docs = docs] ELSE [l EXCEPT !.docs = all, !.origin = r.f, !.stray = FALSE]
    BY DEF Shown
  <1>2. /\ Shown(l, r) \in ListStates(Shown(l, r)) /\ Shown(l, r).cur = l.cur
        /\ Shown(l, r).loading = l.loading /\ Shown(l, r).more = l.more /\ Shown(l, r).busy = l.busy
        /\ Shown(l, r).err = l.err
        /\ IF r.append THEN Shown(l, r).origin = l.origin /\ Shown(l, r).stray = l.stray ELSE Shown(l, r).origin = r.f
    BY <1>1 DEF ListStates
  <1>3. PICK hasMore \in BOOLEAN : \E next :
          Paged(l, r) = IF r.f.view = "shared" THEN [l EXCEPT !.hasMore = FALSE, !.next = 0]
                        ELSE [Shown(l, r) EXCEPT !.hasMore = hasMore, !.next = next]
    BY DEF Paged
  <1> QED
    BY <1>2, <1>3 DEF ListStates

\* fetchDocs, from a list that l leaves: nothing while a fetch is in flight.
LEMMA FetchDocs ==
  ASSUME ListIInv, NEW l, l \in ListStates(l), l.cur = list.cur, NEW off, NEW append \in BOOLEAN,
         fetchDocs(l, off, append), ~l.busy, filter' = filter, wait' \in BOOLEAN,
         append => ~l.loading /\ (wait' \/ l.origin = filter \/ l.stray)
  PROVE  ListIInv'
  <1>1. PICK cut \in BOOLEAN : list' = Started(Broken(l, cut), off, append) /\ late' = late \cup NowLate(l)
    BY DEF fetchDocs, MayCut
  <1>2. PICK b : b = Broken(l, cut)
    OBVIOUS
  <1>3. b \in ListStates(b) /\ b.cur = {} /\ b.loading = l.loading /\ b.origin = l.origin /\ b.stray = l.stray
    BY <1>2, BrokenList
  <1>4. PICK r : /\ r \in Fetches(r) /\ r.f = filter /\ r.append = append /\ r.phase = "wire"
                 /\ Started(b, off, append) \in ListStates(Started(b, off, append))
                 /\ Started(b, off, append).cur = {r} /\ Started(b, off, append).origin = b.origin
                 /\ Started(b, off, append).stray = b.stray
                 /\ Started(b, off, append).loading = (~append \/ b.loading)
    BY <1>3, StartedList
  <1>5. PICK s : s = Started(b, off, append)
    OBVIOUS
  <1>6. list' = s
    BY <1>1, <1>2, <1>5
  <1>8. FetchSound(r)'
    BY <1>3, <1>4, <1>5, <1>6 DEF FetchSound, Agrees, ListStates
  <1> QED
    BY <1>3, <1>4, <1>5, <1>6, <1>8 DEF ListIInv, Agrees

\* What leaves the list alone but for its rows.
LEMMA ListAlone ==
  ASSUME ListIInv, NEW docs, list' = list \/ list' = [list EXCEPT !.docs = docs], UNCHANGED <<filter, wait, late>>
  PROVE  ListIInv'
  <1>1. PICK l : l = [list EXCEPT !.docs = docs]
    OBVIOUS
  <1>2. l \in ListStates(l) /\ l.cur = list.cur /\ l.loading = list.loading /\ l.more = list.more /\ l.busy = list.busy
        /\ l.err = list.err /\ l.origin = list.origin /\ l.stray = list.stray
    BY <1>1 DEF ListIInv, ListStates
  <1>3. list' = list \/ list' = l
    BY <1>1
  <1>4. \A r \in list.cur : FetchSound(r)'
    BY <1>2, <1>3 DEF FetchSound, Agrees, ListIInv
  <1> QED
    BY <1>2, <1>3, <1>4 DEF ListIInv, Agrees

LEMMA ListStarts ==
  /\ ListStart \in ListStates(ListStart) /\ ListStart.cur = {}
  BY DEF ListStart, ListStates

\* The filter changes, and the timer fires.
LEMMA FilterSteps ==
  ASSUME ListIInv, (\E f : SetFilter(f)) \/ Debounced
  PROVE  ListIInv'
  <1>1. CASE \E f : SetFilter(f)
    <2>1. PICK cut \in BOOLEAN : list' = Broken(list, cut) /\ late' = late \cup NowLate(list) /\ wait' = TRUE
      BY <1>1 DEF SetFilter, MayCut
    <2>2. PICK l : l = Broken(list, cut)
      OBVIOUS
    <2>3. l \in ListStates(l) /\ l.cur = {}
      BY <2>2, BrokenList DEF ListIInv
    <2> QED
      BY <2>1, <2>2, <2>3 DEF ListIInv, Agrees
  <1>2. CASE Debounced
    <2>1. PICK l : l = [list EXCEPT !.docs = <<>>, !.hasMore = TRUE, !.next = 0, !.loading = TRUE,
                            !.err = FALSE, !.moreErr = FALSE, !.more = FALSE,
                            !.busy = FALSE, !.origin = "none", !.stray = FALSE]
      OBVIOUS
    <2>2. l \in ListStates(l) /\ l.cur = list.cur /\ ~l.busy
      BY <2>1 DEF ListStates, ListIInv
    <2>3. fetchDocs(l, 0, FALSE) /\ filter' = filter /\ wait' = FALSE
      BY <1>2, <2>1 DEF Debounced
    <2> QED
      BY <2>2, <2>3, FetchDocs
  <1> QED
    BY <1>1, <1>2

\* Scrolling and the two Retry buttons.
LEMMA PageSteps ==
  ASSUME ListIInv, LoadMore \/ retryInitial \/ retryLoadMore
  PROVE  ListIInv'
  <1>1. filter' = filter /\ wait' = wait /\ wait \in BOOLEAN
    BY DEF LoadMore, retryInitial, retryLoadMore, ListIInv
  <1>2. PICK l : l = [list EXCEPT !.busy = FALSE]
    OBVIOUS
  <1>3. l \in ListStates(l) /\ l.cur = list.cur /\ ~l.busy /\ l.loading = list.loading /\ l.origin = list.origin /\ l.stray = list.stray
    BY <1>2 DEF ListStates, ListIInv
  <1>4. CASE retryInitial
    <2>1. fetchDocs(l, 0, FALSE)
      BY <1>2, <1>4 DEF retryInitial
    <2> QED
      BY <1>1, <1>3, <2>1, FetchDocs
  <1>5. CASE LoadMore \/ retryLoadMore
    <2>1. ~list.loading /\ (wait \/ list.origin = filter \/ list.stray)
      BY <1>5 DEF Agrees, LoadMore, retryLoadMore, GridView, ListIInv, ListStates
    <2>2. CASE retryLoadMore
      <3>1. fetchDocs(l, list.next, TRUE)
        BY <1>2, <2>2 DEF retryLoadMore
      <3> QED
        BY <1>1, <1>3, <2>1, <3>1, FetchDocs
    <2>3. CASE LoadMore /\ list.busy
      BY <2>3, ListAlone DEF LoadMore, fetchDocs
    <2>4. CASE LoadMore /\ ~list.busy
      <3>1. fetchDocs(list, list.next, TRUE)
        BY <2>4 DEF LoadMore
      <3> QED
        BY <1>1, <2>1, <2>4, <3>1, FetchDocs DEF ListIInv
    <2> QED
      BY <1>5, <2>2, <2>3, <2>4 DEF ListIInv, ListStates
  <1> QED
    BY <1>4, <1>5

\* The fetch goes on or ends.
LEMMA FetchSteps ==
  ASSUME ListIInv, ReadList \/ ListAnswer \/ TagsAnswer \/ ListFails
  PROVE  ListIInv'
  <1>1. UNCHANGED <<filter, wait, late>>
    BY DEF ReadList, ListAnswer, TagsAnswer, ListFails
  \* A fetch that goes on.
  <1>2. ASSUME NEW r \in list.cur, NEW q, q \in Fetches(q), q.f = r.f, q.append = r.append, NEW l, l \in ListStates(l), l.loading = list.loading,
               l.more = list.more, l.busy = list.busy, l.err = list.err, Agrees(list) => Agrees(l),
               q.phase = "tags" /\ q.f.view = "shared" => Agrees(l), list' = [l EXCEPT !.cur = {q}]
        PROVE  ListIInv'
    <2>1. PICK m : m = [l EXCEPT !.cur = {q}]
      OBVIOUS
    <2>2. m \in ListStates(m) /\ m.cur = {q} /\ m.loading = l.loading /\ m.more = l.more /\ m.busy = l.busy
          /\ m.err = l.err /\ m.origin = l.origin /\ m.stray = l.stray
      BY <1>2, <2>1 DEF ListStates
    <2>3. list' = m
      BY <1>2, <2>1
    <2>4. FetchSound(q)'
      BY <1>1, <1>2, <2>2, <2>3 DEF FetchSound, Agrees, ListIInv
    <2> QED
      BY <1>1, <1>2, <2>2, <2>3, <2>4 DEF ListIInv, Agrees
  \* A fetch that ends.
  <1>3. ASSUME NEW l, l \in ListStates(l), list' = Done(l), l.err \/ Agrees(l)
        PROVE  ListIInv'
    <2>1. PICK m : m = Done(l)
      OBVIOUS
    <2>2. m \in ListStates(m) /\ m.cur = {} /\ ~m.loading /\ ~m.more /\ ~m.busy /\ m.err = l.err
          /\ m.origin = l.origin /\ m.stray = l.stray
      BY <1>3, <2>1, DoneList
    <2>3. list' = m
      BY <1>3, <2>1
    <2> QED
      BY <1>1, <1>3, <2>2, <2>3 DEF ListIInv, Agrees
  <1>4. CASE ReadList
    <2>1. PICK r \in list.cur : r.phase = "wire" /\ list' = [list EXCEPT !.cur = {[r EXCEPT !.phase = "read", !.got = PageOf(r)]}]
      BY <1>4 DEF ReadList
    <2>2. PICK q : q = [r EXCEPT !.phase = "read", !.got = PageOf(r)]
      OBVIOUS
    <2>3. q \in Fetches(q) /\ q.f = r.f /\ q.append = r.append
      BY <2>2 DEF FetchSound, ListIInv, Fetches
    <2>4. q.phase # "tags"
      BY <2>2 DEF FetchSound, ListIInv, Fetches
    <2>5. list' = [list EXCEPT !.cur = {q}]
      BY <2>1, <2>2
    <2> QED
      BY <1>2, <2>3, <2>4, <2>5 DEF ListIInv
  <1>5. CASE ListAnswer
    <2>1. PICK r \in list.cur : \E missing \in BOOLEAN :
            LET l == IF r.f.view = "shared"
                     THEN [list EXCEPT !.docs = r.got, !.origin = r.f, !.stray = FALSE] ELSE list
            IN  list' = IF missing THEN [l EXCEPT !.cur = {[r EXCEPT !.phase = "tags"]}] ELSE Done(Paged(l, r))
      BY <1>5 DEF ListAnswer, TagsMissing
    <2>2. PICK l : l = IF r.f.view = "shared" THEN [list EXCEPT !.docs = r.got, !.origin = r.f, !.stray = FALSE] ELSE list
      OBVIOUS
    <2>3. /\ l \in ListStates(l) /\ l.loading = list.loading /\ l.more = list.more /\ l.busy = list.busy /\ l.err = list.err
          /\ IF r.f.view = "shared" THEN l.origin = filter ELSE l = list
      BY <2>1, <2>2 DEF ListStates, ListIInv, FetchSound
    <2>4. CASE list' = [l EXCEPT !.cur = {[r EXCEPT !.phase = "tags"]}]
      <3>1. PICK q : q = [r EXCEPT !.phase = "tags"]
        OBVIOUS
      <3>2. q \in Fetches(q) /\ q.f = r.f /\ q.append = r.append
        BY <3>1 DEF ListIInv, FetchSound, Fetches
      <3>4. (Agrees(list) => Agrees(l)) /\ (q.f.view = "shared" => Agrees(l))
        BY <2>3, <3>2 DEF Agrees
      <3> QED
        BY <1>2, <2>3, <2>4, <3>1, <3>2, <3>4
    <2>5. CASE list' = Done(Paged(l, r))
      <3>1. PICK m : m = Paged(l, r)
        OBVIOUS
      <3>2. m \in ListStates(m) /\ IF r.f.view = "shared" \/ r.append THEN m.origin = l.origin /\ m.stray = l.stray ELSE m.origin = r.f
        BY <2>3, <3>1, PagedList
      <3>3. Agrees(m)
        BY <2>3, <3>2 DEF ListIInv, FetchSound, Agrees
      <3> QED
        BY <1>3, <2>5, <3>1, <3>2, <3>3
    <2> QED
      BY <2>1, <2>2, <2>4, <2>5
  <1>6. CASE TagsAnswer
    <2>1. PICK r \in list.cur : r.phase = "tags" /\ list' = Done(Paged(list, r))
      BY <1>6 DEF TagsAnswer
    <2>2. PICK m : m = Paged(list, r)
      OBVIOUS
    <2>3. list \in ListStates(list) /\ FetchSound(r)
      BY <2>1 DEF ListIInv
    <2>4. /\ m \in ListStates(m)
          /\ IF r.f.view = "shared" \/ r.append THEN m.origin = list.origin /\ m.stray = list.stray ELSE m.origin = r.f
      BY <2>2, <2>3, PagedList
    <2>5. Agrees(m)
      BY <2>1, <2>3, <2>4 DEF FetchSound, Agrees
    <2> QED
      BY <1>3, <2>1, <2>2, <2>4, <2>5
  <1>7. CASE ListFails
    <2>1. PICK r \in list.cur : list' = Done(IF r.append THEN [list EXCEPT !.moreErr = TRUE] ELSE [list EXCEPT !.err = TRUE])
      BY <1>7 DEF ListFails
    <2>2. PICK m : m = IF r.append THEN [list EXCEPT !.moreErr = TRUE] ELSE [list EXCEPT !.err = TRUE]
      OBVIOUS
    <2>3. m \in ListStates(m) /\ m.origin = list.origin /\ m.stray = list.stray /\ (r.append \/ m.err)
      BY <2>2 DEF ListIInv, ListStates
    <2> QED
      BY <1>3, <2>1, <2>2, <2>3 DEF ListIInv, FetchSound, Agrees
  <1> QED
    BY <1>4, <1>5, <1>6, <1>7

LEMMA ListStep ==
  ASSUME ListIInv, [DocsNext]_docsVars
  PROVE  ListIInv'
  <1>1. CASE UNCHANGED docsVars
    BY <1>1 DEF docsVars, ListIInv, FetchSound, Agrees
  <1>2. CASE Reopen
    BY <1>2, ListStarts DEF Reopen, ListIInv, Agrees
  <1>3. CASE LateTagsAnswer
    <2>1. PICK r : list' = [Paged(list, r) EXCEPT !.stray = @ \/ (r.f.view # "shared" /\ r.f # filter)]
      BY <1>3 DEF LateTagsAnswer
    <2>2. PICK m : m = Paged(list, r)
      OBVIOUS
    <2>3. PICK n : n = [m EXCEPT !.stray = m.stray \/ (r.f.view # "shared" /\ r.f # filter)]
      OBVIOUS
    <2>4. /\ m \in ListStates(m) /\ m.cur = list.cur /\ m.loading = list.loading /\ m.more = list.more
          /\ m.busy = list.busy /\ m.err = list.err
          /\ IF r.f.view = "shared" \/ r.append THEN m.origin = list.origin /\ m.stray = list.stray ELSE m.origin = r.f
      BY <2>2, PagedList DEF ListIInv
    <2>5. /\ n \in ListStates(n) /\ n.cur = m.cur /\ n.loading = m.loading /\ n.more = m.more /\ n.busy = m.busy
          /\ n.err = m.err /\ n.origin = m.origin /\ n.stray = (m.stray \/ (r.f.view # "shared" /\ r.f # filter))
      BY <2>3, <2>4 DEF ListStates
    <2>6. list' = n /\ UNCHANGED <<filter, wait>>
      BY <1>3, <2>1, <2>2, <2>3 DEF LateTagsAnswer
    <2>7. Agrees(list) => Agrees(n)
      BY <2>4, <2>5 DEF Agrees
    <2>8. \A q \in list.cur : FetchSound(q)'
      BY <2>4, <2>5, <2>6, <2>7 DEF FetchSound, ListIInv, Agrees
    <2> QED
      BY <2>4, <2>5, <2>6, <2>7, <2>8 DEF ListIInv, Agrees
  <1>4. CASE SemAnswer \/ ServerPut \/ PutAnswer
    <2>1. UNCHANGED <<filter, wait, list, late>>
      BY <1>4 DEF SemAnswer, ServerPut, PutAnswer
    <2> QED
      BY <2>1, ListAlone
  <1>5. CASE (\E t \in Toggles : runAction(t[1], t[2])) \/ PutFails
    <2>1. PICK docs : list' = [list EXCEPT !.docs = docs] /\ UNCHANGED <<filter, wait, late>>
      BY <1>5 DEF runAction, PutFails
    <2> QED
      BY <2>1, ListAlone
  <1>6. CASE (\E q \in Queries : setSearch(q)) \/ (\E v \in Views : showView(v)) \/ (\E t \in Tags : pickSuggested(t)) \/ clearAll
    <2>1. \E f : SetFilter(f)
      BY <1>6 DEF setSearch, showView, pickSuggested, clearAll
    <2> QED
      BY <2>1, FilterSteps
  <1> QED
    BY <1>1, <1>2, <1>3, <1>4, <1>5, <1>6, FilterSteps, PageSteps, FetchSteps DEF DocsNext, Use, React

LEMMA ListSound == ASSUME ListIInv PROVE NeverStuckLoading /\ ListMatchesFilter
  BY DEF ListIInv, ListStates, NeverStuckLoading, ListMatchesFilter, GridView, Agrees

LEMMA ListInit == ASSUME DocsInit PROVE ListIInv
  BY ListStarts DEF DocsInit, ListIInv, Agrees

\* useDocsData: the grid shows the answer to the filters above it, and while it shows that it
\* loads there is a fetch or a timer, however filters, pages and late answers cross; the only
\* thing that can come on top of the answer is a cancelled page that waited for its tags.
THEOREM ListAnswersFilter == DocsSpec => [](NeverStuckLoading /\ ListMatchesFilter)
  <1>1. DocsInit => ListIInv
    BY ListInit
  <1>2. ListIInv /\ [DocsNext]_docsVars => ListIInv'
    BY ListStep
  <1>3. ListIInv => NeverStuckLoading /\ ListMatchesFilter
    BY ListSound
  <1> QED
    BY <1>1, <1>2, <1>3, PTL DEF DocsSpec

-----------------------------------------------------------------------------
(* The stars and pins. One request is under way for a button, and carries   *)
(* what its last click asked for.                                           *)

TogglesNamed == Toggles \subseteq Notes \X Kinds

Table(t) == DOMAIN t = Notes /\ \A d \in Notes : DOMAIN t[d] = Kinds
ClickSound(p) ==
  /\ p = [id |-> p.id, kind |-> p.kind, old |-> p.old, new |-> p.new, phase |-> p.phase]
  /\ p.id \in Notes /\ p.kind \in Kinds
  /\ asked[p.id][p.kind] \subseteq {p.new}
  /\ p.phase = "read" => flags[p.id][p.kind] = p.new
ClicksIInv ==
  /\ Table(flags) /\ Table(asked)
  /\ \A p \in puts : ClickSound(p)
  /\ \A p, q \in puts : p.id = q.id /\ p.kind = q.kind => p = q
  /\ LastClickWins

LEMMA Clicks ==
  ASSUME ClicksIInv, TogglesNamed, NEW t \in Toggles, runAction(t[1], t[2])
  PROVE  ClicksIInv'
  <1>1. PICK d \in Notes, k \in Kinds : t[1] = d /\ t[2] = k
    BY DEF TogglesNamed
  <1>2. /\ \A p \in puts : ~(p.id = d /\ p.kind = k)
        /\ UNCHANGED flags
        /\ \E old : /\ puts' = puts \cup {[id |-> d, kind |-> k, old |-> old, new |-> 1 - old, phase |-> "wire"]}
                    /\ asked' = [asked EXCEPT ![d][k] = {1 - old}]
    <2>1. k \in DocumentActions(d)
      BY <1>1 DEF runAction, DocumentCard
    <2>2. k # "copy"
      BY DEF Kinds
    <2> QED
      BY <1>1, <2>1, <2>2 DEF runAction, DocumentActions
  <1>3. PICK new, p : /\ p = [id |-> d, kind |-> k, old |-> p.old, new |-> new, phase |-> "wire"]
                      /\ puts' = puts \cup {p} /\ asked' = [asked EXCEPT ![d][k] = {new}]
    BY <1>2
  <1>4. Table(asked)' /\ \A e \in Notes, l \in Kinds : asked'[e][l] = IF e = d /\ l = k THEN {new} ELSE asked[e][l]
    <2>1. PICK t2 : t2 = [asked EXCEPT ![d][k] = {new}]
      OBVIOUS
    <2>2. Table(t2) /\ \A e \in Notes, l \in Kinds : t2[e][l] = IF e = d /\ l = k THEN {new} ELSE asked[e][l]
      BY <2>1 DEF ClicksIInv, Table
    <2>3. asked' = t2
      BY <1>3, <2>1
    <2> QED
      BY <2>2, <2>3 DEF Table
  <1>5. \A q \in puts' : ClickSound(q)'
    BY <1>2, <1>3, <1>4 DEF ClicksIInv, ClickSound
  <1>6. \A q, r \in puts' : q.id = r.id /\ q.kind = r.kind => q = r
    BY <1>2, <1>3 DEF ClicksIInv
  <1>7. LastClickWins'
    BY <1>2, <1>3, <1>4 DEF ClicksIInv, LastClickWins
  <1> QED
    BY <1>2, <1>4, <1>5, <1>6, <1>7 DEF ClicksIInv

LEMMA ClickAnswers ==
  ASSUME ClicksIInv, ServerPut \/ PutAnswer \/ PutFails
  PROVE  ClicksIInv'
  <1>1. PICK p \in puts : /\ ServerPut => /\ flags' = [flags EXCEPT ![p.id][p.kind] = p.new]
                                          /\ puts' = (puts \ {p}) \cup {[p EXCEPT !.phase = "read"]} /\ asked' = asked
                          /\ PutAnswer => puts' = puts \ {p} /\ p.phase = "read" /\ UNCHANGED <<flags, asked>>
                          /\ PutFails => /\ puts' = puts \ {p} /\ UNCHANGED flags
                                         /\ asked' = [asked EXCEPT ![p.id][p.kind] = {}]
    BY DEF ServerPut, PutAnswer, PutFails
  <1>2. ClickSound(p) /\ p.id \in Notes /\ p.kind \in Kinds
    BY DEF ClicksIInv, ClickSound
  <1>3. \A q \in puts \ {p} : q.id # p.id \/ q.kind # p.kind
    BY DEF ClicksIInv
  <1>4. CASE PutAnswer
    BY <1>1, <1>2, <1>3, <1>4 DEF ClicksIInv, ClickSound, LastClickWins
  <1>5. CASE PutFails
    <2>1. Table(asked)' /\ \A e \in Notes, l \in Kinds : asked'[e][l] = IF e = p.id /\ l = p.kind THEN {} ELSE asked[e][l]
      <3>1. PICK t2 : t2 = [asked EXCEPT ![p.id][p.kind] = {}]
        OBVIOUS
      <3>2. Table(t2) /\ \A e \in Notes, l \in Kinds : t2[e][l] = IF e = p.id /\ l = p.kind THEN {} ELSE asked[e][l]
        BY <1>2, <3>1 DEF ClicksIInv, Table
      <3>3. asked' = t2
        BY <1>1, <1>5, <3>1
      <3> QED
        BY <3>2, <3>3 DEF Table
    <2> QED
      BY <1>1, <1>2, <1>3, <1>5, <2>1 DEF ClicksIInv, ClickSound, LastClickWins
  <1>6. CASE ServerPut
    <2>1. Table(flags)' /\ \A e \in Notes, l \in Kinds : flags'[e][l] = IF e = p.id /\ l = p.kind THEN p.new ELSE flags[e][l]
      <3>1. PICK t2 : t2 = [flags EXCEPT ![p.id][p.kind] = p.new]
        OBVIOUS
      <3>2. Table(t2) /\ \A e \in Notes, l \in Kinds : t2[e][l] = IF e = p.id /\ l = p.kind THEN p.new ELSE flags[e][l]
        BY <1>2, <3>1 DEF ClicksIInv, Table
      <3>3. flags' = t2
        BY <1>1, <1>6, <3>1
      <3> QED
        BY <3>2, <3>3 DEF Table
    <2>2. PICK r : r = [p EXCEPT !.phase = "read"]
      OBVIOUS
    <2>3. r = [id |-> p.id, kind |-> p.kind, old |-> p.old, new |-> p.new, phase |-> "read"]
      BY <1>2, <2>2 DEF ClickSound
    <2>4. puts' = (puts \ {p}) \cup {r} /\ asked' = asked
      BY <1>1, <1>6, <2>2
    <2>5. \A q \in puts' : ClickSound(q)'
      BY <1>2, <1>3, <2>1, <2>3, <2>4 DEF ClicksIInv, ClickSound
    <2>6. \A q, s \in puts' : q.id = s.id /\ q.kind = s.kind => q = s
      BY <1>3, <2>3, <2>4 DEF ClicksIInv
    <2>7. LastClickWins'
      BY <1>2, <1>3, <2>1, <2>3, <2>4 DEF ClicksIInv, ClickSound, LastClickWins
    <2> QED
      BY <2>1, <2>4, <2>5, <2>6, <2>7 DEF ClicksIInv
  <1> QED
    BY <1>4, <1>5, <1>6

LEMMA ClicksStep ==
  ASSUME ClicksIInv, TogglesNamed, [DocsNext]_docsVars
  PROVE  ClicksIInv'
  <1>1. CASE Reopen
    BY <1>1 DEF Reopen, ClicksIInv, Table, LastClickWins
  <1>2. ASSUME UNCHANGED <<flags, puts, asked>> PROVE ClicksIInv'
    <2>1. Table(flags)' /\ Table(asked)'
      BY <1>2 DEF ClicksIInv, Table
    <2>2. \A p \in puts' : ClickSound(p)'
      BY <1>2 DEF ClicksIInv, ClickSound
    <2>3. LastClickWins'
      BY <1>2 DEF ClicksIInv, LastClickWins
    <2> QED
      BY <1>2, <2>1, <2>2, <2>3 DEF ClicksIInv
  <1>3. CASE UNCHANGED docsVars \/ ReadList \/ ListAnswer \/ TagsAnswer \/ LateTagsAnswer \/ ListFails \/ Debounced \/ SemAnswer
    BY <1>2, <1>3 DEF docsVars, ReadList, ListAnswer, TagsAnswer, LateTagsAnswer, ListFails, Debounced, SemAnswer
  <1>4. CASE LoadMore \/ retryInitial \/ retryLoadMore
    BY <1>2, <1>4 DEF LoadMore, retryInitial, retryLoadMore
  <1>5. CASE (\E q \in Queries : setSearch(q)) \/ (\E v \in Views : showView(v)) \/ (\E t \in Tags : pickSuggested(t)) \/ clearAll
    BY <1>2, <1>5 DEF setSearch, showView, pickSuggested, clearAll, SetFilter
  <1> QED
    BY <1>1, <1>3, <1>4, <1>5, Clicks, ClickAnswers DEF DocsNext, Use, React

LEMMA ClicksStart == ASSUME DocsInit PROVE ClicksIInv
  BY DEF DocsInit, ClicksIInv, Table, LastClickWins

\* useDocumentActions and its pendingRef: once the request of a button is answered, the server
\* has what its last click asked for, though the clicks on other buttons go on.
THEOREM LastClicksWin == ASSUME TogglesNamed PROVE DocsSpec => []LastClickWins
  <1>1. DocsInit => ClicksIInv
    BY ClicksStart
  <1>2. ClicksIInv /\ [DocsNext]_docsVars => ClicksIInv'
    BY ClicksStep
  <1>3. ClicksIInv => LastClickWins
    BY DEF ClicksIInv
  <1> QED
    BY <1>1, <1>2, <1>3, PTL DEF DocsSpec

-----------------------------------------------------------------------------
(* The cards of the list: every answer and every list that is shown has one *)
(* card for each note, so that the rows a page adds are rows of other notes.*)

FiniteNotes == Notes \subseteq Nat /\ IsFiniteSet(Notes) /\ PageSize \in Nat

OneCardEach(s) == IsInjective(s) /\ \A a, b \in ToSet(s) : a.id = b.id => a = b
Cards          == {s \in Seq(Card) : OneCardEach(s)}
CardFetch(r)   == r \in Fetches(r) /\ r.off \in Nat /\ r.got \in Cards
CardList(l)    == /\ l \in ListStates(l) /\ l.docs \in Cards /\ l.next \in Nat
                  /\ \A r \in l.cur : CardFetch(r)
CardsIInv == /\ CardList(list) /\ (\A r \in late : CardFetch(r))
             /\ flags \in [Notes -> [Kinds -> {0, 1}]] /\ puts \subseteq Put

LEMMA NoCards == <<>> \in Cards
  <1>1. <<>> \in Seq(Card) /\ IsInjective(<<>>) /\ ToSet(<<>>) = {}
    BY DEF IsInjective, ToSet
  <1> QED
    BY <1>1 DEF Cards, OneCardEach

LEMMA SortedCards == ASSUME FiniteNotes, NEW s \in Cards PROVE sortDocs(s) \in Cards
  <1>1. s \in Seq(Card) /\ OneCardEach(s) /\ ToSet(s) \subseteq Card
    BY DEF Cards, ToSet
  <1>2. WeakOrder(Newer, ToSet(s))
    <2>3. \A a \in Card : a.pin \in {0, 1} /\ a.id \in Notes
      BY DEF Card
    <2>4. Notes \subseteq Nat
      BY DEF FiniteNotes
    <2>1. \A a \in Card : a.pin \in Int /\ a.id \in Int
      <3> TAKE a \in Card
      <3>1. a.pin \in {0, 1} /\ a.id \in Nat
        BY <2>3, <2>4
      <3> QED
        BY <3>1
    <2>2. \A a, b \in Card : <<a, b>> \in Newer <=> a.pin > b.pin \/ (a.pin = b.pin /\ a.id > b.id)
      BY DEF Newer
    <2>5. \A a \in Card : <<a, a>> \notin Newer
      BY <2>1, <2>2
    <2>6. \A a, b, c \in Card : <<a, b>> \in Newer /\ <<b, c>> \in Newer => <<a, c>> \in Newer
      BY <2>1, <2>2
    <2>7. \A a, b, c \in Card : <<a, c>> \in Newer => <<a, b>> \in Newer \/ <<b, c>> \in Newer
      BY <2>1, <2>2
    <2> QED
      BY Zenon, <1>1, <2>5, <2>6, <2>7 DEF WeakOrder
  <1>3. PICK t : t = SortedBy(s, Newer)
    OBVIOUS
  <1>4. t \in Seq(Card) /\ ToSet(t) = ToSet(s) /\ IsInjective(t)
    BY <1>1, <1>2, <1>3, Sorts DEF OneCardEach
  <1> QED
    BY <1>1, <1>3, <1>4 DEF Cards, OneCardEach, sortDocs

\* Rows that replace rows of the same notes.
LEMMA CardsReplaced ==
  ASSUME NEW s \in Cards, NEW t, t \in [DOMAIN s -> Card], \A i \in DOMAIN s : t[i].id = s[i].id
  PROVE  t \in Cards
  <1>1. s \in Seq(Card) /\ IsInjective(s) /\ \A a, b \in ToSet(s) : a.id = b.id => a = b
    BY DEF Cards, OneCardEach
  <1>2. DOMAIN s = 1..Len(s) /\ Len(s) \in Nat
    BY <1>1
  <1>3. t \in Seq(Card) /\ DOMAIN t = DOMAIN s
    BY <1>2, SeqDef
  <1>4. ASSUME NEW i \in DOMAIN s, NEW j \in DOMAIN s, t[i].id = t[j].id PROVE i = j
    <2>1. s[i].id = s[j].id /\ s[i] \in ToSet(s) /\ s[j] \in ToSet(s)
      BY <1>4 DEF ToSet
    <2> QED
      BY <1>1, <2>1 DEF IsInjective
  <1>5. IsInjective(t)
    BY <1>3, <1>4 DEF IsInjective
  <1>6. \A a, b \in ToSet(t) : a.id = b.id => a = b
    BY <1>3, <1>4 DEF ToSet
  <1> QED
    BY <1>3, <1>5, <1>6 DEF Cards, OneCardEach

LEMMA FlaggedCard ==
  ASSUME NEW c \in Card, NEW k \in Kinds, NEW v \in {0, 1}
  PROVE  [c EXCEPT ![k] = v] \in Card /\ [c EXCEPT ![k] = v].id = c.id /\ c[k] \in {0, 1}
  BY DEF Card, Kinds

LEMMA FlaggedCards ==
  ASSUME FiniteNotes, NEW s \in Cards, NEW d, NEW k \in Kinds, NEW v \in {0, 1}
  PROVE  WithFlag(s, d, k, v) \in Cards
  <1>1. PICK t : t = [i \in DOMAIN s |-> IF s[i].id = d THEN [s[i] EXCEPT ![k] = v] ELSE s[i]]
    OBVIOUS
  <1>2. \A i \in DOMAIN s : s[i] \in Card
    BY DEF Cards
  <1>3. ASSUME NEW i \in DOMAIN s PROVE t[i] \in Card /\ t[i].id = s[i].id
    <2>1. s[i] \in Card
      BY <1>2
    <2>2. PICK e : e = [s[i] EXCEPT ![k] = v]
      OBVIOUS
    <2>3. e \in Card /\ e.id = s[i].id
      BY <2>1, <2>2, FlaggedCard
    <2>4. t[i] = e \/ t[i] = s[i]
      BY <1>1, <2>2
    <2> QED
      BY <2>1, <2>3, <2>4
  <1>4. t \in Cards
    BY <1>1, <1>3, CardsReplaced
  <1>5. WithFlag(s, d, k, v) = IF k = "pin" THEN sortDocs(t) ELSE t
    BY <1>1 DEF WithFlag
  <1> QED
    BY <1>4, <1>5, SortedCards

LEMMA ServerCards ==
  ASSUME FiniteNotes, CardsIInv, NEW f PROVE ServerList(f) \in Cards
  <1>1. PICK S : S = Selected(f)
    OBVIOUS
  <1>2. S \subseteq Notes /\ IsFiniteSet(S)
    BY <1>1, FS_Subset DEF Selected, FiniteNotes
  <1>3. PICK C : C = {[id |-> d, pin |-> flags[d].pin, star |-> flags[d].star] : d \in S}
    OBVIOUS
  <1>4. \A d \in S : flags[d].pin \in {0, 1} /\ flags[d].star \in {0, 1}
    BY <1>2 DEF CardsIInv, Kinds
  <1>5. C \subseteq Card /\ \A a, b \in C : a.id = b.id => a = b
    BY <1>2, <1>3, <1>4 DEF Card
  <1>6. IsFiniteSet(C)
    <2>1. PICK g : g = [d \in S |-> [id |-> d, pin |-> flags[d].pin, star |-> flags[d].star]]
      OBVIOUS
    <2>2. g \in Surjection(S, C)
      BY <1>3, <2>1 DEF Surjection
    <2> QED
      BY <1>2, <2>2, FS_Surjection
  <1>7. PICK s : s = SetToSeq(C)
    OBVIOUS
  <1>8. s \in Seq(Card) /\ IsInjective(s) /\ ToSet(s) = C
    BY <1>5, <1>6, <1>7, OneOfEach
  <1>9. s \in Cards
    BY <1>5, <1>8 DEF Cards, OneCardEach
  <1>10. ServerList(f) = sortDocs(s)
    BY <1>1, <1>3, <1>7 DEF ServerList
  <1> QED
    BY <1>9, <1>10, SortedCards

LEMMA PageCards ==
  ASSUME FiniteNotes, CardsIInv, NEW r, r.off \in Nat PROVE PageOf(r) \in Cards
  <1>1. PICK all \in Cards : all = ServerList(r.f)
    BY ServerCards
  <1>2. CASE r.f.view = "shared"
    <2>1. PICK t : t = [i \in 1..Len(all) |-> SharedItem(all[i])]
      OBVIOUS
    <2>2. DOMAIN all = 1..Len(all) /\ \A i \in DOMAIN all : all[i] \in Card
      BY DEF Cards
    <2>3. \A c \in Card : SharedItem(c) \in Card /\ SharedItem(c).id = c.id
      BY DEF SharedItem, Card
    <2>4. t \in Cards
      BY <2>1, <2>2, <2>3, CardsReplaced
    <2> QED
      BY <1>1, <1>2, <2>1, <2>4 DEF PageOf
  <1>3. CASE r.f.view # "shared"
    <2>5. PICK off \in Nat : off = r.off
      OBVIOUS
    <2>1. PICK page : page = Window(all, off)
      OBVIOUS
    <2>2. all \in Seq(Card) /\ OneCardEach(all)
      BY DEF Cards
    <2>3. page \in Seq(Card) /\ ToSet(page) \subseteq ToSet(all) /\ IsInjective(page)
      BY <2>1, <2>2, PageOfList DEF Window, FiniteNotes, OneCardEach
    <2>4. page \in Cards
      BY <2>2, <2>3 DEF Cards, OneCardEach
    <2> QED
      BY <1>1, <1>3, <2>5, <2>1, <2>4 DEF PageOf
  <1> QED
    BY <1>2, <1>3

\* The rows of a page that the list does not have.
LEMMA CardsJoined ==
  ASSUME NEW s \in Cards, NEW got \in Cards
  PROVE  s \o Within(got, {c \in Card : c.id \notin Ids(s)}) \in Cards
  <1> DEFINE new == {c \in Card : c.id \notin Ids(s)}
  <1>1. PICK w : w = Within(got, new)
    OBVIOUS
  <1>2. s \in Seq(Card) /\ OneCardEach(s) /\ got \in Seq(Card) /\ OneCardEach(got)
    BY DEF Cards
  <1>3. w \in Seq(Card) /\ ToSet(w) = ToSet(got) \cap new /\ IsInjective(w)
    <2> HIDE DEF new
    <2> QED
      BY <1>1, <1>2, WithinKeeps DEF OneCardEach
  <1>4. \A a \in ToSet(s), b \in ToSet(w) : a.id # b.id
    BY <1>3 DEF ToSet, Ids
  <1>5. PICK t : t = s \o w
    OBVIOUS
  <1>6. t \in Seq(Card) /\ ToSet(t) = ToSet(s) \cup ToSet(w)
    BY <1>2, <1>3, <1>5, ValuesJoined
  <1>7. IsInjective(t)
    <2>1. ToSet(s) \cap ToSet(w) = {}
      BY <1>4
    <2> QED
      BY <1>2, <1>3, <1>5, <2>1, InjectiveJoined DEF OneCardEach
  <1>8. \A a, b \in ToSet(t) : a.id = b.id => a = b
    BY <1>2, <1>3, <1>4, <1>6 DEF OneCardEach
  <1> QED
    BY <1>1, <1>5, <1>6, <1>7, <1>8 DEF Cards, OneCardEach

LEMMA BrokenCards ==
  ASSUME NEW l, CardList(l), NEW cut \in BOOLEAN
  PROVE  CardList(Broken(l, cut)) /\ Broken(l, cut).next = l.next
  BY DEF CardList, ListStates, Broken

LEMMA StartedCards ==
  ASSUME NEW l, CardList(l), NEW off \in Nat, NEW append \in BOOLEAN
  PROVE  CardList(Started(l, off, append))
  <1>1. PICK none \in Cards : none = <<>>
    BY NoCards
  <1>2. PICK r : r = [f |-> filter, off |-> off, append |-> append, phase |-> "wire", got |-> none]
    OBVIOUS
  <1>3. CardFetch(r)
    BY <1>2 DEF CardFetch, Fetches
  <1>4. Started(l, off, append) = IF append
                                  THEN [l EXCEPT !.cur = {r}, !.busy = TRUE, !.more = TRUE, !.moreErr = FALSE]
                                  ELSE [l EXCEPT !.cur = {r}, !.busy = TRUE, !.loading = TRUE, !.err = FALSE]
    BY <1>1, <1>2 DEF Started
  <1>5. PICK m : m = Started(l, off, append)
    OBVIOUS
  <1>6. m \in ListStates(m) /\ m.docs = l.docs /\ m.next = l.next /\ m.cur = {r}
    BY <1>4, <1>5 DEF CardList, ListStates
  <1> QED
    BY <1>3, <1>5, <1>6 DEF CardList

LEMMA FetchedCards ==
  ASSUME CardsIInv, NEW l, CardList(l), NEW off \in Nat, NEW append \in BOOLEAN, fetchDocs(l, off, append)
  PROVE  CardList(list') /\ \A r \in late' : CardFetch(r)
  <1>1. CASE l.busy
    BY <1>1 DEF fetchDocs, CardsIInv
  <1>2. CASE ~l.busy
    <2>1. PICK cut \in BOOLEAN : list' = Started(Broken(l, cut), off, append) /\ late' = late \cup NowLate(l)
      BY <1>2 DEF fetchDocs, MayCut
    <2>2. PICK b : b = Broken(l, cut)
      OBVIOUS
    <2>3. CardList(list')
      BY <2>1, <2>2, BrokenCards, StartedCards
    <2> QED
      BY <2>1, <2>3 DEF NowLate, CardsIInv, CardList
  <1> QED
    BY <1>1, <1>2

LEMMA PagedCards ==
  ASSUME FiniteNotes, NEW l, CardList(l), NEW r, CardFetch(r)
  PROVE  CardList(Paged(l, r)) /\ CardList(Done(Paged(l, r)))
  <1>1. l.docs \in Cards /\ r.got \in Cards /\ r.off \in Nat
    BY DEF CardList, CardFetch
  <1>2. PICK more \in Cards : more = l.docs \o Within(r.got, {c \in Card : c.id \notin Ids(l.docs)})
    BY <1>1, CardsJoined
  <1>3. PICK all \in Cards : all = sortDocs(r.got)
    BY <1>1, SortedCards
  <1>4. Shown(l, r) = IF r.append THEN [l EXCEPT !.docs = more] ELSE [l EXCEPT !.docs = all, !.origin = r.f, !.stray = FALSE]
    BY <1>2, <1>3 DEF Shown, CardList, ListStates
  <1>5. PICK s : s = Shown(l, r)
    OBVIOUS
  <1>6. CardList(s)
    BY <1>4, <1>5 DEF CardList, ListStates
  <1>7. PICK n \in Nat : n = r.off + Len(r.got)
    BY <1>1 DEF Cards
  <1>8. PICK b \in BOOLEAN : b = (Len(r.got) = PageSize)
    OBVIOUS
  <1>9. Paged(l, r) = IF r.f.view = "shared" THEN [l EXCEPT !.hasMore = FALSE, !.next = 0]
                      ELSE [s EXCEPT !.hasMore = b, !.next = n]
    BY <1>5, <1>7, <1>8 DEF Paged
  <1>10. PICK p : p = Paged(l, r)
    OBVIOUS
  <1>13. ASSUME r.f.view = "shared" PROVE CardList(p)
    <2>1. p = [l EXCEPT !.hasMore = FALSE, !.next = 0]
      BY <1>9, <1>10, <1>13
    <2> QED
      BY <2>1 DEF CardList, ListStates
  <1>14. ASSUME r.f.view # "shared" PROVE CardList(p)
    <2>1. p = [s EXCEPT !.hasMore = b, !.next = n]
      BY <1>9, <1>10, <1>14
    <2> QED
      BY <1>6, <2>1 DEF CardList, ListStates
  <1>11. CardList(p)
    BY <1>13, <1>14
  <1>12. CardList(Done(p))
    BY <1>11 DEF CardList, ListStates, Done
  <1> QED
    BY <1>10, <1>11, <1>12

\* The filter changes, the timer fires, and the list is scrolled.
LEMMA FilterCards ==
  ASSUME FiniteNotes, CardsIInv, (\E f : SetFilter(f)) \/ Debounced \/ LoadMore \/ retryInitial \/ retryLoadMore
  PROVE  CardsIInv'
  <1>1. CardList(list) /\ list.next \in Nat /\ list.docs \in Cards /\ UNCHANGED <<flags, puts>>
    BY DEF CardsIInv, CardList, SetFilter, Debounced, LoadMore, retryInitial, retryLoadMore
  <1>2. CASE \E f : SetFilter(f)
    <2>1. PICK cut \in BOOLEAN : list' = Broken(list, cut) /\ late' = late \cup NowLate(list)
      BY <1>2 DEF SetFilter, MayCut
    <2>2. CardList(list')
      BY <1>1, <2>1, BrokenCards
    <2>3. \A r \in late' : CardFetch(r)
      BY <2>1 DEF NowLate, CardsIInv, CardList
    <2> QED
      BY <1>1, <2>2, <2>3 DEF CardsIInv
  <1>3. CASE Debounced
    <2>1. PICK none \in Cards : none = <<>>
      BY NoCards
    <2>2. PICK l : l = [list EXCEPT !.docs = none, !.hasMore = TRUE, !.next = 0, !.loading = TRUE,
                            !.err = FALSE, !.moreErr = FALSE, !.more = FALSE,
                            !.busy = FALSE, !.origin = "none", !.stray = FALSE]
      OBVIOUS
    <2>3. CardList(l)
      BY <1>1, <2>2 DEF CardList, ListStates
    <2>4. fetchDocs(l, 0, FALSE)
      BY <1>3, <2>1, <2>2 DEF Debounced
    <2>5. CardList(list') /\ \A r \in late' : CardFetch(r)
      BY <2>3, <2>4, FetchedCards
    <2> QED
      BY <1>1, <2>5 DEF CardsIInv
  <1>4. CASE LoadMore \/ retryInitial \/ retryLoadMore
    <2>1. PICK l : l = [list EXCEPT !.busy = FALSE]
      OBVIOUS
    <2>2. CardList(l)
      BY <1>1, <2>1 DEF CardList, ListStates
    <2>3. fetchDocs(list, list.next, TRUE) \/ fetchDocs(l, 0, FALSE) \/ fetchDocs(l, list.next, TRUE)
      BY <1>4, <2>1 DEF LoadMore, retryInitial, retryLoadMore
    <2>4. CardList(list') /\ \A r \in late' : CardFetch(r)
      BY <1>1, <2>2, <2>3, FetchedCards
    <2> QED
      BY <1>1, <2>4 DEF CardsIInv
  <1> QED
    BY <1>2, <1>3, <1>4

\* A fetch goes on or ends.
LEMMA AnsweredCards ==
  ASSUME FiniteNotes, CardsIInv, ReadList \/ ListAnswer \/ TagsAnswer \/ LateTagsAnswer \/ ListFails
  PROVE  CardsIInv'
  <1>1. CardList(list) /\ (\A r \in list.cur : CardFetch(r)) /\ (\A r \in late : CardFetch(r)) /\ UNCHANGED <<flags, puts>>
    BY DEF CardsIInv, CardList, ReadList, ListAnswer, TagsAnswer, LateTagsAnswer, ListFails
  <1>2. ASSUME CardList(list'), late' \subseteq late PROVE CardsIInv'
    BY <1>1, <1>2 DEF CardsIInv
  <1>3. CASE ReadList
    <2>1. PICK r \in list.cur : list' = [list EXCEPT !.cur = {[r EXCEPT !.phase = "read", !.got = PageOf(r)]}]
      BY <1>3 DEF ReadList
    <2>2. CardFetch(r) /\ r.off \in Nat
      BY <1>1 DEF CardFetch
    <2>3. PICK got \in Cards : got = PageOf(r)
      BY <2>2, PageCards
    <2>4. PICK q : q = [r EXCEPT !.phase = "read", !.got = got]
      OBVIOUS
    <2>5. CardFetch(q)
      BY <2>2, <2>4 DEF CardFetch, Fetches
    <2>6. list' = [list EXCEPT !.cur = {q}]
      BY <2>1, <2>3, <2>4
    <2>7. CardList(list')
      BY <1>1, <2>5, <2>6 DEF CardList, ListStates
    <2> QED
      BY <1>2, <1>3, <2>7 DEF ReadList
  <1>4. CASE ListAnswer
    <2>8. PICK r \in list.cur : \E l :
            /\ l = (IF r.f.view = "shared" THEN [list EXCEPT !.docs = r.got, !.origin = r.f, !.stray = FALSE] ELSE list)
            /\ list' = [l EXCEPT !.cur = {[r EXCEPT !.phase = "tags"]}] \/ list' = Done(Paged(l, r))
      BY <1>4 DEF ListAnswer
    <2>1. PICK l :
            /\ l = (IF r.f.view = "shared" THEN [list EXCEPT !.docs = r.got, !.origin = r.f, !.stray = FALSE] ELSE list)
            /\ list' = [l EXCEPT !.cur = {[r EXCEPT !.phase = "tags"]}] \/ list' = Done(Paged(l, r))
      BY <2>8
    <2>2. CardFetch(r) /\ r.got \in Cards
      BY <1>1 DEF CardFetch
    <2>3. CardList(l)
      BY <1>1, <2>1, <2>2 DEF CardList, ListStates
    <2>4. PICK q : q = [r EXCEPT !.phase = "tags"]
      OBVIOUS
    <2>5. CardFetch(q)
      BY <2>2, <2>4 DEF CardFetch, Fetches
    <2>6. CASE list' = [l EXCEPT !.cur = {q}]
      <3>1. CardList(list')
        BY <2>3, <2>5, <2>6 DEF CardList, ListStates
      <3> QED
        BY <1>2, <1>4, <3>1 DEF ListAnswer
    <2>7. CASE list' = Done(Paged(l, r))
      <3>1. CardList(list')
        BY <2>2, <2>3, <2>7, PagedCards
      <3> QED
        BY <1>2, <1>4, <3>1 DEF ListAnswer
    <2> QED
      BY <2>1, <2>4, <2>6, <2>7
  <1>5. CASE TagsAnswer
    <2>1. CardList(list')
      BY <1>1, <1>5, PagedCards DEF TagsAnswer
    <2> QED
      BY <1>2, <1>5, <2>1 DEF TagsAnswer
  <1>6. CASE LateTagsAnswer
    <2>2. PICK r \in late : list' = [Paged(list, r) EXCEPT !.stray = @ \/ (r.f.view # "shared" /\ r.f # filter)]
      BY <1>6 DEF LateTagsAnswer
    <2>3. PICK m : m = Paged(list, r)
      OBVIOUS
    <2>4. CardList(m)
      BY <1>1, <2>3, PagedCards
    <2>1. CardList(list')
      BY <2>2, <2>3, <2>4 DEF CardList, ListStates
    <2> QED
      BY <1>2, <1>6, <2>1 DEF LateTagsAnswer
  <1>7. CASE ListFails
    <2>1. PICK l : l = [list EXCEPT !.moreErr = TRUE] \/ l = [list EXCEPT !.err = TRUE]
      OBVIOUS
    <2>2. \E append : list' = Done(IF append THEN [list EXCEPT !.moreErr = TRUE] ELSE [list EXCEPT !.err = TRUE])
      BY <1>7 DEF ListFails
    <2>3. PICK m : list' = Done(m) /\ (m = [list EXCEPT !.moreErr = TRUE] \/ m = [list EXCEPT !.err = TRUE])
      BY <2>2
    <2>4. CardList(m)
      BY <1>1, <2>3 DEF CardList, ListStates
    <2>5. CardList(list')
      BY <2>3, <2>4 DEF CardList, ListStates, Done
    <2> QED
      BY <1>2, <1>7, <2>5 DEF ListFails
  <1> QED
    BY <1>3, <1>4, <1>5, <1>6, <1>7

\* The buttons of the cards and their requests.
LEMMA ToggledCards ==
  ASSUME FiniteNotes, TogglesNamed, CardsIInv,
         (\E t \in Toggles : runAction(t[1], t[2])) \/ ServerPut \/ PutAnswer \/ PutFails
  PROVE  CardsIInv'
  <1>1. CardList(list) /\ list.docs \in Cards /\ (\A r \in late : CardFetch(r))
        /\ flags \in [Notes -> [Kinds -> {0, 1}]] /\ puts \subseteq Put
    BY DEF CardsIInv, CardList
  <1>2. ASSUME NEW docs \in Cards, list' = [list EXCEPT !.docs = docs] PROVE CardList(list')
    BY <1>1, <1>2 DEF CardList, ListStates
  <1>3. CASE \E t \in Toggles : runAction(t[1], t[2])
    <2>1. PICK d \in Notes, k \in Kinds : runAction(d, k)
      BY <1>3 DEF TogglesNamed
    <2>2. PICK i \in DOMAIN list.docs : \E old, new :
            /\ old = list.docs[i][k] /\ new = 1 - old
            /\ list' = [list EXCEPT !.docs = WithFlag(@, d, k, new)]
            /\ puts' = puts \cup {[id |-> d, kind |-> k, old |-> old, new |-> new, phase |-> "wire"]}
      BY <2>1 DEF runAction
    <2>3. PICK old, new :
            /\ old = list.docs[i][k] /\ new = 1 - old
            /\ list' = [list EXCEPT !.docs = WithFlag(@, d, k, new)]
            /\ puts' = puts \cup {[id |-> d, kind |-> k, old |-> old, new |-> new, phase |-> "wire"]}
      BY <2>2
    <2>4. list.docs[i] \in Card
      BY <1>1 DEF Cards
    <2>5. old \in {0, 1}
      BY <2>3, <2>4, FlaggedCard
    <2>6. new \in {0, 1}
      BY <2>3, <2>5
    <2>7. PICK p : p = [id |-> d, kind |-> k, old |-> old, new |-> new, phase |-> "wire"]
      OBVIOUS
    <2>8. p \in Put
      BY <2>5, <2>6, <2>7 DEF Put
    <2>9. PICK docs \in Cards : docs = WithFlag(list.docs, d, k, new)
      BY <1>1, <2>6, FlaggedCards
    <2>10. CardList(list')
      BY <1>1, <1>2, <2>3, <2>9 DEF CardList, ListStates
    <2> QED
      BY <1>1, <2>1, <2>3, <2>7, <2>8, <2>10 DEF CardsIInv, runAction
  <1>4. CASE ServerPut
    <2>1. PICK p \in puts : /\ flags' = [flags EXCEPT ![p.id][p.kind] = p.new]
                            /\ puts' = (puts \ {p}) \cup {[p EXCEPT !.phase = "read"]}
      BY <1>4 DEF ServerPut
    <2>2. p \in Put /\ p.id \in Notes /\ p.kind \in Kinds /\ p.new \in {0, 1}
      BY <1>1 DEF Put
    <2>3. flags' \in [Notes -> [Kinds -> {0, 1}]]
      BY <1>1, <2>1, <2>2
    <2>4. PICK q : q = [p EXCEPT !.phase = "read"]
      OBVIOUS
    <2>5. q \in Put
      BY <2>2, <2>4 DEF Put
    <2> QED
      BY <1>1, <1>4, <2>1, <2>3, <2>4, <2>5 DEF CardsIInv, ServerPut
  <1>5. CASE PutAnswer
    <2>1. puts' \subseteq puts /\ UNCHANGED <<list, late, flags>>
      BY <1>5 DEF PutAnswer
    <2> QED
      BY <1>1, <2>1 DEF CardsIInv
  <1>6. CASE PutFails
    <2>1. PICK p \in puts : list' = [list EXCEPT !.docs = WithFlag(@, p.id, p.kind, p.old)]
      BY <1>6 DEF PutFails
    <2>2. p.kind \in Kinds /\ p.old \in {0, 1}
      BY <1>1 DEF Put
    <2>3. PICK docs \in Cards : docs = WithFlag(list.docs, p.id, p.kind, p.old)
      BY <1>1, <2>2, FlaggedCards
    <2>4. CardList(list')
      BY <1>1, <1>2, <2>1, <2>3 DEF CardList, ListStates
    <2>5. puts' \subseteq puts /\ UNCHANGED <<late, flags>>
      BY <1>6 DEF PutFails
    <2> QED
      BY <1>1, <2>4, <2>5 DEF CardsIInv
  <1> QED
    BY <1>3, <1>4, <1>5, <1>6

LEMMA ListStartCards == CardList(ListStart)
  <1>1. PICK none \in Cards : none = <<>>
    BY NoCards
  <1> QED
    BY <1>1 DEF CardList, ListStart, ListStates

LEMMA CardSteps == ASSUME FiniteNotes, TogglesNamed, CardsIInv, [DocsNext]_docsVars PROVE CardsIInv'
  <1>1. CASE (\E q \in Queries : setSearch(q)) \/ (\E v \in Views : showView(v)) \/ (\E t \in Tags : pickSuggested(t))
             \/ clearAll
    <2>1. \E f : SetFilter(f)
      BY Zenon, <1>1 DEF setSearch, showView, pickSuggested, clearAll
    <2> QED
      BY <2>1, FilterCards
  <1>2. CASE Reopen
    <2>1. list' = ListStart /\ late' = {} /\ puts' = {} /\ UNCHANGED flags
      BY <1>2 DEF Reopen
    <2> QED
      BY <2>1, ListStartCards DEF CardsIInv
  <1>3. CASE SemAnswer \/ UNCHANGED docsVars
    <2>1. UNCHANGED <<list, late, flags, puts>>
      BY <1>3 DEF SemAnswer, docsVars
    <2> QED
      BY <2>1 DEF CardsIInv
  <1> QED
    BY <1>1, <1>2, <1>3, FilterCards, AnsweredCards, ToggledCards DEF DocsNext, Use, React

LEMMA CardsStart == ASSUME DocsInit PROVE CardsIInv
  BY ListStartCards DEF DocsInit, CardsIInv

LEMMA CardsDiffer == ASSUME CardsIInv PROVE NoDuplicateCards
  <1>1. list.docs \in Cards
    BY DEF CardsIInv, CardList
  <1> QED
    BY <1>1 DEF Cards, OneCardEach, NoDuplicateCards, ToSet, IsInjective

\* useDocsData: no note has two cards, although notes move between the pages while one
\* scrolls, and cards are pinned, failed toggles taken back and cancelled fetches late.
THEOREM OneCardForEachNote == ASSUME FiniteNotes, TogglesNamed PROVE DocsSpec => []NoDuplicateCards
  <1>1. DocsInit => CardsIInv
    BY CardsStart
  <1>2. CardsIInv /\ [DocsNext]_docsVars => CardsIInv'
    BY CardSteps
  <1>3. CardsIInv => NoDuplicateCards
    BY CardsDiffer
  <1> QED
    BY <1>1, <1>2, <1>3, PTL DEF DocsSpec

-----------------------------------------------------------------------------
(* The linked notes. The server's clock is past every save the client has   *)
(* heard of, so a page that is read now is past them too; a save that is    *)
(* heard of later drops the request that was read before it.                *)

\* What the panel of the linked notes is made of.
LinkStates(l) == [open : BOOLEAN, status : {"idle", "loading", "ready", "error"}, refreshing : BOOLEAN,
                  refreshError : BOOLEAN, loaded : BOOLEAN, page : {l.page}, more : {l.more}, moreError : {l.moreError}]
LinksIInv ==
  /\ links \in LinkStates(links)
  /\ clock \in Nat /\ saved \in 0..clock /\ heard \in 0..clock /\ readAt \in Nat
  /\ \A r \in refreshReq : r.phase = "read" => r.at \in Nat /\ r.at >= heard
  /\ FreshIsAfterSave /\ LinksNeverStuck

LEMMA StartedLinks ==
  ASSUME NEW l, l \in LinkStates(l)
  PROVE  /\ refreshStarted(l) \in LinkStates(refreshStarted(l))
         /\ refreshStarted(l).more = {}
  BY DEF LinkStates, refreshStarted

LEMMA AnsweredLinks ==
  ASSUME NEW l, l \in LinkStates(l), NEW got
  PROVE  /\ refreshSucceeded(l, got) \in LinkStates(refreshSucceeded(l, got))
         /\ refreshSucceeded(l, got).more = {}
         /\ refreshSucceeded(l, got).status = "ready" /\ ~refreshSucceeded(l, got).refreshing
         /\ refreshFailed(l) \in LinkStates(refreshFailed(l))
         /\ refreshFailed(l).more = l.more
         /\ refreshFailed(l).status \in {"ready", "error"} /\ ~refreshFailed(l).refreshing
  BY DEF LinkStates, refreshSucceeded, refreshFailed

LEMMA PagedLinks ==
  ASSUME NEW l, l \in LinkStates(l), NEW x, NEW got
  PROVE  /\ loadMoreSucceeded(l, x, got) \in LinkStates(loadMoreSucceeded(l, x, got))
         /\ loadMoreSucceeded(l, x, got).more = {}
         /\ loadMoreSucceeded(l, x, got).status = l.status
         /\ loadMoreSucceeded(l, x, got).refreshing = l.refreshing
  <1>1. PICK page : page = [l.page EXCEPT ![x] = [rows |-> appendUnique(@.rows, got.rows), next |-> got.next]]
    OBVIOUS
  <1>2. loadMoreSucceeded(l, x, got) = [l EXCEPT !.page = page, !.more = {}, !.moreError = {}]
    BY <1>1 DEF loadMoreSucceeded, LinkStates
  <1> QED
    BY <1>2 DEF LinkStates

LEMMA RefreshedLinks ==
  ASSUME LinksIInv, NEW l, l \in LinkStates(l), refresh(l)
  PROVE  /\ links' \in LinkStates(links)' /\ LinksNeverStuck'
         /\ \A r \in refreshReq' : r.phase # "read"
  <1>1. links' = refreshStarted(l) /\ refreshReq' = {NewRefresh}
    BY DEF refresh, started
  <1> QED
    BY <1>1, StartedLinks DEF LinksNeverStuck, NewRefresh

LEMMA ServerSaves == ASSUME LinksIInv, OthersSave \/ SaveAccepted PROVE LinksIInv'
  <1>1. /\ clock' = clock + 1 /\ (saved' = saved \/ saved' = clock + 1)
        /\ UNCHANGED <<links, meta, refreshReq, moreReq, heard, readAt>>
    BY DEF OthersSave, SaveAccepted
  <1>2. links' \in LinkStates(links)' /\ LinksNeverStuck' /\ FreshIsAfterSave'
    BY <1>1 DEF LinksIInv, LinksNeverStuck, FreshIsAfterSave
  <1> QED
    BY <1>1, <1>2 DEF LinksIInv

LEMMA RefreshSteps == ASSUME LinksIInv, ReadRefresh \/ RefreshAnswer \/ RefreshFails PROVE LinksIInv'
  <1>1. CASE ReadRefresh
    <2>0. PICK got : got = [x \in Directions |-> PageAfter(doc, x, End)]
      OBVIOUS
    <2>1. PICK r \in refreshReq :
            /\ refreshReq' = (refreshReq \ {r}) \cup {[phase |-> "read", at |-> clock, got |-> got]}
            /\ UNCHANGED <<doc, links, meta, moreReq, world, clock, saved, heard, readAt>>
      BY <1>1, <2>0 DEF ReadRefresh
    <2>2. links' \in LinkStates(links)' /\ LinksNeverStuck' /\ FreshIsAfterSave'
      BY <2>1 DEF LinksIInv, LinksNeverStuck, FreshIsAfterSave
    <2> QED
      BY <2>1, <2>2 DEF LinksIInv
  <1>2. CASE RefreshAnswer
    <2>1. PICK r \in refreshReq : /\ r.phase = "read" /\ links' = refreshSucceeded(links, r.got)
                                  /\ readAt' = r.at /\ refreshReq' = refreshReq \ {r}
                                  /\ UNCHANGED <<doc, moreReq, world, clock, saved, heard>>
      BY <1>2 DEF RefreshAnswer
    <2>2. links' \in LinkStates(links)' /\ LinksNeverStuck'
      BY <2>1, AnsweredLinks DEF LinksIInv, LinksNeverStuck
    <2>3. r.at \in Nat /\ r.at >= heard
      BY <2>1 DEF LinksIInv
    <2>4. FreshIsAfterSave'
      BY <2>1, <2>3 DEF FreshIsAfterSave
    <2> QED
      BY <2>1, <2>2, <2>3, <2>4 DEF LinksIInv
  <1>3. CASE RefreshFails
    <2>1. PICK r \in refreshReq : /\ links' = refreshFailed(links) /\ refreshReq' = refreshReq \ {r}
                                  /\ UNCHANGED <<doc, meta, moreReq, world, clock, saved, heard, readAt>>
      BY <1>3 DEF RefreshFails
    <2>2. links' \in LinkStates(links)' /\ LinksNeverStuck' /\ FreshIsAfterSave'
      BY <2>1, AnsweredLinks DEF LinksIInv, LinksNeverStuck, FreshIsAfterSave
    <2> QED
      BY <2>1, <2>2 DEF LinksIInv
  <1> QED
    BY <1>1, <1>2, <1>3

LEMMA MoreSteps == ASSUME LinksIInv, ReadMore \/ MoreAnswer \/ MoreFails \/ (\E x \in Directions : loadMore(x)) PROVE LinksIInv'
  <1>1. UNCHANGED <<meta, refreshReq, clock, saved, heard, readAt>>
    BY DEF ReadMore, MoreAnswer, MoreFails, loadMore
  <1>2. links' \in LinkStates(links)' /\ LinksNeverStuck'
    <2>1. CASE ReadMore
      BY <2>1 DEF ReadMore, LinksIInv, LinksNeverStuck
    <2>2. CASE MoreAnswer
      BY <2>2, PagedLinks DEF MoreAnswer, LinksIInv, LinksNeverStuck
    <2>3. CASE MoreFails
      BY <2>3 DEF MoreFails, LinksIInv, LinksNeverStuck, LinkStates
    <2>4. ASSUME NEW x \in Directions, loadMore(x) PROVE links' \in LinkStates(links)' /\ LinksNeverStuck'
      BY <2>4 DEF loadMore, started, LinksIInv, LinksNeverStuck, LinkStates
    <2> QED
      BY <2>1, <2>2, <2>3, <2>4
  <1>3. FreshIsAfterSave'
    BY <1>1 DEF LinksIInv, FreshIsAfterSave
  <1> QED
    BY <1>1, <1>2, <1>3 DEF LinksIInv

LEMMA PanelSteps ==
  ASSUME LinksIInv, openPanel \/ closePanel \/ retry \/ CacheExpires \/ RevisionChanges \/ \E d \in LinkDocs : OpenDocument(d)
  PROVE  LinksIInv'
  <1>1. ASSUME NEW l, l \in LinkStates(l), refresh(l), UNCHANGED <<clock, saved, readAt>>, heard' \in 0..clock,
               meta' # "fresh" \/ UNCHANGED <<meta, heard>>
        PROVE  LinksIInv'
    <2>1. FreshIsAfterSave'
      BY <1>1 DEF LinksIInv, FreshIsAfterSave
    <2> QED
      BY <1>1, <2>1, RefreshedLinks DEF LinksIInv
  <1>2. ASSUME links' \in LinkStates(links)', LinksNeverStuck', UNCHANGED <<refreshReq, clock, saved, heard, readAt>>,
               meta' = "fresh" => meta = "fresh"
        PROVE  LinksIInv'
    <2>1. FreshIsAfterSave'
      BY <1>2 DEF LinksIInv, FreshIsAfterSave
    <2> QED
      BY <1>2, <2>1 DEF LinksIInv
  <1>3. CASE openPanel
    <2>1. PICK l : l = [links EXCEPT !.open = TRUE]
      OBVIOUS
    <2>2. l \in LinkStates(l) /\ l.status = links.status /\ l.refreshing = links.refreshing /\ l.more = links.more
      BY <2>1 DEF LinksIInv, LinkStates
    <2>3. /\ UNCHANGED <<meta, clock, saved, heard, readAt>>
          /\ refresh(l) \/ (links' = l /\ UNCHANGED <<refreshReq, moreReq>>)
      BY <1>3, <2>1 DEF openPanel
    <2>4. CASE refresh(l)
      BY <1>1, <2>2, <2>3, <2>4 DEF LinksIInv
    <2>5. CASE links' = l /\ UNCHANGED <<refreshReq, moreReq>>
      <3>1. links' \in LinkStates(links)' /\ LinksNeverStuck'
        BY <2>2, <2>5 DEF LinksIInv, LinksNeverStuck
      <3> QED
        BY <1>2, <2>3, <2>5, <3>1
    <2> QED
      BY <2>3, <2>4, <2>5
  <1>4. CASE closePanel
    <2>1. links' \in LinkStates(links)' /\ LinksNeverStuck'
      BY <1>4 DEF closePanel, LinksIInv, LinksNeverStuck, LinkStates
    <2> QED
      BY <1>2, <1>4, <2>1 DEF closePanel
  <1>5. CASE CacheExpires
    <2>1. links' \in LinkStates(links)' /\ LinksNeverStuck'
      BY <1>5 DEF CacheExpires, LinksIInv, LinksNeverStuck
    <2> QED
      BY <1>2, <1>5, <2>1 DEF CacheExpires
  <1>6. CASE retry
    BY <1>1, <1>6 DEF retry, LinksIInv
  <1>7. CASE RevisionChanges
    BY <1>1, <1>7 DEF RevisionChanges, LinksIInv
  <1>8. CASE \E d \in LinkDocs : OpenDocument(d)
    <2>1. /\ links' = refreshStarted(LinksStart) /\ meta' = "none" /\ refreshReq' = {NewRefresh}
          /\ saved' = 0 /\ heard' = 0 /\ readAt' = 0 /\ clock' = clock
      BY <1>8 DEF OpenDocument
    <2>2. LinksStart \in LinkStates(LinksStart)
      BY DEF LinksStart, LinkStates
    <2>3. links' \in LinkStates(links)' /\ LinksNeverStuck' /\ FreshIsAfterSave'
      BY <2>1, <2>2, StartedLinks DEF LinksNeverStuck, FreshIsAfterSave
    <2> QED
      BY <2>1, <2>3 DEF LinksIInv, NewRefresh
  <1> QED
    BY <1>3, <1>4, <1>5, <1>6, <1>7, <1>8

LEMMA LinksSound == ASSUME LinksIInv, [LinksNext]_linksVars PROVE LinksIInv'
  <1>1. CASE UNCHANGED linksVars
    <2>1. links' \in LinkStates(links)' /\ LinksNeverStuck' /\ FreshIsAfterSave'
      BY <1>1 DEF linksVars, LinksIInv, LinksNeverStuck, FreshIsAfterSave
    <2> QED
      BY <1>1, <2>1 DEF linksVars, LinksIInv
  <1> QED
    BY <1>1, ServerSaves, RefreshSteps, MoreSteps, PanelSteps DEF LinksNext, LinksReact, LinksUse

LEMMA LinksStarts == ASSUME LinksInit PROVE LinksIInv
  <1>1. LinksStart \in LinkStates(LinksStart)
    BY DEF LinksStart, LinkStates
  <1>2. links \in LinkStates(links) /\ LinksNeverStuck /\ FreshIsAfterSave
    BY <1>1, StartedLinks DEF LinksInit, LinksNeverStuck, FreshIsAfterSave
  <1> QED
    BY <1>2 DEF LinksInit, LinksIInv, NewRefresh

\* useDocumentLinks: whatever request is replaced, answered or lost, a load indicator of the
\* panel has a request behind it, and the cache never vouches for rows that are older than a
\* save the editor has heard of.
THEOREM LinksAreFresh == LinksSpec => [](FreshIsAfterSave /\ LinksNeverStuck)
  <1>1. LinksInit => LinksIInv
    BY LinksStarts
  <1>2. LinksIInv /\ [LinksNext]_linksVars => LinksIInv'
    BY LinksSound
  <1>3. LinksIInv => FreshIsAfterSave /\ LinksNeverStuck
    BY DEF LinksIInv
  <1> QED
    BY <1>1, <1>2, <1>3, PTL DEF LinksSpec

-----------------------------------------------------------------------------
(* Paging through the linked notes. Every page that is shown or under way   *)
(* covers the relations of its time: a row, or behind the cursor. The next  *)
(* page is asked for only while no refresh is, and starts at the cursor.    *)

LinkNumbers == MaxClock \in Nat /\ LinkPage \in Nat \ {0}

RelationPage    == [rows : Seq(Relation), next : Int]
MoreRequest     == [dir : Directions, cursor : Int, phase : {"wire", "read"}, got : RelationPage]
HasRow(rows, o) == \E i \in DOMAIN rows : rows[i].id = o
\* The relations that were there at the time t, in the page of a direction.
Covers(p, x, t) == \A q \in world[doc][x] : q.at <= t => HasRow(p.rows, q.id) \/ q.at < p.next

WorldSound ==
  /\ world \in [LinkDocs -> [Directions -> SUBSET Relation]] /\ doc \in LinkDocs /\ clock <= MaxClock
  /\ \A d \in LinkDocs, x \in Directions :
       /\ IsFiniteSet(world[d][x])
       /\ \A q \in world[d][x] : q.at <= clock
       /\ \A q, s \in world[d][x] : q.at = s.at => q = s
RefreshSound ==
  /\ \A r, s \in refreshReq : r = s
  /\ refreshReq # {} => (links.status = "loading" \/ links.refreshing) /\ moreReq = {}
  /\ \A r \in refreshReq : r.phase = "read" =>
       r.at \in 0..clock /\ r.got \in [Directions -> RelationPage] /\ \A x \in Directions : Covers(r.got[x], x, r.at)
MoreSound ==
  /\ \A r, s \in moreReq : r = s
  /\ \A r \in moreReq :
       /\ r \in MoreRequest /\ r.cursor = links.page[r.dir].next
       /\ r.phase = "read" => \A q \in world[doc][r.dir] :
            q.at <= readAt /\ q.at < r.cursor => HasRow(r.got.rows, q.id) \/ q.at < r.got.next
PagesCover == /\ links.page \in [Directions -> RelationPage] /\ readAt <= clock
              /\ links.loaded => \A x \in Directions : Covers(links.page[x], x, readAt)
CoverIInv == LinksIInv /\ WorldSound /\ RefreshSound /\ MoreSound /\ PagesCover

\* A page of the server: what it leaves out comes after its last row.
LEMMA AnsweredPage ==
  ASSUME LinkNumbers, WorldSound, NEW d \in LinkDocs, NEW x \in Directions, NEW cursor \in Int
  PROVE  /\ PageAfter(d, x, cursor) \in RelationPage
         /\ \A q \in world[d][x] : cursor = End \/ q.at < cursor =>
              HasRow(PageAfter(d, x, cursor).rows, q.id) \/ q.at < PageAfter(d, x, cursor).next
  <1>1. PICK S : S = {r \in world[d][x] : cursor = End \/ r.at < cursor}
    OBVIOUS
  <1>2. /\ S \subseteq Relation /\ S \subseteq world[d][x] /\ IsFiniteSet(S)
        /\ \A q, s \in S : q.at = s.at => q = s
    BY <1>1, FS_Subset DEF WorldSound
  <1>3. \A q \in Relation : q.at \in Int
    BY DEF Relation
  <1>4. PICK s : s = SetToSeq(S)
    OBVIOUS
  <1>5. s \in Seq(Relation) /\ IsInjective(s) /\ ToSet(s) = S
    <2>1. s \in Seq(S) /\ IsInjective(s) /\ ToSet(s) = S
      BY <1>2, <1>4, OneOfEach
    <2> QED
      BY <1>2, <2>1
  <1>6. WeakOrder(Later, ToSet(s))
    <2>1. \A a, b \in Relation : <<a, b>> \in Later <=> a.at > b.at
      BY DEF Later
    <2>2. \A a, b, c \in Relation : /\ <<a, a>> \notin Later
                                    /\ <<a, b>> \in Later /\ <<b, c>> \in Later => <<a, c>> \in Later
                                    /\ <<a, c>> \in Later => <<a, b>> \in Later \/ <<b, c>> \in Later
      <3> TAKE a, b, c \in Relation
      <3>1. a.at \in Int /\ b.at \in Int /\ c.at \in Int
        BY <1>3
      <3>2. /\ <<a, a>> \in Later <=> a.at > a.at
            /\ <<a, b>> \in Later <=> a.at > b.at
            /\ <<b, c>> \in Later <=> b.at > c.at
            /\ <<a, c>> \in Later <=> a.at > c.at
        BY <2>1
      <3> QED
        BY <3>1, <3>2
    <2> QED
      BY Zenon, <1>2, <1>5, <2>2 DEF WeakOrder
  <1>7. PICK rest : rest = SortedBy(s, Later)
    OBVIOUS
  <1>8. /\ rest \in Seq(Relation) /\ Len(rest) = Len(s) /\ ToSet(rest) = S /\ IsInjective(rest)
        /\ \A m, n \in DOMAIN s : m < n => <<rest[n], rest[m]>> \notin Later
    BY <1>5, <1>6, <1>7, Sorts
  <1>9. DOMAIN rest = 1..Len(rest) /\ DOMAIN s = 1..Len(rest) /\ Len(rest) \in Nat
    BY <1>5, <1>8
  <1>10. \A m, n \in 1..Len(rest) : m < n => rest[n].at < rest[m].at
    <2> SUFFICES ASSUME NEW m \in 1..Len(rest), NEW n \in 1..Len(rest), m < n PROVE rest[n].at < rest[m].at
      OBVIOUS
    <2>1. rest[m] \in S /\ rest[n] \in S /\ rest[m] # rest[n]
      BY <1>8, <1>9 DEF ToSet, IsInjective
    <2>2. rest[m] \in Relation /\ rest[n] \in Relation /\ <<rest[n], rest[m]>> \notin Later
      BY <1>2, <1>8, <1>9, <2>1
    <2>3. ~(rest[n].at > rest[m].at)
      BY <2>2 DEF Later
    <2> QED
      BY <1>2, <1>3, <2>1, <2>2, <2>3
  <1>11. PICK p : p = PageAfter(d, x, cursor)
    OBVIOUS
  <1>12. p = IF Len(rest) <= LinkPage THEN [rows |-> rest, next |-> End]
             ELSE [rows |-> SubSeq(rest, 1, LinkPage), next |-> rest[LinkPage].at]
    BY <1>1, <1>4, <1>7, <1>11 DEF PageAfter
  <1>13. \A q \in world[d][x] : cursor = End \/ q.at < cursor => \E i \in 1..Len(rest) : rest[i] = q
    <2>1. \A q \in S : \E i \in 1..Len(rest) : rest[i] = q
      BY <1>8, <1>9 DEF ToSet
    <2> QED
      BY <1>1, <2>1
  <1>14. /\ p \in RelationPage
         /\ \A q \in world[d][x] : cursor = End \/ q.at < cursor => HasRow(p.rows, q.id) \/ q.at < p.next
    <2>1. CASE Len(rest) <= LinkPage
      <3>1. p = [rows |-> rest, next |-> End]
        BY <1>12, <2>1
      <3>2. p \in RelationPage /\ p.rows = rest
        BY <1>8, <3>1 DEF RelationPage, End
      <3> QED
        BY <1>9, <1>13, <3>2 DEF HasRow
    <2>2. CASE ~(Len(rest) <= LinkPage)
      <3>1. LinkPage \in 1..Len(rest) /\ LinkPage < Len(rest)
        BY <1>9, <2>2 DEF LinkNumbers
      <3>2. PICK rows : rows = SubSeq(rest, 1, LinkPage)
        OBVIOUS
      <3>3. rows \in Seq(Relation) /\ DOMAIN rows = 1..LinkPage /\ \A i \in 1..LinkPage : rows[i] = rest[i]
        BY <1>8, <1>9, <3>1, <3>2
      <3>4. PICK t \in Int : t = rest[LinkPage].at
        BY <1>3, <1>8, <1>9, <3>1
      <3>5. p = [rows |-> rows, next |-> t]
        BY <1>12, <2>2, <3>2, <3>4
      <3>6. p \in RelationPage /\ p.rows = rows /\ p.next = t
        BY <3>3, <3>5 DEF RelationPage
      <3>7. ASSUME NEW i \in 1..Len(rest) PROVE HasRow(rows, rest[i].id) \/ rest[i].at < t
        <4>1. CASE i <= LinkPage
          <5>1. i \in DOMAIN rows /\ rows[i] = rest[i]
            BY <1>9, <3>1, <3>3, <4>1
          <5> QED
            BY <5>1 DEF HasRow
        <4>2. CASE i > LinkPage
          BY <1>10, <3>1, <3>4, <4>2
        <4> QED
          BY <1>9, <3>1, <4>1, <4>2
      <3> QED
        BY <1>13, <3>6, <3>7
    <2> QED
      BY <2>1, <2>2
  <1> QED
    BY <1>11, <1>14

\* The rows of the next page that the list does not have.
LEMMA AppendedRows ==
  ASSUME NEW a \in Seq(Relation), NEW b \in Seq(Relation)
  PROVE  /\ appendUnique(a, b) \in Seq(Relation)
         /\ \A o : HasRow(a, o) \/ HasRow(b, o) => HasRow(appendUnique(a, b), o)
  <1> DEFINE new == {r \in Relation : \A i \in DOMAIN a : a[i].id # r.id}
  <1>1. PICK w : w = Within(b, new)
    OBVIOUS
  <1>2. w \in Seq(Relation) /\ ToSet(w) = ToSet(b) \cap new
    <2> HIDE DEF new
    <2> QED
      BY <1>1, WithinKeeps
  <1>3. PICK t : t = a \o w
    OBVIOUS
  <1>4. t \in Seq(Relation) /\ ToSet(t) = ToSet(a) \cup ToSet(w)
    BY <1>2, <1>3, ValuesJoined
  <1>5. \A s, o : HasRow(s, o) <=> \E r \in ToSet(s) : r.id = o
    BY DEF HasRow, ToSet
  <1>6. ToSet(b) \subseteq Relation
    BY DEF ToSet
  <1>7. ASSUME NEW o, HasRow(a, o) \/ HasRow(b, o) PROVE HasRow(t, o)
    <2>1. CASE HasRow(a, o)
      BY <1>4, <1>5, <2>1
    <2>2. CASE HasRow(b, o) /\ ~HasRow(a, o)
      <3>1. PICK r \in ToSet(b) : r.id = o
        BY <1>5, <2>2
      <3>2. r \in new
        BY <1>6, <2>2, <3>1 DEF HasRow
      <3>3. r \in ToSet(t)
        BY <1>2, <1>4, <3>1, <3>2
      <3> QED
        BY <1>5, <3>1, <3>3
    <2> QED
      BY <1>7, <2>1, <2>2
  <1>8. appendUnique(a, b) = t
    BY <1>1, <1>3 DEF appendUnique
  <1> QED
    BY Zenon, <1>4, <1>7, <1>8

LEMMA SamePages ==
  ASSUME CoverIInv, UNCHANGED <<doc, world, clock, readAt>>,
         links'.page = links.page, links'.loaded = links.loaded
  PROVE  WorldSound' /\ PagesCover'
  <1>1. WorldSound'
    BY DEF CoverIInv, WorldSound
  <1>2. PagesCover'
    BY DEF CoverIInv, PagesCover, Covers
  <1> QED
    BY <1>1, <1>2

\* A save elsewhere, or of the open note, is later than every page.
LEMMA SavedElsewhere ==
  ASSUME LinkNumbers, CoverIInv, OthersSave \/ SaveAccepted
  PROVE  WorldSound' /\ RefreshSound' /\ MoreSound' /\ PagesCover'
  <1>1. WorldSound /\ RefreshSound /\ MoreSound /\ PagesCover /\ clock \in Nat /\ MaxClock \in Nat
    BY DEF CoverIInv, LinksIInv, LinkNumbers
  <1>2. PICK d \in LinkDocs, x \in Directions, o \in Others : world' = Touched(d, x, o)
    BY <1>1 DEF OthersSave, SaveAccepted, Directions, WorldSound
  <1>3. clock < MaxClock /\ clock' = clock + 1 /\ UNCHANGED <<doc, links, refreshReq, moreReq, readAt>>
    BY DEF OthersSave, SaveAccepted
  <1>4. PICK c \in Nat : c = clock + 1 /\ c <= MaxClock /\ c \in 0..MaxClock
    BY <1>1, <1>3
  <1>5. PICK n : n = [id |-> o, at |-> c]
    OBVIOUS
  <1>6. n \in Relation /\ n.at = c
    BY <1>4, <1>5 DEF Relation
  <1>7. PICK kept : kept = {r \in world[d][x] : r.id # o}
    OBVIOUS
  <1>8. world' = [world EXCEPT ![d][x] = kept \cup {n}]
    BY <1>2, <1>4, <1>5, <1>7 DEF Touched
  <1>9. /\ world' \in [LinkDocs -> [Directions -> SUBSET Relation]]
        /\ \A e \in LinkDocs, y \in Directions : world'[e][y] = IF e = d /\ y = x THEN kept \cup {n} ELSE world[e][y]
    BY <1>1, <1>6, <1>7, <1>8 DEF WorldSound
  <1>10. kept \subseteq world[d][x] /\ IsFiniteSet(kept \cup {n})
    <2>1. kept \subseteq world[d][x] /\ IsFiniteSet(world[d][x])
      BY <1>1, <1>7 DEF WorldSound
    <2> QED
      BY <2>1, FS_Subset, FS_AddElement
  <1>11. ASSUME NEW e \in LinkDocs, NEW y \in Directions
         PROVE  \A q \in world'[e][y] : q = n \/ (q \in world[e][y] /\ q.at \in Nat /\ q.at <= clock)
    <2>1. \A q \in world'[e][y] : q = n \/ q \in world[e][y]
      BY <1>9, <1>10
    <2>2. \A q \in world[e][y] : q \in Relation /\ q.at <= clock
      BY <1>1 DEF WorldSound
    <2>3. \A q \in Relation : q.at \in Nat
      BY DEF Relation
    <2> QED
      BY <2>1, <2>2, <2>3
  <1>12. WorldSound'
    <2>1. ASSUME NEW e \in LinkDocs, NEW y \in Directions
          PROVE  /\ IsFiniteSet(world'[e][y]) /\ \A q \in world'[e][y] : q.at <= c
                 /\ \A q, s \in world'[e][y] : q.at = s.at => q = s
      <3>1. IsFiniteSet(world'[e][y])
        BY <1>1, <1>9, <1>10 DEF WorldSound
      <3>2. \A q \in world'[e][y] : q.at <= c
        BY <1>1, <1>4, <1>6, <1>11
      <3>3. \A q, s \in world'[e][y] : q.at = s.at => q = s
        <4>1. \A q, s \in world[e][y] : q.at = s.at => q = s
          BY <1>1 DEF WorldSound
        <4> QED
          BY <1>1, <1>4, <1>6, <1>11, <4>1
      <3> QED
        BY <3>1, <3>2, <3>3
    <2>2. clock' = c /\ clock' <= MaxClock /\ doc' \in LinkDocs
      BY <1>1, <1>3, <1>4 DEF WorldSound
    <2> QED
      BY Zenon, <1>9, <2>1, <2>2 DEF WorldSound
  \* What was there at an earlier time is there still, or has moved to the front.
  <1>13. \A y \in Directions : \A q \in world'[doc][y] : q.at <= clock => q \in world[doc][y]
    <2>1. doc \in LinkDocs
      BY <1>1 DEF WorldSound
    <2> QED
      BY <1>1, <1>4, <1>6, <1>11, <2>1
  <1>14. ASSUME NEW p, NEW y \in Directions, NEW t \in Nat, t <= clock, Covers(p, y, t) PROVE Covers(p, y, t)'
    <2>1. \A q \in world'[doc][y] : q.at <= t => q \in world[doc][y]
      <3>1. \A q \in world'[doc][y] : q.at \in Nat
        BY <1>1, <1>4, <1>6, <1>11 DEF WorldSound
      <3> QED
        BY <1>1, <1>13, <1>14, <3>1
    <2>2. \A q \in world'[doc'][y] : q.at <= t => HasRow(p.rows, q.id) \/ q.at < p.next
      BY <1>3, <1>14, <2>1 DEF Covers
    <2> QED
      BY <2>2 DEF Covers, HasRow
  <1>15. RefreshSound'
    <2>1. \A r \in refreshReq : r.phase = "read" => r.at \in 0..c /\ \A y \in Directions : Covers(r.got[y], y, r.at)'
      <3> SUFFICES ASSUME NEW r \in refreshReq, r.phase = "read"
                   PROVE  r.at \in 0..c /\ \A y \in Directions : Covers(r.got[y], y, r.at)'
        OBVIOUS
      <3>1. r.at \in Nat /\ r.at <= clock /\ \A y \in Directions : Covers(r.got[y], y, r.at)
        BY <1>1 DEF RefreshSound
      <3>2. r.at \in 0..c
        BY <1>1, <1>4, <3>1
      <3> QED
        BY <1>14, <3>1, <3>2
    <2> QED
      BY <1>1, <1>3, <1>4, <2>1 DEF RefreshSound
  <1>16. readAt \in Nat /\ readAt <= clock /\ readAt <= c
    BY <1>1, <1>4 DEF CoverIInv, LinksIInv, PagesCover
  <1>17. MoreSound'
    <2>1. \A r \in moreReq : r.dir \in Directions
      BY <1>1 DEF MoreSound, MoreRequest
    <2>2. \A y \in Directions : \A q \in world'[doc][y] : q.at <= readAt => q \in world[doc][y]
      <3>1. \A y \in Directions : \A q \in world'[doc][y] : q.at \in Nat
        BY <1>1, <1>4, <1>6, <1>11 DEF WorldSound
      <3> QED
        BY <1>1, <1>13, <1>16, <3>1
    <2> QED
      BY <1>1, <1>3, <2>1, <2>2 DEF MoreSound, HasRow
  <1>18. PagesCover'
    <2>3. PICK t \in Nat : t = readAt /\ t <= clock
      BY <1>16
    <2>4. PICK pages : pages = links.page
      OBVIOUS
    <2>1. links.loaded => \A y \in Directions : Covers(pages[y], y, t)'
      <3>1. links.loaded => \A y \in Directions : Covers(pages[y], y, t)
        BY <1>1, <2>3, <2>4 DEF PagesCover
      <3> QED
        BY <1>14, <2>3, <3>1
    <2>2. readAt' <= clock'
      BY <1>3, <1>4, <1>16
    <2> QED
      BY <1>1, <1>3, <2>3, <2>4, <2>1, <2>2 DEF PagesCover, Covers, HasRow
  <1> QED
    BY <1>12, <1>15, <1>17, <1>18

\* The first pages of both directions are read, shown, or lost.
LEMMA RefreshCovers ==
  ASSUME LinkNumbers, CoverIInv, ReadRefresh \/ RefreshAnswer \/ RefreshFails
  PROVE  WorldSound' /\ RefreshSound' /\ MoreSound' /\ PagesCover'
  <1>1. /\ WorldSound /\ RefreshSound /\ MoreSound /\ PagesCover /\ clock \in Nat /\ doc \in LinkDocs
        /\ links \in LinkStates(links)
    BY DEF CoverIInv, LinksIInv, WorldSound
  <1>2. PICK r \in refreshReq : moreReq = {} /\ refreshReq \ {r} = {} /\ UNCHANGED <<doc, moreReq, world, clock>>
    BY <1>1 DEF ReadRefresh, RefreshAnswer, RefreshFails, RefreshSound
  <1>3. MoreSound'
    BY <1>2 DEF MoreSound
  <1>4. CASE ReadRefresh
    <2>1. PICK got : got = [x \in Directions |-> PageAfter(doc, x, End)]
      OBVIOUS
    <2>2. ASSUME NEW x \in Directions PROVE got[x] \in RelationPage /\ Covers(got[x], x, clock)
      <3>1. End \in Int
        BY DEF End
      <3>2. /\ got[x] \in RelationPage
            /\ \A q \in world[doc][x] : HasRow(got[x].rows, q.id) \/ q.at < got[x].next
        BY <1>1, <2>1, <3>1, AnsweredPage
      <3> QED
        BY <3>2 DEF Covers
    <2>3. got \in [Directions -> RelationPage]
      BY <2>1, <2>2
    <2>4. PICK q : q = [phase |-> "read", at |-> clock, got |-> got]
      OBVIOUS
    <2>5. refreshReq' = {q} /\ UNCHANGED <<links, readAt>>
      BY <1>1, <1>4, <2>1, <2>4 DEF ReadRefresh, RefreshSound
    <2>6. q.at = clock /\ q.got = got /\ clock \in 0..clock
      BY <1>1, <2>4
    <2>7. RefreshSound'
      <3>1. refreshReq # {}
        BY <1>2
      <3> QED
        BY <1>1, <1>2, <2>2, <2>3, <2>5, <2>6, <3>1 DEF RefreshSound, Covers
    <2>8. WorldSound' /\ PagesCover'
      BY <1>2, <2>5, SamePages
    <2> QED
      BY <1>3, <2>7, <2>8
  <1>5. CASE RefreshAnswer
    <2>1. PICK q \in refreshReq : /\ q.phase = "read" /\ links' = refreshSucceeded(links, q.got) /\ readAt' = q.at
                                  /\ refreshReq' = refreshReq \ {q}
      BY <1>5 DEF RefreshAnswer
    <2>2. refreshReq' = {} /\ q.at \in 0..clock /\ q.got \in [Directions -> RelationPage]
          /\ \A x \in Directions : Covers(q.got[x], x, q.at)
      BY <1>1, <2>1 DEF RefreshSound
    <2>3. links'.page = q.got
      BY <1>1, <2>1 DEF LinkStates, refreshSucceeded
    <2>4. PagesCover'
      BY <1>1, <1>2, <2>1, <2>2, <2>3 DEF PagesCover, Covers
    <2>5. RefreshSound'
      BY <2>2 DEF RefreshSound
    <2>6. WorldSound'
      BY <1>1, <1>2 DEF WorldSound
    <2> QED
      BY <1>3, <2>4, <2>5, <2>6
  <1>6. CASE RefreshFails
    <2>1. PICK q \in refreshReq : links' = refreshFailed(links) /\ refreshReq' = refreshReq \ {q} /\ UNCHANGED readAt
      BY <1>6 DEF RefreshFails
    <2>2. refreshReq' = {}
      BY <1>1, <2>1 DEF RefreshSound
    <2>3. links'.page = links.page /\ links'.loaded = links.loaded
      BY <1>1, <2>1 DEF LinkStates, refreshFailed
    <2>4. RefreshSound'
      BY <2>2 DEF RefreshSound
    <2>5. WorldSound' /\ PagesCover'
      BY <1>2, <2>1, <2>3, SamePages
    <2> QED
      BY <1>3, <2>4, <2>5
  <1> QED
    BY <1>4, <1>5, <1>6

\* The next page is asked for, read, appended, or lost.
LEMMA MoreCovers ==
  ASSUME LinkNumbers, CoverIInv, ReadMore \/ MoreAnswer \/ MoreFails \/ (\E x \in Directions : loadMore(x))
  PROVE  WorldSound' /\ RefreshSound' /\ MoreSound' /\ PagesCover'
  <1>1. /\ WorldSound /\ RefreshSound /\ MoreSound /\ PagesCover /\ clock \in Nat /\ doc \in LinkDocs
        /\ links \in LinkStates(links) /\ links.page \in [Directions -> RelationPage]
    BY DEF CoverIInv, LinksIInv, WorldSound, PagesCover
  <1>2. UNCHANGED <<doc, refreshReq, world, clock, readAt>>
    BY DEF ReadMore, MoreAnswer, MoreFails, loadMore
  <1>3. refreshReq = {}
    <2>1. CASE moreReq # {}
      BY <1>1, <2>1 DEF RefreshSound
    <2>2. CASE \E x \in Directions : loadMore(x)
      BY <1>1, <2>2 DEF loadMore, canLoadMore, RefreshSound
    <2>3. (\E x \in Directions : loadMore(x)) \/ moreReq # {}
      BY DEF ReadMore, MoreAnswer, MoreFails
    <2> QED
      BY <2>1, <2>2, <2>3
  <1>4. RefreshSound'
    BY <1>2, <1>3 DEF RefreshSound
  <1>5. ASSUME NEW x \in Directions, loadMore(x) PROVE MoreSound' /\ WorldSound' /\ PagesCover'
    <2>1. PICK cursor \in Int : cursor = links.page[x].next
      BY <1>1 DEF RelationPage
    <2>2. PICK got : got = LinksStart.page[x]
      OBVIOUS
    <2>3. got \in RelationPage
      <3>1. got = [rows |-> <<>>, next |-> -1]
        BY <2>2 DEF LinksStart, End
      <3>2. <<>> \in Seq(Relation) /\ -1 \in Int
        OBVIOUS
      <3> QED
        BY <3>1, <3>2 DEF RelationPage
    <2>4. PICK m : m = [dir |-> x, cursor |-> cursor, phase |-> "wire", got |-> got]
      OBVIOUS
    <2>5. m \in MoreRequest /\ m.dir = x /\ m.cursor = cursor /\ m.phase = "wire"
      BY <2>3, <2>4 DEF MoreRequest
    <2>6. moreReq' = {m} /\ links' = [links EXCEPT !.more = {x}, !.moreError = {}]
      BY <1>5, <2>1, <2>2, <2>4 DEF loadMore, started
    <2>7. links'.page = links.page /\ links'.loaded = links.loaded
      BY <1>1, <2>6 DEF LinkStates
    <2>8. MoreSound'
      BY <2>1, <2>5, <2>6, <2>7 DEF MoreSound
    <2> QED
      BY <1>2, <2>7, <2>8, SamePages
  <1>6. CASE ReadMore
    <2>1. PICK r \in moreReq : moreReq' = (moreReq \ {r}) \cup {[r EXCEPT !.phase = "read", !.got = PageAfter(doc, r.dir, r.cursor)]}
      BY <1>6 DEF ReadMore
    <2>2. r \in MoreRequest /\ r.dir \in Directions /\ r.cursor \in Int /\ moreReq \ {r} = {} /\ r.cursor = links.page[r.dir].next
      BY <1>1 DEF MoreSound, MoreRequest
    <2>3. PICK got : got = PageAfter(doc, r.dir, r.cursor)
      OBVIOUS
    <2>4. /\ got \in RelationPage
          /\ \A q \in world[doc][r.dir] : q.at < r.cursor => HasRow(got.rows, q.id) \/ q.at < got.next
      BY <1>1, <2>2, <2>3, AnsweredPage
    <2>5. PICK q : q = [r EXCEPT !.phase = "read", !.got = got]
      OBVIOUS
    <2>6. q \in MoreRequest /\ q.dir = r.dir /\ q.cursor = r.cursor /\ q.got = got
      BY <2>2, <2>4, <2>5 DEF MoreRequest
    <2>7. moreReq' = {q} /\ UNCHANGED links
      BY <1>6, <2>1, <2>2, <2>3, <2>5 DEF ReadMore
    <2>8. MoreSound'
      BY <1>2, <2>2, <2>4, <2>6, <2>7 DEF MoreSound, HasRow
    <2> QED
      BY <1>2, <1>4, <2>7, <2>8, SamePages
  <1>7. CASE MoreFails
    <2>1. PICK r \in moreReq : links' = [links EXCEPT !.more = {}, !.moreError = {r.dir}] /\ moreReq' = moreReq \ {r}
      BY <1>7 DEF MoreFails
    <2>2. moreReq' = {}
      BY <1>1, <2>1 DEF MoreSound
    <2>3. links'.page = links.page /\ links'.loaded = links.loaded
      BY <1>1, <2>1 DEF LinkStates
    <2>4. MoreSound'
      BY <2>2 DEF MoreSound
    <2> QED
      BY <1>2, <1>4, <2>3, <2>4, SamePages
  <1>8. CASE MoreAnswer
    <2>1. PICK r \in moreReq : r.phase = "read" /\ links' = loadMoreSucceeded(links, r.dir, r.got) /\ moreReq' = moreReq \ {r}
      BY <1>8 DEF MoreAnswer
    <2>2. r \in MoreRequest /\ r.dir \in Directions /\ r.got \in RelationPage /\ moreReq' = {}
          /\ r.cursor = links.page[r.dir].next
          /\ \A q \in world[doc][r.dir] : q.at <= readAt /\ q.at < r.cursor => HasRow(r.got.rows, q.id) \/ q.at < r.got.next
      BY <1>1, <2>1 DEF MoreSound, MoreRequest
    <2>3. PICK x \in Directions : x = r.dir
      BY <2>2
    <2>4. PICK old \in RelationPage : old = links.page[x]
      BY <1>1
    <2>5. old.rows \in Seq(Relation) /\ r.got.rows \in Seq(Relation) /\ r.got.next \in Int
      BY <2>2 DEF RelationPage
    <2>6. PICK rows \in Seq(Relation) : rows = appendUnique(old.rows, r.got.rows)
      BY <2>5, AppendedRows
    <2>7. \A o : HasRow(old.rows, o) \/ HasRow(r.got.rows, o) => HasRow(rows, o)
      BY <2>5, <2>6, AppendedRows
    <2>8. PICK new : new = [rows |-> rows, next |-> r.got.next]
      OBVIOUS
    <2>9. new \in RelationPage /\ new.rows = rows /\ new.next = r.got.next
      BY <2>5, <2>8 DEF RelationPage
    <2>10. PICK pages : pages = [links.page EXCEPT ![x] = new]
      OBVIOUS
    <2>11. pages \in [Directions -> RelationPage] /\ pages[x] = new /\ \A y \in Directions : y # x => pages[y] = links.page[y]
      BY <1>1, <2>9, <2>10
    <2>12. links' = [links EXCEPT !.page = pages, !.more = {}, !.moreError = {}]
      BY <1>1, <2>1, <2>3, <2>4, <2>6, <2>8, <2>10 DEF loadMoreSucceeded, LinkStates
    <2>13. links'.page = pages /\ links'.loaded = links.loaded
      BY <1>1, <2>12 DEF LinkStates
    <2>14. links.loaded => \A y \in Directions : Covers(pages[y], y, readAt)
      <3> SUFFICES ASSUME links.loaded, NEW y \in Directions PROVE Covers(pages[y], y, readAt)
        OBVIOUS
      <3>1. Covers(links.page[y], y, readAt)
        BY <1>1 DEF PagesCover
      <3>2. CASE y # x
        BY <2>11, <3>1, <3>2
      <3>3. CASE y = x
        <4>1. \A q \in world[doc][x] : q.at <= readAt => HasRow(old.rows, q.id) \/ q.at < old.next
          BY <2>4, <3>1, <3>3 DEF Covers
        <4>2. \A q \in world[doc][x] : q.at <= readAt => HasRow(rows, q.id) \/ q.at < new.next
          BY <2>2, <2>3, <2>4, <2>7, <2>9, <4>1
        <4> QED
          BY <2>9, <2>11, <3>3, <4>2 DEF Covers
      <3> QED
        BY <3>2, <3>3
    <2>15. PagesCover'
      BY <1>1, <1>2, <2>11, <2>13, <2>14 DEF PagesCover, Covers
    <2>16. WorldSound' /\ MoreSound'
      BY <1>1, <1>2, <2>2 DEF WorldSound, MoreSound
    <2> QED
      BY <1>4, <2>15, <2>16
  <1> QED
    BY <1>4, <1>5, <1>6, <1>7, <1>8

\* A refresh starts: the next page that was under way is dropped.
LEMMA RestartCovers ==
  ASSUME CoverIInv, NEW l, l \in LinkStates(l), l.page = links.page, l.loaded = links.loaded, refresh(l),
         UNCHANGED <<doc, world, clock, readAt>>
  PROVE  WorldSound' /\ RefreshSound' /\ MoreSound' /\ PagesCover'
  <1>1. links' = refreshStarted(l) /\ refreshReq' = {NewRefresh} /\ moreReq' = {}
    BY DEF refresh, started
  <1>2. PICK m : m = refreshStarted(l)
    OBVIOUS
  <1>3. m.page = links.page /\ m.loaded = links.loaded /\ (m.status = "loading" \/ m.refreshing)
    BY <1>2 DEF refreshStarted, LinkStates
  <1>4. NewRefresh.phase = "wire"
    BY DEF NewRefresh
  <1>5. RefreshSound' /\ MoreSound'
    BY <1>1, <1>2, <1>3, <1>4 DEF RefreshSound, MoreSound
  <1> QED
    BY <1>1, <1>2, <1>3, <1>5, SamePages

LEMMA PanelCovers ==
  ASSUME CoverIInv, openPanel \/ closePanel \/ retry \/ CacheExpires \/ RevisionChanges
  PROVE  WorldSound' /\ RefreshSound' /\ MoreSound' /\ PagesCover'
  <1>1. /\ WorldSound /\ RefreshSound /\ MoreSound /\ PagesCover /\ links \in LinkStates(links)
        /\ UNCHANGED <<doc, world, clock, readAt>>
    BY DEF CoverIInv, LinksIInv, openPanel, closePanel, retry, CacheExpires, RevisionChanges
  <1>2. PICK l : l = [links EXCEPT !.open = TRUE]
    OBVIOUS
  <1>3. PICK m : m = [links EXCEPT !.open = FALSE]
    OBVIOUS
  <1>4. /\ l \in LinkStates(l) /\ l.page = links.page /\ l.loaded = links.loaded
        /\ l.status = links.status /\ l.refreshing = links.refreshing
        /\ m.page = links.page /\ m.loaded = links.loaded /\ m.status = links.status /\ m.refreshing = links.refreshing
    BY <1>1, <1>2, <1>3 DEF LinkStates
  <1>5. \/ refresh(l) \/ refresh(links)
        \/ (links' = l \/ links' = m \/ links' = links) /\ UNCHANGED <<refreshReq, moreReq>>
    BY <1>2, <1>3 DEF openPanel, closePanel, retry, CacheExpires, RevisionChanges
  <1>6. CASE refresh(l) \/ refresh(links)
    BY <1>1, <1>4, <1>6, RestartCovers
  <1>7. CASE (links' = l \/ links' = m \/ links' = links) /\ UNCHANGED <<refreshReq, moreReq>>
    <2>1. /\ links'.page = links.page /\ links'.loaded = links.loaded
          /\ links'.status = links.status /\ links'.refreshing = links.refreshing
      BY <1>4, <1>7
    <2>2. RefreshSound' /\ MoreSound'
      BY <1>1, <1>7, <2>1 DEF RefreshSound, MoreSound, Covers
    <2> QED
      BY <1>1, <2>1, <2>2, SamePages
  <1> QED
    BY <1>5, <1>6, <1>7

LEMMA EmptyPages ==
  LinksStart \in LinkStates(LinksStart) /\ ~LinksStart.loaded /\ LinksStart.page \in [Directions -> RelationPage]
  <1>1. <<>> \in Seq(Relation) /\ -1 \in Int
    OBVIOUS
  <1>2. PICK p : p = [rows |-> <<>>, next |-> -1]
    OBVIOUS
  <1>3. p \in RelationPage
    BY <1>1, <1>2 DEF RelationPage
  <1>4. PICK pages : pages = [x \in Directions |-> p]
    OBVIOUS
  <1>5. pages \in [Directions -> RelationPage]
    BY <1>3, <1>4
  <1>6. LinksStart = [open |-> FALSE, status |-> "idle", refreshing |-> FALSE, refreshError |-> FALSE,
                      loaded |-> FALSE, page |-> pages, more |-> {}, moreError |-> {}]
    BY <1>2, <1>4 DEF LinksStart, End
  <1> QED
    BY <1>5, <1>6 DEF LinkStates

\* A note is opened: nothing is shown yet.
LEMMA OpenedCovers ==
  ASSUME links' = refreshStarted(LinksStart), refreshReq' = {NewRefresh}, moreReq' = {}, readAt' = 0, clock' \in Nat
  PROVE  RefreshSound' /\ MoreSound' /\ PagesCover'
  <1>1. PICK l : l = LinksStart
    OBVIOUS
  <1>2. PICK m : m = refreshStarted(l)
    OBVIOUS
  <1>3. ~m.loaded /\ m.page \in [Directions -> RelationPage] /\ m.status = "loading"
    BY <1>1, <1>2, EmptyPages DEF refreshStarted, LinkStates
  <1>4. links' = m /\ NewRefresh.phase = "wire"
    BY <1>1, <1>2 DEF NewRefresh
  <1> QED
    BY <1>3, <1>4 DEF RefreshSound, MoreSound, PagesCover

LEMMA CoverSteps == ASSUME LinkNumbers, CoverIInv, [LinksNext]_linksVars PROVE CoverIInv'
  <1>1. LinksIInv'
    BY LinksSound DEF CoverIInv
  <1>2. ASSUME WorldSound' /\ RefreshSound' /\ MoreSound' /\ PagesCover' PROVE CoverIInv'
    BY <1>1, <1>2 DEF CoverIInv
  <1>3. CASE \E d \in LinkDocs : OpenDocument(d)
    <2>1. PICK d \in LinkDocs : doc' = d /\ OpenDocument(d)
      BY <1>3 DEF OpenDocument
    <2>2. /\ links' = refreshStarted(LinksStart) /\ refreshReq' = {NewRefresh} /\ moreReq' = {} /\ readAt' = 0
          /\ UNCHANGED <<world, clock>>
      BY <2>1 DEF OpenDocument
    <2>3. WorldSound'
      BY <2>1, <2>2 DEF CoverIInv, WorldSound
    <2>4. clock' \in Nat
      BY <2>2 DEF CoverIInv, LinksIInv
    <2> QED
      BY <1>2, <2>2, <2>3, <2>4, OpenedCovers
  <1>4. CASE UNCHANGED linksVars
    BY <1>1, <1>4 DEF linksVars, CoverIInv, WorldSound, RefreshSound, MoreSound, PagesCover, Covers
  <1> QED
    BY <1>2, <1>3, <1>4, SavedElsewhere, RefreshCovers, MoreCovers, PanelCovers DEF LinksNext, LinksReact, LinksUse

LEMMA CoverStarts == ASSUME LinkNumbers, LinksInit PROVE CoverIInv
  <1>1. LinksIInv
    BY LinksStarts
  <1>2. WorldSound
    <2>1. world = [d \in LinkDocs |-> [x \in Directions |-> {}]] /\ clock = 0 /\ doc \in LinkDocs
      BY DEF LinksInit
    <2>2. \A d \in LinkDocs, x \in Directions : world[d][x] = {}
      BY <2>1
    <2>3. world \in [LinkDocs -> [Directions -> SUBSET Relation]]
      BY <2>1
    <2> QED
      BY <2>1, <2>2, <2>3, FS_EmptySet DEF WorldSound, LinkNumbers
  <1>3. RefreshSound /\ MoreSound /\ PagesCover
    <2>1. PICK l : l = LinksStart
      OBVIOUS
    <2>2. PICK m : m = refreshStarted(l)
      OBVIOUS
    <2>3. ~m.loaded /\ m.page \in [Directions -> RelationPage] /\ m.status = "loading"
      BY <2>1, <2>2, EmptyPages DEF refreshStarted, LinkStates
    <2>4. links = m /\ NewRefresh.phase = "wire" /\ refreshReq = {NewRefresh} /\ moreReq = {} /\ readAt = 0 /\ clock = 0
      BY <2>1, <2>2 DEF NewRefresh, LinksInit
    <2> QED
      BY <2>3, <2>4 DEF RefreshSound, MoreSound, PagesCover
  <1> QED
    BY <1>1, <1>2, <1>3 DEF CoverIInv

LEMMA CoverAll == ASSUME CoverIInv PROVE NothingSkipped
  <1>1. links.loaded => \A x \in Directions : Covers(links.page[x], x, readAt)
    BY DEF CoverIInv, PagesCover
  <1> QED
    BY <1>1 DEF NothingSkipped, Covers, HasRow

\* useDocumentLinks: paging by the time of the last row skips no note that was linked
\* when the first page was read, whatever is saved elsewhere in between: a page that was
\* asked for before a refresh is not appended after it.
THEOREM PagingSkipsNothing == ASSUME LinkNumbers PROVE LinksSpec => []NothingSkipped
  <1>1. LinksInit => CoverIInv
    BY CoverStarts
  <1>2. CoverIInv /\ [LinksNext]_linksVars => CoverIInv'
    BY CoverSteps
  <1>3. CoverIInv => NothingSkipped
    BY CoverAll
  <1> QED
    BY <1>1, <1>2, <1>3, PTL DEF LinksSpec

-----------------------------------------------------------------------------
(* The page of a shared note: the lock of its gate, the requests for pages  *)
(* of comments and the draft that is being sent. The replies of a comment   *)
(* are a state of their own.                                                *)

ShareSpec == ShareInit /\ [][ShareNext]_shareVars

Gates(g) == [loading : BOOLEAN, error : BOOLEAN, asks : BOOLEAN, wrong : {g.wrong}, open : BOOLEAN,
             password : {g.password}, lock : BOOLEAN, attempt : {g.attempt}]
CommentLists(c) == [shown : {c.shown}, loaded : {c.loaded}, more : {c.more}, loading : BOOLEAN,
                    appending : BOOLEAN, failed : BOOLEAN]
CommentReads(r) == [append : BOOLEAN, off : {r.off}, phase : {r.phase}, got : {r.got}, total : {r.total}]
ShareIInv ==
  /\ gate \in Gates(gate) /\ comments \in CommentLists(comments)
  /\ \A r \in reading : r \in CommentReads(r)
  /\ ShareNeverStuck

LEMMA GateSteps ==
  ASSUME ShareIInv, PasswordRefused \/ DetailFails \/ TooMany \/ submitPassword \/ retryShare
  PROVE  ShareIInv'
  <1>1. gate' \in Gates(gate)' /\ (gate'.lock => gate'.loading)
    <2>1. gate \in Gates(gate) /\ (gate.lock => gate.loading)
      BY DEF ShareIInv, ShareNeverStuck
    <2>2. CASE PasswordRefused
      BY <2>1, <2>2 DEF PasswordRefused, Gate, Settled, Gates
    <2>3. CASE DetailFails
      BY <2>1, <2>3 DEF DetailFails, Gate, Settled, Gates
    <2>4. CASE TooMany
      BY <2>1, <2>3, <2>4 DEF TooMany, DetailFails, Gate, Settled, Gates
    <2>5. CASE submitPassword
      BY <2>1, <2>5 DEF submitPassword, Again, Gates
    <2>6. CASE retryShare
      BY <2>1, <2>6 DEF retryShare, Again, Gates
    <2> QED
      BY <2>2, <2>3, <2>4, <2>5, <2>6
  <1>2. UNCHANGED <<comments, reading, posting, draft>>
    BY DEF PasswordRefused, DetailFails, TooMany, Gate, submitPassword, retryShare
  <1> QED
    BY <1>1, <1>2 DEF ShareIInv, ShareNeverStuck

\* A request for comments is made beside those that are under way.
LEMMA CommentsAsked ==
  ASSUME ShareIInv, Detail \/ handleLoadMoreComments \/ retryComments
  PROVE  ShareIInv'
  <1>1. gate' \in Gates(gate)' /\ (gate'.lock => gate'.loading) /\ UNCHANGED <<posting, draft>>
    BY DEF ShareIInv, ShareNeverStuck, Detail, Settled, Gates, handleLoadMoreComments, retryComments, fetchComments
  <1>2. PICK append \in BOOLEAN : \E r :
          /\ comments' = IF append THEN [comments EXCEPT !.appending = TRUE, !.failed = FALSE]
                                   ELSE [comments EXCEPT !.loading = TRUE, !.failed = FALSE]
          /\ reading' = reading \cup {r} /\ r \in CommentReads(r) /\ r.append = append
    <2>1. CASE Detail
      <3>1. FirstPage \in CommentReads(FirstPage) /\ FirstPage.append = FALSE
        BY DEF FirstPage, CommentReads
      <3> QED
        BY <2>1, <3>1 DEF Detail
    <2>2. ASSUME NEW append \in BOOLEAN, fetchComments(append)
          PROVE  \E r : /\ comments' = IF append THEN [comments EXCEPT !.appending = TRUE, !.failed = FALSE]
                                       ELSE [comments EXCEPT !.loading = TRUE, !.failed = FALSE]
                       /\ reading' = reading \cup {r} /\ r \in CommentReads(r) /\ r.append = append
      <3>1. PICK off : off = IF append THEN comments.loaded ELSE 0
        OBVIOUS
      <3>2. PICK r : r = [FirstPage EXCEPT !.append = append, !.off = off]
        OBVIOUS
      <3>3. r \in CommentReads(r) /\ r.append = append
        BY <3>2 DEF FirstPage, CommentReads
      <3>4. reading' = reading \cup {r}
        BY <2>2, <3>1, <3>2 DEF fetchComments
      <3> QED
        BY <2>2, <3>3, <3>4 DEF fetchComments
    <2> QED
      BY <2>1, <2>2 DEF handleLoadMoreComments, retryComments
  <1>5. /\ comments' \in CommentLists(comments)'
        /\ append => comments'.loading = comments.loading
        /\ ~append => comments'.appending = comments.appending
    BY <1>2 DEF ShareIInv, CommentLists
  <1> QED
    BY <1>1, <1>2, <1>5 DEF ShareIInv, ShareNeverStuck

\* What an answer, or a failure, makes of the list of comments.
LEMMA CommentsEnded ==
  ASSUME NEW c, c \in CommentLists(c), NEW r, r \in CommentReads(r),
         NEW e, e = Ended(applyFetchResult(c, r), r) \/ e = Ended([c EXCEPT !.failed = TRUE], r)
  PROVE  /\ e \in CommentLists(e)
         /\ e.loading = (c.loading /\ r.append) /\ e.appending = (c.appending /\ ~r.append)
  <1>1. PICK n : n = IF r.append THEN r.off + Len(r.got) ELSE Len(r.got)
    OBVIOUS
  <1>2. PICK shown, more : shown = (IF r.append THEN merged(c.shown, r.got) ELSE r.got) /\ more = (n < r.total)
    OBVIOUS
  <1>3. applyFetchResult(c, r) = [c EXCEPT !.shown = shown, !.loaded = n, !.more = more]
    BY <1>1, <1>2 DEF applyFetchResult, CommentLists
  <1>4. PICK b : /\ b = [c EXCEPT !.shown = shown, !.loaded = n, !.more = more] \/ b = [c EXCEPT !.failed = TRUE]
                 /\ e = Ended(b, r)
    BY <1>3
  <1>5. b \in CommentLists(b) /\ b.loading = c.loading /\ b.appending = c.appending
    BY <1>4 DEF CommentLists
  <1> QED
    BY <1>4, <1>5 DEF Ended, CommentLists, CommentReads

LEMMA CommentsAnswered ==
  ASSUME ShareIInv, ReadComments \/ CommentsAnswer \/ CommentsFail
  PROVE  ShareIInv'
  <1>1. UNCHANGED <<gate, posting, draft>>
    BY DEF ReadComments, CommentsAnswer, CommentsFail
  <1>2. CASE ReadComments
    <2>1. PICK r \in reading : /\ reading' = (reading \ {r}) \cup {[r EXCEPT !.phase = "read", !.got = PageFrom(Newest(posted), r.off),
                                                                             !.total = posted]}
                               /\ comments' = comments
      BY <1>2 DEF ReadComments
    <2>2. PICK s : s = [r EXCEPT !.phase = "read", !.got = PageFrom(Newest(posted), r.off), !.total = posted]
      OBVIOUS
    <2>3. s \in CommentReads(s) /\ s.append = r.append
      BY <2>2 DEF ShareIInv, CommentReads
    <2>4. reading' = (reading \ {r}) \cup {s}
      BY <2>1, <2>2
    <2> QED
      BY <1>1, <2>1, <2>3, <2>4 DEF ShareIInv, ShareNeverStuck
  <1>3. CASE CommentsAnswer \/ CommentsFail
    <2>1. PICK r \in reading : /\ comments' = Ended(applyFetchResult(comments, r), r) \/ comments' = Ended([comments EXCEPT !.failed = TRUE], r)
                               /\ reading' = reading \ {r}
      BY <1>3 DEF CommentsAnswer, CommentsFail
    <2>2. /\ comments' \in CommentLists(comments')
          /\ comments'.loading = (comments.loading /\ r.append) /\ comments'.appending = (comments.appending /\ ~r.append)
      BY <2>1, CommentsEnded DEF ShareIInv
    <2> QED
      BY <1>1, <2>1, <2>2 DEF ShareIInv, ShareNeverStuck
  <1> QED
    BY <1>2, <1>3

LEMMA PostSteps ==
  ASSUME ShareIInv, OthersComment \/ TypeComment \/ handleSubmitComment \/ PostStored \/ PostAnswer \/ PostFails
  PROVE  ShareIInv'
  <1>1. /\ UNCHANGED <<gate, reading>> /\ (draft' = "sending" => posting' # {})
        /\ comments' = comments \/ \E id : comments' = [comments EXCEPT !.shown = <<id>> \o @, !.loaded = @ + 1]
    BY DEF ShareIInv, ShareNeverStuck, OthersComment, TypeComment, handleSubmitComment, PostStored, PostAnswer, PostFails
  <1>2. comments' \in CommentLists(comments)' /\ comments'.loading = comments.loading /\ comments'.appending = comments.appending
    BY <1>1 DEF ShareIInv, CommentLists
  <1> QED
    BY <1>1, <1>2 DEF ShareIInv, ShareNeverStuck

LEMMA ShareSound == ASSUME ShareIInv, [ShareNext]_shareVars PROVE ShareIInv'
  <1>1. CASE UNCHANGED shareVars
    BY <1>1 DEF shareVars, ShareIInv, ShareNeverStuck
  <1> QED
    BY <1>1, GateSteps, CommentsAsked, CommentsAnswered, PostSteps DEF ShareNext

LEMMA ShareStarts == ASSUME ShareInit PROVE ShareIInv
  BY DEF ShareInit, ShareIInv, ShareNeverStuck, GateStart, NoComments, Gates, CommentLists

\* useSharePage and useShareComments: a page that loads, a form that refuses a second
\* submission and a draft that is being sent each have their request under way.
THEOREM SharedNoteLoads == ShareSpec => []ShareNeverStuck
  <1>1. ShareInit => ShareIInv
    BY ShareStarts
  <1>2. ShareIInv /\ [ShareNext]_shareVars => ShareIInv'
    BY ShareSound
  <1>3. ShareIInv => ShareNeverStuck
    BY DEF ShareIInv
  <1> QED
    BY <1>1, <1>2, <1>3, PTL DEF ShareSpec

-----------------------------------------------------------------------------
(* The comments of a shared note: at most one request is under way, and     *)
(* every comment of the first page's time that is not shown is older than   *)
(* what has been loaded, unless a list was read beside a post.              *)

CommentList == [shown : Seq(Nat), loaded : Nat, more : BOOLEAN, loading : BOOLEAN, appending : BOOLEAN, failed : BOOLEAN]
CommentReq  == [append : BOOLEAN, off : Nat, phase : {"wire", "read"}, got : Seq(Nat), total : Nat]
CommentPost == [phase : {"wire", "stored"}, id : Nat]
SharedTypes ==
  /\ comments \in CommentList /\ reading \subseteq CommentReq /\ posting \subseteq CommentPost
  /\ posted \in Nat /\ top \in Nat
GateOnce ==
  /\ gate \in Gates(gate)
  /\ gate.loading => ~gate.error
  /\ gate.open => ~gate.loading /\ ~gate.asks /\ ~gate.error
  /\ ~gate.open => reading = {}
OneReading ==
  /\ \A r, s \in reading : r = s
  /\ \A r \in reading : ~comments.failed /\ (comments.loading \/ comments.appending) /\ (~r.append => r.off = 0)
  /\ \A p, q \in posting : p = q
Pending == IF \E p \in posting : p.phase = "stored" THEN 1 ELSE 0
AfterPost ==
  /\ \A r \in reading : r.phase = "read" => posting = {}
  /\ \A p \in posting : p.phase = "stored" => p.id \in (1..posted) \ ToSet(comments.shown)
ShownSound ==
  /\ IsInjective(comments.shown) /\ ToSet(comments.shown) \subseteq 1..posted
  /\ top <= posted
  /\ ~comments.more => 1..top \subseteq ToSet(comments.shown)
  /\ \A i \in (1..top) \ ToSet(comments.shown) : i <= posted - comments.loaded - Pending
\* A page of the comments, newest first: n comments, from the off-th one.
NewestFrom(got, n, off) ==
  /\ IsInjective(got) /\ ToSet(got) \subseteq 1..n
  /\ \A i \in (1..(n - off)) \ ToSet(got) : i <= n - off - Len(got)
ReadsSound ==
  \A r \in reading :
    /\ r.phase = "wire" /\ r.append => r.off <= comments.loaded
    /\ r.phase = "read" => r.total <= posted /\ NewestFrom(r.got, r.total, r.off)
    /\ r.phase = "read" /\ r.append => \A i \in (1..top) \ ToSet(comments.shown) : i <= r.total - r.off
Complete == AfterPost /\ ShownSound /\ ReadsSound
CommentsIInv == SharedTypes /\ GateOnce /\ OneReading /\ (~beside => Complete)

LEMMA NewestPage ==
  ASSUME CommentPage \in Nat, NEW n \in Nat, NEW off \in Nat, NEW got, got = PageFrom(Newest(n), off)
  PROVE  got \in Seq(Nat) /\ NewestFrom(got, n, off)
  <1> DEFINE s == Newest(n)
             last == IF off + CommentPage > n THEN n ELSE off + CommentPage
  <1>1. s \in Seq(Nat) /\ Len(s) = n /\ DOMAIN s = 1..n /\ \A i \in 1..n : s[i] = n + 1 - i
    <2>1. \A i \in 1..n : n + 1 - i \in Nat
      OBVIOUS
    <2>2. s \in [1..n -> Nat]
      BY <2>1 DEF Newest
    <2>3. s \in Seq(Nat)
      BY <2>2, SeqDef
    <2> QED
      BY <2>2, <2>3 DEF Newest
  <1>2. PICK k \in Nat : k = last /\ k <= n
    <2>1. last \in Nat /\ last <= n
      OBVIOUS
    <2> QED
      BY <2>1
  <1>3. got = SubSeq(s, off + 1, k)
    BY <1>1, <1>2 DEF PageFrom
  <1> HIDE DEF s, last
  <1>4. PICK l \in Nat : l = (IF off + 1 <= k THEN k - off ELSE 0)
    <2>1. (IF off + 1 <= k THEN k - off ELSE 0) \in Nat
      BY <1>2
    <2> QED
      BY <2>1
  <1>5. got \in Seq(Nat) /\ Len(got) = l /\ DOMAIN got = 1..l /\ \A j \in 1..l : got[j] = s[off + j]
    BY <1>1, <1>2, <1>3, <1>4
  <1>6. ASSUME NEW j \in 1..l PROVE got[j] = n + 1 - (off + j) /\ got[j] \in 1..n
    <2>1. off + j \in 1..n
      BY <1>2, <1>4
    <2>2. n + 1 - (off + j) \in 1..n
      BY <2>1
    <2> QED
      BY <1>1, <1>5, <2>1, <2>2
  <1>7. IsInjective(got)
    <2> SUFFICES ASSUME NEW i \in 1..l, NEW j \in 1..l, got[i] = got[j] PROVE i = j
      BY <1>5 DEF IsInjective
    <2>1. n + 1 - (off + i) = n + 1 - (off + j)
      BY <1>6
    <2> QED
      BY <2>1
  <1>8. ToSet(got) \subseteq 1..n
    BY <1>5, <1>6 DEF ToSet
  <1>9. ASSUME NEW i \in (1..(n - off)) \ ToSet(got) PROVE i <= n - off - Len(got)
    <2> SUFFICES ASSUME ~(i <= n - off - l) PROVE FALSE
      BY <1>5
    <2>1. PICK j \in Int : j = n + 1 - off - i
      OBVIOUS
    <2>2. j \in 1..l /\ n + 1 - (off + j) = i
      BY <2>1
    <2>3. got[j] = i
      BY <1>6, <2>2
    <2> QED
      BY <1>5, <2>2, <2>3 DEF ToSet
  <1> QED
    BY <1>5, <1>7, <1>8, <1>9 DEF NewestFrom

\* The gate: the note opens once, and then nothing asks for it again.
LEMMA GateKept ==
  ASSUME CommentsIInv, PasswordRefused \/ DetailFails \/ TooMany \/ submitPassword \/ retryShare
  PROVE  CommentsIInv'
  <1>1. GateOnce'
    <2>1. GateOnce
      BY DEF CommentsIInv
    <2>2. CASE PasswordRefused
      BY <2>1, <2>2 DEF GateOnce, PasswordRefused, Gate, Settled, Gates
    <2>3. CASE DetailFails
      BY <2>1, <2>3 DEF GateOnce, DetailFails, Gate, Settled, Gates
    <2>4. CASE TooMany
      BY <2>1, <2>3, <2>4 DEF GateOnce, TooMany, DetailFails, Gate, Settled, Gates
    <2>5. CASE submitPassword
      <3>1. gate.asks /\ ~gate.open
        BY <2>1, <2>5 DEF GateOnce, submitPassword, PasswordState, ShareView, Gates
      <3> QED
        BY <2>1, <2>5, <3>1 DEF GateOnce, submitPassword, Again, Gates
    <2>6. CASE retryShare
      <3>1. ~gate.open
        BY <2>1, <2>6 DEF GateOnce, retryShare, UnavailableState, ShareView, Gates
      <3> QED
        BY <2>1, <2>6, <3>1 DEF GateOnce, retryShare, Again, Gates
    <2> QED
      BY <2>2, <2>3, <2>4, <2>5, <2>6
  <1>2. UNCHANGED <<comments, reading, posting, draft, posted, beside, top>>
    BY DEF PasswordRefused, DetailFails, TooMany, Gate, submitPassword, retryShare
  <1> QED
    BY <1>1, <1>2 DEF CommentsIInv, SharedTypes, OneReading, Complete, AfterPost, ShownSound, ReadsSound, Pending

LEMMA NewRequest ==
  ASSUME NEW append \in BOOLEAN, NEW off \in Nat, NEW r, r = [FirstPage EXCEPT !.append = append, !.off = off]
  PROVE  r \in CommentReq /\ r.phase = "wire" /\ r.append = append /\ r.off = off
  <1>1. <<>> \in Seq(Nat)
    OBVIOUS
  <1>2. FirstPage \in CommentReq /\ FirstPage.phase = "wire"
    BY <1>1 DEF FirstPage, CommentReq
  <1>3. PICK f \in CommentReq : f = FirstPage
    BY <1>2
  <1> QED
    BY <1>2, <1>3 DEF CommentReq

\* A request for comments is the only one.
LEMMA AskedOnce ==
  ASSUME CommentsIInv, reading = {}, NEW append \in BOOLEAN, NEW r, r = [FirstPage EXCEPT !.append = append,
                                                                        !.off = IF append THEN comments.loaded ELSE 0],
         comments' = IF append THEN [comments EXCEPT !.appending = TRUE, !.failed = FALSE]
                     ELSE [comments EXCEPT !.loading = TRUE, !.failed = FALSE],
         reading' = {r}, UNCHANGED <<posting, posted, beside, top>>, GateOnce'
  PROVE  CommentsIInv'
  <1>1. comments \in CommentList /\ comments.loaded \in Nat
    BY DEF CommentsIInv, SharedTypes, CommentList
  <1>2. /\ comments' \in CommentList /\ ~comments'.failed /\ (comments'.loading \/ comments'.appending)
        /\ comments'.shown = comments.shown /\ comments'.loaded = comments.loaded /\ comments'.more = comments.more
    BY <1>1 DEF CommentList
  <1>3. PICK off \in Nat : off = IF append THEN comments.loaded ELSE 0
    BY <1>1
  <1>6. r \in CommentReq /\ r.phase = "wire" /\ r.append = append /\ r.off = off
    <2>1. r = [FirstPage EXCEPT !.append = append, !.off = off]
      BY <1>3
    <2> QED
      BY <2>1, NewRequest
  <1>7. SharedTypes'
    BY <1>2, <1>6 DEF CommentsIInv, SharedTypes
  <1>8. OneReading'
    BY <1>2, <1>3, <1>6 DEF CommentsIInv, OneReading
  <1>9. ASSUME ~beside' PROVE Complete'
    <2>1. Complete
      BY <1>9 DEF CommentsIInv
    <2>2. AfterPost'
      BY <1>2, <1>6, <2>1 DEF Complete, AfterPost
    <2>3. Pending' = Pending
      BY DEF Pending
    <2>4. ShownSound'
      BY <1>2, <2>1, <2>3 DEF Complete, ShownSound
    <2>5. off <= comments.loaded \/ ~append
      BY <1>1, <1>3
    <2>6. ReadsSound'
      BY <1>2, <1>6, <2>5 DEF ReadsSound
    <2> QED
      BY <2>2, <2>4, <2>6 DEF Complete
  <1> QED
    BY <1>7, <1>8, <1>9 DEF CommentsIInv

LEMMA CommentsFetched ==
  ASSUME CommentsIInv, Detail \/ handleLoadMoreComments \/ retryComments
  PROVE  CommentsIInv'
  <1>1. CASE Detail
    <2>1. gate.loading /\ gate' = [Settled(gate) EXCEPT !.open = TRUE, !.asks = FALSE, !.wrong = FALSE]
      BY <1>1 DEF Detail
    <2>2. reading = {} /\ gate \in Gates(gate) /\ ~gate.error
      BY <2>1 DEF CommentsIInv, GateOnce
    <2>3. GateOnce'
      BY <2>1, <2>2 DEF GateOnce, Settled, Gates
    <2>4. FirstPage = [FirstPage EXCEPT !.append = FALSE, !.off = IF FALSE THEN comments.loaded ELSE 0]
      <3>1. FirstPage = [append |-> FALSE, off |-> 0, phase |-> "wire", got |-> <<>>, total |-> 0]
        BY DEF FirstPage
      <3>2. FirstPage.append = FALSE /\ FirstPage.off = 0
        BY <3>1
      <3>3. PICK r \in [append : {FALSE}, off : {0}, phase : {"wire"}, got : {<<>>}, total : {0}] : r = FirstPage
        BY <3>1
      <3>4. r = [r EXCEPT !.append = FALSE, !.off = 0]
        OBVIOUS
      <3> QED
        BY <3>3, <3>4
    <2>5. /\ comments' = IF FALSE THEN [comments EXCEPT !.appending = TRUE, !.failed = FALSE]
                         ELSE [comments EXCEPT !.loading = TRUE, !.failed = FALSE]
          /\ reading' = {FirstPage} /\ UNCHANGED <<posting, posted, beside, top>>
      BY <1>1, <2>2 DEF Detail
    <2> QED
      BY <2>2, <2>3, <2>4, <2>5, AskedOnce
  <1>2. ASSUME NEW append \in BOOLEAN, fetchComments(append), ShareView = "note",
               reading = {} PROVE CommentsIInv'
    <2>1. gate.open
      BY <1>2 DEF ShareView, CommentsIInv, GateOnce, Gates
    <2>2. GateOnce'
      BY <1>2, <2>1 DEF CommentsIInv, GateOnce, fetchComments
    <2>3. PICK r : r = [FirstPage EXCEPT !.append = append, !.off = IF append THEN comments.loaded ELSE 0]
      OBVIOUS
    <2>4. reading' = {r}
      BY <1>2, <2>3 DEF fetchComments
    <2> QED
      BY <1>2, <2>2, <2>3, <2>4, AskedOnce DEF fetchComments
  <1>3. CASE handleLoadMoreComments
    <2>1. reading = {} /\ ShareView = "note" /\ fetchComments(TRUE)
      BY <1>3 DEF handleLoadMoreComments, CommentsSection, CommentsIInv, OneReading
    <2> QED
      BY <1>2, <2>1
  <1>4. CASE retryComments
    <2>1. reading = {} /\ ShareView = "note" /\ fetchComments(FALSE)
      BY <1>4 DEF retryComments, CommentsSection, CommentsIInv, OneReading
    <2> QED
      BY <1>2, <2>1
  <1> QED
    BY <1>1, <1>3, <1>4

\* The server lists the comments.
LEMMA CommentsRead == ASSUME CommentPage \in Nat, CommentsIInv, ReadComments PROVE CommentsIInv'
  <1>1. PICK r \in reading :
          /\ r.phase = "wire"
          /\ reading' = (reading \ {r}) \cup
               {[r EXCEPT !.phase = "read", !.got = PageFrom(Newest(posted), r.off), !.total = posted]}
          /\ beside' = (beside \/ posting # {})
          /\ UNCHANGED <<gate, comments, posting, draft, posted, top>>
    BY DEF ReadComments
  <1>2. r \in CommentReq /\ posted \in Nat
    BY DEF CommentsIInv, SharedTypes
  <1>3. PICK got : got = PageFrom(Newest(posted), r.off)
    OBVIOUS
  <1>4. r.off \in Nat
    BY <1>2 DEF CommentReq
  <1>5. got \in Seq(Nat) /\ NewestFrom(got, posted, r.off)
    BY <1>2, <1>3, <1>4, NewestPage
  <1>6. PICK q : q = [r EXCEPT !.phase = "read", !.got = got, !.total = posted]
    OBVIOUS
  <1>7. /\ q \in CommentReq /\ q.phase = "read" /\ q.got = got /\ q.total = posted /\ q.off = r.off /\ q.append = r.append
    BY <1>2, <1>5, <1>6 DEF CommentReq
  <1>8. reading = {r} /\ reading' = {q}
    BY <1>1, <1>3, <1>6 DEF CommentsIInv, OneReading
  <1>9. SharedTypes'
    BY <1>1, <1>7, <1>8 DEF CommentsIInv, SharedTypes
  <1>10. GateOnce'
    BY <1>1, <1>8 DEF CommentsIInv, GateOnce
  <1>11. OneReading'
    BY <1>1, <1>7, <1>8 DEF CommentsIInv, OneReading
  <1>12. ASSUME ~beside' PROVE Complete'
    <2>1. posting = {} /\ ~beside
      BY <1>1, <1>12
    <2>2. Complete
      BY <2>1 DEF CommentsIInv
    <2>3. AfterPost'
      BY <1>1, <2>1 DEF AfterPost
    <2>4. Pending = 0 /\ Pending' = 0
      BY <1>1, <2>1 DEF Pending
    <2>5. ShownSound'
      BY <1>1, <2>2, <2>4 DEF Complete, ShownSound
    <2>6. ASSUME q.append, NEW i \in (1..top) \ ToSet(comments.shown) PROVE i <= posted - q.off
      <3>1. r.off <= comments.loaded
        BY <1>1, <1>7, <2>2, <2>6 DEF Complete, ReadsSound
      <3>2. PICK l \in Nat : l = comments.loaded
        BY DEF CommentsIInv, SharedTypes, CommentList
      <3>3. i <= posted - l - 0
        BY <2>2, <2>4, <3>2 DEF Complete, ShownSound
      <3>4. top \in Nat
        BY DEF CommentsIInv, SharedTypes
      <3>5. i <= posted - r.off
        BY <1>2, <1>4, <3>1, <3>2, <3>3, <3>4
      <3> QED
        BY <1>7, <3>5
    <2>7. q.total <= posted
      BY <1>2, <1>7
    <2>8. ReadsSound'
      <3>1. q.phase # "wire"
        BY <1>7
      <3>2. NewestFrom(q.got, q.total, q.off)
        BY <1>5, <1>7
      <3>3. q.append => \A i \in (1..top) \ ToSet(comments.shown) : i <= q.total - q.off
        BY <1>7, <2>6
      <3> QED
        BY Zenon, <1>1, <1>8, <2>7, <3>1, <3>2, <3>3 DEF ReadsSound
    <2> QED
      BY <2>3, <2>5, <2>8 DEF Complete
  <1> QED
    BY <1>9, <1>10, <1>11, <1>12 DEF CommentsIInv

\* An answer sets the list, its length and whether there is more.
LEMMA AnswerLists ==
  ASSUME NEW c \in CommentList, NEW r \in CommentReq, NEW e, e = Ended(applyFetchResult(c, r), r)
  PROVE  /\ e \in CommentList /\ e.failed = c.failed
         /\ e.shown = (IF r.append THEN merged(c.shown, r.got) ELSE r.got)
         /\ e.loaded = (IF r.append THEN r.off + Len(r.got) ELSE Len(r.got))
         /\ e.more = (e.loaded < r.total)
  <1>1. /\ c.shown \in Seq(Nat) /\ r.got \in Seq(Nat) /\ r.off \in Nat /\ r.total \in Nat /\ r.append \in BOOLEAN
        /\ Len(r.got) \in Nat
    BY DEF CommentList, CommentReq
  <1>2. PICK n \in Nat : n = IF r.append THEN r.off + Len(r.got) ELSE Len(r.got)
    <2>1. (IF r.append THEN r.off + Len(r.got) ELSE Len(r.got)) \in Nat
      BY <1>1
    <2> QED
      BY <2>1
  <1>3. PICK shown \in Seq(Nat) : shown = IF r.append THEN merged(c.shown, r.got) ELSE r.got
    <2>1. merged(c.shown, r.got) \in Seq(Nat)
      BY <1>1, Merges DEF merged
    <2> QED
      BY <1>1, <2>1
  <1>4. PICK more \in BOOLEAN : more = (n < r.total)
    <2>1. CASE n < r.total
      <3>1. (n < r.total) = TRUE
        BY <2>1
      <3> QED
        BY <3>1
    <2>2. CASE ~(n < r.total)
      <3>1. (n < r.total) = FALSE
        BY <2>2
      <3> QED
        BY <3>1
    <2> QED
      BY <2>1, <2>2
  <1>5. applyFetchResult(c, r) = [c EXCEPT !.shown = shown, !.loaded = n, !.more = more]
    BY <1>2, <1>3, <1>4 DEF applyFetchResult, CommentList
  <1>6. PICK b : b = [c EXCEPT !.shown = shown, !.loaded = n, !.more = more]
    OBVIOUS
  <1>7. b \in CommentList /\ b.shown = shown /\ b.loaded = n /\ b.more = more /\ b.failed = c.failed
    BY <1>6 DEF CommentList
  <1>8. e = Ended(b, r)
    BY <1>5, <1>6
  <1>9. e \in CommentList /\ e.shown = shown /\ e.loaded = n /\ e.more = more /\ e.failed = c.failed
    BY <1>1, <1>7, <1>8 DEF Ended, CommentList
  <1> QED
    BY Zenon, <1>2, <1>3, <1>4, <1>9

\* The rows of an answer, put to the list or in its place: what was not loaded yet
\* is older than the answer.
LEMMA AnswerComplete ==
  ASSUME CommentsIInv, ~beside, NEW r \in reading, r.phase = "read", comments' \in CommentList, UNCHANGED <<posted, posting>>,
         comments'.shown = (IF r.append THEN merged(comments.shown, r.got) ELSE r.got),
         comments'.loaded = (IF r.append THEN r.off + Len(r.got) ELSE Len(r.got)),
         comments'.more = (comments'.loaded < r.total), top' = IF r.append THEN top ELSE r.total
  PROVE  ShownSound' /\ AfterPost'
  <1>1. /\ r \in CommentReq /\ comments \in CommentList /\ Complete /\ posted \in Nat /\ top \in Nat
        /\ (~r.append => r.off = 0)
    BY DEF CommentsIInv, SharedTypes, OneReading
  <1>2. /\ comments.shown \in Seq(Nat) /\ r.got \in Seq(Nat) /\ r.off \in Nat /\ r.total \in Nat /\ r.append \in BOOLEAN
        /\ Len(r.got) \in Nat /\ comments'.loaded \in Nat
    BY <1>1 DEF CommentList, CommentReq
  <1>3. posting = {} /\ posting' = {} /\ Pending' = 0
    BY <1>1 DEF Complete, AfterPost, Pending
  <1>4. /\ r.total <= posted /\ IsInjective(r.got) /\ ToSet(r.got) \subseteq 1..r.total
        /\ \A i \in (1..(r.total - r.off)) \ ToSet(r.got) : i <= r.total - r.off - Len(r.got)
        /\ r.append => \A i \in (1..top) \ ToSet(comments.shown) : i <= r.total - r.off
    BY <1>1 DEF Complete, ReadsSound, NewestFrom
  <1>5. IsInjective(comments.shown) /\ ToSet(comments.shown) \subseteq 1..posted /\ top <= posted
    BY <1>1 DEF Complete, ShownSound
  <1>6. PICK sh \in Seq(Nat), n \in Nat : sh = comments'.shown /\ n = comments'.loaded
    BY DEF CommentList
  <1>7. PICK t \in Nat : t = top'
    BY <1>1, <1>2
  <1>8. /\ IsInjective(sh) /\ ToSet(sh) \subseteq 1..posted /\ t <= posted
        /\ \A i \in (1..t) \ ToSet(sh) : i <= r.total - n
    <2>1. CASE r.append
      <3>1. sh = merged(comments.shown, r.got) /\ n = r.off + Len(r.got) /\ t = top
        BY <1>6, <1>7, <2>1
      <3>2. ToSet(sh) = ToSet(comments.shown) \cup ToSet(r.got) /\ IsInjective(sh)
        <4>1. sh = WithNew(comments.shown, r.got)
          BY <3>1 DEF merged
        <4>2. /\ ToSet(WithNew(comments.shown, r.got)) = ToSet(comments.shown) \cup ToSet(r.got)
              /\ IsInjective(WithNew(comments.shown, r.got))
          <5>1. PICK p \in Seq(Nat), q \in Seq(Nat) : p = comments.shown /\ q = r.got
            BY <1>2
          <5>2. IsInjective(p) /\ IsInjective(q)
            BY <1>4, <1>5, <5>1
          <5>3. ToSet(WithNew(p, q)) = ToSet(p) \cup ToSet(q) /\ IsInjective(WithNew(p, q))
            BY <5>2, Merges
          <5> QED
            BY Zenon, <5>1, <5>3
        <4> QED
          BY Zenon, <4>1, <4>2
      <3>3. ToSet(sh) \subseteq 1..posted /\ t <= posted
        BY <1>1, <1>2, <1>4, <1>5, <3>1, <3>2
      <3>4. ASSUME NEW i \in (1..t) \ ToSet(sh) PROVE i <= r.total - n
        <4>1. i \in (1..top) \ ToSet(comments.shown) /\ i \notin ToSet(r.got)
          BY <3>1, <3>2
        <4>2. i <= r.total - r.off
          BY <1>4, <2>1, <4>1
        <4>3. i \in 1..(r.total - r.off)
          BY <1>2, <4>2
        <4>4. i <= r.total - r.off - Len(r.got)
          BY <1>4, <4>1, <4>3
        <4> QED
          BY <1>2, <3>1, <4>4
      <3> QED
        BY <3>2, <3>3, <3>4
    <2>2. CASE ~r.append
      <3>1. sh = r.got /\ n = Len(r.got) /\ t = r.total /\ r.off = 0
        BY <1>1, <1>6, <1>7, <2>2
      <3>2. \A i \in (1..r.total) \ ToSet(r.got) : i <= r.total - Len(r.got)
        <4>1. r.total - 0 = r.total
          BY <1>2
        <4> QED
          BY <1>4, <3>1, <4>1
      <3> QED
        BY <1>1, <1>2, <1>4, <3>1, <3>2
    <2> QED
      BY <2>1, <2>2
  <1>9. ~(n < r.total) => 1..t \subseteq ToSet(sh)
    <2> SUFFICES ASSUME ~(n < r.total), NEW i \in 1..t, i \notin ToSet(sh) PROVE FALSE
      OBVIOUS
    <2>1. i <= r.total - n
      BY <1>8
    <2> QED
      BY <1>2, <2>1
  <1>10. ASSUME NEW i \in (1..t) \ ToSet(sh) PROVE i <= posted - n - 0
    <2>1. i <= r.total - n
      BY <1>8
    <2> QED
      BY <1>1, <1>2, <1>4, <2>1
  <1>11. ShownSound'
    <2>1. ~comments'.more => 1..t \subseteq ToSet(sh)
      BY <1>6, <1>9
    <2>2. /\ comments'.shown = sh /\ comments'.loaded = n /\ top' = t /\ posted' = posted
      BY <1>6, <1>7
    <2> QED
      BY Zenon, <1>3, <1>8, <1>10, <2>1, <2>2 DEF ShownSound
  <1>12. AfterPost'
    BY <1>3 DEF AfterPost
  <1> QED
    BY <1>11, <1>12

LEMMA CommentsSettled == ASSUME CommentsIInv, CommentsAnswer \/ CommentsFail PROVE CommentsIInv'
  <1>1. CASE CommentsAnswer
    <2>1. PICK r \in reading :
            /\ r.phase = "read" /\ comments' = Ended(applyFetchResult(comments, r), r)
            /\ reading' = reading \ {r} /\ top' = IF r.append THEN top ELSE r.total
            /\ UNCHANGED <<gate, posting, draft, posted, beside>>
      BY <1>1 DEF CommentsAnswer
    <2>2. r \in CommentReq /\ comments \in CommentList /\ reading' = {}
      BY <2>1 DEF CommentsIInv, SharedTypes, OneReading
    <2>3. /\ comments' \in CommentList
          /\ comments'.shown = (IF r.append THEN merged(comments.shown, r.got) ELSE r.got)
          /\ comments'.loaded = (IF r.append THEN r.off + Len(r.got) ELSE Len(r.got))
          /\ comments'.more = (comments'.loaded < r.total)
      BY <2>1, <2>2, AnswerLists
    <2>4. top' \in Nat
      BY <2>1, <2>2 DEF CommentReq, CommentsIInv, SharedTypes
    <2>5. SharedTypes' /\ GateOnce' /\ OneReading'
      BY <2>1, <2>2, <2>3, <2>4 DEF CommentsIInv, SharedTypes, GateOnce, OneReading
    <2>6. ASSUME ~beside' PROVE Complete'
      <3>1. ~beside /\ posted' = posted /\ posting' = posting
        BY <2>1, <2>6
      <3>2. ShownSound' /\ AfterPost'
        BY <2>1, <2>3, <3>1, AnswerComplete
      <3>3. ReadsSound'
        BY <2>2 DEF ReadsSound
      <3> QED
        BY <3>2, <3>3 DEF Complete
    <2> QED
      BY <2>5, <2>6 DEF CommentsIInv
  <1>2. CASE CommentsFail
    <2>1. PICK r \in reading :
            /\ comments' = Ended([comments EXCEPT !.failed = TRUE], r) /\ reading' = reading \ {r}
            /\ UNCHANGED <<gate, posting, draft, posted, beside, top>>
      BY <1>2 DEF CommentsFail
    <2>2. r \in CommentReq /\ comments \in CommentList /\ reading' = {}
      BY <2>1 DEF CommentsIInv, SharedTypes, OneReading
    <2>3. /\ comments' \in CommentList
          /\ comments'.shown = comments.shown /\ comments'.loaded = comments.loaded /\ comments'.more = comments.more
      BY <2>1, <2>2 DEF Ended, CommentList
    <2>4. SharedTypes' /\ GateOnce' /\ OneReading'
      BY <2>1, <2>2, <2>3 DEF CommentsIInv, SharedTypes, GateOnce, OneReading
    <2>5. ASSUME ~beside' PROVE Complete'
      <3>1. Complete
        BY <2>1, <2>5 DEF CommentsIInv
      <3>2. AfterPost' /\ ReadsSound'
        BY <2>1, <2>2, <2>3, <3>1 DEF Complete, AfterPost, ReadsSound
      <3>3. Pending' = Pending
        BY <2>1 DEF Pending
      <3>4. ShownSound'
        BY <2>1, <2>3, <3>1, <3>3 DEF Complete, ShownSound
      <3> QED
        BY <3>2, <3>4 DEF Complete
    <2> QED
      BY <2>4, <2>5 DEF CommentsIInv
  <1> QED
    BY <1>1, <1>2

\* One more comment on the server is the newest one.
LEMMA MoreComments ==
  ASSUME CommentsIInv, UNCHANGED <<comments, reading, top>>, posted' = posted + 1,
         ~beside => Pending' <= Pending + 1 /\ Pending' \in 0..1
  PROVE  ~beside => ShownSound' /\ ReadsSound'
  <1> SUFFICES ASSUME ~beside PROVE ShownSound' /\ ReadsSound'
    OBVIOUS
  <1>1. Complete /\ posted \in Nat /\ top \in Nat /\ comments \in CommentList /\ reading \subseteq CommentReq
    BY DEF CommentsIInv, SharedTypes
  <1>2. PICK k \in 0..1, l \in 0..1 : k = Pending /\ l = Pending' /\ l <= k + 1
    BY DEF Pending
  <1>3. comments.loaded \in Nat
    BY <1>1 DEF CommentList
  <1>4. /\ IsInjective(comments.shown) /\ ToSet(comments.shown) \subseteq 1..(posted + 1) /\ top <= posted + 1
    BY <1>1 DEF Complete, ShownSound
  <1>5. ASSUME NEW i \in (1..top) \ ToSet(comments.shown) PROVE i <= posted + 1 - comments.loaded - l
    <2>1. i <= posted - comments.loaded - k
      BY <1>1, <1>2 DEF Complete, ShownSound
    <2> QED
      BY <1>1, <1>2, <1>3, <2>1
  <1>6. ShownSound'
    <2>1. ~comments.more => 1..top \subseteq ToSet(comments.shown)
      BY <1>1 DEF Complete, ShownSound
    <2>2. comments' = comments /\ top' = top /\ Pending' = l /\ posted' = posted + 1
      BY <1>2
    <2>3. /\ IsInjective(comments'.shown) /\ ToSet(comments'.shown) \subseteq 1..posted'
          /\ top' <= posted' /\ (~comments'.more => 1..top' \subseteq ToSet(comments'.shown))
      BY Zenon, <1>4, <2>1, <2>2
    <2>4. \A i \in (1..top') \ ToSet(comments'.shown) : i <= posted' - comments'.loaded - Pending'
      <3>1. \A i \in (1..top) \ ToSet(comments.shown) : i <= posted + 1 - comments.loaded - l
        BY Zenon, <1>5
      <3>2. /\ posted' - comments'.loaded - Pending' = posted + 1 - comments.loaded - l
            /\ top' = top /\ comments' = comments
        <4>1. comments'.loaded = comments.loaded /\ top' = top /\ comments' = comments
          BY <2>2
        <4>2. PICK c \in Nat : c = comments.loaded /\ c = comments'.loaded
          BY <1>3, <4>1
        <4>3. posted' - c - Pending' = posted + 1 - c - l
          BY <1>1, <2>2
        <4> QED
          BY Zenon, <4>1, <4>2, <4>3
      <3> QED
        BY Zenon, <3>1, <3>2
    <2> QED
      BY Zenon, <2>3, <2>4 DEF ShownSound
  <1>7. ReadsSound'
    <2>1. \A r \in reading : r.phase = "read" => r.total <= posted + 1
      <3> SUFFICES ASSUME NEW r \in reading, r.phase = "read" PROVE r.total <= posted + 1
        OBVIOUS
      <3>1. r.total \in Nat /\ r.total <= posted
        BY <1>1 DEF CommentReq, Complete, ReadsSound
      <3> QED
        BY <1>1, <3>1
    <2> QED
      BY Zenon, <1>1, <2>1 DEF Complete, ReadsSound
  <1> QED
    BY <1>6, <1>7

LEMMA PostingSteps ==
  ASSUME CommentsIInv, OthersComment \/ TypeComment \/ handleSubmitComment \/ PostStored \/ PostFails
  PROVE  CommentsIInv'
  <1>1. /\ comments \in CommentList /\ reading \subseteq CommentReq /\ posting \subseteq CommentPost
        /\ posted \in Nat /\ top \in Nat /\ \A p, q \in posting : p = q
    BY DEF CommentsIInv, SharedTypes, OneReading
  <1>2. UNCHANGED <<gate, comments, reading, top>> /\ (~beside' => ~beside)
    <2>1. UNCHANGED <<gate, comments, reading, top>>
      BY DEF OthersComment, TypeComment, handleSubmitComment, PostStored, PostFails
    <2>2. ASSUME beside PROVE beside'
      <3>1. CASE handleSubmitComment
        BY <2>2, <3>1 DEF handleSubmitComment
      <3>2. CASE OthersComment \/ TypeComment \/ PostStored \/ PostFails
        <4>1. beside' = beside
          BY <3>2 DEF OthersComment, TypeComment, PostStored, PostFails
        <4> QED
          BY <2>2, <4>1
      <3> QED
        BY <3>1, <3>2
    <2> QED
      BY <2>1, <2>2
  <1>3. GateOnce'
    BY <1>2 DEF CommentsIInv, GateOnce
  <1>4. posted + 1 \in Nat /\ posted + 1 \in 1..(posted + 1)
    BY <1>1
  <1>5. ASSUME posting' \subseteq CommentPost, \A p, q \in posting' : p = q, posted' \in Nat
        PROVE  SharedTypes' /\ OneReading'
    BY <1>1, <1>2, <1>5 DEF CommentsIInv, SharedTypes, OneReading
  <1>6. CASE OthersComment
    <2>1. posted' = posted + 1 /\ posting' = posting
      BY <1>6 DEF OthersComment
    <2>2. SharedTypes' /\ OneReading'
      BY <1>1, <1>4, <1>5, <2>1
    <2>3. ASSUME ~beside' PROVE Complete'
      <3>1. Complete
        BY <1>2, <2>3 DEF CommentsIInv
      <3>2. Pending' = Pending /\ Pending \in 0..1
        BY <2>1 DEF Pending
      <3>3. ShownSound' /\ ReadsSound'
        BY <1>2, <2>1, <2>3, <3>2, MoreComments
      <3>4. AfterPost'
        <4>1. \A p \in posting : p.phase = "stored" => p.id \in (1..(posted + 1)) \ ToSet(comments.shown)
          BY <1>1, <3>1 DEF Complete, AfterPost
        <4> QED
          BY Zenon, <1>2, <2>1, <3>1, <4>1 DEF Complete, AfterPost
      <3> QED
        BY <3>3, <3>4 DEF Complete
    <2> QED
      BY <1>3, <2>2, <2>3 DEF CommentsIInv
  <1>7. CASE PostStored
    <2>1. PICK p \in posting : p.phase = "wire"
      BY <1>7 DEF PostStored
    <2>2. PICK q : q = [phase |-> "stored", id |-> posted + 1] /\ posting' = {q} /\ posted' = posted + 1
      BY <1>7 DEF PostStored
    <2>3. q \in CommentPost /\ q.id = posted + 1 /\ q.phase = "stored"
      BY <1>4, <2>2 DEF CommentPost
    <2>4. SharedTypes' /\ OneReading'
      BY <1>4, <1>5, <2>2, <2>3
    <2>5. ASSUME ~beside' PROVE Complete'
      <3>1. Complete
        BY <1>2, <2>5 DEF CommentsIInv
      <3>2. Pending' = 1 /\ Pending = 0
        BY <1>1, <2>1, <2>2, <2>3 DEF Pending
      <3>3. ShownSound' /\ ReadsSound'
        BY <1>2, <2>2, <2>5, <3>2, MoreComments
      <3>4. \A r \in reading : r.phase # "read"
        BY <2>1, <3>1 DEF Complete, AfterPost
      <3>5. posted + 1 \notin ToSet(comments.shown)
        BY <1>1, <3>1 DEF Complete, ShownSound
      <3>6. AfterPost'
        BY Zenon, <1>2, <1>4, <2>2, <2>3, <3>4, <3>5 DEF AfterPost
      <3> QED
        BY <3>3, <3>6 DEF Complete
    <2> QED
      BY <1>3, <2>4, <2>5 DEF CommentsIInv
  <1>8. CASE TypeComment \/ handleSubmitComment \/ PostFails
    <2>1. posted' = posted /\ (posting' = posting \/ posting' = {} \/ posting' = {[phase |-> "wire", id |-> 0]})
      BY <1>8 DEF TypeComment, handleSubmitComment, PostFails
    <2>2. PICK q : q = [phase |-> "wire", id |-> 0]
      OBVIOUS
    <2>3. q \in CommentPost /\ q.phase = "wire"
      BY <2>2 DEF CommentPost
    <2>4. SharedTypes' /\ OneReading'
      <3>1. posting' = posting \/ posting' = {} \/ posting' = {q}
        BY <2>1, <2>2
      <3>2. posting' \subseteq CommentPost /\ \A a, b \in posting' : a = b
        BY <1>1, <2>3, <3>1
      <3> QED
        BY <1>1, <1>5, <2>1, <3>2
    <2>5. ASSUME ~beside' PROVE Complete'
      <3>1. Complete
        BY <1>2, <2>5 DEF CommentsIInv
      <3>2. Pending' = Pending
        <4>1. CASE TypeComment
          BY <4>1 DEF TypeComment, Pending
        <4>2. CASE handleSubmitComment
          <5>1. posting = {} /\ posting' = {q}
            BY <2>2, <4>2 DEF handleSubmitComment
          <5> QED
            BY <2>3, <5>1 DEF Pending
        <4>3. CASE PostFails
          <5>1. posting' = {} /\ \A p \in posting : p.phase = "wire"
            BY <1>1, <4>3 DEF PostFails
          <5> QED
            BY <5>1 DEF Pending
        <4> QED
          BY <1>8, <4>1, <4>2, <4>3
      <3>3. ShownSound'
        BY Zenon, <1>2, <2>1, <3>1, <3>2 DEF Complete, ShownSound
      <3>4. ReadsSound'
        BY Zenon, <1>2, <2>1, <3>1 DEF Complete, ReadsSound
      <3>5. AfterPost'
        <4>1. CASE TypeComment
          BY <1>2, <2>1, <3>1, <4>1 DEF Complete, AfterPost, TypeComment
        <4>2. CASE handleSubmitComment
          <5>1. posting' = {q} /\ \A r \in reading : r.phase # "read"
            BY <2>2, <2>5, <4>2 DEF handleSubmitComment
          <5> QED
            BY <1>2, <2>3, <5>1 DEF AfterPost
        <4>3. CASE PostFails
          BY <4>3 DEF AfterPost, PostFails
        <4> QED
          BY <1>8, <4>1, <4>2, <4>3
      <3> QED
        BY <3>3, <3>4, <3>5 DEF Complete
    <2> QED
      BY <1>3, <2>4, <2>5 DEF CommentsIInv
  <1> QED
    BY <1>6, <1>7, <1>8

\* The comment of the visitor is put on top of the list.
LEMMA PostAnswered == ASSUME CommentsIInv, PostAnswer PROVE CommentsIInv'
  <1>1. PICK p \in posting :
          /\ p.phase = "stored" /\ comments' = [comments EXCEPT !.shown = <<p.id>> \o @, !.loaded = @ + 1]
          /\ posting' = {} /\ UNCHANGED <<gate, reading, posted, beside, top>>
    BY DEF PostAnswer
  <1>2. /\ comments \in CommentList /\ reading \subseteq CommentReq /\ posted \in Nat /\ top \in Nat
        /\ p \in CommentPost
    BY DEF CommentsIInv, SharedTypes
  <1>3. PICK s \in Seq(Nat), n \in Nat, id \in Nat : s = comments.shown /\ n = comments.loaded /\ id = p.id
    BY <1>2 DEF CommentList, CommentPost
  <1>10. <<id>> \in Seq(Nat)
    OBVIOUS
  <1>11. PICK o \in Seq(Nat) : o = <<id>>
    BY <1>10
  <1>12. o \o s \in Seq(Nat)
    OBVIOUS
  <1>4. PICK t \in Seq(Nat) : t = o \o s
    BY <1>12
  <1>5. ToSet(t) = {id} \cup ToSet(s) /\ (IsInjective(s) /\ id \notin ToSet(s) => IsInjective(t))
    <2>2. ToSet(o) = {id} /\ IsInjective(o)
      BY <1>11 DEF ToSet, IsInjective
    <2>3. ToSet(t) = ToSet(o) \cup ToSet(s)
      BY <1>4, ValuesJoined
    <2>4. ASSUME IsInjective(s), id \notin ToSet(s) PROVE IsInjective(t)
      <3>1. ToSet(o) \cap ToSet(s) = {}
        BY <2>2, <2>4
      <3>2. IsInjective(o \o s)
        BY <2>2, <2>4, <3>1, InjectiveJoined
      <3> QED
        BY <1>4, <3>2
    <2> QED
      BY <2>2, <2>3, <2>4
  <1>13. PICK m \in Nat : m = n + 1
    OBVIOUS
  <1>6. comments' = [comments EXCEPT !.shown = t, !.loaded = m]
    BY <1>1, <1>2, <1>3, <1>11, <1>4, <1>13 DEF CommentList
  <1>7. /\ comments' \in CommentList /\ comments'.shown = t /\ comments'.loaded = m
        /\ comments'.more = comments.more /\ comments'.failed = comments.failed
        /\ comments'.loading = comments.loading /\ comments'.appending = comments.appending
    BY <1>2, <1>6 DEF CommentList
  <1>8. SharedTypes' /\ GateOnce' /\ OneReading'
    BY <1>1, <1>2, <1>7 DEF CommentsIInv, SharedTypes, GateOnce, OneReading
  <1>9. ASSUME ~beside' PROVE Complete'
    <2>1. Complete
      BY <1>1, <1>9 DEF CommentsIInv
    <2>2. id \in (1..posted) \ ToSet(s) /\ \A r \in reading : r.phase # "read"
      BY <1>1, <1>3, <2>1 DEF Complete, AfterPost
    <2>3. Pending = 1 /\ Pending' = 0
      BY <1>1 DEF Pending
    <2>4. /\ IsInjective(s) /\ ToSet(s) \subseteq 1..posted /\ top <= posted
          /\ ~comments.more => 1..top \subseteq ToSet(s)
          /\ \A i \in (1..top) \ ToSet(s) : i <= posted - n - 1
      BY <1>3, <2>1, <2>3 DEF Complete, ShownSound
    <2>5. ShownSound'
      <3>1. IsInjective(t) /\ ToSet(t) \subseteq 1..posted
        BY <1>5, <2>2, <2>4
      <3>2. ~comments.more => 1..top \subseteq ToSet(t)
        BY <1>5, <2>4
      <3>3. \A i \in (1..top) \ ToSet(t) : i <= posted - (n + 1) - 0
        BY <1>2, <1>5, <2>4
      <3> QED
        BY Zenon, <1>1, <1>7, <1>13, <2>3, <2>4, <3>1, <3>2, <3>3 DEF ShownSound
    <2>6. AfterPost'
      BY <1>1 DEF AfterPost
    <2>7. ReadsSound'
      <3>1. \A r \in reading : r.append => r.off <= n + 1
        <4> SUFFICES ASSUME NEW r \in reading, r.append PROVE r.off <= n + 1
          OBVIOUS
        <4>1. r.phase = "wire" /\ r.off \in Nat
          BY <1>2, <2>2 DEF CommentReq
        <4>2. r.off <= n
          BY <1>3, <2>1, <4>1 DEF Complete, ReadsSound
        <4> QED
          BY <4>1, <4>2
      <3> QED
        BY Zenon, <1>1, <1>7, <1>13, <2>2, <3>1 DEF ReadsSound
    <2> QED
      BY <2>5, <2>6, <2>7 DEF Complete
  <1> QED
    BY <1>8, <1>9 DEF CommentsIInv

LEMMA CommentsSound ==
  ASSUME CommentPage \in Nat, CommentsIInv, [ShareNext]_shareVars PROVE CommentsIInv'
  <1>1. CASE UNCHANGED shareVars
    BY <1>1 DEF shareVars, CommentsIInv, SharedTypes, GateOnce, OneReading, Complete, AfterPost, ShownSound, ReadsSound, Pending
  <1> QED
    BY <1>1, GateKept, CommentsFetched, CommentsRead, CommentsSettled, PostingSteps, PostAnswered DEF ShareNext

LEMMA CommentsStart == ASSUME MaxComments \in Nat, ShareInit PROVE CommentsIInv
  <1>1. /\ gate = GateStart /\ comments = NoComments /\ reading = {} /\ posting = {} /\ posted \in Nat /\ top = 0
    BY DEF ShareInit
  <1>0. <<>> \in Seq(Nat)
    OBVIOUS
  <1>2. PICK s \in Seq(Nat) : s = <<>>
    BY <1>0
  <1>3. comments \in CommentList /\ comments.shown = s /\ comments.more
    BY <1>1, <1>2 DEF NoComments, CommentList
  <1>4. IsInjective(s) /\ ToSet(s) = {}
    BY <1>2 DEF IsInjective, ToSet
  <1>5. SharedTypes /\ OneReading
    BY <1>1, <1>3 DEF SharedTypes, OneReading
  <1>6. GateOnce
    BY <1>1 DEF GateOnce, GateStart, Gates
  <1>7. Complete
    BY <1>1, <1>3, <1>4 DEF Complete, AfterPost, ShownSound, ReadsSound
  <1> QED
    BY <1>5, <1>6, <1>7 DEF CommentsIInv

LEMMA CommentsAll == ASSUME CommentsIInv PROVE CommentsComplete
  BY DEF CommentsIInv, Complete, ShownSound, CommentsComplete

\* useShareComments: paging by offset loses no comment and shows none twice, however
\* many others comment in between and whatever fails, unless a list was read while the
\* visitor was posting.
THEOREM CommentsAreComplete ==
  ASSUME CommentPage \in Nat, MaxComments \in Nat PROVE ShareSpec => []CommentsComplete
  <1>1. ShareInit => CommentsIInv
    BY CommentsStart
  <1>2. CommentsIInv /\ [ShareNext]_shareVars => CommentsIInv'
    BY CommentsSound
  <1>3. CommentsIInv => CommentsComplete
    BY CommentsAll
  <1> QED
    BY <1>1, <1>2, <1>3, PTL DEF ShareSpec

-----------------------------------------------------------------------------
(* The replies of a comment: what is shown and what is on its way names     *)
(* each reply once, and both merge by the replies that are shown already.   *)

ReplySpec == ReplyInit /\ [][ReplyNext]_replyVars

OnceEach    == {s \in Seq(Nat) : IsInjective(s)}
ReplyStates == [shown : OnceEach, count : Nat, expanded : BOOLEAN, failed : BOOLEAN]
ReplyReq    == [off : Nat, phase : {"wire", "read"}, got : OnceEach]
ReplyPost   == [phase : {"wire", "stored"}, id : Nat]
RepliesIInv == /\ replies \in ReplyStates /\ replyReq \subseteq ReplyReq /\ replyPost \subseteq ReplyPost
               /\ replied \in Nat

LEMMA ShortLists == <<>> \in OnceEach /\ \A id \in Nat : <<id>> \in OnceEach
  <1>1. <<>> \in Seq(Nat) /\ IsInjective(<<>>)
    BY DEF IsInjective
  <1>2. ASSUME NEW id \in Nat PROVE <<id>> \in Seq(Nat) /\ IsInjective(<<id>>)
    BY DEF IsInjective
  <1> QED
    BY <1>1, <1>2 DEF OnceEach

LEMMA OldestPage ==
  ASSUME CommentPage \in Nat, NEW n \in Nat, NEW off \in Nat
  PROVE  PageFrom(Oldest(n), off) \in OnceEach
  <1>1. PICK s : s = Oldest(n)
    OBVIOUS
  <1>2. s \in [1..n -> Nat]
    BY <1>1 DEF Oldest
  <1>3. s \in Seq(Nat)
    BY <1>2, SeqDef
  <1>4. IsInjective(s)
    BY <1>1 DEF Oldest, IsInjective
  <1>5. PICK page : page = PageFrom(s, off)
    OBVIOUS
  <1>6. page \in Seq(Nat) /\ IsInjective(page)
    BY <1>3, <1>4, <1>5, PageOfList DEF PageFrom
  <1> QED
    BY <1>1, <1>5, <1>6 DEF OnceEach

LEMMA MergedOnce == ASSUME NEW a \in OnceEach, NEW b \in OnceEach PROVE merged(a, b) \in OnceEach
  BY Merges DEF merged, OnceEach

LEMMA ReplySteps ==
  ASSUME CommentPage \in Nat, RepliesIInv, [ReplyNext]_replyVars
  PROVE  RepliesIInv'
  <1>1. /\ replies \in ReplyStates /\ replyReq \subseteq ReplyReq /\ replyPost \subseteq ReplyPost /\ replied \in Nat
    BY DEF RepliesIInv
  <1>2. CASE fetchReplies
    <2>1. PICK s \in OnceEach : s = <<>>
      BY ShortLists
    <2>2. PICK n \in Nat : n = Len(replies.shown)
      BY <1>1 DEF ReplyStates, OnceEach
    <2>3. PICK q : q = [off |-> n, phase |-> "wire", got |-> s] /\ replyReq' = {q}
      BY <1>2, <2>1, <2>2 DEF fetchReplies
    <2>4. q \in ReplyReq
      BY <2>3 DEF ReplyReq
    <2>5. replies' \in ReplyStates /\ UNCHANGED <<replyPost, replied>>
      BY <1>1, <1>2 DEF fetchReplies, ReplyStates
    <2> QED
      BY <1>1, <2>3, <2>4, <2>5 DEF RepliesIInv
  <1>3. CASE ReadReplies
    <2>1. PICK r \in replyReq : replyReq' = {[r EXCEPT !.phase = "read", !.got = PageFrom(Oldest(replied), r.off)]}
      BY <1>3 DEF ReadReplies
    <2>2. r \in ReplyReq /\ r.off \in Nat
      BY <1>1 DEF ReplyReq
    <2>3. PICK s \in OnceEach : s = PageFrom(Oldest(replied), r.off)
      BY <1>1, <2>2, OldestPage
    <2>4. PICK q : q = [r EXCEPT !.phase = "read", !.got = s] /\ replyReq' = {q}
      BY <2>1, <2>3
    <2>5. q \in ReplyReq
      BY <2>2, <2>4 DEF ReplyReq
    <2> QED
      BY <1>1, <1>3, <2>4, <2>5 DEF RepliesIInv, ReadReplies
  <1>4. CASE RepliesAnswer
    <2>1. PICK r \in replyReq : \/ replies' = [replies EXCEPT !.shown = merged(@, r.got), !.expanded = TRUE]
                                \/ replies' = [replies EXCEPT !.failed = TRUE]
      BY <1>4 DEF RepliesAnswer
    <2>2. r \in ReplyReq /\ r.got \in OnceEach /\ replies.shown \in OnceEach
      BY <1>1 DEF ReplyReq, ReplyStates
    <2>3. PICK s \in OnceEach : s = merged(replies.shown, r.got)
      BY <2>2, MergedOnce
    <2>4. replies' = [replies EXCEPT !.shown = s, !.expanded = TRUE] \/ replies' = [replies EXCEPT !.failed = TRUE]
      BY <1>1, <2>1, <2>3 DEF ReplyStates
    <2>5. replies' \in ReplyStates
      BY <1>1, <2>4 DEF ReplyStates
    <2>6. replyReq' = {} /\ UNCHANGED <<replyPost, replied>>
      BY <1>4 DEF RepliesAnswer
    <2> QED
      BY <1>1, <2>5, <2>6 DEF RepliesIInv
  <1>5. CASE submitReply
    <2>1. PICK p : p = [phase |-> "wire", id |-> 0] /\ replyPost' = {p}
      BY <1>5 DEF submitReply
    <2>2. p \in ReplyPost
      BY <2>1 DEF ReplyPost
    <2> QED
      BY <1>1, <1>5, <2>1, <2>2 DEF RepliesIInv, submitReply
  <1>6. CASE ReplyStored
    <2>1. PICK n \in Nat : n = replied + 1
      BY <1>1
    <2>2. PICK p : p = [phase |-> "stored", id |-> n] /\ replyPost' = {p}
      BY <1>6, <2>1 DEF ReplyStored
    <2>3. p \in ReplyPost
      BY <2>2 DEF ReplyPost
    <2>4. replied' = n /\ UNCHANGED <<replies, replyReq>>
      BY <1>6, <2>1 DEF ReplyStored
    <2> QED
      BY <1>1, <2>2, <2>3, <2>4 DEF RepliesIInv
  <1>7. CASE ReplyAnswer
    <2>1. PICK p \in replyPost : \/ replies' = [replies EXCEPT !.shown = shownWith(@, p.id), !.count = @ + 1, !.expanded = TRUE]
                                 \/ replies' = replies
      BY <1>7 DEF ReplyAnswer
    <2>2. p \in ReplyPost /\ p.id \in Nat /\ replies.shown \in OnceEach /\ replies.count \in Nat
      BY <1>1 DEF ReplyPost, ReplyStates
    <2>3. PICK one \in OnceEach : one = <<p.id>>
      BY <2>2, ShortLists
    <2>4. PICK s \in OnceEach : s = shownWith(replies.shown, p.id)
      BY <2>2, <2>3, MergedOnce DEF shownWith
    <2>5. PICK n \in Nat : n = replies.count + 1
      BY <2>2
    <2>6. replies' = [replies EXCEPT !.shown = s, !.count = n, !.expanded = TRUE] \/ replies' = replies
      BY <1>1, <2>1, <2>4, <2>5 DEF ReplyStates
    <2>7. replies' \in ReplyStates
      BY <1>1, <2>6 DEF ReplyStates
    <2>8. replyPost' = {} /\ UNCHANGED <<replyReq, replied>>
      BY <1>7 DEF ReplyAnswer
    <2> QED
      BY <1>1, <2>7, <2>8 DEF RepliesIInv
  <1>8. CASE OthersReply
    <2>1. replied' \in Nat /\ UNCHANGED <<replies, replyReq, replyPost>>
      BY <1>1, <1>8 DEF OthersReply
    <2> QED
      BY <1>1, <2>1 DEF RepliesIInv
  <1>9. CASE UNCHANGED <<replies, replyReq, replyPost, replied>>
    BY <1>1, <1>9 DEF RepliesIInv
  <1>10. (\E t \in {"comment", "another"} : toggleReply(t)) \/ cancelReply \/ TypeReply \/ UNCHANGED replyVars
         => UNCHANGED <<replies, replyReq, replyPost, replied>>
    BY DEF toggleReply, cancelReply, TypeReply, replyVars
  <1> QED
    BY <1>2, <1>3, <1>4, <1>5, <1>6, <1>7, <1>8, <1>9, <1>10 DEF ReplyNext

LEMMA ReplyStarts == ASSUME MaxComments \in Nat, ReplyInit PROVE RepliesIInv
  <1>1. PICK s \in OnceEach : s = <<>>
    BY ShortLists
  <1>2. replied \in Nat /\ replies = [shown |-> s, count |-> replied, expanded |-> FALSE, failed |-> FALSE]
    BY <1>1 DEF ReplyInit
  <1>3. replies \in ReplyStates
    BY <1>2 DEF ReplyStates
  <1> QED
    BY <1>2, <1>3 DEF RepliesIInv, ReplyInit

LEMMA RepliesOnce == ASSUME RepliesIInv PROVE RepliesShownOnce
  BY DEF RepliesIInv, ReplyStates, OnceEach, RepliesShownOnce

\* CommentItem: a reply that the visitor posts while a page that holds it is under way
\* is shown once, however the two answers are ordered and whoever else replies.
THEOREM RepliesAppearOnce ==
  ASSUME CommentPage \in Nat, MaxComments \in Nat PROVE ReplySpec => []RepliesShownOnce
  <1>1. ReplyInit => RepliesIInv
    BY ReplyStarts
  <1>2. RepliesIInv /\ [ReplyNext]_replyVars => RepliesIInv'
    BY ReplySteps
  <1>3. RepliesIInv => RepliesShownOnce
    BY RepliesOnce
  <1> QED
    BY <1>1, <1>2, <1>3, PTL DEF ReplySpec

-----------------------------------------------------------------------------
(* The preview of a link. A popover that says it is loading belongs to the  *)
(* link under the pointer; requests are numbered, and only the last counts. *)

HoverSpec == HoverInit /\ [][HoverNext]_hoverVars

Previews(p) == [open : BOOLEAN, title : {p.title}, loading : BOOLEAN, content : {p.content}]
HoverIInv ==
  /\ popover \in Previews(popover)
  /\ hoverTimer # Nowhere => hoverTimer \in Links
  /\ \A r \in hovers : r = [id |-> r.id, link |-> r.link, stage |-> r.stage]
  /\ HoverNeverStuck

LEMMA PopoverWith ==
  ASSUME NEW p, p \in Previews(p), NEW content, NEW open \in BOOLEAN
  PROVE  /\ [p EXCEPT !.loading = FALSE, !.content = content] \in Previews([p EXCEPT !.loading = FALSE, !.content = content])
         /\ ~[p EXCEPT !.loading = FALSE, !.content = content].loading
         /\ [p EXCEPT !.open = FALSE, !.loading = FALSE] \in Previews([p EXCEPT !.open = FALSE, !.loading = FALSE])
         /\ ~[p EXCEPT !.open = FALSE, !.loading = FALSE].loading
  BY DEF Previews

LEMMA HoverSound == ASSUME Nowhere \notin Links, HoverIInv, [HoverNext]_hoverVars PROVE HoverIInv'
  <1>1. CASE UNCHANGED hoverVars \/ handleClick \/ ClickAnswer
    BY <1>1 DEF hoverVars, handleClick, ClickAnswer, HoverIInv, HoverNeverStuck
  <1>2. ASSUME NEW l \in Links, openHoverPreview(l) PROVE HoverIInv'
    <2>1. PICK p : /\ \/ p = Popover(l, FALSE, l) /\ hoverTimer' = Nowhere
                      \/ p = Popover(l, TRUE, "") /\ hoverTimer' = l
                   /\ popover' = p /\ UNCHANGED <<hoverID, hovers>>
      BY <1>2 DEF openHoverPreview
    <2>2. p \in Previews(p) /\ (p.loading => hoverTimer' = l)
      <3>1. CASE p = Popover(l, FALSE, l)
        BY <3>1 DEF Popover, Previews
      <3>2. CASE p = Popover(l, TRUE, "") /\ hoverTimer' = l
        BY <3>2 DEF Popover, Previews
      <3> QED
        BY <2>1, <3>1, <3>2
    <2> QED
      BY <1>2, <2>1, <2>2 DEF HoverIInv, HoverNeverStuck
  <1>3. CASE closeHoverPreview
    BY <1>3, PopoverWith DEF closeHoverPreview, HoverIInv, HoverNeverStuck
  <1>4. CASE HoverTimer
    <2>1. PICK n, stage : n = hoverID + 1 /\ stage = IF hoverTimer \in IDLinks THEN "detail" ELSE "resolve"
      OBVIOUS
    <2>2. /\ hovers' = hovers \cup {[id |-> n, link |-> hoverTimer, stage |-> stage]}
          /\ hoverID' = n /\ hoverTimer' = Nowhere /\ popover' = popover
      BY <1>4, <2>1 DEF HoverTimer
    <2> QED
      <3>1. \A r \in hovers' : r = [id |-> r.id, link |-> r.link, stage |-> r.stage]
        BY <2>2 DEF HoverIInv
      <3>2. HoverNeverStuck'
        <4>1. PICK r : r = [id |-> n, link |-> hoverTimer, stage |-> stage]
          OBVIOUS
        <4>2. r \in hovers' /\ r.id = hoverID'
          BY <2>2, <4>1
        <4> QED
          BY <4>2 DEF HoverNeverStuck
      <3> QED
        BY <2>2, <3>1, <3>2 DEF HoverIInv
  <1>5. CASE HoverResolved
    <2>1. PICK r \in hovers :
            \/ hovers' = (hovers \ {r}) \cup {[r EXCEPT !.stage = "detail"]} /\ UNCHANGED popover
            \/ /\ hovers' = hovers \ {r}
               /\ IfCurrent(r, [popover EXCEPT !.loading = FALSE, !.content = "No preview available"])
      BY <1>5 DEF HoverResolved
    <2>2. UNCHANGED <<hoverTimer, hoverID>>
      BY <1>5 DEF HoverResolved
    <2>3. CASE hovers' = (hovers \ {r}) \cup {[r EXCEPT !.stage = "detail"]} /\ UNCHANGED popover
      <3>1. PICK s : s = [r EXCEPT !.stage = "detail"]
        OBVIOUS
      <3>2. s = [id |-> r.id, link |-> r.link, stage |-> "detail"]
        BY <3>1 DEF HoverIInv
      <3>3. hovers' = (hovers \ {r}) \cup {s} /\ popover' = popover
        BY <2>3, <3>1
      <3> QED
        BY <2>2, <3>2, <3>3 DEF HoverIInv, HoverNeverStuck
    <2>4. CASE hovers' = hovers \ {r} /\ IfCurrent(r, [popover EXCEPT !.loading = FALSE, !.content = "No preview available"])
      BY <2>2, <2>4, PopoverWith DEF IfCurrent, HoverIInv, HoverNeverStuck
    <2> QED
      BY <2>1, <2>3, <2>4
  <1>6. CASE HoverAnswer
    <2>1. PICK r \in hovers : /\ hovers' = hovers \ {r} /\ IfCurrent(r, Popover(r.link, FALSE, r.link))
                              /\ UNCHANGED <<hoverTimer, hoverID>>
      BY <1>6 DEF HoverAnswer
    <2> QED
      BY <2>1 DEF IfCurrent, Popover, HoverIInv, HoverNeverStuck, Previews
  <1>7. CASE HoverFails
    <2>1. PICK r \in hovers : /\ hovers' = hovers \ {r} /\ UNCHANGED <<hoverTimer, hoverID>>
                              /\ IfCurrent(r, [popover EXCEPT !.loading = FALSE, !.content = "Failed to load preview"])
      BY <1>7 DEF HoverFails
    <2> QED
      BY <2>1, PopoverWith DEF IfCurrent, HoverIInv, HoverNeverStuck
  <1> QED
    BY <1>1, <1>2, <1>3, <1>4, <1>5, <1>6, <1>7 DEF HoverNext

LEMMA HoverStarts == ASSUME HoverInit PROVE HoverIInv
  BY DEF HoverInit, HoverIInv, HoverNeverStuck, Previews

\* useHoverPreview: a preview that says it is loading has its timer or the current request to
\* end it, whatever links the pointer crosses and whichever answers are lost.
THEOREM PreviewsEnd == ASSUME Nowhere \notin Links PROVE HoverSpec => []HoverNeverStuck
  <1>1. HoverInit => HoverIInv
    BY HoverStarts
  <1>2. HoverIInv /\ [HoverNext]_hoverVars => HoverIInv'
    BY HoverSound
  <1>3. HoverIInv => HoverNeverStuck
    BY DEF HoverIInv
  <1> QED
    BY <1>1, <1>2, <1>3, PTL DEF HoverSpec

-----------------------------------------------------------------------------
(* Diagrams. A component shows the text of the block or none of it: an      *)
(* answer only counts when the text is still the one it was asked for, and  *)
(* the full-screen view is closed while the text is edited.                 *)

DiagramSpec == DiagramInit /\ [][DiagramNext]_diagramVars

\* A text of white space alone is not drawn (the effect of Mermaid returns).
DrawableTexts == \A c \in Charts : Trimmed[c] # ""

Zooms(m) == [open : BOOLEAN, zoom : {m.zoom}, panned : {m.panned}, dragging : {m.dragging}, frames : {m.frames}, scaled : {m.scaled}]
Shows(m) == /\ m \in [key : {chart}, svg : {"", Trimmed[chart]}, failed : BOOLEAN, asked : Nat]
            /\ m.failed => Trimmed[chart] \in Invalid
SiteSound(s) ==
  drawn[s] # Unmounted => Shows(drawn[s]) /\ (Mermaid(drawn[s]) # "" \/ \E d \in drawings : d.site = s /\ Counts(d))
DiagramIInv ==
  /\ chart \in Charts /\ drawingNo \in Nat /\ modal \in Zooms(modal)
  /\ DOMAIN drawn = Sites /\ \A s \in Sites : SiteSound(s)
  /\ ~modal.open => drawn["modal"] = Unmounted
  /\ \A d \in drawings : d.n \in Nat /\ d.site \in Sites /\ d.chart \in Charts

\* A component that is mounted at a site, or given another text.
LEMMA MountedSite ==
  ASSUME DrawableTexts, DiagramIInv, NEW s \in Sites, NEW c \in Charts, chart' = c,
         Draws(s, c), drawn' = [drawn EXCEPT ![s] = Component(s, c, drawingNo)],
         \A t \in Sites \ {s} : drawn[t] = Unmounted \/ c = chart
  PROVE  /\ DOMAIN drawn' = Sites /\ \A t \in Sites : SiteSound(t)'
         /\ \A t \in Sites \ {s} : drawn'[t] = drawn[t]
         /\ drawingNo' \in Nat
         /\ \A d \in drawings' : d.n \in Nat /\ d.site \in Sites /\ d.chart \in Charts
  <1>1. PICK m : /\ m = [key |-> c, svg |-> IF <<s, c>> \in svgCache THEN Trimmed[c] ELSE "", failed |-> FALSE, asked |-> drawingNo]
                 /\ drawn' = [drawn EXCEPT ![s] = m]
    BY DEF Component
  <1>2. DOMAIN drawn' = Sites /\ drawn'[s] = m /\ \A t \in Sites \ {s} : drawn'[t] = drawn[t]
    BY <1>1 DEF DiagramIInv
  <1>3. PICK d : d = [n |-> drawingNo, site |-> s, chart |-> c]
    OBVIOUS
  <1>4. /\ drawingNo' \in Nat /\ drawings \subseteq drawings' /\ drawings' \subseteq drawings \cup {d}
        /\ <<s, c>> \notin svgCache => d \in drawings'
    BY <1>3 DEF Draws, DiagramIInv
  <1>5. d.n = drawingNo /\ d.site = s /\ d.chart = c /\ drawingNo \in Nat
    BY <1>3 DEF DiagramIInv
  <1>6. Shows(m)'
    BY <1>1, <1>5 DEF Shows
  <1>7. SiteSound(s)'
    <2>1. CASE <<s, c>> \in svgCache
      <3>1. Mermaid(m) = Trimmed[c]
        BY <1>1, <2>1 DEF Mermaid
      <3> QED
        BY <1>2, <1>6, <3>1 DEF SiteSound, DrawableTexts
    <2>2. CASE <<s, c>> \notin svgCache
      <3>1. m.asked = d.n /\ m.key = d.chart
        BY <1>1, <1>5
      <3>2. Counts(d)'
        BY <1>2, <1>5, <3>1 DEF Counts
      <3> QED
        BY <1>2, <1>4, <1>5, <1>6, <2>2, <3>2 DEF SiteSound
    <2> QED
      BY <2>1, <2>2
  <1>8. ASSUME NEW t \in Sites \ {s} PROVE SiteSound(t)'
    <2>1. SUFFICES ASSUME drawn[t] # Unmounted PROVE SiteSound(t)'
      BY <1>2 DEF SiteSound
    <2>2. Shows(drawn[t]) /\ (Mermaid(drawn[t]) # "" \/ \E e \in drawings : e.site = t /\ Counts(e))
      BY <2>1 DEF DiagramIInv, SiteSound
    <2>3. chart' = chart /\ drawn'[t] = drawn[t]
      BY <1>2, <2>1
    <2>4. Shows(drawn[t])'
      BY <2>2, <2>3 DEF Shows
    <2>5. ASSUME NEW e \in drawings, e.site = t, Counts(e) PROVE Counts(e)'
      BY <2>3, <2>5 DEF Counts
    <2> QED
      BY <1>4, <2>2, <2>3, <2>4, <2>5 DEF SiteSound
  <1> QED
    BY <1>2, <1>4, <1>5, <1>7, <1>8 DEF DiagramIInv

\* A site that stays as it is, with the renderings that count for it.
LEMMA SiteStays ==
  ASSUME NEW s, SiteSound(s), chart' = chart, drawn'[s] = drawn[s],
         \A d \in drawings : d.site = s /\ Counts(d) => d \in drawings'
  PROVE  SiteSound(s)'
  <1>1. SUFFICES ASSUME drawn[s] # Unmounted PROVE SiteSound(s)'
    BY DEF SiteSound
  <1>2. Shows(drawn[s]) /\ (Mermaid(drawn[s]) # "" \/ \E d \in drawings : d.site = s /\ Counts(d))
    BY <1>1 DEF SiteSound
  <1>3. Shows(drawn[s])'
    BY <1>2 DEF Shows
  <1>4. ASSUME NEW d \in drawings, d.site = s, Counts(d) PROVE Counts(d)' /\ d \in drawings'
    BY <1>4 DEF Counts
  <1> QED
    BY <1>2, <1>3, <1>4 DEF SiteSound

LEMMA DrawingEnds == ASSUME DrawableTexts, DiagramIInv, DrawingAnswer PROVE DiagramIInv'
  <1>1. PICK d \in drawings :
          /\ drawings' = drawings \ {d} /\ UNCHANGED <<chart, drawingNo, modal>>
          /\ IF ~Counts(d) THEN UNCHANGED <<drawn, svgCache>>
             ELSE IF Trimmed[d.chart] \in Invalid THEN drawn' = [drawn EXCEPT ![d.site].failed = TRUE] /\ UNCHANGED svgCache
             ELSE drawn' = [drawn EXCEPT ![d.site].svg = Trimmed[d.chart], ![d.site].failed = FALSE]
    BY DEF DrawingAnswer
  <1>2. d.n \in Nat /\ d.site \in Sites /\ d.chart \in Charts
    BY DEF DiagramIInv
  <1>3. CASE ~Counts(d)
    <2>1. \A s \in Sites : SiteSound(s)'
      BY <1>1, <1>3, SiteStays DEF DiagramIInv
    <2> QED
      BY <1>1, <1>3, <2>1 DEF DiagramIInv
  <1>4. CASE Counts(d)
    <2>1. drawn[d.site].asked = d.n /\ drawn[d.site].key = d.chart
      BY <1>4 DEF Counts
    <2>2. drawn[d.site] # Unmounted
      <3>1. Unmounted.asked = -1
        BY DEF Unmounted
      <3> QED
        BY <1>2, <2>1, <3>1
    <2>3. Shows(drawn[d.site]) /\ d.chart = chart
      BY <1>2, <2>1, <2>2 DEF DiagramIInv, SiteSound, Shows
    <2>4. PICK m : /\ drawn' = [drawn EXCEPT ![d.site] = m]
                   /\ \/ m = [drawn[d.site] EXCEPT !.failed = TRUE] /\ Trimmed[chart] \in Invalid
                      \/ m = [drawn[d.site] EXCEPT !.svg = Trimmed[chart], !.failed = FALSE]
      <3>1. CASE Trimmed[chart] \in Invalid
        BY <1>1, <1>4, <2>3, <3>1
      <3>2. CASE Trimmed[chart] \notin Invalid
        BY <1>1, <1>2, <1>4, <2>3, <3>2 DEF DiagramIInv
      <3> QED
        BY <3>1, <3>2
    <2>5. Shows(m) /\ Mermaid(m) # ""
      BY <2>3, <2>4 DEF Shows, Mermaid, DrawableTexts, DiagramIInv
    <2>6. DOMAIN drawn' = Sites /\ drawn'[d.site] = m /\ \A s \in Sites \ {d.site} : drawn'[s] = drawn[s]
      BY <1>2, <2>4 DEF DiagramIInv
    <2>7. SiteSound(d.site)'
      BY <1>1, <2>5, <2>6 DEF SiteSound, Shows
    <2>8. \A s \in Sites \ {d.site} : SiteSound(s)'
      BY <1>1, <2>6, SiteStays DEF DiagramIInv
    <2>9. ~modal.open => d.site # "modal"
      BY <2>2 DEF DiagramIInv
    <2> QED
      BY <1>1, <1>2, <2>6, <2>7, <2>8, <2>9 DEF DiagramIInv, Sites
  <1> QED
    BY <1>3, <1>4

LEMMA ModalOpens == ASSUME DrawableTexts, DiagramIInv, openModal PROVE DiagramIInv'
  <1>1. /\ ~modal.open /\ chart' = chart /\ Draws("modal", chart)
        /\ drawn' = [drawn EXCEPT !["modal"] = Component("modal", chart, drawingNo)]
        /\ modal' = [ClosedModal EXCEPT !.open = TRUE]
    BY DEF openModal, MermaidBlock
  <1>2. "modal" \in Sites /\ chart \in Charts
    BY DEF DiagramIInv, Sites
  <1>3. modal' \in Zooms(modal)' /\ modal'.open
    BY <1>1 DEF Zooms, ClosedModal
  <1>4. /\ DOMAIN drawn' = Sites /\ \A t \in Sites : SiteSound(t)'
        /\ drawingNo' \in Nat
        /\ \A d \in drawings' : d.n \in Nat /\ d.site \in Sites /\ d.chart \in Charts
    BY <1>1, <1>2, MountedSite
  <1> QED
    BY <1>1, <1>2, <1>3, <1>4 DEF DiagramIInv

LEMMA ChartEdited == ASSUME DrawableTexts, DiagramIInv, NEW c \in Charts, EditChart(c) PROVE DiagramIInv'
  <1>1. /\ ~modal.open /\ chart' = c /\ Draws("inline", c) /\ modal' = modal
        /\ drawn' = [drawn EXCEPT !["inline"] = Component("inline", c, drawingNo)]
    BY DEF EditChart
  <1>2. "inline" \in Sites /\ \A t \in Sites \ {"inline"} : drawn[t] = Unmounted
    BY <1>1 DEF DiagramIInv, Sites
  <1>3. /\ DOMAIN drawn' = Sites /\ \A t \in Sites : SiteSound(t)'
        /\ \A t \in Sites \ {"inline"} : drawn'[t] = drawn[t]
        /\ drawingNo' \in Nat
        /\ \A d \in drawings' : d.n \in Nat /\ d.site \in Sites /\ d.chart \in Charts
    BY <1>1, <1>2, MountedSite
  <1>4. drawn'["modal"] = Unmounted
    BY <1>2, <1>3 DEF Sites
  <1> QED
    BY <1>1, <1>3, <1>4 DEF DiagramIInv

LEMMA ModalSteps ==
  ASSUME DiagramIInv, NEW m, m \in Zooms(m), modal' = m, UNCHANGED <<chart, drawn, drawings, drawingNo>>,
         m.open = modal.open
  PROVE  DiagramIInv'
  <1>1. \A s \in Sites : SiteSound(s)'
    BY SiteStays DEF DiagramIInv
  <1> QED
    BY <1>1 DEF DiagramIInv

LEMMA DiagramSound == ASSUME DrawableTexts, DiagramIInv, [DiagramNext]_diagramVars PROVE DiagramIInv'
  <1>1. CASE UNCHANGED diagramVars \/ handleCopyLocal \/ CopyAnswer \/ CopyTimer
    <2>1. UNCHANGED <<chart, drawn, drawings, drawingNo, modal>>
      BY <1>1 DEF diagramVars, handleCopyLocal, CopyAnswer, CopyTimer, CopyStep
    <2>2. modal \in Zooms(modal)
      BY DEF DiagramIInv
    <2> QED
      BY <2>1, <2>2, ModalSteps
  <1>2. CASE closeModal
    <2>1. /\ modal' = ClosedModal /\ drawn' = [drawn EXCEPT !["modal"] = Unmounted]
          /\ UNCHANGED <<chart, drawings, drawingNo>>
      BY <1>2 DEF closeModal
    <2>2. modal' \in Zooms(modal)' /\ ~modal'.open
      BY <2>1 DEF Zooms, ClosedModal
    <2>3. DOMAIN drawn' = Sites /\ drawn'["modal"] = Unmounted /\ drawn'["inline"] = drawn["inline"]
      BY <2>1 DEF DiagramIInv, Sites
    <2>4. SiteSound("modal")'
      BY <2>3 DEF SiteSound
    <2>5. SiteSound("inline")'
      BY <2>1, <2>3, SiteStays DEF DiagramIInv, Sites
    <2> QED
      BY <2>1, <2>2, <2>3, <2>4, <2>5 DEF DiagramIInv, Sites
  <1>3. ASSUME NEW m, ModalStep(m), m \in Zooms(m), m.open = modal.open PROVE DiagramIInv'
    BY <1>3, ModalSteps DEF ModalStep
  <1>4. CASE measure
    <2>1. PICK frames, scaled : ModalStep([modal EXCEPT !.frames = frames, !.scaled = scaled])
      BY <1>4 DEF measure, Zooms, DiagramIInv
    <2>2. PICK m : m = [modal EXCEPT !.frames = frames, !.scaled = scaled]
      OBVIOUS
    <2>3. m \in Zooms(m) /\ m.open = modal.open /\ ModalStep(m)
      BY <2>1, <2>2 DEF DiagramIInv, Zooms
    <2> QED
      BY <2>3, <1>3
  <1>5. ASSUME NEW z, handleZoomWheel(z) PROVE DiagramIInv'
    <2>1. PICK m : m = [modal EXCEPT !.zoom = @ + z, !.frames = 0]
      OBVIOUS
    <2>2. m \in Zooms(m) /\ m.open = modal.open /\ ModalStep(m)
      BY <1>5, <2>1 DEF DiagramIInv, Zooms, handleZoomWheel
    <2> QED
      BY <2>2, <1>3
  <1>6. CASE handlePanStart \/ handlePanMove \/ handlePanEnd
    <2>1. PICK m : m \in {[modal EXCEPT !.dragging = TRUE], [modal EXCEPT !.panned = TRUE], [modal EXCEPT !.dragging = FALSE]} /\ ModalStep(m)
      BY <1>6 DEF handlePanStart, handlePanMove, handlePanEnd
    <2>2. m \in Zooms(m) /\ m.open = modal.open
      BY <2>1 DEF DiagramIInv, Zooms
    <2> QED
      BY <2>1, <2>2, <1>3
  <1>7. CASE resetZoom
    <2>1. PICK frames : ModalStep([modal EXCEPT !.zoom = 0, !.panned = FALSE, !.frames = frames])
      BY <1>7 DEF resetZoom, Zooms, DiagramIInv
    <2>2. PICK m : m = [modal EXCEPT !.zoom = 0, !.panned = FALSE, !.frames = frames]
      OBVIOUS
    <2>3. m \in Zooms(m) /\ m.open = modal.open /\ ModalStep(m)
      BY <2>1, <2>2 DEF DiagramIInv, Zooms
    <2> QED
      BY <2>3, <1>3
  <1> QED
    BY <1>1, <1>2, <1>4, <1>5, <1>6, <1>7, DrawingEnds, ModalOpens, ChartEdited DEF DiagramNext

LEMMA DiagramStarts == ASSUME DiagramInit PROVE DiagramIInv
  <1>1. PICK d : d = [n |-> 0, site |-> "inline", chart |-> chart] /\ drawings = {d}
    BY DEF DiagramInit
  <1>2. PICK m : m = [key |-> chart, svg |-> "", failed |-> FALSE, asked |-> 0]
    OBVIOUS
  <1>3. DOMAIN drawn = Sites /\ drawn["inline"] = m /\ drawn["modal"] = Unmounted
    BY <1>2 DEF DiagramInit, Sites, Unmounted
  <1>4. d.n = 0 /\ d.site = "inline" /\ d.chart = chart
    BY <1>1
  <1>5. SiteSound("inline")
    <2>1. m.asked = 0 /\ m.key = chart
      BY <1>2
    <2>2. Counts(d) /\ d \in drawings
      BY <1>1, <1>3, <1>4, <2>1 DEF Counts
    <2>3. Shows(m)
      BY <1>2 DEF Shows
    <2> QED
      BY <1>3, <1>4, <2>2, <2>3 DEF SiteSound
  <1>6. SiteSound("modal")
    BY <1>3 DEF SiteSound
  <1>7. modal \in Zooms(modal)
    BY DEF DiagramInit, ClosedModal, Zooms
  <1> QED
    BY <1>1, <1>3, <1>4, <1>5, <1>6, <1>7 DEF DiagramInit, DiagramIInv, Sites

LEMMA DiagramsMatch == ASSUME DiagramIInv PROVE DiagramMatchesChart
  <1>1. SUFFICES ASSUME NEW s \in Sites, drawn[s] # Unmounted
        PROVE  /\ drawn[s].key = chart
               /\ Mermaid(drawn[s]) \in {"", Trimmed[chart]} \cup (IF Trimmed[chart] \in Invalid THEN {"Invalid Mermaid Syntax"} ELSE {})
               /\ Mermaid(drawn[s]) # "" \/ \E d \in drawings : d.site = s /\ Counts(d)
    BY DEF DiagramMatchesChart
  <1>2. Shows(drawn[s]) /\ (Mermaid(drawn[s]) # "" \/ \E d \in drawings : d.site = s /\ Counts(d))
    BY <1>1 DEF DiagramIInv, SiteSound
  <1> QED
    BY <1>2 DEF Shows, Mermaid

\* Mermaid: a mounted diagram shows the text it was given, says that it cannot be drawn, or is
\* being drawn, however renderings overtake each other while the text is edited.
THEOREM DiagramsAreCurrent == ASSUME DrawableTexts PROVE DiagramSpec => []DiagramMatchesChart
  <1>1. DiagramInit => DiagramIInv
    BY DiagramStarts
  <1>2. DiagramIInv /\ [DiagramNext]_diagramVars => DiagramIInv'
    BY DiagramSound
  <1>3. DiagramIInv => DiagramMatchesChart
    BY DiagramsMatch
  <1> QED
    BY <1>1, <1>2, <1>3, PTL DEF DiagramSpec

-----------------------------------------------------------------------------
(* The dialogs of import and export.                                        *)

DialogTyped ==
  /\ flow \in [open : BOOLEAN, step : {"upload", "parsing", "preview", "importing", "done"},
               mode : ImportModes, error : BOOLEAN, known : BOOLEAN]
  /\ request \in [for : {"none", "upload", "confirm", "poll"}, at : {"wire", "answered", "refused"}]
  /\ export \in [open : BOOLEAN, exporting : BOOLEAN, error : BOOLEAN, wire : BOOLEAN]
DialogIInv == DialogTyped /\ ImportNeverStuck

LEMMA DialogStarts == ASSUME ImportInit, ExportInit PROVE DialogIInv
  BY DEF ImportInit, ExportInit, DialogIInv, DialogTyped, ImportNeverStuck, FlowReset, FlowStart, NoExport, ExportStart,
         Quiet, ImportModes

\* The four ways in which the dialog and its request change together.
LEMMA DialogCloses ==
  ASSUME DialogIInv, UNCHANGED export, NEW open \in BOOLEAN, flow' = FlowStart(open), request' = Quiet
  PROVE  DialogIInv'
  BY DEF DialogIInv, DialogTyped, ImportNeverStuck, FlowStart, Quiet, ImportModes
LEMMA DialogFails ==
  ASSUME DialogIInv, UNCHANGED export, NEW step \in {"upload", "preview"}, Failing(step)
  PROVE  DialogIInv'
  BY DEF DialogIInv, DialogTyped, ImportNeverStuck, Failing, Quiet
LEMMA DialogAsks ==
  ASSUME DialogIInv, UNCHANGED export, importFile \/ confirm PROVE DialogIInv'
  <1>1. CASE importFile
    BY <1>1 DEF DialogIInv, DialogTyped, ImportNeverStuck, importFile
  <1>2. CASE confirm
    BY <1>2 DEF DialogIInv, DialogTyped, ImportNeverStuck, confirm
  <1> QED
    BY <1>1, <1>2
LEMMA DialogHears ==
  ASSUME DialogIInv, UNCHANGED export, previewAnswer \/ pollAnswer PROVE DialogIInv'
  <1>1. CASE previewAnswer
    BY <1>1 DEF DialogIInv, DialogTyped, ImportNeverStuck, previewAnswer, Quiet
  <1>2. CASE pollAnswer /\ job.status = "done" /\ flow' = [flow EXCEPT !.step = "done"] /\ request' = Quiet
    BY <1>2 DEF DialogIInv, DialogTyped, ImportNeverStuck, Quiet
  <1>3. CASE Failing("preview")
    BY <1>3, DialogFails
  <1> QED
    BY <1>1, <1>2, <1>3 DEF pollAnswer
LEMMA DialogMoves ==
  ASSUME DialogIInv, UNCHANGED export,
         createImportJob \/ Confirm \/ pollImport \/ \E m \in ImportModes : setMode(m)
  PROVE  DialogIInv'
  <1>1. CASE createImportJob \/ Confirm
    BY <1>1 DEF DialogIInv, DialogTyped, ImportNeverStuck, createImportJob, Confirm
  <1>2. CASE pollImport
    BY <1>2 DEF DialogIInv, DialogTyped, ImportNeverStuck, pollImport
  <1>3. CASE \E m \in ImportModes : setMode(m)
    BY <1>3 DEF DialogIInv, DialogTyped, ImportNeverStuck, setMode
  <1> QED
    BY <1>1, <1>2, <1>3
LEMMA ExportMoves ==
  ASSUME DialogIInv, UNCHANGED <<flow, request>>, ExportNext PROVE DialogIInv'
  <1>1. CASE exportNotes
    BY <1>1 DEF DialogIInv, DialogTyped, ImportNeverStuck, exportNotes
  <1>2. CASE exportOpen \/ exportClose \/ exportAnswer
    <2>1. export' = ExportStart(FALSE, FALSE) \/ export' = ExportStart(TRUE, FALSE) \/ export' = ExportStart(TRUE, TRUE)
      BY <1>2 DEF exportOpen, exportClose, exportAnswer, NoExport
    <2>2. ASSUME NEW open \in BOOLEAN, NEW error \in BOOLEAN, export' = ExportStart(open, error) PROVE DialogIInv'
      BY <2>2 DEF DialogIInv, DialogTyped, ImportNeverStuck, ExportStart
    <2> QED
      BY <2>1, <2>2
  <1> QED
    BY <1>1, <1>2 DEF ExportNext

LEMMA DialogSteps ==
  ASSUME DialogIInv, [FlowNext]_<<importVars, exportVars>> PROVE DialogIInv'
  <1>1. CASE UNCHANGED <<flow, request, export>>
    BY <1>1 DEF DialogIInv, DialogTyped, ImportNeverStuck
  <1>2. CASE ExportNext /\ UNCHANGED importVars
    BY <1>2, ExportMoves DEF importVars
  <1>3. CASE UNCHANGED export /\ (openDialog \/ closeDialog \/ leavePage)
    BY <1>3, DialogCloses DEF openDialog, closeDialog, leavePage, FlowReset
  <1>4. CASE UNCHANGED export /\ requestFails
    BY <1>4, DialogFails DEF requestFails
  <1>5. CASE UNCHANGED export /\ (importFile \/ confirm)
    BY <1>5, DialogAsks
  <1>6. CASE UNCHANGED export /\ (previewAnswer \/ pollAnswer)
    BY <1>6, DialogHears
  <1>7. CASE UNCHANGED export /\ (createImportJob \/ Confirm \/ pollImport \/ \E m \in ImportModes : setMode(m))
    BY <1>7, DialogMoves
  <1>8. ASSUME UNCHANGED export, NEW w \in ImportWorkers,
               \/ Claim(w) \/ importNote(w) \/ MarkTerminal(w) \/ Finish(w) \/ releaseFailure(w) \/ WorkerCrash(w)
        PROVE  DialogIInv'
    BY <1>1, <1>8 DEF Claim, importNote, MarkTerminal, Finish, releaseFailure, WorkerCrash
  <1>9. CASE UNCHANGED export /\ (LeaseLapses \/ RetryIsDue \/ LibraryChanges)
    BY <1>1, <1>9 DEF LeaseLapses, RetryIsDue, LibraryChanges
  <1> QED
    BY <1>1, <1>2, <1>3, <1>4, <1>5, <1>6, <1>7, <1>8, <1>9
       DEF FlowNext, ImportNext, importVars, exportVars

\* The dialogs of import and export wait only for a request that is under way
\* (useImportFlow.ts, useExportFlow.ts).
THEOREM ImportIsNeverStuck == ImportSpec => []ImportNeverStuck
  <1>1. ImportInit /\ ExportInit => DialogIInv
    BY DialogStarts
  <1>2. DialogIInv /\ [FlowNext]_<<importVars, exportVars>> => DialogIInv'
    BY DialogSteps
  <1>3. DialogIInv => ImportNeverStuck
    BY DEF DialogIInv
  <1> QED
    BY <1>1, <1>2, <1>3, PTL DEF ImportSpec
=============================================================================
