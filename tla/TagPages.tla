------------------------------- MODULE TagPages --------------------------------
(***************************************************************************)
(* The lists of tags: the tag page with its search, pages and deletions    *)
(* (app/tags), and the tags beside the document list, with their search,   *)
(* pages and pins (app/docs: hooks/useSidebarTags.ts, useTagIndex.ts,      *)
(* components/Sidebar.tsx, HeaderBar.tsx, DocsNavigationDrawer.tsx).       *)
(***************************************************************************)
EXTENDS Integers, Sequences, FiniteSets, SequencesExt, Subsequences

CONSTANTS TagHits,       \* the tags a search finds, by search text; "" finds all
          TagOrder,      \* the tags at first, in the server's order: pinned, then newest
          NewTags,       \* tags made meanwhile, which come first
          TagPage,       \* limit: 10 on the page, 20 beside the list
          TagsVanish,    \* whether the reader deletes tags
          MaxPins        \* bound: pins that are saved at once

VARIABLES rows,     \* server: the tags in order
          listing,  \* useTagCatalog
          gets,     \* its requests, the last and the one before: what they read
          removing  \* useTagDeletion
tagPageVars == <<rows, listing, gets, removing>>

SearchTexts == DOMAIN TagHits
Result(order, q) == Within(order, TagHits[q])
Slice(s, off) == SubSeq(s, off + 1, IF off + TagPage > Len(s) THEN Len(s) ELSE off + TagPage)
Get(q, off, append) == [q |-> q, off |-> off, append |-> append, current |-> TRUE, read |-> FALSE,
                        got |-> <<>>]
\* The superseded request may still answer; ones before it are dropped (a bound).
Superseded(R) == {[r EXCEPT !.current = FALSE] : r \in {r \in R : r.current}}

(***************************************************************************)
(* The tag page                                                            *)
(***************************************************************************)

NewListing == [search |-> "", debounced |-> "", tags |-> <<>>, loading |-> TRUE, loadingMore |-> FALSE,
               initialError |-> FALSE, loadMoreError |-> FALSE, hasMore |-> TRUE, offset |-> 0]
TagsView == CASE listing.initialError -> "error" [] ~listing.initialError /\ listing.loading -> "loading"
              [] OTHER -> IF listing.tags = <<>> THEN "empty" ELSE "list"
NotRemoving == [target |-> "none", phase |-> "idle"]
\* The dialog lies over the page; its buttons rest while the request runs.
PageFree == removing.target = "none"
DeleteTagDialog == IF removing.phase = "asked" THEN {"cancel", "delete"} ELSE {}
TagRow(t) == IF TagsView = "list" /\ PageFree /\ t \in ToSet(listing.tags) THEN {"delete"} ELSE {}

loadTags(s, append) ==
  /\ listing' = IF append THEN [s EXCEPT !.loadingMore = TRUE, !.loadMoreError = FALSE]
                ELSE [s EXCEPT !.loading = TRUE, !.initialError = FALSE]
  /\ gets' = Superseded(gets) \cup {Get(s.debounced, IF append THEN s.offset ELSE 0, append)}
  /\ UNCHANGED <<rows, removing>>
searchTags(q) == /\ PageFree /\ q # listing.search /\ listing' = [listing EXCEPT !.search = q]
                 /\ UNCHANGED <<rows, gets, removing>>
\* The effect of the debounced search aborts what runs and starts again.
debounceTags == /\ listing.search # listing.debounced
                /\ loadTags([listing EXCEPT !.debounced = listing.search], FALSE)
retryTags == PageFree /\ TagsView = "error" /\ loadTags(listing, FALSE)
\* Load more, or the Retry below; fetchingRef turns both away while a load runs.
LoadMoreOffered == \/ listing.loadMoreError
                   \/ listing.hasMore /\ ~listing.loading /\ ~listing.initialError /\ ~listing.loadingMore
loadMoreTags ==
  /\ PageFree /\ LoadMoreOffered /\ \A r \in gets : ~r.current
  /\ loadTags(listing, TRUE)
ReadTags == /\ \E r \in gets :
                 /\ ~r.read
                 /\ gets' = (gets \ {r}) \cup {[r EXCEPT !.read = TRUE, !.got = Slice(Result(rows, r.q), r.off)]}
            /\ UNCHANGED <<rows, listing, removing>>
Appended(tags, next) == WithNew(tags, next)
TagsAnswer ==
  \E r \in gets :
    /\ r.read /\ gets' = gets \ {r} /\ UNCHANGED <<rows, removing>>
    /\ listing' = IF ~r.current THEN listing
                  ELSE [listing EXCEPT !.loading = FALSE, !.loadingMore = FALSE,
                          !.tags = IF r.append THEN Appended(@, r.got) ELSE r.got,
                          !.hasMore = Len(r.got) = TagPage, !.offset = r.off + Len(r.got)]
TagsFail ==
  \E r \in gets :
    /\ r.current /\ gets' = gets \ {r} /\ UNCHANGED <<rows, removing>>
    /\ listing' = LET s == [listing EXCEPT !.loading = FALSE, !.loadingMore = FALSE]
                  IN  IF r.append THEN [s EXCEPT !.loadMoreError = TRUE] ELSE [s EXCEPT !.initialError = TRUE]

requestDelete(t) == /\ TagsVanish /\ "delete" \in TagRow(t)
                    /\ removing' = [target |-> t, phase |-> "asked"] /\ UNCHANGED <<rows, listing, gets>>
\* Mutant: the dialog rests but forgets to let go of its tag.
closeAndKeepTarget == /\ "cancel" \in DeleteTagDialog /\ removing' = [removing EXCEPT !.phase = "idle"]
                      /\ UNCHANGED <<rows, listing, gets>>
closeDeleteDialog == /\ "cancel" \in DeleteTagDialog /\ removing' = NotRemoving /\ UNCHANGED <<rows, listing, gets>>
confirmTagDelete == /\ "delete" \in DeleteTagDialog /\ removing' = [removing EXCEPT !.phase = "sent"]
                 /\ UNCHANGED <<rows, listing, gets>>
\* TagService.Delete
DeleteTag == /\ removing.phase = "sent" /\ removing' = [removing EXCEPT !.phase = "done"]
             /\ rows' = WithoutValue(rows, removing.target) /\ UNCHANGED <<listing, gets>>
TagDeleteAnswer ==
  /\ removing.phase \in {"sent", "done"} /\ UNCHANGED <<rows, gets>>
  /\ \/ /\ removing.phase = "done" /\ removing' = NotRemoving
        /\ listing' = [listing EXCEPT !.tags = WithoutValue(@, removing.target)]
     \/ removing' = [removing EXCEPT !.phase = "asked"] /\ UNCHANGED listing    \* an error, in the dialog
CreateElsewhere == /\ \E t \in NewTags \ ToSet(rows) : rows' = <<t>> \o rows
                   /\ UNCHANGED <<listing, gets, removing>>

TagPageInit == /\ rows = TagOrder /\ listing = NewListing /\ gets = {Get("", 0, FALSE)} /\ removing = NotRemoving
TagPageNext ==
  \/ debounceTags \/ retryTags \/ loadMoreTags \/ ReadTags \/ TagsAnswer \/ TagsFail
  \/ closeDeleteDialog \/ confirmTagDelete \/ DeleteTag \/ TagDeleteAnswer \/ CreateElsewhere
  \/ \E q \in SearchTexts : searchTags(q)
  \/ \E t \in ToSet(TagOrder) : requestDelete(t)

(***************************************************************************)
(* Beside the document list                                                *)
(***************************************************************************)

VARIABLES pinned,  \* server: the pinned tags
          side,    \* useSidebarTags; of: the search its first page answers; failed: its last
                   \* first page did not come, and the list before it is still there;
                   \* repinned: its last first page was asked for after a pin, with a text
                   \* that the field no longer had
          sideGet, \* its request, or none
          pins     \* handleToggleTagPin waiting: the tag, what it becomes, the text of its render
sideVars == <<pinned, side, sideGet, pins>>
VARIABLES chosen,  \* selectedTag or view, and whether the drawer is open
          index    \* useTagIndex and useTagSuggestions: names, suggestions, requests
chooserVars == <<chosen, index>>

NoGet == [on |-> FALSE]
SideGet(q, off, append) == [on |-> TRUE, q |-> q, off |-> off, append |-> append]
Ordered(P) == Within(TagOrder, P) \o Within(TagOrder, ToSet(TagOrder) \ P)
\* A request aborts the one before, which then changes nothing.
fetchSidebarTags(s, off, append, q) ==
  /\ side' = [s EXCEPT !.loading = TRUE] /\ sideGet' = SideGet(q, off, append)
setTagSearch(q) ==
  /\ q # side.search
  /\ side' = [side EXCEPT !.search = q, !.timer = TRUE] /\ sideGet' = NoGet    \* the cleanup aborts
  /\ UNCHANGED <<pinned, pins>>
sideSearchTimer == /\ side.timer
               /\ fetchSidebarTags([side EXCEPT !.timer = FALSE, !.offset = 0, !.hasMore = TRUE, !.repinned = FALSE],
                                    0, FALSE, side.search)
               /\ UNCHANGED <<pinned, pins>>
\* maybeAutoLoadTags at the end of the list, loadMoreSidebarTags.  The bound on the
\* length: after first pages that do not come the old list grows with each page.
maybeAutoLoadTags == /\ ~side.loading /\ side.hasMore /\ Len(side.tags) < Len(TagOrder)
                     /\ fetchSidebarTags(side, side.offset, TRUE, side.search)
                     /\ UNCHANGED <<pinned, pins>>
SidebarAnswer ==
  /\ sideGet.on /\ sideGet' = NoGet /\ UNCHANGED <<pinned, pins>>
  /\ LET got == Slice(Result(Ordered(pinned), sideGet.q), sideGet.off) IN
     \/ side' = [side EXCEPT !.loading = FALSE, !.tags = IF sideGet.append THEN @ \o got ELSE got,
                             !.hasMore = Len(got) = TagPage, !.offset = sideGet.off + Len(got),
                             !.of = IF sideGet.append THEN @ ELSE sideGet.q, !.failed = sideGet.append /\ @]
     \/ side' = [side EXCEPT !.loading = FALSE, !.failed = TRUE]
\* The row shown says what the pin becomes; the row may be older than the server's.
handleToggleTagPin(t) ==
  /\ t \in ToSet(side.tags) /\ Cardinality(pins) < MaxPins
  /\ \E to \in BOOLEAN : pins' = pins \cup {[tag |-> t, to |-> to, q |-> side.search, done |-> FALSE]}
  /\ UNCHANGED <<pinned, side, sideGet>>
UpdatePinned ==
  \E p \in pins :
    /\ ~p.done /\ pins' = (pins \ {p}) \cup {[p EXCEPT !.done = TRUE]}
    /\ pinned' = IF p.to THEN pinned \cup {p.tag} ELSE pinned \ {p.tag}
    /\ UNCHANGED <<side, sideGet>>
\* The list is loaded again, with the text the handler began with.
PinAnswer ==
  \E p \in pins :
    /\ pins' = pins \ {p} /\ UNCHANGED pinned
    /\ \/ /\ p.done
          /\ fetchSidebarTags([side EXCEPT !.offset = 0, !.hasMore = TRUE, !.repinned = p.q # side.search], 0, FALSE, p.q)
       \/ UNCHANGED <<side, sideGet>>
\* TagsPanel: below the rows, a spinner, a hint, or that there are none.
TagsPanelFoot == CASE side.loading -> "spinner" [] ~side.loading /\ side.hasMore -> "more"
                   [] OTHER -> IF side.tags = <<>> THEN "none" ELSE "end"

\* FilterButton, a tag's row: exactly one entry is the current one; a link of the
\* drawer closes it; a tag the header offers for /text clears the text.
FilterViews == {"all", "starred", "shared"}
Sidebar == FilterViews \cup ToSet(side.tags)
choose(e, slash) == /\ chosen' = [current |-> e, drawer |-> FALSE, slash |-> slash]
                    /\ UNCHANGED index
SidebarSelect(e) == e \in Sidebar /\ ~chosen.drawer /\ chosen.current # e /\ choose(e, chosen.slash)
openNavigation == /\ ~chosen.drawer /\ chosen' = [chosen EXCEPT !.drawer = TRUE]
                  /\ UNCHANGED index
\* The drawer has the views, and the first ten tags.
DocsNavigationDrawer == FilterViews \cup ToSet(Slice(side.tags, 0))
DrawerSelect(e) == e \in DocsNavigationDrawer /\ chosen.drawer /\ choose(e, chosen.slash)
closeNavigation == /\ chosen.drawer /\ chosen' = [chosen EXCEPT !.drawer = FALSE]
                   /\ UNCHANGED index
\* /text in the search field: the effect drops the request of the text before ...
typeSlash(q) ==
  /\ ~chosen.drawer /\ chosen.slash # q /\ chosen' = [chosen EXCEPT !.slash = q]
  /\ index' = [index EXCEPT !.timer = q \in SearchTexts \ {""}, !.asked = "off"]
suggestTimer == /\ index.timer /\ index' = [index EXCEPT !.timer = FALSE, !.asked = chosen.slash]
                /\ UNCHANGED chosen
mergeTags(names) == index.names \cup names
SuggestAnswer ==
  /\ index.asked # "off" /\ UNCHANGED chosen
  /\ \/ index' = [index EXCEPT !.asked = "off", !.suggestions = TagHits[index.asked],
                              !.names = mergeTags(TagHits[index.asked])]
     \/ index' = [index EXCEPT !.asked = "off"]
\* ... and what an older text found is filtered by the new one meanwhile.
useTagSuggestions == IF chosen.slash \in {"off", ""} THEN {} ELSE index.suggestions \cap TagHits[chosen.slash]
HeaderBar == [options |-> useTagSuggestions, enabled |-> chosen.slash # "off", menu |-> ~chosen.drawer]
HeaderSelect(t) == /\ HeaderBar.enabled /\ HeaderBar.menu /\ t \in HeaderBar.options
                   /\ chosen' = [current |-> t, drawer |-> FALSE, slash |-> "off"]
                   /\ index' = [index EXCEPT !.timer = FALSE, !.asked = "off"]
\* The first page of the tags, once; and the name of a tag that came with the address.
fetchTags == /\ index.first /\ UNCHANGED chosen
             /\ \E got \in {TagHits[""] \cap ToSet(Slice(TagOrder, 0)), {}} :
                  index' = [index EXCEPT !.first = FALSE, !.names = mergeTags(got)]
fetchTagsByIDs == /\ chosen.current \notin FilterViews \cup index.names
                  /\ index' = [index EXCEPT !.names = mergeTags({chosen.current})]
                  /\ UNCHANGED chosen

SideInit ==
  /\ pinned = {} /\ sideGet = NoGet /\ pins = {}
  /\ side = [search |-> "", tags |-> <<>>, loading |-> FALSE, hasMore |-> TRUE, offset |-> 0,
             timer |-> TRUE, of |-> "", failed |-> FALSE, repinned |-> FALSE]
SideNext ==
  \/ sideSearchTimer \/ maybeAutoLoadTags \/ SidebarAnswer \/ UpdatePinned \/ PinAnswer
  \/ \E q \in SearchTexts : setTagSearch(q)
  \/ \E t \in ToSet(TagOrder) : handleToggleTagPin(t)
\* What the chooser finds beside it: the list as it is after its first page.
SideListed == [search |-> "", tags |-> TagOrder, loading |-> FALSE, hasMore |-> TRUE, offset |-> 0,
               timer |-> TRUE, of |-> "", failed |-> FALSE, repinned |-> FALSE]
ChooserInit ==
  /\ chosen \in {[current |-> e, drawer |-> FALSE, slash |-> "off"] : e \in FilterViews \cup ToSet(TagOrder)}
  /\ index = [first |-> TRUE, timer |-> FALSE, asked |-> "off", suggestions |-> {}, names |-> {}]
\* What is chosen while the list stands as it is.
ChooserNext ==
  \/ openNavigation \/ closeNavigation \/ fetchTags \/ fetchTagsByIDs \/ suggestTimer \/ SuggestAnswer
  \/ \E q \in SearchTexts \cup {"off"} : typeSlash(q)
  \/ \E t \in UNION {TagHits[q] : q \in SearchTexts} : HeaderSelect(t)
  \/ \E e \in FilterViews \cup ToSet(TagOrder) : SidebarSelect(e) \/ DrawerSelect(e)

(***************************************************************************)
(* Properties                                                              *)
(***************************************************************************)

TagPagesTypeOK ==
  /\ ToSet(listing.tags) \subseteq ToSet(TagOrder) \cup NewTags /\ listing.offset \in Nat
  /\ Cardinality({r \in gets : r.current}) <= 1
  /\ removing.phase = "idle" <=> removing.target = "none"
  /\ chosen.current \in FilterViews \cup UNION {TagHits[q] : q \in SearchTexts}

\* docs/007: an old answer never stands under a new search, no tag stands twice in
\* the list although new tags move the pages, and every spinner has its request.
TagListBelongs ==
  /\ TagsView = "list" => ToSet(listing.tags) \subseteq TagHits[listing.debounced]
  /\ IsInjective(listing.tags)
  /\ listing.loading \/ listing.loadingMore <=> \E r \in gets : r.current

\* docs/007: paging, search and pins do not disturb each other: once no page is asked for,
\* the tags beside the list are the answer to the text in their search field, although
\* older answers come late and pins are saved meanwhile. One thing parts them until the
\* text changes: a pin saved under another text reads the list again with that text.
SideQuiet == ~side.timer /\ ~sideGet.on /\ ~side.failed
SidebarMatchesSearch ==
  SideQuiet =>
    /\ ~side.repinned => side.of = side.search /\ ToSet(side.tags) \subseteq TagHits[side.search]
    /\ ~side.loading /\ TagsPanelFoot # "spinner"
\* Without the exception, which the handler of the pin does not keep.
SidebarFollowsSearch == SideQuiet => side.of = side.search /\ ToSet(side.tags) \subseteq TagHits[side.search]
==============================================================================
