----------------------------- MODULE AssetLibrary ------------------------------
(***************************************************************************)
(* The asset page (app/assets): the searched and paged catalog with its    *)
(* selection and the references of the selected asset (hooks/useAssets.ts),*)
(* the HEAD request before a preview (hooks/useAssetPreview.ts), and the   *)
(* PDF preview, which owns a document, a page and a render task of PDF.js  *)
(* (components/PDFAssetPreview.tsx).                                       *)
(***************************************************************************)
EXTENDS Integers, Sequences, FiniteSets, SequencesExt, Subsequences

CONSTANTS AssetHits,    \* for each query the assets in the server's order
          AssetKind,    \* "pdf", "media", "image" or "unsupported"
          AssetPage,    \* limit=40
          PDFPages,     \* document.numPages
          MaxMounts, MaxViews   \* bounds: previews mounted, page and zoom changes

VARIABLES shelf,    \* useAssetCatalog
          pageReqs, \* its requests: the last one and superseded ones
          cited,    \* useAssetReferences: whose references, and flags
          citeReqs  \* its requests
assetVars == <<shelf, pageReqs, cited, citeReqs>>

(***************************************************************************)
(* The catalog and the references                                          *)
(***************************************************************************)

NewShelf == [search |-> "", asked |-> "", items |-> <<>>, loading |-> TRUE, appending |-> FALSE,
             error |-> FALSE, moreError |-> FALSE, more |-> TRUE, off |-> 0, selected |-> "",
             detail |-> FALSE]
\* The superseded request may still answer; ones before it are dropped (a bound).
Old(R) == {[r EXCEPT !.current = FALSE] : r \in {r \in R : r.current}}
Ask(append, off, q) == [append |-> append, off |-> off, query |-> q, current |-> TRUE]
\* A load supersedes the one before, whatever it was for.
loadAssets(s, append) ==
  /\ shelf' = IF append THEN [s EXCEPT !.appending = TRUE, !.moreError = FALSE]
              ELSE [s EXCEPT !.loading = TRUE, !.error = FALSE]
  /\ pageReqs' = Old(pageReqs) \cup {Ask(append, IF append THEN s.off ELSE 0, s.asked)}
  /\ UNCHANGED <<cited, citeReqs>>
typeSearch(q) ==
  /\ q # shelf.search /\ shelf' = [shelf EXCEPT !.search = q]
  /\ UNCHANGED <<pageReqs, cited, citeReqs>>
debounce == shelf.search # shelf.asked /\ loadAssets([shelf EXCEPT !.asked = shelf.search], FALSE)
\* What the list offers, or what stands in its place, and what is below it.
AssetList ==
  (CASE shelf.error -> {"retry"}
     [] ~shelf.error /\ shelf.loading -> {}
     [] ~shelf.error /\ ~shelf.loading /\ shelf.items = <<>> -> {"clear"}
     [] OTHER -> {"select"})
  \cup (IF shelf.moreError THEN {"retry more"}
        ELSE IF shelf.more /\ ~shelf.loading /\ ~shelf.error /\ ~shelf.appending THEN {"more"} ELSE {})
retryInitial == "retry" \in AssetList /\ loadAssets(shelf, FALSE)
clearSearch  == "clear" \in AssetList /\ shelf.asked # "" /\ typeSearch("")
\* fetchingRef turns both buttons away while any load runs: the Retry below the
\* list stays there while a search loads.
loadMore ==
  /\ AssetList \cap {"more", "retry more"} # {}
  /\ ~\E r \in pageReqs : r.current
  /\ loadAssets(shelf, TRUE)

\* The effect on the selection: the request before is aborted, the next begins.
selecting(id) ==
  IF id = shelf.selected THEN UNCHANGED <<cited, citeReqs>>
  ELSE /\ citeReqs' = Old(citeReqs) \cup (IF id = "" THEN {} ELSE {[id |-> id, current |-> TRUE]})
       /\ cited' = IF id = "" THEN [of |-> "", loading |-> FALSE, error |-> FALSE]
                   ELSE [cited EXCEPT !.loading = TRUE, !.error = FALSE]
selectAsset(id) ==
  /\ "select" \in AssetList /\ id \in ToSet(shelf.items)
  /\ shelf' = [shelf EXCEPT !.selected = id, !.detail = TRUE]
  /\ selecting(id) /\ UNCHANGED pageReqs
closeMobileDetail ==
  /\ shelf.detail /\ shelf' = [shelf EXCEPT !.detail = FALSE]
  /\ UNCHANGED <<pageReqs, cited, citeReqs>>

PageAt(q, off) == LET all == AssetHits[q] IN
  SubSeq(all, off + 1, IF off + AssetPage > Len(all) THEN Len(all) ELSE off + AssetPage)
Added(s, new) == WithNew(s, new)
Kept(s, new) == IF s.selected \in ToSet(new) THEN s.selected ELSE IF new = <<>> THEN "" ELSE Head(new)
Received(s, r) ==
  LET got == PageAt(r.query, r.off)
      base == [s EXCEPT !.loading = FALSE, !.appending = FALSE,
                        !.more = Len(got) = AssetPage, !.off = r.off + Len(got)]
  IN  IF r.append THEN [base EXCEPT !.items = Added(s.items, got)]
      ELSE [base EXCEPT !.items = got, !.selected = Kept(s, got), !.detail = FALSE]
AssetsAnswer ==
  \E r \in pageReqs :
    /\ pageReqs' = pageReqs \ {r}
    /\ IF r.current THEN shelf' = Received(shelf, r) /\ selecting(shelf'.selected)
       ELSE UNCHANGED <<shelf, cited, citeReqs>>
AssetsFail ==
  \E r \in pageReqs :
    /\ pageReqs' = pageReqs \ {r}
    /\ shelf' = IF ~r.current THEN shelf
                ELSE LET s == [shelf EXCEPT !.loading = FALSE, !.appending = FALSE]
                     IN  IF r.append THEN [s EXCEPT !.moreError = TRUE] ELSE [s EXCEPT !.error = TRUE]
    /\ UNCHANGED <<cited, citeReqs>>
ReferencesAnswer ==
  \E r \in citeReqs :
    /\ citeReqs' = citeReqs \ {r}
    /\ \/ cited' = IF r.current THEN [of |-> r.id, loading |-> FALSE, error |-> FALSE] ELSE cited
       \/ r.current /\ cited' = [cited EXCEPT !.loading = FALSE, !.error = TRUE]
    /\ UNCHANGED <<shelf, pageReqs>>
\* An error with its Retry, a spinner, or the list.
References == IF cited.error THEN "error" ELSE IF cited.loading THEN "loading" ELSE "list"
retryReferences ==
  /\ shelf.selected # "" /\ References = "error"
  /\ citeReqs' = Old(citeReqs) \cup {[id |-> shelf.selected, current |-> TRUE]}
  /\ cited' = [cited EXCEPT !.loading = TRUE, !.error = FALSE]
  /\ UNCHANGED <<shelf, pageReqs>>

AssetsInit ==
  /\ shelf = NewShelf /\ pageReqs = {Ask(FALSE, 0, "")}
  /\ cited = [of |-> "", loading |-> FALSE, error |-> FALSE] /\ citeReqs = {}
AssetsNext ==
  \/ \E q \in DOMAIN AssetHits : typeSearch(q)
  \/ debounce \/ retryInitial \/ clearSearch \/ loadMore \/ closeMobileDetail \/ AssetsAnswer \/ AssetsFail
  \/ \E id \in DOMAIN AssetKind : selectAsset(id)
  \/ ReferencesAnswer \/ retryReferences

(***************************************************************************)
(* The preview of the selected asset                                       *)
(***************************************************************************)

VARIABLES shown,    \* the asset whose preview is mounted
          probe,    \* requestKey, and the result with the key it is for
          heads,    \* HEAD requests: their keys
          media,    \* the image or media element: "loading", "loaded" or "failed"
          pdf,      \* the mounted PDF preview; inst 0: none
          held,     \* live objects of PDF.js: instance, and what they are
          paints,   \* renders under way: their generations
          mounts, views   \* bounded counters
previewVars == <<shown, probe, heads, media, pdf, held, paints, mounts, views>>

NoPDF == [inst |-> 0, status |-> "none", page |-> 1, zoom |-> 2, rendering |-> FALSE, gen |-> 0]
NewPDF(i) == [NoPDF EXCEPT !.inst = i, !.status = "loading", !.rendering = TRUE]
Probed(a) == a # "" /\ AssetKind[a] \in {"pdf", "media"}
\* Image and unsupported assets ask nothing; the others first send a HEAD.
initialState(a) == IF a = "" \/ AssetKind[a] = "unsupported" THEN "unsupported"
                   ELSE IF AssetKind[a] = "image" THEN "ready" ELSE "checking"
\* A result counts only under the key it was made for.
PreviewState == IF probe.result.key = probe.key THEN probe.result.state ELSE initialState(shown)
\* What is mounted for the asset; a media element that fails gives way to Retry.
InteractiveAssetPreview ==
  IF PreviewState # "ready" THEN PreviewState
  ELSE IF AssetKind[shown] = "media" /\ media = "failed" THEN "error" ELSE AssetKind[shown]

\* Unmounting cancels the render and destroys the document or its loading task.
destroyDocument == {h \in held : h.inst # pdf.inst}
NewKey(a) ==
  /\ mounts < MaxMounts /\ mounts' = mounts + 1
  /\ probe' = [probe EXCEPT !.key = mounts + 1]
  /\ heads' = IF Probed(a) THEN {mounts + 1} ELSE {}      \* the one before is aborted
  /\ media' = "loading" /\ pdf' = NoPDF /\ held' = destroyDocument /\ paints' = {}
  /\ UNCHANGED views
showAsset(a) == a # shown /\ shown' = a /\ NewKey(a)
retryPreview == /\ InteractiveAssetPreview = "error" \/ (InteractiveAssetPreview = "pdf" /\ pdf.status = "error")
                /\ NewKey(shown) /\ UNCHANGED shown
HeadAnswer ==
  \E k \in heads : \E s \in {"ready", "error"} :
    /\ heads' = heads \ {k}
    /\ probe' = [probe EXCEPT !.result = [key |-> k, state |-> s]]
    /\ UNCHANGED <<shown, media, pdf, held, paints, mounts, views>>
\* The browser loads the element, or gives up on it, then or later.
MediaEvent ==
  /\ InteractiveAssetPreview \in {"media", "image"}
  /\ media # "failed" /\ media' \in {"loaded", "failed"} \ {media}
  /\ UNCHANGED <<shown, probe, heads, pdf, held, paints, mounts, views>>

PDFOnly == UNCHANGED <<shown, probe, heads, media, mounts>>
\* The preview mounts and loads PDF.js, then the document.
mountPDF ==
  /\ InteractiveAssetPreview = "pdf" /\ pdf.inst = 0
  /\ pdf' = NewPDF(probe.key) /\ held' = held \cup {[inst |-> probe.key, what |-> "module"]}
  /\ UNCHANGED <<paints, views>> /\ PDFOnly
loadPDFJS ==
  \E h \in held :
    /\ h.what = "module"
    /\ \/ held' = (held \ {h}) \cup {[h EXCEPT !.what = "task"]} /\ UNCHANGED pdf
       \/ held' = held \ {h} /\ pdf' = [pdf EXCEPT !.status = "error"]
    /\ UNCHANGED <<paints, views>> /\ PDFOnly
startRender(p) == /\ pdf' = [p EXCEPT !.gen = @ + 1, !.rendering = TRUE]
                  /\ paints' = {pdf.gen + 1}     \* the render before is cancelled
\* The document arrives, asks for a password, has too many pages or is broken.
documentLoaded ==
  \E h \in held :
    /\ h.what = "task"
    /\ \/ held' = (held \ {h}) \cup {[h EXCEPT !.what = "document"]}
          /\ startRender([pdf EXCEPT !.status = "ready"])
       \/ held' = held \ {h} /\ pdf' = [pdf EXCEPT !.status = "error"] /\ UNCHANGED paints
    /\ UNCHANGED views /\ PDFOnly
View(p) == /\ pdf.status = "ready" /\ views < MaxViews /\ views' = views + 1
           /\ startRender(p) /\ UNCHANGED held /\ PDFOnly
\* The toolbar and the keys stop at the first and the last page, and at the
\* smallest and the largest scale.
PDFPreviewToolbar ==
  (IF pdf.page > 1 THEN {"previous"} ELSE {}) \cup (IF pdf.page < PDFPages THEN {"next"} ELSE {})
  \cup (IF pdf.zoom > 1 THEN {"out"} ELSE {}) \cup (IF pdf.zoom < 3 THEN {"in"} ELSE {})
previousPage == "previous" \in PDFPreviewToolbar /\ View([pdf EXCEPT !.page = @ - 1])
nextPage     == "next" \in PDFPreviewToolbar /\ View([pdf EXCEPT !.page = @ + 1])
zoomOut      == "out" \in PDFPreviewToolbar /\ View([pdf EXCEPT !.zoom = @ - 1])
zoomIn       == "in" \in PDFPreviewToolbar /\ View([pdf EXCEPT !.zoom = @ + 1])
renderDone ==
  \E g \in paints :
    /\ paints' = paints \ {g}
    /\ \/ pdf' = [pdf EXCEPT !.rendering = FALSE] /\ UNCHANGED held
       \/ pdf' = [pdf EXCEPT !.rendering = FALSE, !.status = "error"] /\ held' = destroyDocument
    /\ UNCHANGED views /\ PDFOnly

PreviewInit ==
  /\ shown = "" /\ probe = [key |-> 0, result |-> [key |-> 0, state |-> "unsupported"]]
  /\ heads = {} /\ media = "loading" /\ pdf = NoPDF /\ held = {} /\ paints = {} /\ mounts = 0 /\ views = 0
PreviewNext ==
  \/ \E a \in DOMAIN AssetKind \cup {""} : showAsset(a)
  \/ retryPreview \/ HeadAnswer \/ MediaEvent \/ mountPDF \/ loadPDFJS \/ documentLoaded
  \/ previousPage \/ nextPage \/ zoomOut \/ zoomIn \/ renderDone

(***************************************************************************)
(* Properties                                                              *)
(***************************************************************************)

AssetsTypeOK ==
  /\ ToSet(shelf.items) \subseteq DOMAIN AssetKind /\ shelf.off \in Nat
  /\ Cardinality({r \in pageReqs : r.current}) <= 1
  /\ pdf.status \in {"none", "loading", "ready", "error"} /\ pdf.page \in 1..PDFPages

\* docs/010: an old answer does not override the new search or selection, and
\* paging loses and repeats nothing: the list is the beginning of the result of
\* the search, and the references are those of the selected asset.
AssetsBelong ==
  /\ "select" \in AssetList => /\ IsPrefix(shelf.items, AssetHits[shelf.asked])
                               /\ shelf.selected \in ToSet(shelf.items)
  /\ shelf.selected # "" /\ References = "list" => cited.of = shelf.selected

\* Every spinner has its cause: the catalog, the references, the check before
\* a preview, the document and the page, each while its own request runs.
PreviewSettles ==
  /\ shelf.loading => \E r \in pageReqs : r.current /\ ~r.append
  /\ shelf.appending => \E r \in pageReqs : r.current
  /\ cited.loading => \E r \in citeReqs : r.current
  /\ PreviewState = "checking" => probe.key \in heads
  /\ pdf.status = "loading" => \E h \in held : h.inst = pdf.inst /\ h.what # "document"
  /\ pdf.status = "ready" /\ pdf.rendering => pdf.gen \in paints

\* docs/010: at any moment at most one document of PDF.js is kept, and it is the
\* one on the page: switching, retrying and failing destroy the rest.
OnePDF ==
  /\ Cardinality(held) <= 1
  /\ \A h \in held : h.inst = pdf.inst /\ (h.what = "document" <=> pdf.status = "ready")
==============================================================================
