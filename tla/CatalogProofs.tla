----------------------------- MODULE CatalogProofs -----------------------------
(***************************************************************************)
(* The lists of the pages and what is chosen and changed in them: assets,  *)
(* tags, templates and todos, for any rows, searches and pages.            *)
(***************************************************************************)
EXTENDS AssetLibrary, TagPages, Templates, TodoCalendar, SubsequencesProofs

-----------------------------------------------------------------------------
(* The page of assets. A load supersedes the one before, so the request     *)
(* that counts is the one the flags were set for; a selection aborts the    *)
(* references of the asset that was selected before.                        *)

Shelves(s) == [search : {s.search}, asked : {s.asked}, items : {s.items}, loading : BOOLEAN, appending : BOOLEAN,
               error : BOOLEAN, moreError : BOOLEAN, more : {s.more}, off : {s.off}, selected : {s.selected},
               detail : BOOLEAN]
Citations(c) == [of : {c.of}, loading : BOOLEAN, error : BOOLEAN]
ShelfSettles ==
  /\ shelf.loading => \E r \in pageReqs : r.current /\ ~r.append
  /\ shelf.appending => \E r \in pageReqs : r.current
CitesSettle == cited.loading => \E r \in citeReqs : r.current
AssetsIInv ==
  /\ shelf \in Shelves(shelf) /\ cited \in Citations(cited)
  /\ ShelfSettles /\ CitesSettle

LEMMA Selecting ==
  ASSUME NEW id, cited \in Citations(cited), CitesSettle, selecting(id)
  PROVE  cited' \in Citations(cited)' /\ CitesSettle'
  <1>1. CASE id = shelf.selected
    BY <1>1 DEF selecting, CitesSettle
  <1>2. CASE id # shelf.selected /\ id = ""
    <2>1. PICK c : c = [of |-> "", loading |-> FALSE, error |-> FALSE] /\ cited' = c
      BY <1>2 DEF selecting
    <2>2. c \in Citations(c) /\ ~c.loading
      BY <2>1 DEF Citations
    <2> QED
      BY <2>1, <2>2 DEF CitesSettle
  <1>3. CASE id # shelf.selected /\ id # ""
    <2>1. PICK c : c = [id |-> id, current |-> TRUE] /\ c \in citeReqs'
      BY <1>3 DEF selecting
    <2>2. cited' \in Citations(cited)'
      BY <1>3 DEF selecting, Citations
    <2> QED
      BY <2>1, <2>2 DEF CitesSettle
  <1> QED
    BY <1>1, <1>2, <1>3

LEMMA Loads ==
  ASSUME NEW s, s \in Shelves(s), NEW append \in BOOLEAN, loadAssets(s, append), append => ~s.loading,
         cited \in Citations(cited), CitesSettle
  PROVE  AssetsIInv'
  <1>1. PICK off, r : r = [append |-> append, off |-> off, query |-> s.asked, current |-> TRUE] /\ r \in pageReqs'
    BY DEF loadAssets, Ask
  <1>2. r.current /\ r.append = append
    BY <1>1
  <1>3. /\ shelf' \in Shelves(shelf)' /\ (append => ~shelf'.loading)
        /\ UNCHANGED <<cited, citeReqs>>
    BY DEF loadAssets, Shelves
  <1> QED
    BY <1>1, <1>2, <1>3 DEF AssetsIInv, ShelfSettles, CitesSettle

LEMMA Searches ==
  ASSUME AssetsIInv, (\E q \in DOMAIN AssetHits : typeSearch(q)) \/ clearSearch \/ debounce \/ retryInitial \/ loadMore
  PROVE  AssetsIInv'
  <1>1. ASSUME NEW q, typeSearch(q) PROVE AssetsIInv'
    <2>1. shelf' \in Shelves(shelf)' /\ shelf'.loading = shelf.loading /\ shelf'.appending = shelf.appending
      BY <1>1 DEF typeSearch, AssetsIInv, Shelves
    <2> QED
      BY <1>1, <2>1 DEF typeSearch, AssetsIInv, ShelfSettles, CitesSettle
  <1>2. CASE debounce
    <2>1. PICK s : s = [shelf EXCEPT !.asked = shelf.search] /\ loadAssets(s, FALSE)
      BY <1>2 DEF debounce
    <2>2. s \in Shelves(s)
      BY <2>1 DEF AssetsIInv, Shelves
    <2> QED
      BY <2>1, <2>2, Loads DEF AssetsIInv
  <1>3. CASE retryInitial
    BY <1>3, Loads DEF retryInitial, AssetsIInv
  <1>4. CASE loadMore
    <2>1. loadAssets(shelf, TRUE) /\ ~shelf.loading
      BY <1>4 DEF loadMore, AssetsIInv, ShelfSettles, Shelves
    <2> QED
      BY <2>1, Loads DEF AssetsIInv
  <1> QED
    BY <1>1, <1>2, <1>3, <1>4 DEF clearSearch

\* What an answer, or a failure, makes of the catalog.
LEMMA Receives ==
  ASSUME NEW s, s \in Shelves(s), NEW r
  PROVE  /\ Received(s, r) \in Shelves(Received(s, r)) /\ ~Received(s, r).loading /\ ~Received(s, r).appending
  <1>1. PICK got : got = PageAt(r.query, r.off)
    OBVIOUS
  <1>2. PICK more, off, items, kept :
          more = (Len(got) = AssetPage) /\ off = r.off + Len(got) /\ items = Added(s.items, got) /\ kept = Kept(s, got)
    OBVIOUS
  <1>3. PICK base : base = [s EXCEPT !.loading = FALSE, !.appending = FALSE, !.more = more, !.off = off]
    OBVIOUS
  <1>4. base \in Shelves(base) /\ ~base.loading /\ ~base.appending
    BY <1>3 DEF Shelves
  <1>5. Received(s, r) = IF r.append THEN [base EXCEPT !.items = items]
                         ELSE [base EXCEPT !.items = got, !.selected = kept, !.detail = FALSE]
    BY <1>1, <1>2, <1>3 DEF Received
  <1> QED
    BY <1>4, <1>5 DEF Shelves

LEMMA CatalogAnswers == ASSUME AssetsIInv, AssetsAnswer \/ AssetsFail PROVE AssetsIInv'
  <1>1. PICK r \in pageReqs :
          /\ pageReqs' = pageReqs \ {r}
          /\ \/ r.current /\ shelf' = Received(shelf, r) /\ selecting(shelf'.selected)
             \/ ~r.current /\ UNCHANGED <<shelf, cited, citeReqs>>
             \/ /\ r.current /\ UNCHANGED <<cited, citeReqs>>
                /\ LET s == [shelf EXCEPT !.loading = FALSE, !.appending = FALSE]
                   IN  shelf' = IF r.append THEN [s EXCEPT !.moreError = TRUE] ELSE [s EXCEPT !.error = TRUE]
    BY DEF AssetsAnswer, AssetsFail
  <1>2. CASE r.current /\ shelf' = Received(shelf, r) /\ selecting(shelf'.selected)
    <2>1. shelf' \in Shelves(shelf') /\ ~shelf'.loading /\ ~shelf'.appending
      BY <1>2, Receives DEF AssetsIInv
    <2>2. PICK id : id = shelf'.selected
      OBVIOUS
    <2>3. cited' \in Citations(cited)' /\ CitesSettle'
      BY <1>2, <2>2, Selecting DEF AssetsIInv
    <2> QED
      BY <2>1, <2>3 DEF AssetsIInv, ShelfSettles
  <1>3. CASE ~r.current /\ UNCHANGED <<shelf, cited, citeReqs>>
    BY <1>1, <1>3 DEF AssetsIInv, ShelfSettles, CitesSettle
  <1>4. CASE /\ r.current /\ UNCHANGED <<cited, citeReqs>>
             /\ LET s == [shelf EXCEPT !.loading = FALSE, !.appending = FALSE]
                IN  shelf' = IF r.append THEN [s EXCEPT !.moreError = TRUE] ELSE [s EXCEPT !.error = TRUE]
    <2>1. PICK s : /\ s = [shelf EXCEPT !.loading = FALSE, !.appending = FALSE]
                   /\ shelf' = IF r.append THEN [s EXCEPT !.moreError = TRUE] ELSE [s EXCEPT !.error = TRUE]
      BY <1>4
    <2>2. s \in Shelves(s) /\ ~s.loading /\ ~s.appending
      BY <2>1 DEF AssetsIInv, Shelves
    <2>3. shelf' \in Shelves(shelf)' /\ ~shelf'.loading /\ ~shelf'.appending
      BY <2>1, <2>2 DEF Shelves
    <2> QED
      BY <1>4, <2>3 DEF AssetsIInv, ShelfSettles, CitesSettle
  <1> QED
    BY <1>1, <1>2, <1>3, <1>4

LEMMA Selections ==
  ASSUME AssetsIInv, closeMobileDetail \/ ReferencesAnswer \/ retryReferences \/ \E id \in DOMAIN AssetKind : selectAsset(id)
  PROVE  AssetsIInv'
  <1>1. ASSUME NEW id, selectAsset(id) PROVE AssetsIInv'
    <2>1. shelf' \in Shelves(shelf)' /\ shelf'.loading = shelf.loading /\ shelf'.appending = shelf.appending
      BY <1>1 DEF selectAsset, AssetsIInv, Shelves
    <2>2. cited' \in Citations(cited)' /\ CitesSettle'
      BY <1>1, Selecting DEF selectAsset, AssetsIInv
    <2> QED
      BY <1>1, <2>1, <2>2 DEF selectAsset, AssetsIInv, ShelfSettles
  <1>2. CASE closeMobileDetail
    <2>1. shelf' \in Shelves(shelf)' /\ shelf'.loading = shelf.loading /\ shelf'.appending = shelf.appending
      BY <1>2 DEF closeMobileDetail, AssetsIInv, Shelves
    <2> QED
      BY <1>2, <2>1 DEF closeMobileDetail, AssetsIInv, ShelfSettles, CitesSettle
  <1>3. CASE ReferencesAnswer
    <2>1. PICK r \in citeReqs : /\ citeReqs' = citeReqs \ {r}
                                /\ \/ cited' = IF r.current THEN [of |-> r.id, loading |-> FALSE, error |-> FALSE] ELSE cited
                                   \/ r.current /\ cited' = [cited EXCEPT !.loading = FALSE, !.error = TRUE]
      BY <1>3 DEF ReferencesAnswer
    <2>2. cited' \in Citations(cited)' /\ (cited'.loading => ~r.current /\ cited' = cited)
      <3>1. PICK c : c = [of |-> r.id, loading |-> FALSE, error |-> FALSE]
        OBVIOUS
      <3>2. c \in Citations(c) /\ ~c.loading
        BY <3>1 DEF Citations
      <3>3. CASE r.current /\ cited' = [cited EXCEPT !.loading = FALSE, !.error = TRUE]
        BY <3>3 DEF AssetsIInv, Citations
      <3>4. CASE cited' = IF r.current THEN c ELSE cited
        BY <3>2, <3>4 DEF AssetsIInv
      <3> QED
        BY <2>1, <3>1, <3>3, <3>4
    <2> QED
      BY <1>3, <2>1, <2>2 DEF ReferencesAnswer, AssetsIInv, ShelfSettles, CitesSettle
  <1>4. CASE retryReferences
    <2>1. PICK c : c = [id |-> shelf.selected, current |-> TRUE] /\ c \in citeReqs'
      BY <1>4 DEF retryReferences
    <2>2. cited' \in Citations(cited)'
      BY <1>4 DEF retryReferences, AssetsIInv, Citations
    <2> QED
      BY <1>4, <2>1, <2>2 DEF retryReferences, AssetsIInv, ShelfSettles, CitesSettle
  <1> QED
    BY <1>1, <1>2, <1>3, <1>4

LEMMA AssetsSound == ASSUME AssetsIInv, [AssetsNext]_assetVars PROVE AssetsIInv'
  <1>1. CASE UNCHANGED assetVars
    BY <1>1 DEF assetVars, AssetsIInv, ShelfSettles, CitesSettle
  <1> QED
    BY <1>1, Searches, CatalogAnswers, Selections DEF AssetsNext

LEMMA AssetsStart == ASSUME AssetsInit PROVE AssetsIInv
  <1>1. PICK r : r = [append |-> FALSE, off |-> 0, query |-> "", current |-> TRUE] /\ r \in pageReqs
    BY DEF AssetsInit, Ask
  <1>2. shelf \in Shelves(shelf) /\ cited \in Citations(cited) /\ ~shelf.appending /\ ~cited.loading
    BY DEF AssetsInit, NewShelf, Shelves, Citations
  <1> QED
    BY <1>1, <1>2 DEF AssetsIInv, ShelfSettles, CitesSettle

-----------------------------------------------------------------------------
(* The preview of an asset. Each mount and each retry has a key of its own; *)
(* a PDF preview holds one object of PDF.js, and its status says which.     *)

AssetKindsKnown == \A a \in DOMAIN AssetKind : AssetKind[a] \in {"pdf", "media", "image", "unsupported"}

PDFs(p) == [inst : Nat, status : {"none", "loading", "ready", "error"}, page : {p.page}, zoom : {p.zoom},
            rendering : BOOLEAN, gen : {p.gen}]
ResultSound(x) ==
  /\ x.key \in 0..mounts /\ x.state \in {"ready", "error", "unsupported"}
  /\ Probed(shown) /\ x.key # mounts => mounts \in heads
  /\ mounts = 0 => x.state = "unsupported" /\ heads = {}
ProbeSound ==
  /\ mounts \in Nat /\ shown \in DOMAIN AssetKind \cup {""} /\ heads \subseteq {mounts}
  /\ \E x : probe = [key |-> mounts, result |-> x] /\ ResultSound(x)
HeldSound ==
  /\ pdf \in PDFs(pdf)
  /\ \A h \in held : /\ h \in [inst : {pdf.inst}, what : {h.what}] /\ h.inst = pdf.inst /\ pdf.inst # 0
                     /\ pdf.status = "ready" => h.what = "document"
                     /\ h.what = "document" => pdf.status = "ready"
  /\ \A g, h \in held : g = h
  /\ pdf.status = "loading" => \E h \in held : TRUE
  /\ pdf.status = "ready" /\ pdf.rendering => pdf.gen \in paints
PreviewIInv == ProbeSound /\ HeldSound

LEMMA NextKey ==
  ASSUME NEW n \in Nat
  PROVE  n + 1 \in Nat /\ n + 1 # 0 /\ \A k \in 0..n : k \in 0..(n + 1) /\ k # n + 1
  OBVIOUS

LEMMA NewKeys == ASSUME PreviewIInv, NEW a \in DOMAIN AssetKind \cup {""}, shown' = a, NewKey(a) PROVE PreviewIInv'
  <1>1. PICK x : probe = [key |-> mounts, result |-> x] /\ ResultSound(x)
    BY DEF PreviewIInv, ProbeSound
  <1>2. PICK m : m = mounts + 1 /\ m \in Nat /\ m # 0 /\ \A k \in 0..mounts : k \in 0..m /\ k # m
    <2>1. mounts \in Nat
      BY DEF PreviewIInv, ProbeSound
    <2> QED
      BY <2>1, NextKey
  <1>3. mounts' = m /\ probe' = [key |-> m, result |-> x] /\ heads' = IF Probed(a) THEN {m} ELSE {}
    BY <1>1, <1>2 DEF NewKey
  <1>4. ResultSound(x)'
    <2>1. x.key \in 0..m /\ x.key # m /\ m # 0 /\ m \in Nat
      BY <1>1, <1>2 DEF ResultSound
    <2>2. x.state \in {"ready", "error", "unsupported"}
      BY <1>1 DEF ResultSound
    <2>3. Probed(shown)' => m \in heads'
      BY <1>3 DEF Probed
    <2> QED
      BY <1>3, <2>1, <2>2, <2>3 DEF ResultSound
  <1>5. ProbeSound'
    <2>1. m \in Nat /\ heads' \subseteq {m}
      BY <1>1, <1>2, <1>3
    <2> QED
      BY <1>3, <1>4, <2>1 DEF ProbeSound
  <1>6. pdf' = NoPDF /\ held' = {}
    BY DEF NewKey, destroyDocument, PreviewIInv, HeldSound
  <1>7. HeldSound'
    BY <1>6 DEF HeldSound, NoPDF, PDFs
  <1> QED
    BY <1>5, <1>7 DEF PreviewIInv

LEMMA Heads == ASSUME PreviewIInv, HeadAnswer PROVE PreviewIInv'
  <1>1. PICK k \in heads, s \in {"ready", "error"} :
          /\ heads' = heads \ {k} /\ probe' = [probe EXCEPT !.result = [key |-> k, state |-> s]]
          /\ UNCHANGED <<shown, mounts>>
    BY DEF HeadAnswer
  <1>2. PICK x : probe = [key |-> mounts, result |-> x] /\ ResultSound(x) /\ mounts \in Nat /\ k = mounts
    BY DEF PreviewIInv, ProbeSound
  <1>3. PICK y : y = [key |-> k, state |-> s]
    OBVIOUS
  <1>4. probe' = [key |-> mounts, result |-> y] /\ y.key = mounts /\ y.state = s /\ mounts # 0
    BY <1>1, <1>2, <1>3 DEF ResultSound
  <1>5. ResultSound(y)'
    BY <1>1, <1>2, <1>4 DEF ResultSound
  <1>6. ProbeSound'
    BY <1>1, <1>2, <1>4, <1>5 DEF PreviewIInv, ProbeSound
  <1>7. HeldSound'
    BY DEF HeadAnswer, PreviewIInv, HeldSound
  <1> QED
    BY <1>6, <1>7 DEF PreviewIInv

LEMMA ProbeStays == ASSUME ProbeSound, UNCHANGED <<shown, probe, heads, mounts>> PROVE ProbeSound'
  BY DEF ProbeSound, ResultSound, Probed

\* A step of the PDF preview that leaves one object held, or none.
LEMMA PDFSteps ==
  ASSUME PreviewIInv, PDFOnly, pdf' \in PDFs(pdf)',
         \/ held' = {} /\ pdf'.status \in {"none", "error"}
         \/ \E h : /\ held' = {h} /\ h \in [inst : {pdf'.inst}, what : {h.what}] /\ pdf'.inst # 0
                  /\ (h.what = "document" <=> pdf'.status = "ready")
         \/ UNCHANGED held /\ pdf'.inst = pdf.inst /\ pdf'.status = pdf.status,
         pdf'.status = "ready" /\ pdf'.rendering => pdf'.gen \in paints'
  PROVE  PreviewIInv'
  <1>1. ProbeSound'
    BY ProbeStays DEF PDFOnly, PreviewIInv
  <1>2. CASE held' = {} /\ pdf'.status \in {"none", "error"}
    BY <1>1, <1>2 DEF PreviewIInv, HeldSound
  <1>3. CASE \E h : /\ held' = {h} /\ h \in [inst : {pdf'.inst}, what : {h.what}] /\ pdf'.inst # 0
                    /\ (h.what = "document" <=> pdf'.status = "ready")
    <2>1. PICK h : /\ held' = {h} /\ h \in [inst : {pdf'.inst}, what : {h.what}] /\ pdf'.inst # 0
                   /\ (h.what = "document" <=> pdf'.status = "ready")
      BY <1>3
    <2> QED
      BY <1>1, <2>1 DEF PreviewIInv, HeldSound
  <1>4. CASE UNCHANGED held /\ pdf'.inst = pdf.inst /\ pdf'.status = pdf.status
    BY <1>1, <1>4 DEF PreviewIInv, HeldSound
  <1> QED
    BY <1>2, <1>3, <1>4

LEMMA Mounting == ASSUME PreviewIInv, mountPDF PROVE PreviewIInv'
  <1>1. mounts # 0 /\ probe.key = mounts /\ mounts \in Nat
    <2>1. PICK x : probe = [key |-> mounts, result |-> x] /\ ResultSound(x) /\ mounts \in Nat
      BY DEF PreviewIInv, ProbeSound
    <2>2. PreviewState = IF x.key = mounts THEN x.state ELSE initialState(shown)
      BY <2>1 DEF PreviewState
    <2>3. PreviewState = "ready" /\ AssetKind[shown] = "pdf"
      BY <2>1, <2>2 DEF mountPDF, InteractiveAssetPreview, initialState, ResultSound
    <2>4. x.state = "ready"
      BY <2>2, <2>3 DEF initialState
    <2> QED
      BY <2>1, <2>4 DEF ResultSound
  <1>2. held = {}
    BY DEF mountPDF, PreviewIInv, HeldSound
  <1>3. PICK h : h = [inst |-> probe.key, what |-> "module"]
    OBVIOUS
  <1>4. held' = {h} /\ pdf' = NewPDF(probe.key) /\ PDFOnly
    BY <1>2, <1>3 DEF mountPDF
  <1>5. pdf' \in PDFs(pdf)' /\ pdf'.inst = probe.key /\ pdf'.status = "loading"
    BY <1>1, <1>4 DEF NewPDF, NoPDF, PDFs
  <1> QED
    BY <1>1, <1>3, <1>4, <1>5, PDFSteps

\* The page or the zoom of the document is drawn anew.
LEMMA Drawing ==
  ASSUME NEW p, p \in PDFs(p), p.gen = pdf.gen, startRender(p)
  PROVE  /\ pdf' \in PDFs(pdf)' /\ pdf'.inst = p.inst /\ pdf'.status = p.status /\ pdf'.gen \in paints'
  <1>1. PICK n : n = p.gen + 1
    OBVIOUS
  <1>2. pdf' = [p EXCEPT !.gen = n, !.rendering = TRUE] /\ paints' = {n}
    BY <1>1 DEF startRender, PDFs
  <1> QED
    BY <1>2 DEF PDFs

LEMMA Loading == ASSUME PreviewIInv, loadPDFJS \/ documentLoaded PROVE PreviewIInv'
  <1>1. PICK h \in held : h.what \in {"module", "task"} /\ PDFOnly /\
          \/ held' = (held \ {h}) \cup {[h EXCEPT !.what = "task"]} /\ UNCHANGED <<pdf, paints>>
          \/ held' = (held \ {h}) \cup {[h EXCEPT !.what = "document"]} /\ startRender([pdf EXCEPT !.status = "ready"])
          \/ held' = held \ {h} /\ pdf' = [pdf EXCEPT !.status = "error"]
    BY DEF loadPDFJS, documentLoaded
  <1>2. /\ held \ {h} = {} /\ h \in [inst : {pdf.inst}, what : {h.what}] /\ pdf.inst # 0 /\ pdf.status # "ready"
        /\ pdf \in PDFs(pdf)
    BY <1>1 DEF PreviewIInv, HeldSound
  <1>3. ASSUME NEW w PROVE \E g : g = [h EXCEPT !.what = w] /\ g \in [inst : {pdf.inst}, what : {g.what}] /\ g.what = w
    <2>1. PICK g : g = [h EXCEPT !.what = w]
      OBVIOUS
    <2> QED
      BY <1>2, <2>1
  <1>4. CASE held' = (held \ {h}) \cup {[h EXCEPT !.what = "task"]} /\ UNCHANGED <<pdf, paints>>
    <2>1. PICK g : g = [h EXCEPT !.what = "task"] /\ g \in [inst : {pdf.inst}, what : {g.what}] /\ g.what = "task"
      BY <1>3
    <2>2. held' = {g}
      BY <1>2, <1>4, <2>1
    <2> QED
      BY <1>1, <1>2, <1>4, <2>1, <2>2, PDFSteps
  <1>5. CASE held' = (held \ {h}) \cup {[h EXCEPT !.what = "document"]} /\ startRender([pdf EXCEPT !.status = "ready"])
    <2>1. PICK g : g = [h EXCEPT !.what = "document"] /\ g \in [inst : {pdf.inst}, what : {g.what}] /\ g.what = "document"
      BY <1>3
    <2>2. held' = {g}
      BY <1>2, <1>5, <2>1
    <2>3. PICK p : p = [pdf EXCEPT !.status = "ready"]
      OBVIOUS
    <2>4. p \in PDFs(p) /\ p.gen = pdf.gen /\ p.inst = pdf.inst /\ p.status = "ready"
      BY <1>2, <2>3 DEF PDFs
    <2>5. pdf' \in PDFs(pdf)' /\ pdf'.inst = pdf.inst /\ pdf'.status = "ready" /\ pdf'.gen \in paints'
      BY <1>5, <2>3, <2>4, Drawing
    <2> QED
      BY <1>1, <1>2, <2>1, <2>2, <2>5, PDFSteps
  <1>6. CASE held' = held \ {h} /\ pdf' = [pdf EXCEPT !.status = "error"]
    <2>1. pdf' \in PDFs(pdf)' /\ pdf'.status = "error"
      BY <1>2, <1>6 DEF PDFs
    <2> QED
      BY <1>1, <1>2, <1>6, <2>1, PDFSteps
  <1> QED
    BY <1>1, <1>4, <1>5, <1>6

LEMMA Views == ASSUME PreviewIInv, previousPage \/ nextPage \/ zoomOut \/ zoomIn PROVE PreviewIInv'
  <1>1. pdf \in PDFs(pdf)
    BY DEF PreviewIInv, HeldSound
  <1>2. PICK p : p \in PDFs(p) /\ p.gen = pdf.gen /\ p.inst = pdf.inst /\ p.status = pdf.status /\ View(p)
    <2>1. PICK n, p : p \in {[pdf EXCEPT !.page = n], [pdf EXCEPT !.zoom = n]} /\ View(p)
      BY DEF previousPage, nextPage, zoomOut, zoomIn
    <2> QED
      BY <1>1, <2>1 DEF PDFs
  <1>3. pdf' \in PDFs(pdf)' /\ pdf'.inst = pdf.inst /\ pdf'.status = pdf.status /\ pdf'.gen \in paints'
    BY <1>2, Drawing DEF View
  <1> QED
    BY <1>2, <1>3, PDFSteps DEF View

LEMMA Drawn == ASSUME PreviewIInv, renderDone PROVE PreviewIInv'
  <1>1. /\ PDFOnly
        /\ \/ pdf' = [pdf EXCEPT !.rendering = FALSE] /\ UNCHANGED held
           \/ pdf' = [pdf EXCEPT !.rendering = FALSE, !.status = "error"] /\ held' = destroyDocument
    BY DEF renderDone
  <1>2. pdf \in PDFs(pdf) /\ destroyDocument = {}
    BY DEF PreviewIInv, HeldSound, destroyDocument
  <1>3. CASE pdf' = [pdf EXCEPT !.rendering = FALSE] /\ UNCHANGED held
    <2>1. pdf' \in PDFs(pdf)' /\ pdf'.inst = pdf.inst /\ pdf'.status = pdf.status /\ ~pdf'.rendering
      BY <1>2, <1>3 DEF PDFs
    <2> QED
      BY <1>1, <1>3, <2>1, PDFSteps
  <1>4. CASE pdf' = [pdf EXCEPT !.rendering = FALSE, !.status = "error"] /\ held' = destroyDocument
    <2>1. pdf' \in PDFs(pdf)' /\ pdf'.status = "error"
      BY <1>2, <1>4 DEF PDFs
    <2> QED
      BY <1>1, <1>2, <1>4, <2>1, PDFSteps
  <1> QED
    BY <1>1, <1>3, <1>4

LEMMA PreviewSound == ASSUME PreviewIInv, [PreviewNext]_previewVars PROVE PreviewIInv'
  <1>1. ASSUME UNCHANGED <<shown, probe, heads, pdf, held, paints, mounts>> PROVE PreviewIInv'
    <2>1. ProbeSound'
      BY <1>1, ProbeStays DEF PreviewIInv
    <2>2. HeldSound'
      BY <1>1 DEF PreviewIInv, HeldSound
    <2> QED
      BY <2>1, <2>2 DEF PreviewIInv
  <1>2. CASE UNCHANGED previewVars \/ MediaEvent
    BY <1>1, <1>2 DEF previewVars, MediaEvent
  <1>3. ASSUME NEW a \in DOMAIN AssetKind \cup {""}, showAsset(a) PROVE PreviewIInv'
    BY <1>3, NewKeys DEF showAsset
  <1>4. CASE retryPreview
    BY <1>4, NewKeys DEF retryPreview, PreviewIInv, ProbeSound
  <1> QED
    BY <1>2, <1>3, <1>4, Heads, Mounting, Loading, Views, Drawn DEF PreviewNext

LEMMA PreviewStarts == ASSUME PreviewInit PROVE PreviewIInv
  <1>1. PICK x : x = [key |-> 0, state |-> "unsupported"]
    OBVIOUS
  <1>2. ResultSound(x)
    <2>1. x.key = 0 /\ x.state = "unsupported" /\ mounts = 0 /\ heads = {}
      BY <1>1 DEF PreviewInit
    <2> QED
      BY <2>1 DEF ResultSound
  <1>3. ProbeSound
    BY <1>1, <1>2 DEF PreviewInit, ProbeSound
  <1>4. HeldSound
    BY DEF PreviewInit, HeldSound, NoPDF, PDFs
  <1> QED
    BY <1>3, <1>4 DEF PreviewIInv

LEMMA AssetsSettle == ASSUME AssetKindsKnown, AssetsIInv, PreviewIInv PROVE PreviewSettles /\ OnePDF
  <1>1. PreviewState = "checking" => probe.key \in heads
    <2>1. initialState(shown) = "checking" => Probed(shown)
      BY DEF initialState, Probed, AssetKindsKnown, PreviewIInv, ProbeSound
    <2>2. PICK x : probe = [key |-> mounts, result |-> x] /\ ResultSound(x)
      BY DEF PreviewIInv, ProbeSound
    <2>3. PreviewState = IF x.key = mounts THEN x.state ELSE initialState(shown)
      BY <2>2 DEF PreviewState
    <2> QED
      BY <2>1, <2>2, <2>3 DEF ResultSound
  <1>2. pdf.status = "loading" => \E h \in held : h.inst = pdf.inst /\ h.what # "document"
    BY DEF PreviewIInv, HeldSound
  <1>3. PreviewSettles
    BY <1>1, <1>2 DEF PreviewSettles, AssetsIInv, ShelfSettles, CitesSettle, PreviewIInv, HeldSound
  <1>4. Cardinality(held) <= 1
    <2>1. \A g, h \in held : g = h
      BY DEF PreviewIInv, HeldSound
    <2>2. CASE held = {}
      BY <2>2, FS_EmptySet
    <2>3. ASSUME NEW h \in held PROVE Cardinality(held) <= 1
      <3>1. held = {h}
        BY <2>1
      <3>2. Cardinality({h}) = 1
        BY FS_Singleton
      <3> QED
        BY <3>1, <3>2
    <2> QED
      BY <2>2, <2>3
  <1>5. \A h \in held : h.inst = pdf.inst /\ (h.what = "document" <=> pdf.status = "ready")
    BY DEF PreviewIInv, HeldSound
  <1> QED
    BY <1>3, <1>4, <1>5 DEF OnePDF

AssetsSpec == /\ AssetsInit /\ PreviewInit
              /\ [][AssetsNext \/ UNCHANGED assetVars]_<<assetVars, previewVars>>
              /\ [][PreviewNext \/ UNCHANGED previewVars]_<<assetVars, previewVars>>

\* The asset page (docs/010): each spinner has its request, its load or its render under way,
\* and one document of PDF.js at most is kept, the one on the page; for any catalog, any
\* searches, selections, retries and late answers.
THEOREM AssetPageSettles == ASSUME AssetKindsKnown PROVE AssetsSpec => [](PreviewSettles /\ OnePDF)
  <1>1. AssetsInit /\ PreviewInit => AssetsIInv /\ PreviewIInv
    BY AssetsStart, PreviewStarts
  <1>2. AssetsIInv /\ [AssetsNext \/ UNCHANGED assetVars]_<<assetVars, previewVars>> => AssetsIInv'
    BY AssetsSound DEF assetVars, previewVars
  <1>3. PreviewIInv /\ [PreviewNext \/ UNCHANGED previewVars]_<<assetVars, previewVars>> => PreviewIInv'
    BY PreviewSound DEF assetVars, previewVars
  <1>4. AssetsIInv /\ PreviewIInv => PreviewSettles /\ OnePDF
    BY AssetsSettle
  <1> QED
    BY <1>1, <1>2, <1>3, <1>4, PTL DEF AssetsSpec

-----------------------------------------------------------------------------
(* The rows of the asset page. The request that counts asks for the search  *)
(* above the list, and for the page after the rows that are there; the list *)
(* is a beginning of the result unless its first page failed.               *)

\* The server lists an asset once; the empty search is one that can be typed.
AssetHitsSound ==
  /\ AssetPage \in Nat \ {0} /\ "" \in DOMAIN AssetHits
  /\ \A q \in DOMAIN AssetHits : AssetHits[q] \in Seq(DOMAIN AssetKind) /\ IsInjective(AssetHits[q])

PageRequests == [append : BOOLEAN, off : Nat, query : DOMAIN AssetHits, current : BOOLEAN]
\* The rows up to off are those of the search q, and the selected asset is one of them.
Lists(s) ==
  /\ s.off <= Len(AssetHits[s.asked]) /\ s.items = SubSeq(AssetHits[s.asked], 1, s.off)
  /\ s.selected \in ToSet(s.items) \/ AssetHits[s.asked] = <<>>
AskedFor(r, s) == /\ r.query = s.asked /\ r.append = ~s.loading
                  /\ r.off = IF r.append THEN s.off ELSE 0
ShelfBelongs ==
  /\ shelf.asked \in DOMAIN AssetHits /\ shelf.search \in DOMAIN AssetHits /\ shelf.off \in Nat
  /\ pageReqs \subseteq PageRequests
  /\ \A r \in pageReqs : r.current => AskedFor(r, shelf)
  /\ \A r, o \in pageReqs : r.current /\ o.current => r = o
  /\ ~shelf.loading /\ ~shelf.error => Lists(shelf)
CitesBelong ==
  /\ \A r \in citeReqs : /\ r = [id |-> r.id, current |-> r.current] /\ r.current \in BOOLEAN
                         /\ r.current => r.id = shelf.selected
  /\ shelf.selected # "" /\ References = "list" => cited.of = shelf.selected
BelongsIInv == AssetsIInv /\ ShelfBelongs /\ CitesBelong

LEMMA SupersededPages ==
  ASSUME pageReqs \subseteq PageRequests
  PROVE  Old(pageReqs) \subseteq PageRequests /\ \A r \in Old(pageReqs) : ~r.current
  BY DEF Old, PageRequests

LEMMA SupersededCites ==
  ASSUME CitesBelong
  PROVE  \A r \in Old(citeReqs) : r = [id |-> r.id, current |-> r.current] /\ r.current \in BOOLEAN /\ ~r.current
  <1> SUFFICES ASSUME NEW q \in citeReqs
               PROVE  LET r == [q EXCEPT !.current = FALSE]
                      IN  r = [id |-> r.id, current |-> r.current] /\ r.current \in BOOLEAN /\ ~r.current
    BY DEF Old
  <1>1. q = [id |-> q.id, current |-> q.current]
    BY DEF CitesBelong
  <1>2. q \in [id : {q.id}, current : BOOLEAN]
    BY <1>1 DEF CitesBelong
  <1>3. PICK r \in [id : {q.id}, current : {FALSE}] : r = [q EXCEPT !.current = FALSE]
    BY <1>2
  <1> QED
    BY <1>3

LEMMA LoadBelongs ==
  ASSUME pageReqs \subseteq PageRequests, CitesBelong, NEW s, s \in Shelves(s), NEW append \in BOOLEAN, loadAssets(s, append),
         s.asked \in DOMAIN AssetHits, s.search \in DOMAIN AssetHits, s.off \in Nat, s.selected = shelf.selected,
         append => ~s.loading /\ (~s.error => Lists(s))
  PROVE  ShelfBelongs' /\ CitesBelong'
  <1>1. PICK off, r : /\ r = [append |-> append, off |-> off, query |-> s.asked, current |-> TRUE]
                      /\ off = (IF append THEN s.off ELSE 0) /\ pageReqs' = Old(pageReqs) \cup {r}
    BY DEF loadAssets, Ask
  <1>2. r \in PageRequests /\ r.append = append /\ r.off = off /\ r.query = s.asked
    BY <1>1 DEF PageRequests
  <1>3. /\ shelf'.asked = s.asked /\ shelf'.search = s.search /\ shelf'.off = s.off /\ shelf'.items = s.items
        /\ shelf'.selected = s.selected /\ shelf'.loading = (IF append THEN s.loading ELSE TRUE)
        /\ append => shelf'.error = s.error
    BY DEF loadAssets, Shelves
  <1>4. AskedFor(r, shelf') /\ (~shelf'.loading /\ ~shelf'.error => Lists(shelf'))
    BY <1>1, <1>2, <1>3 DEF AskedFor, Lists, Shelves
  <1>5. ShelfBelongs'
    BY <1>1, <1>2, <1>3, <1>4, SupersededPages DEF ShelfBelongs, AskedFor, Lists, PageRequests
  <1>6. CitesBelong'
    BY <1>3 DEF loadAssets, CitesBelong, References
  <1> QED
    BY <1>5, <1>6

\* A step that does not touch what ShelfBelongs is about.
LEMMA ShelfStays ==
  ASSUME BelongsIInv, UNCHANGED pageReqs, shelf'.asked = shelf.asked, shelf'.search \in DOMAIN AssetHits, shelf'.off = shelf.off,
         shelf'.items = shelf.items, shelf'.loading = shelf.loading, shelf'.error = shelf.error,
         shelf'.selected = shelf.selected \/ shelf'.selected \in ToSet(shelf.items)
  PROVE  ShelfBelongs'
  BY DEF BelongsIInv, ShelfBelongs, AskedFor, Lists

LEMMA SearchesBelong ==
  ASSUME AssetHitsSound, BelongsIInv,
         (\E q \in DOMAIN AssetHits : typeSearch(q)) \/ clearSearch \/ debounce \/ retryInitial \/ loadMore
  PROVE  ShelfBelongs' /\ CitesBelong'
  <1>1. /\ shelf \in Shelves(shelf) /\ pageReqs \subseteq PageRequests /\ CitesBelong
        /\ shelf.asked \in DOMAIN AssetHits /\ shelf.search \in DOMAIN AssetHits /\ shelf.off \in Nat
    BY DEF BelongsIInv, AssetsIInv, ShelfBelongs
  <1>2. ASSUME NEW q \in DOMAIN AssetHits, typeSearch(q) PROVE ShelfBelongs' /\ CitesBelong'
    <2>1. /\ shelf'.asked = shelf.asked /\ shelf'.search = q /\ shelf'.off = shelf.off
          /\ shelf'.items = shelf.items /\ shelf'.loading = shelf.loading /\ shelf'.error = shelf.error
          /\ shelf'.selected = shelf.selected /\ UNCHANGED <<pageReqs, cited, citeReqs>>
      BY <1>1, <1>2 DEF typeSearch, Shelves
    <2>2. CitesBelong'
      BY <1>1, <2>1 DEF CitesBelong, References
    <2> QED
      BY <2>1, <2>2, ShelfStays
  <1>3. CASE debounce
    <2>1. PICK s : s = [shelf EXCEPT !.asked = shelf.search] /\ loadAssets(s, FALSE)
      BY <1>3 DEF debounce
    <2>2. s \in Shelves(s) /\ s.asked = shelf.search /\ s.search = shelf.search /\ s.off = shelf.off /\ s.selected = shelf.selected
      BY <1>1, <2>1 DEF Shelves
    <2> QED
      BY <1>1, <2>1, <2>2, LoadBelongs
  <1>4. CASE retryInitial
    BY <1>1, <1>4, LoadBelongs DEF retryInitial
  <1>5. CASE loadMore
    <2>1. loadAssets(shelf, TRUE) /\ ~shelf.loading
      BY <1>1, <1>5 DEF loadMore, BelongsIInv, AssetsIInv, ShelfSettles
    <2> QED
      BY <1>1, <2>1, LoadBelongs DEF BelongsIInv, ShelfBelongs
  <1>6. clearSearch => typeSearch("") /\ "" \in DOMAIN AssetHits
    BY DEF clearSearch, AssetHitsSound
  <1> QED
    BY <1>2, <1>3, <1>4, <1>5, <1>6

\* The rows up to off, and those that come next.
LEMMA NextRows ==
  ASSUME NEW X, NEW all \in Seq(X), IsInjective(all), NEW off \in Nat, off <= Len(all), NEW n \in off..Len(all)
  PROVE  /\ off + Len(SubSeq(all, off + 1, n)) = n
         /\ Added(SubSeq(all, 1, off), SubSeq(all, off + 1, n)) = SubSeq(all, 1, n)
         /\ ToSet(SubSeq(all, 1, off)) \subseteq ToSet(SubSeq(all, 1, n))
  <1>0. PICK items, got : items = SubSeq(all, 1, off) /\ got = SubSeq(all, off + 1, n)
    OBVIOUS
  <1>1. /\ Len(all) \in Nat /\ DOMAIN all = 1..Len(all) /\ n \in Nat /\ n <= Len(all) /\ off <= n
        /\ n - off \in Nat /\ off + (n - off) = n
    OBVIOUS
  <1>2. items \in Seq(X) /\ Len(items) = off /\ DOMAIN items = 1..off /\ \A i \in 1..off : items[i] = all[i]
    BY <1>0, <1>1
  <1>3. got \in Seq(X) /\ Len(got) = n - off /\ DOMAIN got = 1..(n - off) /\ \A i \in 1..(n - off) : got[i] = all[off + i]
    BY <1>0, <1>1
  <1>4. items \o got = SubSeq(all, 1, n)
    BY <1>0, <1>1
  <1>5. ToSet(items) \cap ToSet(got) = {}
    <2>1. ASSUME NEW i \in 1..off, NEW j \in 1..(n - off) PROVE items[i] # got[j]
      <3>1. i \in DOMAIN all /\ off + j \in DOMAIN all /\ i # off + j
        BY <1>1
      <3>2. all[i] # all[off + j]
        BY <3>1 DEF IsInjective
      <3> QED
        BY <1>2, <1>3, <3>2
    <2>2. \A i \in DOMAIN items, j \in DOMAIN got : items[i] # got[j]
      BY <1>2, <1>3, <2>1
    <2> QED
      BY <2>2, Zenon DEF ToSet
  <1>6. Added(items, got) = items \o got
    <2>1. items \in Seq(X) /\ got \in Seq(X)
      BY <1>2, <1>3
    <2> QED
      BY <1>5, <2>1, Merges DEF Added
  <1>7. ToSet(items \o got) = ToSet(items) \cup ToSet(got)
    BY <1>2, <1>3, ValuesJoined
  <1> QED
    BY <1>0, <1>1, <1>3, <1>4, <1>6, <1>7

LEMMA HitsOf ==
  ASSUME AssetHitsSound, NEW q \in DOMAIN AssetHits
  PROVE  AssetHits[q] \in Seq(DOMAIN AssetKind) /\ IsInjective(AssetHits[q]) /\ Len(AssetHits[q]) \in Nat
  <1>1. AssetHits[q] \in Seq(DOMAIN AssetKind) /\ IsInjective(AssetHits[q])
    BY Zenon DEF AssetHitsSound
  <1>2. PICK all \in Seq(DOMAIN AssetKind) : all = AssetHits[q]
    BY <1>1
  <1> QED
    BY <1>1, <1>2

LEMMA PageOfAssets ==
  ASSUME AssetHitsSound, NEW q \in DOMAIN AssetHits, NEW off \in Nat
  PROVE  /\ PageAt(q, off) \in Seq(DOMAIN AssetKind)
         /\ off <= Len(AssetHits[q]) => \E n \in off..Len(AssetHits[q]) : PageAt(q, off) = SubSeq(AssetHits[q], off + 1, n)
         /\ PageAt(q, 0) = <<>> => AssetHits[q] = <<>>
  <1> DEFINE all == AssetHits[q]
  <1>1. all \in Seq(DOMAIN AssetKind) /\ Len(all) \in Nat /\ AssetPage \in Nat \ {0}
    BY HitsOf DEF AssetHitsSound
  <1>2. PICK n \in Nat : n = (IF off + AssetPage > Len(all) THEN Len(all) ELSE off + AssetPage)
    BY <1>1
  <1>3. PageAt(q, off) = SubSeq(all, off + 1, n) /\ n <= Len(all) /\ (off <= Len(all) => n \in off..Len(all))
    BY <1>1, <1>2 DEF PageAt
  <1>4. SubSeq(all, off + 1, n) \in Seq(DOMAIN AssetKind)
    BY <1>1, <1>3, PartOfList
  <1>5. PageAt(q, 0) = <<>> => all = <<>>
    <2>1. PICK m \in Nat : m = (IF 0 + AssetPage > Len(all) THEN Len(all) ELSE 0 + AssetPage)
      BY <1>1
    <2>2. PageAt(q, 0) = SubSeq(all, 1, m) /\ m <= Len(all)
      BY <1>1, <2>1 DEF PageAt
    <2>3. all # <<>> => m >= 1
      BY <1>1, <2>1
    <2>4. Len(SubSeq(all, 1, m)) = m
      BY <1>1, <2>2
    <2> QED
      BY <1>1, <2>2, <2>3, <2>4
  <1> QED
    BY <1>3, <1>4, <1>5

LEMMA ReceivedFields ==
  ASSUME NEW s, s \in Shelves(s), NEW r, r.append \in BOOLEAN
  PROVE  LET t == Received(s, r)  got == PageAt(r.query, r.off)
         IN  /\ t.asked = s.asked /\ t.search = s.search /\ t.error = s.error /\ ~t.loading /\ t.off = r.off + Len(got)
             /\ r.append => t.items = Added(s.items, got) /\ t.selected = s.selected
             /\ ~r.append => t.items = got /\ t.selected = Kept(s, got)
  <1>1. PICK got : got = PageAt(r.query, r.off)
    OBVIOUS
  <1>2. PICK more, off, items, kept :
          more = (Len(got) = AssetPage) /\ off = r.off + Len(got) /\ items = Added(s.items, got) /\ kept = Kept(s, got)
    OBVIOUS
  <1>3. PICK base : base = [s EXCEPT !.loading = FALSE, !.appending = FALSE, !.more = more, !.off = off]
    OBVIOUS
  <1>4. /\ base \in Shelves(base) /\ ~base.loading /\ base.asked = s.asked /\ base.search = s.search /\ base.error = s.error
        /\ base.off = off /\ base.selected = s.selected
    BY <1>3 DEF Shelves
  <1>5. PICK t : t = IF r.append THEN [base EXCEPT !.items = items]
                     ELSE [base EXCEPT !.items = got, !.selected = kept, !.detail = FALSE]
    OBVIOUS
  <1>6. Received(s, r) = t
    BY <1>1, <1>2, <1>3, <1>5 DEF Received
  <1>7. /\ t.asked = s.asked /\ t.search = s.search /\ t.error = s.error /\ ~t.loading /\ t.off = off
        /\ r.append => t.items = items /\ t.selected = s.selected
        /\ ~r.append => t.items = got /\ t.selected = kept
    BY <1>4, <1>5 DEF Shelves
  <1> QED
    BY <1>1, <1>2, <1>6, <1>7

\* The answer to the request that counts: the page belongs to the rows that are there.
LEMMA ReceivedLists ==
  ASSUME AssetHitsSound, BelongsIInv, NEW r \in pageReqs, r.current
  PROVE  LET t == Received(shelf, r)
         IN  /\ t.asked = shelf.asked /\ t.search = shelf.search /\ t.off \in Nat /\ ~t.loading
             /\ ~t.error => Lists(t)
  <1> DEFINE t == Received(shelf, r)
             got == PageAt(r.query, r.off)
             all == AssetHits[shelf.asked]
  <1>1. /\ shelf \in Shelves(shelf) /\ r.append \in BOOLEAN /\ r.off \in Nat /\ r.query \in DOMAIN AssetHits
        /\ r.query = shelf.asked /\ (r.append <=> ~shelf.loading) /\ r.off = (IF r.append THEN shelf.off ELSE 0)
    BY DEF BelongsIInv, AssetsIInv, ShelfBelongs, AskedFor, PageRequests
  <1>2. /\ t.asked = shelf.asked /\ t.search = shelf.search /\ t.error = shelf.error /\ ~t.loading /\ t.off = r.off + Len(got)
        /\ r.append => t.items = Added(shelf.items, got) /\ t.selected = shelf.selected
        /\ ~r.append => t.items = got /\ t.selected = Kept(shelf, got)
    BY <1>1, ReceivedFields
  <1>3. /\ got \in Seq(DOMAIN AssetKind) /\ (r.off = 0 /\ got = <<>> => all = <<>>)
        /\ r.off <= Len(all) => \E n \in r.off..Len(all) : got = SubSeq(all, r.off + 1, n)
    <2>1. PICK q \in DOMAIN AssetHits, off \in Nat : q = r.query /\ off = r.off
      BY <1>1
    <2>2. /\ PageAt(q, off) \in Seq(DOMAIN AssetKind)
          /\ off <= Len(AssetHits[q]) => \E n \in off..Len(AssetHits[q]) : PageAt(q, off) = SubSeq(AssetHits[q], off + 1, n)
          /\ PageAt(q, 0) = <<>> => AssetHits[q] = <<>>
      BY PageOfAssets
    <2>3. got = PageAt(q, off) /\ all = AssetHits[q]
      BY <1>1, <2>1
    <2> HIDE DEF got, all
    <2> QED
      BY <2>1, <2>2, <2>3
  <1>4. all \in Seq(DOMAIN AssetKind) /\ IsInjective(all) /\ Len(all) \in Nat
    BY <1>1, HitsOf
  <1> HIDE DEF t, got, all
  <1>5. CASE r.append /\ ~t.error
    <2>1. r.off <= Len(all) /\ shelf.items = SubSeq(all, 1, r.off) /\ (shelf.selected \in ToSet(shelf.items) \/ all = <<>>)
      BY <1>1, <1>2, <1>5 DEF BelongsIInv, ShelfBelongs, Lists, all
    <2>2. PICK n \in r.off..Len(all) : got = SubSeq(all, r.off + 1, n)
      BY <1>3, <2>1
    <2>3. /\ r.off + Len(got) = n /\ Added(shelf.items, got) = SubSeq(all, 1, n)
          /\ ToSet(shelf.items) \subseteq ToSet(SubSeq(all, 1, n))
      <3>1. PICK off \in Nat : off = r.off
        BY <1>1
      <3>2. off <= Len(all) /\ n \in off..Len(all) /\ shelf.items = SubSeq(all, 1, off) /\ got = SubSeq(all, off + 1, n)
        BY <2>1, <2>2, <3>1
      <3>3. /\ off + Len(SubSeq(all, off + 1, n)) = n /\ Added(SubSeq(all, 1, off), SubSeq(all, off + 1, n)) = SubSeq(all, 1, n)
            /\ ToSet(SubSeq(all, 1, off)) \subseteq ToSet(SubSeq(all, 1, n))
        BY <1>4, <3>1, <3>2, NextRows
      <3> QED
        BY <3>1, <3>2, <3>3
    <2>4. t.off = n /\ t.items = SubSeq(all, 1, n) /\ ToSet(shelf.items) \subseteq ToSet(t.items)
      BY <1>2, <1>5, <2>3
    <2>5. Lists(t)
      BY <1>2, <1>4, <1>5, <2>1, <2>4 DEF Lists, all
    <2> QED
      BY <1>1, <1>2, <1>4, <2>4, <2>5 DEF t
  <1>6. CASE ~r.append
    <2>1. r.off = 0 /\ 0 <= Len(all)
      BY <1>1, <1>4, <1>6
    <2>2. PICK n \in 0..Len(all) : got = SubSeq(all, 1, n)
      BY <1>3, <2>1
    <2>3. t.off = n /\ t.items = SubSeq(all, 1, n)
      BY <1>2, <1>4, <1>6, <2>1, <2>2
    <2>4. got # <<>> => Kept(shelf, got) \in ToSet(got)
      <3> SUFFICES ASSUME got # <<>>, shelf.selected \notin ToSet(got) PROVE Head(got) \in ToSet(got)
        BY DEF Kept
      <3>1. 1 \in DOMAIN got /\ Head(got) = got[1]
        BY <1>3
      <3> QED
        BY <3>1 DEF ToSet
    <2>5. Lists(t)
      BY <1>2, <1>3, <1>4, <1>6, <2>1, <2>2, <2>3, <2>4 DEF Lists, all
    <2> QED
      BY <1>2, <1>4, <2>3, <2>5 DEF t
  <1>7. CASE r.append /\ t.error
    BY <1>1, <1>2, <1>3, <1>7 DEF t
  <1> QED
    BY <1>5, <1>6, <1>7

LEMMA SelectingBelongs ==
  ASSUME CitesBelong, cited \in Citations(cited), NEW id, selecting(id), shelf'.selected = id
  PROVE  CitesBelong'
  <1>1. CASE id = shelf.selected
    BY <1>1 DEF selecting, CitesBelong, References
  <1>2. CASE id # shelf.selected /\ id = ""
    <2>1. citeReqs' = Old(citeReqs)
      BY <1>2 DEF selecting
    <2> QED
      BY <1>2, <2>1, SupersededCites DEF CitesBelong
  <1>3. CASE id # shelf.selected /\ id # ""
    <2>1. PICK c : c = [id |-> id, current |-> TRUE] /\ citeReqs' = Old(citeReqs) \cup {c}
      BY <1>3 DEF selecting
    <2>2. c.id = id /\ c.current = TRUE /\ c = [id |-> c.id, current |-> c.current]
      BY <2>1
    <2>3. cited'.loading /\ ~cited'.error
      BY <1>3 DEF selecting, Citations
    <2>4. References' = "loading"
      BY <2>3 DEF References
    <2> QED
      BY <2>1, <2>2, <2>4, SupersededCites DEF CitesBelong
  <1> QED
    BY <1>1, <1>2, <1>3

LEMMA AnswersBelong == ASSUME AssetHitsSound, BelongsIInv, AssetsAnswer \/ AssetsFail PROVE ShelfBelongs' /\ CitesBelong'
  <1>1. /\ shelf \in Shelves(shelf) /\ cited \in Citations(cited) /\ pageReqs \subseteq PageRequests /\ CitesBelong
        /\ shelf.asked \in DOMAIN AssetHits /\ shelf.search \in DOMAIN AssetHits /\ shelf.off \in Nat
    BY DEF BelongsIInv, AssetsIInv, ShelfBelongs
  <1>2. PICK r \in pageReqs :
          /\ pageReqs' = pageReqs \ {r}
          /\ \/ r.current /\ shelf' = Received(shelf, r) /\ selecting(shelf'.selected)
             \/ ~r.current /\ UNCHANGED <<shelf, cited, citeReqs>>
             \/ /\ r.current /\ UNCHANGED <<cited, citeReqs>>
                /\ LET s == [shelf EXCEPT !.loading = FALSE, !.appending = FALSE]
                   IN  shelf' = IF r.append THEN [s EXCEPT !.moreError = TRUE] ELSE [s EXCEPT !.error = TRUE]
    BY DEF AssetsAnswer, AssetsFail
  <1>3. CASE r.current /\ shelf' = Received(shelf, r) /\ selecting(shelf'.selected)
    <2>1. /\ shelf'.asked = shelf.asked /\ shelf'.search = shelf.search /\ shelf'.off \in Nat /\ ~shelf'.loading
          /\ ~shelf'.error => Lists(shelf')
      BY <1>3, ReceivedLists
    <2>2. \A o \in pageReqs' : ~o.current /\ o \in PageRequests
      BY <1>1, <1>2, <1>3 DEF BelongsIInv, ShelfBelongs
    <2>3. ShelfBelongs'
      BY <1>1, <2>1, <2>2 DEF ShelfBelongs, Lists, PageRequests
    <2>4. PICK id : id = shelf'.selected
      OBVIOUS
    <2> QED
      BY <1>1, <1>3, <2>3, <2>4, SelectingBelongs
  <1>4. CASE ~r.current /\ UNCHANGED <<shelf, cited, citeReqs>>
    BY <1>1, <1>2, <1>4 DEF BelongsIInv, ShelfBelongs, AskedFor, Lists, PageRequests, CitesBelong, References
  <1>5. CASE /\ r.current /\ UNCHANGED <<cited, citeReqs>>
             /\ LET s == [shelf EXCEPT !.loading = FALSE, !.appending = FALSE]
                IN  shelf' = IF r.append THEN [s EXCEPT !.moreError = TRUE] ELSE [s EXCEPT !.error = TRUE]
    <2>1. PICK s : /\ s = [shelf EXCEPT !.loading = FALSE, !.appending = FALSE]
                   /\ shelf' = IF r.append THEN [s EXCEPT !.moreError = TRUE] ELSE [s EXCEPT !.error = TRUE]
      BY <1>5
    <2>2. /\ s \in Shelves(s) /\ ~s.loading /\ s.asked = shelf.asked /\ s.search = shelf.search /\ s.off = shelf.off
          /\ s.items = shelf.items /\ s.selected = shelf.selected /\ s.error = shelf.error
      BY <1>1, <2>1 DEF Shelves
    <2>3. /\ shelf'.asked = shelf.asked /\ shelf'.search = shelf.search /\ shelf'.off = shelf.off /\ shelf'.items = shelf.items
          /\ shelf'.selected = shelf.selected /\ ~shelf'.loading /\ (r.append => shelf'.error = shelf.error) /\ (~r.append => shelf'.error)
      BY <2>1, <2>2 DEF Shelves
    <2>4. \A o \in pageReqs' : ~o.current /\ o \in PageRequests
      BY <1>1, <1>2, <1>5 DEF BelongsIInv, ShelfBelongs
    <2>5. r.append => ~shelf.loading
      BY <1>1, <1>5 DEF BelongsIInv, ShelfBelongs, AskedFor, Shelves
    <2>6. ~shelf'.error => Lists(shelf')
      <3>1. ~shelf'.error => Lists(shelf)
        BY <1>1, <2>3, <2>5 DEF BelongsIInv, ShelfBelongs, PageRequests
      <3> QED
        BY <2>3, <3>1 DEF Lists
    <2>7. ShelfBelongs'
      BY <1>1, <2>3, <2>4, <2>6 DEF ShelfBelongs, Lists, PageRequests
    <2> QED
      BY <1>1, <1>5, <2>3, <2>7 DEF CitesBelong, References
  <1> QED
    BY <1>2, <1>3, <1>4, <1>5

LEMMA SelectionsBelong ==
  ASSUME AssetHitsSound, BelongsIInv,
         closeMobileDetail \/ ReferencesAnswer \/ retryReferences \/ \E id \in DOMAIN AssetKind : selectAsset(id)
  PROVE  ShelfBelongs' /\ CitesBelong'
  <1>1. /\ shelf \in Shelves(shelf) /\ cited \in Citations(cited) /\ CitesBelong /\ shelf.search \in DOMAIN AssetHits
    BY DEF BelongsIInv, AssetsIInv, ShelfBelongs
  <1>2. ASSUME NEW id, selectAsset(id) PROVE ShelfBelongs' /\ CitesBelong'
    <2>1. /\ shelf'.asked = shelf.asked /\ shelf'.search = shelf.search /\ shelf'.off = shelf.off
          /\ shelf'.items = shelf.items /\ shelf'.loading = shelf.loading /\ shelf'.error = shelf.error
          /\ shelf'.selected = id /\ id \in ToSet(shelf.items) /\ selecting(id) /\ UNCHANGED pageReqs
      BY <1>1, <1>2 DEF selectAsset, Shelves
    <2>2. ShelfBelongs'
      BY <1>1, <2>1, ShelfStays
    <2> QED
      BY <1>1, <2>1, <2>2, SelectingBelongs
  <1>3. CASE closeMobileDetail
    <2>1. /\ shelf'.asked = shelf.asked /\ shelf'.search = shelf.search /\ shelf'.off = shelf.off
          /\ shelf'.items = shelf.items /\ shelf'.loading = shelf.loading /\ shelf'.error = shelf.error
          /\ shelf'.selected = shelf.selected /\ UNCHANGED <<pageReqs, cited, citeReqs>>
      BY <1>1, <1>3 DEF closeMobileDetail, Shelves
    <2>2. ShelfBelongs'
      BY <1>1, <2>1, ShelfStays
    <2> QED
      BY <1>1, <2>1, <2>2 DEF CitesBelong, References
  <1>4. CASE ReferencesAnswer
    <2>1. PICK r \in citeReqs : /\ citeReqs' = citeReqs \ {r} /\ UNCHANGED <<shelf, pageReqs>>
                                /\ \/ cited' = IF r.current THEN [of |-> r.id, loading |-> FALSE, error |-> FALSE] ELSE cited
                                   \/ r.current /\ cited' = [cited EXCEPT !.loading = FALSE, !.error = TRUE]
      BY <1>4 DEF ReferencesAnswer
    <2>2. shelf.selected # "" /\ References' = "list" => cited'.of = shelf.selected
      <3>1. CASE r.current /\ cited' = [of |-> r.id, loading |-> FALSE, error |-> FALSE]
        BY <1>1, <3>1 DEF CitesBelong
      <3>2. CASE cited' = cited
        BY <1>1, <3>2 DEF CitesBelong, References
      <3>3. CASE r.current /\ cited' = [cited EXCEPT !.loading = FALSE, !.error = TRUE]
        <4>1. cited'.error
          BY <1>1, <3>3 DEF Citations
        <4> QED
          BY <4>1 DEF References
      <3> QED
        BY <2>1, <3>1, <3>2, <3>3
    <2>3. ShelfBelongs'
      BY <1>1, <2>1, ShelfStays
    <2> QED
      BY <1>1, <2>1, <2>2, <2>3 DEF CitesBelong
  <1>5. CASE retryReferences
    <2>1. PICK c : /\ c = [id |-> shelf.selected, current |-> TRUE] /\ citeReqs' = Old(citeReqs) \cup {c}
                   /\ UNCHANGED <<shelf, pageReqs>> /\ cited' = [cited EXCEPT !.loading = TRUE, !.error = FALSE]
      BY <1>5 DEF retryReferences
    <2>2. c.id = shelf.selected /\ c.current = TRUE /\ c = [id |-> c.id, current |-> c.current]
      BY <2>1
    <2>3. cited'.loading /\ ~cited'.error
      BY <1>1, <2>1 DEF Citations
    <2>4. References' = "loading"
      BY <2>3 DEF References
    <2>5. ShelfBelongs'
      BY <1>1, <2>1, ShelfStays
    <2> QED
      BY <2>1, <2>2, <2>4, <2>5, SupersededCites DEF CitesBelong, BelongsIInv
  <1> QED
    BY <1>2, <1>3, <1>4, <1>5

LEMMA BelongsStep == ASSUME AssetHitsSound, BelongsIInv, [AssetsNext]_assetVars PROVE BelongsIInv'
  <1>1. AssetsIInv'
    BY AssetsSound DEF BelongsIInv
  <1>2. CASE UNCHANGED assetVars
    BY <1>1, <1>2 DEF assetVars, BelongsIInv, ShelfBelongs, AskedFor, Lists, PageRequests, CitesBelong, References
  <1>3. CASE AssetsNext
    BY <1>1, <1>3, SearchesBelong, AnswersBelong, SelectionsBelong DEF AssetsNext, BelongsIInv
  <1> QED
    BY <1>2, <1>3

LEMMA BelongsStart == ASSUME AssetHitsSound, AssetsInit PROVE BelongsIInv
  <1>1. PICK r : r = [append |-> FALSE, off |-> 0, query |-> "", current |-> TRUE] /\ pageReqs = {r}
    BY DEF AssetsInit, Ask
  <1>2. /\ shelf.asked = "" /\ shelf.search = "" /\ shelf.off = 0 /\ shelf.loading /\ shelf.selected = ""
        /\ citeReqs = {}
    BY DEF AssetsInit, NewShelf
  <1>3. r \in PageRequests /\ AskedFor(r, shelf)
    BY <1>1, <1>2 DEF AssetHitsSound, PageRequests, AskedFor
  <1>0. "" \in DOMAIN AssetHits
    BY DEF AssetHitsSound
  <1>4. ShelfBelongs
    <2>1. pageReqs \subseteq PageRequests /\ \A q \in pageReqs : AskedFor(q, shelf)
      BY <1>1, <1>3
    <2>2. \A q, o \in pageReqs : q = o
      BY <1>1
    <2>3. shelf.asked \in DOMAIN AssetHits
      BY <1>0, <1>2, Zenon
    <2>4. shelf.search \in DOMAIN AssetHits
      BY <1>0, <1>2, Zenon
    <2>5. shelf.off \in Nat
      <3>1. shelf.off = 0
        BY <1>2, Zenon
      <3> QED
        BY <3>1
    <2> QED
      BY <1>2, <2>1, <2>2, <2>3, <2>4, <2>5 DEF ShelfBelongs
  <1>5. CitesBelong
    BY <1>2 DEF CitesBelong
  <1> QED
    BY <1>4, <1>5, AssetsStart DEF BelongsIInv

LEMMA BelongsSound == ASSUME AssetHitsSound, BelongsIInv PROVE AssetsBelong
  <1>1. ASSUME "select" \in AssetList
        PROVE  IsPrefix(shelf.items, AssetHits[shelf.asked]) /\ shelf.selected \in ToSet(shelf.items)
    <2>1. ~shelf.error /\ ~shelf.loading /\ shelf.items # <<>>
      BY <1>1 DEF AssetList
    <2>2. PICK all : all = AssetHits[shelf.asked] /\ all \in Seq(DOMAIN AssetKind) /\ Len(all) \in Nat
      BY HitsOf DEF BelongsIInv, ShelfBelongs
    <2>3. PICK off \in Nat : off = shelf.off
      BY DEF BelongsIInv, ShelfBelongs
    <2>4. /\ off <= Len(all) /\ shelf.items = SubSeq(all, 1, off)
          /\ shelf.selected \in ToSet(shelf.items) \/ all = <<>>
      BY <2>1, <2>2, <2>3 DEF BelongsIInv, ShelfBelongs, Lists
    <2>5. Len(shelf.items) = off /\ SubSeq(shelf.items, 1, off) = shelf.items /\ all # <<>>
      BY <2>1, <2>2, <2>4
    <2> QED
      BY <2>2, <2>4, <2>5 DEF IsPrefix
  <1>2. shelf.selected # "" /\ References = "list" => cited.of = shelf.selected
    BY DEF BelongsIInv, CitesBelong
  <1> QED
    BY <1>1, <1>2 DEF AssetsBelong

\* The asset page (docs/010): neither a new search nor a new selection is overtaken by an older
\* answer, and paging repeats and skips nothing, for any results of any searches: the list is
\* the beginning of what the search above it finds, the references are those of the asset.
THEOREM AssetListBelongs == ASSUME AssetHitsSound PROVE AssetsSpec => []AssetsBelong
  <1>1. AssetsInit => BelongsIInv
    BY BelongsStart
  <1>2. BelongsIInv /\ [AssetsNext \/ UNCHANGED assetVars]_<<assetVars, previewVars>> => BelongsIInv'
    BY BelongsStep DEF assetVars, previewVars
  <1>3. BelongsIInv => AssetsBelong
    BY BelongsSound
  <1> QED
    BY <1>1, <1>2, <1>3, PTL DEF AssetsSpec

-----------------------------------------------------------------------------
(* The template page. The query changes only with a reload, and a reload   *)
(* takes the place of whatever was asked; so the rows that are shown are   *)
(* those of the query. A selection aborts the request before it.           *)

TemplateRows == UNION {ToSet(Matching[q]) : q \in DOMAIN Matching}
\* The server lists a template once; the empty search is one that can be typed.
MatchingSound ==
  /\ CatalogPage \in Nat \ {0} /\ "" \in DOMAIN Matching
  /\ \A q \in DOMAIN Matching : Matching[q] \in Seq(TemplateRows) /\ IsInjective(Matching[q])

TemplateCatalogs == [items : Seq(TemplateRows), total : Nat, loading : BOOLEAN, appending : BOOLEAN,
                     error : BOOLEAN, moreError : BOOLEAN, search : DOMAIN Matching, query : DOMAIN Matching]
TemplatePages == [reset : BOOLEAN, off : Nat, query : DOMAIN Matching, current : BOOLEAN]
RowsMatch(c) == ToSet(c.items) \subseteq ToSet(Matching[c.query]) /\ IsInjective(c.items)
CatalogIInv ==
  /\ catalog \in TemplateCatalogs /\ lists \subseteq TemplatePages
  /\ \A r \in lists : r.query = catalog.query
  /\ ~catalog.loading /\ ~catalog.error => RowsMatch(catalog)

LEMMA MatchingOf ==
  ASSUME MatchingSound, NEW q \in DOMAIN Matching
  PROVE  Matching[q] \in Seq(TemplateRows) /\ IsInjective(Matching[q]) /\ Len(Matching[q]) \in Nat
  <1>1. Matching[q] \in Seq(TemplateRows) /\ IsInjective(Matching[q])
    BY Zenon DEF MatchingSound
  <1>2. PICK all \in Seq(TemplateRows) : all = Matching[q]
    BY <1>1
  <1> QED
    BY <1>1, <1>2

LEMMA PageOfTemplates ==
  ASSUME MatchingSound, NEW r \in TemplatePages
  PROVE  /\ PageOf(r) \in Seq(TemplateRows) /\ ToSet(PageOf(r)) \subseteq ToSet(Matching[r.query])
         /\ IsInjective(PageOf(r))
  <1> DEFINE all == Matching[r.query]
  <1>1. r.query \in DOMAIN Matching /\ r.off \in Nat
    BY DEF TemplatePages
  <1>2. all \in Seq(TemplateRows) /\ IsInjective(all) /\ Len(all) \in Nat /\ CatalogPage \in Nat \ {0}
    BY <1>1, MatchingOf DEF MatchingSound
  <1>3. PICK n \in Nat : n = (IF r.off + CatalogPage > Len(all) THEN Len(all) ELSE r.off + CatalogPage)
    BY <1>1, <1>2
  <1>4. PageOf(r) = SubSeq(all, r.off + 1, n) /\ n <= Len(all) /\ r.off + 1 \in Nat \ {0}
    BY <1>1, <1>2, <1>3 DEF PageOf
  <1> HIDE DEF all
  <1>5. /\ SubSeq(all, r.off + 1, n) \in Seq(TemplateRows) /\ ToSet(SubSeq(all, r.off + 1, n)) \subseteq ToSet(all)
        /\ IsInjective(all) => IsInjective(SubSeq(all, r.off + 1, n))
    BY <1>2, <1>4, PartOfList
  <1> QED
    BY <1>2, <1>4, <1>5 DEF all

\* A load of the first page hides the rows until it is over; a load of the next keeps them.
LEMMA TemplatesLoad ==
  ASSUME NEW c \in TemplateCatalogs, NEW reset \in BOOLEAN, NEW off \in Nat, loadTemplates(c, reset, off),
         ~reset => (~c.loading /\ ~c.error => RowsMatch(c))
  PROVE  CatalogIInv'
  <1>1. PICK r : r = [reset |-> reset, off |-> off, query |-> c.query, current |-> TRUE] /\ lists' = {r}
    BY DEF loadTemplates, Request
  <1>2. r \in TemplatePages /\ r.query = c.query
    BY <1>1 DEF TemplatePages, TemplateCatalogs
  <1>3. /\ catalog' \in TemplateCatalogs /\ catalog'.query = c.query /\ catalog'.items = c.items
        /\ reset => catalog'.loading
        /\ ~reset => catalog'.loading = c.loading /\ catalog'.error = c.error
    BY DEF loadTemplates, TemplateCatalogs
  <1>4. ~catalog'.loading /\ ~catalog'.error => RowsMatch(catalog')
    BY <1>3 DEF RowsMatch
  <1> QED
    BY <1>1, <1>2, <1>3, <1>4 DEF CatalogIInv, RowsMatch

LEMMA TemplateSearches ==
  ASSUME MatchingSound, CatalogIInv,
         (\E s \in DOMAIN Matching : setSearch(s)) \/ searchTimer \/ reload \/ handleTemplateListScroll \/ retryLoadMore
  PROVE  CatalogIInv'
  <1>e. "" \in DOMAIN Matching
    BY Zenon DEF MatchingSound
  <1>0. /\ catalog \in TemplateCatalogs /\ Len(catalog.items) \in Nat /\ catalog.search \in DOMAIN Matching
        /\ ~catalog.loading /\ ~catalog.error => RowsMatch(catalog)
    BY DEF CatalogIInv, TemplateCatalogs
  <1>1. ASSUME NEW s \in DOMAIN Matching, setSearch(s) PROVE CatalogIInv'
    <2>1. CASE s = "" /\ catalog.query # ""
      <3>1. PICK c : c = [catalog EXCEPT !.search = s, !.query = ""] /\ loadTemplates(c, TRUE, 0)
        BY <1>1, <2>1 DEF setSearch
      <3>2. c \in TemplateCatalogs
        BY <1>e, <1>0, <3>1 DEF TemplateCatalogs
      <3> QED
        BY <3>1, <3>2, TemplatesLoad
    <2>2. CASE ~(s = "" /\ catalog.query # "")
      <3>1. catalog' = [catalog EXCEPT !.search = s] /\ UNCHANGED lists
        BY <1>1, <2>2 DEF setSearch
      <3>2. /\ catalog' \in TemplateCatalogs /\ catalog'.query = catalog.query /\ catalog'.items = catalog.items
            /\ catalog'.loading = catalog.loading /\ catalog'.error = catalog.error
        BY <1>0, <3>1 DEF TemplateCatalogs
      <3> QED
        BY <3>1, <3>2 DEF CatalogIInv, RowsMatch
    <2> QED
      BY <2>1, <2>2
  <1>2. CASE searchTimer
    <2>1. PICK c : c = [catalog EXCEPT !.query = catalog.search] /\ loadTemplates(c, TRUE, 0)
      BY <1>2 DEF searchTimer
    <2>2. c \in TemplateCatalogs
      BY <1>0, <2>1 DEF TemplateCatalogs
    <2> QED
      BY <2>1, <2>2, TemplatesLoad
  <1>3. CASE reload
    BY <1>0, <1>3, TemplatesLoad DEF reload
  <1>4. CASE handleTemplateListScroll \/ retryLoadMore
    BY <1>0, <1>4, TemplatesLoad DEF handleTemplateListScroll, retryLoadMore
  <1> QED
    BY <1>1, <1>2, <1>3, <1>4

LEMMA TemplateAnswers ==
  ASSUME MatchingSound, CatalogIInv, TemplateListAnswer \/ TemplateListFails
  PROVE  CatalogIInv'
  <1>0. /\ catalog \in TemplateCatalogs /\ catalog.items \in Seq(TemplateRows) /\ lists \subseteq TemplatePages
        /\ catalog.query \in DOMAIN Matching
        /\ ~catalog.loading /\ ~catalog.error => RowsMatch(catalog)
    BY DEF CatalogIInv, TemplateCatalogs
  <1>1. CASE TemplateListAnswer
    <2>0. PICK r \in lists : \E items, total, c :
                 /\ lists' = {} /\ items = (IF r.reset THEN PageOf(r) ELSE WithNew(catalog.items, PageOf(r)))
                 /\ total = Len(Matching[r.query])
                 /\ c = [catalog EXCEPT !.total = total, !.items = items]
                 /\ catalog' = Ended(c, r)
      BY <1>1 DEF TemplateListAnswer
    <2>1. PICK items, total, c :
                 /\ lists' = {} /\ items = (IF r.reset THEN PageOf(r) ELSE WithNew(catalog.items, PageOf(r)))
                 /\ total = Len(Matching[r.query])
                 /\ c = [catalog EXCEPT !.total = total, !.items = items]
                 /\ catalog' = Ended(c, r)
      BY <2>0
    <2>2. r \in TemplatePages /\ r.query = catalog.query /\ r.reset \in BOOLEAN
      BY <1>0 DEF CatalogIInv, TemplatePages
    <2>3. /\ PageOf(r) \in Seq(TemplateRows) /\ ToSet(PageOf(r)) \subseteq ToSet(Matching[catalog.query])
          /\ IsInjective(PageOf(r))
      BY <2>2, PageOfTemplates
    <2>4. total \in Nat
      BY <1>0, <2>1, <2>2, MatchingOf
    <2>5. /\ WithNew(catalog.items, PageOf(r)) \in Seq(TemplateRows)
          /\ ToSet(WithNew(catalog.items, PageOf(r))) = ToSet(catalog.items) \cup ToSet(PageOf(r))
          /\ IsInjective(catalog.items) => IsInjective(WithNew(catalog.items, PageOf(r)))
      <3>1. PICK p \in Seq(TemplateRows) : p = catalog.items
        BY <1>0
      <3>2. PICK q \in Seq(TemplateRows) : q = PageOf(r) /\ IsInjective(q)
        BY <2>3
      <3>3. WithNew(p, q) \in Seq(TemplateRows) /\ ToSet(WithNew(p, q)) = ToSet(p) \cup ToSet(q)
        BY Merges
      <3>4. IsInjective(p) => IsInjective(WithNew(p, q))
        BY <3>2, Merges
      <3> QED
        BY <3>1, <3>2, <3>3, <3>4
    <2>6. /\ items \in Seq(TemplateRows)
          /\ r.reset \/ RowsMatch(catalog) => ToSet(items) \subseteq ToSet(Matching[catalog.query]) /\ IsInjective(items)
      <3>1. CASE r.reset
        BY <2>1, <2>3, <3>1
      <3>2. CASE ~r.reset
        BY <2>1, <2>3, <2>5, <3>2 DEF RowsMatch
      <3> QED
        BY <3>1, <3>2
    <2>7. /\ c \in TemplateCatalogs /\ c.items = items /\ c.query = catalog.query /\ c.loading = catalog.loading
          /\ c.error = catalog.error
      BY <1>0, <2>1, <2>4, <2>6 DEF TemplateCatalogs
    <2>8. /\ catalog' \in TemplateCatalogs /\ catalog'.items = items /\ catalog'.query = catalog.query
          /\ catalog'.error = catalog.error /\ (r.reset \/ catalog'.loading = catalog.loading)
      BY <2>1, <2>7 DEF TemplateCatalogs, Ended
    <2>9. ~catalog'.loading /\ ~catalog'.error => RowsMatch(catalog')
      BY <1>0, <2>6, <2>8 DEF RowsMatch
    <2> QED
      BY <2>1, <2>8, <2>9 DEF CatalogIInv, RowsMatch
  <1>2. CASE TemplateListFails
    <2>0. PICK r \in lists : \E c : /\ lists' = {} /\ catalog' = Ended(c, r)
                 /\ c = (IF r.reset THEN [catalog EXCEPT !.error = TRUE] ELSE [catalog EXCEPT !.moreError = TRUE])
      BY <1>2 DEF TemplateListFails
    <2>1. PICK c : /\ lists' = {} /\ catalog' = Ended(c, r)
                   /\ c = (IF r.reset THEN [catalog EXCEPT !.error = TRUE] ELSE [catalog EXCEPT !.moreError = TRUE])
      BY <2>0
    <2>2. /\ c \in TemplateCatalogs /\ c.items = catalog.items /\ c.query = catalog.query /\ c.loading = catalog.loading
          /\ (r.reset => c.error) /\ (~r.reset => c.error = catalog.error)
      BY <1>0, <2>1 DEF TemplateCatalogs
    <2>3. /\ catalog' \in TemplateCatalogs /\ catalog'.items = catalog.items /\ catalog'.query = catalog.query
          /\ catalog'.error = c.error /\ (r.reset \/ catalog'.loading = catalog.loading)
      BY <2>1, <2>2 DEF TemplateCatalogs, Ended
    <2>4. ~catalog'.loading /\ ~catalog'.error => RowsMatch(catalog')
      BY <1>0, <2>2, <2>3 DEF RowsMatch
    <2> QED
      BY <2>1, <2>3, <2>4 DEF CatalogIInv, RowsMatch
  <1> QED
    BY <1>1, <1>2

LEMMA CatalogStep == ASSUME MatchingSound, CatalogIInv, [CatalogNext]_catalogVars PROVE CatalogIInv'
  <1>1. CASE UNCHANGED catalogVars
    BY <1>1 DEF catalogVars, CatalogIInv, RowsMatch
  <1>2. CASE CatalogNext
    BY <1>2, TemplateSearches, TemplateAnswers DEF CatalogNext
  <1> QED
    BY <1>1, <1>2

LEMMA CatalogStart == ASSUME MatchingSound, CatalogInit PROVE CatalogIInv
  <1>0. "" \in DOMAIN Matching
    BY Zenon DEF MatchingSound
  <1>1. <<>> \in Seq(TemplateRows)
    OBVIOUS
  <1>2. PICK r : r = [reset |-> TRUE, off |-> 0, query |-> "", current |-> TRUE] /\ lists = {r}
    BY DEF CatalogInit, Request
  <1>3. r \in TemplatePages /\ r.query = ""
    BY <1>0, <1>2 DEF TemplatePages
  <1>4. catalog \in TemplateCatalogs /\ catalog.query = "" /\ catalog.loading
    BY <1>0, <1>1 DEF CatalogInit, NewCatalog, TemplateCatalogs
  <1> QED
    BY <1>2, <1>3, <1>4 DEF CatalogIInv

LEMMA CatalogMatches == ASSUME CatalogIInv PROVE CatalogMatchesQuery
  <1> SUFFICES ASSUME "rows" \in TemplateList PROVE RowsMatch(catalog)
    BY DEF CatalogMatchesQuery, RowsMatch
  <1>1. ~catalog.loading /\ ~catalog.error
    BY DEF TemplateList, CatalogIInv, TemplateCatalogs
  <1> QED
    BY <1>1 DEF CatalogIInv

DetailIInv ==
  /\ detail \in {"shown", "loading", "error"}
  /\ \A d \in details : /\ d = [id |-> d.id, current |-> d.current] /\ d.current \in BOOLEAN
                        /\ d.current => d.id = selectedID
  /\ detail = "loading" => \E d \in details : d.current

LEMMA StaleDetails ==
  ASSUME DetailIInv
  PROVE  \A r \in Stale(details) : r = [id |-> r.id, current |-> r.current] /\ r.current \in BOOLEAN /\ ~r.current
  <1> SUFFICES ASSUME NEW q \in details
               PROVE  LET r == [q EXCEPT !.current = FALSE]
                      IN  r = [id |-> r.id, current |-> r.current] /\ r.current \in BOOLEAN /\ ~r.current
    BY DEF Stale
  <1>1. q = [id |-> q.id, current |-> q.current] /\ q.current \in BOOLEAN
    BY DEF DetailIInv
  <1>2. q \in [id : {q.id}, current : BOOLEAN]
    BY <1>1
  <1>3. PICK r \in [id : {q.id}, current : {FALSE}] : r = [q EXCEPT !.current = FALSE]
    BY <1>2
  <1> QED
    BY <1>3

\* The requests before are stale, and the one for the template that is selected now is current.
LEMMA DetailAsked ==
  ASSUME DetailIInv, NEW id, id # "", selectedID' = id, details' = Stale(details) \cup Read(id), detail' = "loading"
  PROVE  DetailIInv'
  <1>1. PICK d : d = [id |-> id, current |-> TRUE] /\ details' = Stale(details) \cup {d}
    BY DEF Read
  <1>2. d.id = id /\ d.current = TRUE
    BY <1>1
  <1> QED
    BY <1>1, <1>2, StaleDetails DEF DetailIInv

LEMMA DetailSelected == ASSUME DetailIInv, NEW id, setSelectedID(id) PROVE DetailIInv'
  <1>1. CASE id = selectedID
    BY <1>1 DEF setSelectedID, DetailIInv
  <1>2. CASE id # selectedID /\ id # ""
    BY <1>2, DetailAsked DEF setSelectedID
  <1>3. CASE id # selectedID /\ id = ""
    <2>1. details' = Stale(details) /\ detail' \in {"shown", "error"}
      BY <1>3 DEF setSelectedID, Read, DetailIInv
    <2> QED
      BY <2>1, StaleDetails DEF DetailIInv
  <1> QED
    BY <1>1, <1>2, <1>3

LEMMA DetailAnswers == ASSUME DetailIInv, DetailAnswer \/ DetailFails PROVE DetailIInv'
  <1>1. PICK d \in details :
               /\ details' = details \ {d} /\ UNCHANGED selectedID
               /\ (d.current /\ detail' \in {"shown", "error"}) \/ (~d.current /\ UNCHANGED detail)
    BY DEF DetailAnswer, DetailFails
  <1>2. CASE d.current /\ detail' \in {"shown", "error"}
    BY <1>1, <1>2 DEF DetailIInv
  <1>3. CASE ~d.current /\ UNCHANGED detail
    BY <1>1, <1>3 DEF DetailIInv
  <1> QED
    BY <1>1, <1>2, <1>3

LEMMA DetailPerforms == ASSUME DetailIInv, NEW a, Perform(a) PROVE DetailIInv'
  <1>1. CASE \E id : setSelectedID(id)
    BY <1>1, DetailSelected
  <1>2. CASE UNCHANGED <<selectedID, details, detail>>
    BY <1>2 DEF DetailIInv
  <1> QED
    BY <1>1, <1>2 DEF Perform

LEMMA DetailStep == ASSUME DetailIInv, [EditorStep]_editorVars PROVE DetailIInv'
  <1>1. CASE UNCHANGED <<selectedID, details, detail>>
    BY <1>1 DEF DetailIInv
  <1>2. CASE retryDetail
    BY <1>2, DetailAsked DEF retryDetail
  <1>3. CASE request
    BY <1>1, <1>3, DetailPerforms DEF request
  <1>4. CASE discardAndContinue
    BY <1>4, DetailPerforms DEF discardAndContinue
  <1>5. CASE SaveDone
    BY <1>1, <1>5, DetailPerforms DEF SaveDone
  <1>6. CASE TemplateCreateAnswer
    BY <1>1, <1>6, DetailSelected DEF TemplateCreateAnswer
  <1>7. CASE TemplateDeleteAnswer
    BY <1>1, <1>7, DetailSelected DEF TemplateDeleteAnswer
  <1>8. CASE \/ TypeContent \/ cancelPendingChange \/ saveTemplate \/ SaveStored \/ SaveFails \/ SaveAnswer \/ cancelDelete
             \/ confirmDelete \/ DeleteStored \/ DeleteFails \/ prepareUse \/ typeVariable \/ requestClose \/ decideClose
             \/ createFromTemplate \/ createAnswer \/ UNCHANGED editorVars
    BY <1>1, <1>8 DEF TypeContent, cancelPendingChange, saveTemplate, SaveStored, SaveFails, SaveAnswer, cancelDelete,
       confirmDelete, DeleteStored, DeleteFails, prepareUse, typeVariable, requestClose, decideClose, createFromTemplate,
       createAnswer, Modal, editorVars
  <1> QED
    BY <1>2, <1>3, <1>4, <1>5, <1>6, <1>7, <1>8, DetailAnswers DEF EditorStep

LEMMA DetailStart == ASSUME EditorStart PROVE DetailIInv
  BY DEF EditorStart, DetailIInv
LEMMA DetailSound == ASSUME DetailIInv PROVE DetailIsCurrent
  BY DEF DetailIInv, DetailIsCurrent

TemplatesSpec == /\ EditorStart /\ CatalogInit
                 /\ [][EditorStep \/ UNCHANGED editorVars]_<<editorVars, catalogVars>>
                 /\ [][CatalogNext \/ UNCHANGED catalogVars]_<<editorVars, catalogVars>>

\* The template page (docs/009): the rows that are shown are templates the query finds, each once,
\* whatever was typed, scrolled and answered before; and a page that loads has the request for the
\* template that is selected, however selections, saves, creations and deletions follow each other.
THEOREM TemplatesAnswer == ASSUME MatchingSound PROVE TemplatesSpec => [](CatalogMatchesQuery /\ DetailIsCurrent)
  <1>1. EditorStart /\ CatalogInit => CatalogIInv /\ DetailIInv
    BY CatalogStart, DetailStart
  <1>2. CatalogIInv /\ [CatalogNext \/ UNCHANGED catalogVars]_<<editorVars, catalogVars>> => CatalogIInv'
    BY CatalogStep DEF editorVars, catalogVars
  <1>3. DetailIInv /\ [EditorStep \/ UNCHANGED editorVars]_<<editorVars, catalogVars>> => DetailIInv'
    BY DetailStep DEF editorVars, catalogVars
  <1>4. CatalogIInv /\ DetailIInv => CatalogMatchesQuery /\ DetailIsCurrent
    BY CatalogMatches, DetailSound
  <1> QED
    BY <1>1, <1>2, <1>3, <1>4, PTL DEF TemplatesSpec

-----------------------------------------------------------------------------
(* What was typed into a template and not given up is stored, or it is in   *)
(* the form, and nothing under way can take the form away. A save whose     *)
(* answer has come may hold an older text: it only reloads the catalog, and *)
(* what it lets through is stored, for no one types under a question.       *)

TemplatesKnown == "" \notin TemplateIDs /\ Spare \in TemplateIDs
Chosen == TemplateIDs \cup {""}
EditTypes ==
  /\ edits \in Nat /\ templates \in [TemplateIDs -> Gone..edits]
  /\ selectedID \in Chosen /\ content \in 0..edits /\ loaded \in [id : Chosen, content : 0..edits]
  /\ typed \in [id : Chosen, content : 0..edits, beside : BOOLEAN]
  /\ saving \subseteq [id : TemplateIDs, content : 0..edits, phase : {"wire", "stored", "reload"},
                       then : {"stay", "use", "continue"}]
  /\ guard \subseteq Actions
  /\ removal \in [asked : Chosen, id : Chosen, phase : {"idle", "wire", "reload"}, selected : BOOLEAN]
  /\ removal.phase = "wire" => removal.id \in TemplateIDs
DetailWaits == \A d \in details : d.current => detail = "loading" /\ selectedID # ""
Stored == templates[typed.id] = typed.content
InForm == /\ loaded.id = typed.id /\ selectedID = typed.id /\ detail = "shown" /\ posts = {}
          /\ ~removal.selected /\ removal.asked # typed.id
          /\ \A s \in saving : s.phase # "reload" => s.id = typed.id
Certain == typed.id # "" /\ ~typed.beside
SavesAgree ==
  \A s \in saving :
    /\ s.id = typed.id /\ s.phase # "reload" => s.content = typed.content /\ (s.phase = "stored" => Stored)
    /\ s.phase = "reload" /\ guard # {} => Stored
EditKept ==
  Certain =>
    /\ typed.content > 0
    /\ loaded.id = typed.id => content = typed.content /\ (loaded.content = typed.content => Stored)
    /\ SavesAgree
    /\ Stored \/ InForm
EditIInv == DetailIInv /\ EditTypes /\ DetailWaits /\ EditKept

LEMMA WaitsSelected == ASSUME DetailIInv, DetailWaits, NEW id, setSelectedID(id) PROVE DetailWaits'
  <1>1. CASE id = selectedID
    BY <1>1 DEF setSelectedID, DetailWaits
  <1>2. CASE id # selectedID
    BY <1>2, StaleDetails DEF setSelectedID, DetailWaits, Read
  <1> QED
    BY <1>1, <1>2

LEMMA WaitsPerforms == ASSUME DetailIInv, DetailWaits, NEW a, Perform(a) PROVE DetailWaits'
  <1>1. CASE \E id : setSelectedID(id)
    BY <1>1, WaitsSelected
  <1>2. CASE UNCHANGED <<selectedID, details, detail>>
    BY <1>2 DEF DetailWaits
  <1> QED
    BY <1>1, <1>2 DEF Perform

LEMMA WaitsAnswers == ASSUME DetailIInv, DetailWaits, DetailAnswer \/ DetailFails PROVE DetailWaits'
  <1>1. PICK d \in details :
               /\ details' = details \ {d} /\ UNCHANGED selectedID
               /\ d.current \/ (~d.current /\ UNCHANGED detail)
    BY DEF DetailAnswer, DetailFails
  <1>2. CASE d.current
    <2>1. ASSUME NEW e \in details, e.current PROVE e = d
      BY <1>2, <2>1 DEF DetailIInv
    <2> QED
      BY <1>1, <2>1 DEF DetailWaits
  <1>3. CASE ~d.current /\ UNCHANGED detail
    BY <1>1, <1>3 DEF DetailWaits
  <1> QED
    BY <1>1, <1>2, <1>3

LEMMA WaitsStep == ASSUME DetailIInv, DetailWaits, [EditorStep]_editorVars PROVE DetailWaits'
  <1>1. CASE UNCHANGED <<selectedID, details, detail>>
    BY <1>1 DEF DetailWaits
  <1>2. CASE retryDetail
    BY <1>2, StaleDetails DEF retryDetail, DetailWaits, Read
  <1>3. CASE request
    BY <1>1, <1>3, WaitsPerforms DEF request
  <1>4. CASE discardAndContinue
    BY <1>4, WaitsPerforms DEF discardAndContinue
  <1>5. CASE SaveDone
    BY <1>1, <1>5, WaitsPerforms DEF SaveDone
  <1>6. CASE TemplateCreateAnswer
    BY <1>1, <1>6, WaitsSelected DEF TemplateCreateAnswer
  <1>7. CASE TemplateDeleteAnswer
    BY <1>1, <1>7, WaitsSelected DEF TemplateDeleteAnswer
  <1>8. CASE \/ TypeContent \/ cancelPendingChange \/ saveTemplate \/ SaveStored \/ SaveFails \/ SaveAnswer \/ cancelDelete
             \/ confirmDelete \/ DeleteStored \/ DeleteFails \/ prepareUse \/ typeVariable \/ requestClose \/ decideClose
             \/ createFromTemplate \/ createAnswer \/ UNCHANGED editorVars
    BY <1>1, <1>8 DEF TypeContent, cancelPendingChange, saveTemplate, SaveStored, SaveFails, SaveAnswer, cancelDelete,
       confirmDelete, DeleteStored, DeleteFails, prepareUse, typeVariable, requestClose, decideClose, createFromTemplate,
       createAnswer, Modal, editorVars
  <1> QED
    BY <1>2, <1>3, <1>4, <1>5, <1>6, <1>7, <1>8, WaitsAnswers DEF EditorStep

\* What one of the guarded actions may select or ask for.
LEMMA PerformTypes ==
  ASSUME EditTypes, TemplatesKnown, NEW a \in Actions, Perform(a)
  PROVE  /\ selectedID' \in Chosen
         /\ removal' \in [asked : Chosen, id : Chosen, phase : {"idle", "wire", "reload"}, selected : BOOLEAN]
         /\ removal'.phase = removal.phase /\ removal'.id = removal.id
  <1>a. a \in [do : {"select"}, id : TemplateIDs] \/ a \in [do : {"delete"}, id : TemplateIDs]
          \/ a = [do |-> "create", id |-> ""]
    BY Zenon DEF Actions
  <1>1. a.do = "create" \/ a.id \in TemplateIDs
    <2>1. CASE a \in [do : {"select"}, id : TemplateIDs]
      BY <2>1
    <2>2. CASE a \in [do : {"delete"}, id : TemplateIDs]
      BY <2>2
    <2>3. CASE a = [do |-> "create", id |-> ""]
      BY <2>3
    <2> QED
      BY Zenon, <1>a, <2>1, <2>2, <2>3
  <1> QED
    BY <1>1 DEF Perform, setSelectedID, EditTypes, Chosen

LEMMA UntypedTypes ==
  ASSUME EditTypes PROVE Untyped \in [id : Chosen, content : 0..edits, beside : BOOLEAN]
  <1>1. edits \in Nat
    BY Zenon DEF EditTypes
  <1>2. "" \in Chosen /\ 0 \in 0..edits
    BY <1>1 DEF Chosen
  <1> QED
    BY <1>2 DEF Untyped

\* A deletion that ends leaves only what is asked for.
LEMMA Rested ==
  ASSUME EditTypes
  PROVE  [NoRemoval EXCEPT !.asked = removal.asked]
           \in [asked : Chosen, id : Chosen, phase : {"idle"}, selected : {FALSE}]
  <1>1. NoRemoval \in [asked : Chosen, id : Chosen, phase : {"idle"}, selected : {FALSE}] /\ removal.asked \in Chosen
    BY DEF EditTypes, NoRemoval, Chosen
  <1> QED
    BY <1>1

LEMMA EditTypesStep == ASSUME DetailIInv, DetailWaits, EditTypes, TemplatesKnown, [EditorStep]_editorVars PROVE EditTypes'
  <1> USE DEF EditTypes
  <1>1. CASE DetailAnswer
    <2>1. PICK d \in details :
                 \/ /\ d.current /\ loaded' = [id |-> d.id, content |-> templates[d.id]] /\ content' = templates[d.id]
                    /\ templates[d.id] # Gone
                 \/ UNCHANGED <<loaded, content>>
      BY <1>1 DEF DetailAnswer
    <2>2. UNCHANGED <<templates, selectedID, saving, guard, removal, edits, typed>>
      BY <1>1 DEF DetailAnswer
    <2>3. d.current => d.id \in TemplateIDs
      BY DEF DetailIInv, DetailWaits, Chosen
    <2>4. d.current /\ templates[d.id] # Gone => templates[d.id] \in 0..edits
      BY <2>3 DEF Gone
    <2>5. content' \in 0..edits /\ loaded' \in [id : Chosen, content : 0..edits]
      <3>1. CASE UNCHANGED <<loaded, content>>
        BY <3>1
      <3>2. CASE ~UNCHANGED <<loaded, content>>
        <4>1. d.current /\ templates[d.id] # Gone /\ loaded' = [id |-> d.id, content |-> templates[d.id]] /\ content' = templates[d.id]
          BY Zenon, <2>1, <3>2
        <4>2. PICK c \in 0..edits, i \in Chosen : c = templates[d.id] /\ i = d.id
          BY <2>3, <2>4, <4>1 DEF Chosen
        <4> QED
          BY <4>1, <4>2
      <3> QED
        BY <3>1, <3>2
    <2> QED
      BY <2>2, <2>5
  <1>2. CASE TypeContent
    <2>1. /\ edits' = edits + 1 /\ content' = edits + 1 /\ typed' = [id |-> selectedID, content |-> edits + 1, beside |-> Refills]
          /\ UNCHANGED <<templates, selectedID, loaded, saving, guard, removal>>
      BY <1>2 DEF TypeContent
    <2>5. Refills \in BOOLEAN
      BY DEF Refills
    <2>2. 0..edits \subseteq 0..edits' /\ Gone..edits \subseteq Gone..edits' /\ edits' \in Nat /\ edits' \in 0..edits'
      BY <2>1 DEF Gone
    <2>3. templates' \in [TemplateIDs -> Gone..edits']
      BY <2>1, <2>2
    <2>4. saving' \subseteq [id : TemplateIDs, content : 0..edits', phase : {"wire", "stored", "reload"}, then : {"stay", "use", "continue"}]
      <3>1. ASSUME NEW s \in saving PROVE s \in [id : TemplateIDs, content : 0..edits', phase : {"wire", "stored", "reload"}, then : {"stay", "use", "continue"}]
        BY <2>2
      <3> QED
        BY <2>1, <3>1
    <2>6. typed' \in [id : Chosen, content : 0..edits', beside : BOOLEAN]
      BY <2>1, <2>2, <2>5
    <2> QED
      BY <2>1, <2>2, <2>3, <2>4, <2>6
  <1>3. CASE request
    BY <1>3, PerformTypes DEF request
  <1>4. CASE discardAndContinue
    <2>1. PICK a \in guard : Perform(a)
      BY <1>4 DEF discardAndContinue
    <2>2. /\ selectedID' \in Chosen /\ removal'.phase = removal.phase /\ removal'.id = removal.id
          /\ removal' \in [asked : Chosen, id : Chosen, phase : {"idle", "wire", "reload"}, selected : BOOLEAN]
      BY <2>1, PerformTypes
    <2>3. typed' \in [id : Chosen, content : 0..edits, beside : BOOLEAN] /\ guard' = {}
      BY <1>4, UntypedTypes DEF discardAndContinue, GiveUp
    <2> QED
      BY <1>4, <2>2, <2>3 DEF discardAndContinue
  <1>5. CASE SaveDone
    <2>1. CASE UNCHANGED <<selectedID, details, detail, posts, removal>>
      BY <1>5, <2>1 DEF SaveDone
    <2>2. CASE \E a \in guard : Perform(a)
      BY <1>5, <2>2, PerformTypes DEF SaveDone
    <2> QED
      BY <1>5, <2>1, <2>2 DEF SaveDone
  <1>6. CASE TemplateCreateAnswer
    <2>1. selectedID' \in Chosen
      BY <1>6 DEF TemplateCreateAnswer, setSelectedID, Chosen, TemplatesKnown
    <2>2. templates' \in [TemplateIDs -> Gone..edits]
      BY <1>6 DEF TemplateCreateAnswer, Gone
    <2> QED
      BY <1>6, <2>1, <2>2 DEF TemplateCreateAnswer
  <1>7. CASE TemplateDeleteAnswer
    BY <1>7 DEF TemplateDeleteAnswer, setSelectedID, Chosen, Existing, NoRemoval
  <1>8. CASE saveTemplate
    <2>1. selectedTemplate
      BY <1>8 DEF saveTemplate, TemplateEditor, DetailIInv
    <2>2. selectedID \in TemplateIDs
      BY <2>1 DEF selectedTemplate, Chosen
    <2>3. \E then \in {"stay", "use", "continue"} : saving' = Put(then)
      BY <1>8 DEF saveTemplate
    <2> QED
      BY <1>8, <2>2, <2>3 DEF saveTemplate, Put
  <1>9. CASE SaveStored
    BY <1>9 DEF SaveStored, Gone
  <1>10. CASE SaveAnswer
    <2>1. PICK s \in saving : /\ loaded' = [id |-> s.id, content |-> s.content] /\ content' = s.content
                              /\ saving' = {[s EXCEPT !.phase = "reload"]}
      BY <1>10 DEF SaveAnswer
    <2>2. s.id \in Chosen /\ s.content \in 0..edits
      BY DEF Chosen
    <2> QED
      BY <1>10, <2>1, <2>2 DEF SaveAnswer
  <1>11. CASE DeleteStored
    <2>1. removal' \in [asked : Chosen, id : Chosen, phase : {"idle", "reload"}, selected : BOOLEAN]
      BY <1>11 DEF DeleteStored, NoRemoval, Chosen
    <2>2. templates' \in [TemplateIDs -> Gone..edits]
      BY <1>11 DEF DeleteStored, Gone
    <2>3. typed' \in [id : Chosen, content : 0..edits, beside : BOOLEAN]
      BY <1>11, UntypedTypes DEF DeleteStored, GiveUp
    <2> QED
      BY <1>11, <2>1, <2>2, <2>3 DEF DeleteStored
  <1>12. CASE confirmDelete
    BY <1>12 DEF confirmDelete, DeleteTemplateDialog, Chosen
  <1>13. CASE DetailFails \/ retryDetail \/ cancelPendingChange \/ SaveFails \/ UNCHANGED editorVars
    BY <1>13 DEF DetailFails, retryDetail, cancelPendingChange, SaveFails, editorVars
  <1>15. CASE cancelDelete \/ DeleteFails
    <2>1. removal' \in [asked : Chosen, id : Chosen, phase : {"idle"}, selected : {FALSE}]
      <3>1. NoRemoval \in [asked : Chosen, id : Chosen, phase : {"idle"}, selected : {FALSE}]
        BY DEF NoRemoval, Chosen
      <3> QED
        BY <1>15, <3>1, Rested DEF cancelDelete, DeleteFails
    <2> QED
      BY <1>15, <2>1 DEF cancelDelete, DeleteFails
  <1>14. CASE prepareUse \/ typeVariable \/ requestClose \/ decideClose \/ createFromTemplate \/ createAnswer
    BY <1>14 DEF prepareUse, typeVariable, requestClose, decideClose, createFromTemplate, createAnswer, Modal
  <1> QED
    BY <1>1, <1>2, <1>3, <1>4, <1>5, <1>6, <1>7, <1>8, <1>9, <1>10, <1>11, <1>12, <1>13, <1>14, <1>15 DEF EditorStep

\* While nothing was typed, or it is stored, the pages may come and go.
LEMMA StoredStays ==
  ASSUME EditKept, Certain => Stored, UNCHANGED <<templates, loaded, content, typed>>,
         UNCHANGED saving \/ saving' = {}
  PROVE  EditKept'
  BY DEF EditKept, Stored, Certain, SavesAgree

\* What is only in the form is unsaved, so that the guard asks for it.
LEMMA FormIsDirty ==
  ASSUME EditKept, Certain, ~Stored
  PROVE  isDirty /\ InForm
  BY DEF EditKept, Certain, InForm, isDirty, selectedTemplate

\* An action that is let through without a question, or after giving up.
LEMMA EditRequests == ASSUME EditTypes, EditKept, request PROVE EditKept'
  <1>1. CASE Certain => Stored
    BY <1>1, StoredStays DEF request
  <1>2. CASE Certain /\ ~Stored
    <2>1. isDirty /\ InForm
      BY <1>2, FormIsDirty
    <2>2. PICK a \in Actions :
         /\ Guarded(a) => saving = {}
         /\ IF Guarded(a) /\ isDirty
            THEN guard' = {a} /\ UNCHANGED <<selectedID, details, detail, posts, removal>>
            ELSE Perform(a) /\ UNCHANGED guard
      BY DEF request
    <2>3. UNCHANGED <<templates, loaded, content, saving, typed>>
      BY DEF request
    <2>6. CASE Guarded(a) /\ saving # {}
      BY <2>2, <2>6
    <2>4. CASE Guarded(a) /\ saving = {}
      BY <2>1, <2>2, <2>3, <2>4 DEF EditKept, Certain, SavesAgree, InForm, Stored
    <2>5. CASE ~Guarded(a)
      <3>1. a.do = "delete" /\ a.id # selectedID
        BY <2>5 DEF Guarded
      <3>2. removal' = [removal EXCEPT !.asked = a.id] /\ UNCHANGED <<selectedID, details, detail, posts>>
        BY <2>2, <2>5, <3>1 DEF Perform
      <3>4. UNCHANGED guard
        BY <2>2, <2>5
      <3>3. removal'.asked = a.id /\ removal'.selected = removal.selected
        BY <3>2 DEF EditTypes
      <3> QED
        BY <2>1, <2>3, <3>1, <3>2, <3>3, <3>4 DEF EditKept, Certain, SavesAgree, InForm, Stored
    <2> QED
      BY <2>4, <2>5, <2>6
  <1> QED
    BY <1>1, <1>2

LEMMA EditGivenUp == ASSUME typed' = Untyped PROVE EditKept'
  BY DEF EditKept, Certain, Untyped

Savings == [id : TemplateIDs, content : 0..edits, phase : {"wire", "stored", "reload"},
            then : {"stay", "use", "continue"}]
LEMMA EditPuts == ASSUME EditTypes, DetailIInv, EditKept, saveTemplate PROVE EditKept'
  <1>1. selectedTemplate
    BY DEF saveTemplate, TemplateEditor, DetailIInv
  <1>2. PICK then \in {"stay", "use", "continue"} : saving' = Put(then)
    BY DEF saveTemplate
  <1>3. UNCHANGED <<templates, selectedID, loaded, content, detail, posts, removal, typed>>
    BY DEF saveTemplate
  <1>4. ASSUME NEW s \in saving' PROVE s.id = selectedID /\ s.content = content /\ s.phase = "wire"
    BY <1>2 DEF Put
  <1>5. loaded.id = selectedID
    BY <1>1 DEF selectedTemplate
  <1> QED
    BY <1>3, <1>4, <1>5 DEF EditKept, Certain, SavesAgree, Stored, InForm

\* The three moves of a save that is under way: written, answered, and ended.
LEMMA EditSaves == ASSUME EditTypes, EditKept, SaveStored \/ SaveFails \/ SaveAnswer PROVE EditKept'
  <1>1. CASE SaveStored
    <2>1. PICK s \in saving : /\ s.phase = "wire" /\ templates' = [templates EXCEPT ![s.id] = s.content]
                              /\ saving' = {[s EXCEPT !.phase = "stored"]}
      BY <1>1 DEF SaveStored
    <2>2. UNCHANGED <<selectedID, loaded, content, detail, posts, removal, typed>>
      BY <1>1 DEF SaveStored
    <2>3. s \in Savings /\ templates \in [TemplateIDs -> Gone..edits]
      BY DEF EditTypes, Savings
    <2>4. ASSUME NEW t \in saving' PROVE t.id = s.id /\ t.content = s.content /\ t.phase = "stored"
      BY <2>1, <2>3 DEF Savings
    <2>5. s.id \in TemplateIDs
      BY <2>3 DEF Savings
    <2>6. CASE typed.id = s.id
      <3>1. templates'[typed.id] = s.content
        BY <2>1, <2>3, <2>5, <2>6
      <3>2. Certain => s.content = typed.content
        BY <2>1, <2>6 DEF EditKept, SavesAgree
      <3>3. Certain => Stored'
        BY <2>2, <3>1, <3>2 DEF Stored
      <3> QED
        BY <2>2, <2>4, <3>2, <3>3 DEF EditKept, Certain, SavesAgree
    <2>7. CASE typed.id # s.id
      <3>1. Certain => Stored
        BY <2>1, <2>7 DEF EditKept, InForm
      <3>2. typed.id \in TemplateIDs => templates'[typed.id] = templates[typed.id]
        BY <2>1, <2>3, <2>7
      <3>3. Certain => typed.id \in TemplateIDs
        BY DEF EditTypes, Chosen, Certain
      <3>4. Certain => Stored'
        BY <2>2, <3>1, <3>2, <3>3 DEF Stored
      <3> QED
        BY <2>2, <2>4, <2>7, <3>4 DEF EditKept, Certain, SavesAgree
    <2> QED
      BY <2>6, <2>7
  <1>2. CASE SaveFails
    BY <1>2 DEF SaveFails, EditKept, Certain, SavesAgree, Stored, InForm
  <1>3. CASE SaveAnswer
    <2>1. PICK s \in saving : /\ s.phase = "stored" /\ loaded' = [id |-> s.id, content |-> s.content] /\ content' = s.content
                              /\ saving' = {[s EXCEPT !.phase = "reload"]}
      BY <1>3 DEF SaveAnswer
    <2>2. UNCHANGED <<templates, selectedID, detail, posts, removal, typed>>
      BY <1>3 DEF SaveAnswer
    <2>3. s \in Savings
      BY DEF EditTypes, Savings
    <2>4. ASSUME NEW t \in saving' PROVE t.phase = "reload"
      BY <2>1, <2>3 DEF Savings
    <2>5. Certain => Stored
      BY <2>1 DEF EditKept, InForm, SavesAgree
    <2>6. Certain /\ s.id = typed.id => s.content = typed.content
      BY <2>1 DEF EditKept, SavesAgree
    <2>7. loaded'.id = s.id /\ loaded'.content = s.content /\ content' = s.content
      BY <2>1
    <2>8. Stored' = Stored
      BY <2>2 DEF Stored
    <2> QED
      BY <2>2, <2>4, <2>5, <2>6, <2>7, <2>8 DEF EditKept, Certain, SavesAgree
  <1> QED
    BY <1>1, <1>2, <1>3

\* What waited for the save goes on only with a text that is stored.
LEMMA EditSaved == ASSUME EditTypes, EditKept, SaveDone PROVE EditKept'
  <1>1. PICK s \in saving :
          /\ s.phase = "reload" /\ saving' = {}
          /\ guard # {} \/ UNCHANGED <<selectedID, details, detail, posts, removal>>
    BY DEF SaveDone
  <1>2. UNCHANGED <<templates, loaded, content, typed>>
    BY DEF SaveDone
  <1>3. CASE guard # {}
    <2>1. Certain => Stored
      BY <1>1, <1>3 DEF EditKept, SavesAgree
    <2> QED
      BY <1>1, <1>2, <2>1, StoredStays
  <1>4. CASE UNCHANGED <<selectedID, details, detail, posts, removal>>
    BY <1>1, <1>2, <1>4 DEF EditKept, Certain, SavesAgree, InForm, Stored
  <1> QED
    BY <1>1, <1>3, <1>4

\* What is asked for stays asked for when a deletion ends.
LEMMA RestedAsks ==
  /\ NoRemoval.selected = FALSE /\ NoRemoval.asked = ""
  /\ [NoRemoval EXCEPT !.asked = removal.asked].selected = FALSE
  /\ [NoRemoval EXCEPT !.asked = removal.asked].asked = removal.asked
  BY DEF NoRemoval

LEMMA EditDeletes ==
  ASSUME EditTypes, EditKept, confirmDelete \/ cancelDelete \/ DeleteStored \/ DeleteFails \/ TemplateDeleteAnswer
  PROVE  EditKept'
  <1>1. CASE confirmDelete
    BY <1>1 DEF confirmDelete, DeleteTemplateDialog, EditTypes, EditKept, Certain, SavesAgree, Stored, InForm
  <1>2. CASE cancelDelete \/ DeleteFails
    <2>1. removal'.selected = FALSE /\ removal'.asked \in {"", removal.asked}
      BY <1>2, RestedAsks DEF cancelDelete, DeleteFails
    <2> QED
      BY <1>2, <2>1 DEF cancelDelete, DeleteFails, EditKept, Certain, SavesAgree, Stored, InForm
  <1>3. CASE DeleteStored
    <2>1. (removal'.selected = FALSE \/ removal'.selected = removal.selected) /\ removal'.asked \in {"", removal.asked}
      <3>1. CASE removal' = [removal EXCEPT !.asked = "", !.phase = "reload"]
        BY <3>1 DEF EditTypes
      <3> QED
        BY <1>3, <3>1, RestedAsks DEF DeleteStored
    <2>2. CASE typed.id = removal.id
      BY <1>3, <2>2, EditGivenUp DEF DeleteStored, GiveUp
    <2>3. CASE typed.id # removal.id
      <3>1. UNCHANGED <<selectedID, loaded, content, detail, saving, guard, posts, typed>>
        BY <1>3, <2>3 DEF DeleteStored
      <3>2. Certain => typed.id \in TemplateIDs
        BY DEF EditTypes, Chosen, Certain
      <3>3. Certain => templates'[typed.id] = templates[typed.id]
        BY <1>3, <2>3, <3>2 DEF DeleteStored, EditTypes
      <3> QED
        BY <2>1, <3>1, <3>3 DEF EditKept, Certain, SavesAgree, Stored, InForm
    <2> QED
      BY <2>2, <2>3
  <1>4. CASE TemplateDeleteAnswer
    <2>1. CASE Certain => Stored
      BY <1>4, <2>1, StoredStays DEF TemplateDeleteAnswer
    <2>2. CASE Certain /\ ~Stored
      <3>1. InForm
        BY <2>2, FormIsDirty
      <3>2. removal'.selected = FALSE /\ removal'.asked = removal.asked
        BY <1>4, RestedAsks DEF TemplateDeleteAnswer
      <3> QED
        BY <1>4, <3>1, <3>2 DEF TemplateDeleteAnswer, EditKept, Certain, SavesAgree, Stored, InForm
    <2> QED
      BY <2>1, <2>2
  <1> QED
    BY <1>1, <1>2, <1>3, <1>4

LEMMA EditAnswers ==
  ASSUME EditTypes, DetailIInv, DetailWaits, EditKept, DetailAnswer \/ DetailFails \/ retryDetail
  PROVE  EditKept'
  <1>1. CASE DetailAnswer
    <2>1. PICK d \in details :
                 \/ /\ d.current /\ loaded' = [id |-> d.id, content |-> templates[d.id]] /\ content' = templates[d.id]
                    /\ detail' = "shown"
                 \/ UNCHANGED <<loaded, content, detail>>
      BY <1>1 DEF DetailAnswer
    <2>2. UNCHANGED <<templates, selectedID, saving, guard, posts, removal, typed>>
      BY <1>1 DEF DetailAnswer
    <2>3. CASE UNCHANGED <<loaded, content, detail>>
      BY <2>2, <2>3 DEF EditKept, Certain, SavesAgree, Stored, InForm
    <2>4. CASE d.current /\ loaded' = [id |-> d.id, content |-> templates[d.id]] /\ content' = templates[d.id]
      <3>1. Certain => Stored
        BY <2>4 DEF DetailWaits, EditKept, InForm
      <3> QED
        BY <2>2, <2>4, <3>1 DEF EditKept, Certain, SavesAgree, Stored
    <2> QED
      BY <2>1, <2>3, <2>4
  <1>2. CASE DetailFails
    <2>1. Certain => Stored
      BY <1>2 DEF DetailFails, DetailWaits, EditKept, InForm
    <2> QED
      BY <1>2, <2>1, StoredStays DEF DetailFails
  <1>3. CASE retryDetail
    <2>1. Certain => Stored
      BY <1>3 DEF retryDetail, TemplateEditor, EditKept, InForm
    <2> QED
      BY <1>3, <2>1, StoredStays DEF retryDetail
  <1> QED
    BY <1>1, <1>2, <1>3

LEMMA EditCreates == ASSUME EditTypes, EditKept, TemplateCreateAnswer PROVE EditKept'
  <1>1. Certain => Stored
    BY DEF TemplateCreateAnswer, EditKept, InForm
  <1>2. UNCHANGED <<loaded, content, saving, typed>>
    BY DEF TemplateCreateAnswer
  <1>3. Certain => Stored'
    <2>1. CASE UNCHANGED templates
      BY <1>1, <1>2, <2>1 DEF Stored
    <2>2. CASE Spare \notin Existing /\ templates' = [templates EXCEPT ![Spare] = 0]
      <3>1. Certain => typed.id \in TemplateIDs /\ templates[typed.id] # Gone
        <4>1. Certain => typed.id \in TemplateIDs
          BY DEF EditTypes, Chosen, Certain
        <4>2. Certain => typed.content > 0
          BY DEF EditKept
        <4>3. typed.content \in 0..edits /\ edits \in Nat
          BY DEF EditTypes
        <4>4. typed.content > 0 => typed.content # Gone
          BY <4>3 DEF Gone
        <4> QED
          BY <1>1, <4>1, <4>2, <4>4 DEF Stored
      <3>2. Certain => typed.id # Spare
        BY <3>1, <2>2 DEF Existing
      <3> QED
        BY <1>1, <1>2, <2>2, <3>1, <3>2 DEF Stored, EditTypes
    <2> QED
      BY <2>1, <2>2 DEF TemplateCreateAnswer
  <1> QED
    BY <1>1, <1>2, <1>3 DEF EditKept, Certain, SavesAgree, Stored

LEMMA EditTyped == ASSUME EditTypes, DetailIInv, EditKept, TypeContent PROVE EditKept'
  <1>1. PICK q : q = [id |-> selectedID, content |-> edits + 1, beside |-> Refills]
    OBVIOUS
  <1>2. /\ content' = edits + 1 /\ typed' = q /\ removal.asked = "" /\ guard = {}
        /\ UNCHANGED <<templates, selectedID, loaded, detail, saving, guard, posts, removal>>
    BY <1>1 DEF TypeContent, Free
  <1>3. detail = "shown" /\ selectedTemplate
    BY DEF TypeContent, TemplateEditor, DetailIInv
  <1>4. loaded.content \in 0..edits /\ edits \in Nat
    BY DEF EditTypes
  <1>5. q.id = selectedID /\ q.content = edits + 1 /\ q.content > 0 /\ loaded.content # q.content /\ (Refills => q.beside)
    BY <1>1, <1>4
  <1>6. ~Refills => posts = {} /\ ~removal.selected /\ \A s \in saving : s.phase = "reload"
    BY DEF Refills
  <1>7. Certain' => ~Refills
    BY <1>2, <1>5 DEF Certain
  <1> QED
    BY <1>2, <1>3, <1>5, <1>6, <1>7 DEF EditKept, SavesAgree, InForm, selectedTemplate, Certain

LEMMA EditKeeps ==
  ASSUME EditTypes, DetailIInv, DetailWaits, EditKept, [EditorStep]_editorVars PROVE EditKept'
  <1>1. CASE discardAndContinue
    BY <1>1, EditGivenUp DEF discardAndContinue, GiveUp
  <1>3. CASE cancelPendingChange
    BY <1>3 DEF cancelPendingChange, UnsavedTemplateDialog, EditKept, Certain, SavesAgree, Stored, InForm
  <1>2. CASE \/ prepareUse \/ typeVariable \/ requestClose \/ decideClose
             \/ createFromTemplate \/ createAnswer \/ UNCHANGED editorVars
    <2>1. UNCHANGED <<templates, selectedID, loaded, content, detail, saving, guard, posts, removal, typed>>
      BY <1>2 DEF prepareUse, typeVariable, requestClose, decideClose, createFromTemplate, createAnswer,
         Modal, editorVars
    <2> QED
      BY <2>1 DEF EditKept, Certain, SavesAgree, Stored, InForm
  <1> QED
    BY <1>1, <1>2, <1>3, EditAnswers, EditTyped, EditRequests, EditPuts, EditSaves, EditSaved, EditCreates, EditDeletes DEF EditorStep

LEMMA EditSteps ==
  ASSUME TemplatesKnown, EditIInv, [EditorStep]_editorVars PROVE EditIInv'
  BY Zenon, DetailStep, WaitsStep, EditTypesStep, EditKeeps DEF EditIInv

LEMMA EditStarts == ASSUME EditorStart PROVE EditIInv
  <1>1. EditTypes
    <2>1. templates \in [TemplateIDs -> Gone..0]
      <3>1. Gone \in Gone..0 /\ 0 \in Gone..0
        BY DEF Gone
      <3>2. templates = [t \in TemplateIDs |-> IF t = Spare THEN Gone ELSE 0]
        BY DEF EditorStart
      <3> QED
        BY <3>1, <3>2
    <2>2. /\ edits = 0 /\ selectedID = "" /\ content = 0 /\ loaded = [id |-> "", content |-> 0]
          /\ typed = Untyped /\ saving = {} /\ guard = {} /\ removal = NoRemoval
      BY DEF EditorStart
    <2>3. NoRemoval \in [asked : Chosen, id : Chosen, phase : {"idle", "wire", "reload"}, selected : BOOLEAN] /\ NoRemoval.phase = "idle"
      BY DEF NoRemoval, Chosen
    <2> QED
      <3>1. selectedID \in Chosen /\ content \in 0..edits /\ edits \in Nat
        <4>0. edits = 0 /\ content = 0
          BY Zenon, <2>2
        <4>1. edits \in Nat /\ content \in 0..edits
          BY <4>0
        <4>2. "" \in Chosen
          BY DEF Chosen
        <4> QED
          BY Zenon, <2>2, <4>1, <4>2
      <3>2. /\ loaded \in [id : Chosen, content : 0..edits]
            /\ typed \in [id : Chosen, content : 0..edits, beside : BOOLEAN]
        <4>1. "" \in Chosen /\ 0 \in 0..edits
          BY <2>2, <3>1 DEF Chosen
        <4> QED
          BY <2>2, <4>1 DEF Untyped
      <3>3. removal.phase = "idle"
        BY <2>2, <2>3
      <3> QED
        BY <2>1, <2>2, <2>3, <3>1, <3>2, <3>3 DEF EditTypes
  <1>2. DetailWaits /\ EditKept
    BY DEF EditorStart, DetailWaits, EditKept, Certain, Untyped
  <1> QED
    BY <1>1, <1>2, DetailStart DEF EditIInv

LEMMA EditSound == ASSUME EditIInv PROVE NoEditLost
  BY DEF EditIInv, EditKept, Certain, NoEditLost, TypedIsSafe, InForm, Stored, selectedTemplate

\* Creating, changing, switching and deleting templates loses no unsaved content, however much
\* is typed and saved, but for what was typed beside something whose end fills the form anew.
THEOREM TemplateEditsStay == ASSUME TemplatesKnown PROVE TemplatesSpec => []NoEditLost
  <1>1. EditorStart => EditIInv
    BY EditStarts
  <1>2. EditIInv /\ [EditorStep \/ UNCHANGED editorVars]_<<editorVars, catalogVars>> => EditIInv'
    BY EditSteps DEF editorVars, catalogVars
  <1>3. EditIInv => NoEditLost
    BY EditSound
  <1> QED
    BY <1>1, <1>2, <1>3, PTL DEF TemplatesSpec

-----------------------------------------------------------------------------
(* The tag page. The search changes only with a load of the first page,     *)
(* which hides the list; the request that counts asks for that search.      *)

AllTags == ToSet(TagOrder) \cup NewTags
\* The server keeps a tag once; the empty search is one that can be typed.
TagOrderSound ==
  /\ TagPage \in Nat \ {0} /\ "" \in SearchTexts
  /\ TagOrder \in Seq(AllTags) /\ IsInjective(TagOrder)

Listings == [search : SearchTexts, debounced : SearchTexts, tags : Seq(AllTags), loading : BOOLEAN, loadingMore : BOOLEAN,
             initialError : BOOLEAN, loadMoreError : BOOLEAN, hasMore : BOOLEAN, offset : Nat]
TagGets == [q : SearchTexts, off : Nat, append : BOOLEAN, current : BOOLEAN, read : BOOLEAN, got : Seq(AllTags)]
Finds(tags, q) == ToSet(tags) \subseteq TagHits[q] /\ IsInjective(tags)
TagGetsSound ==
  /\ gets \subseteq TagGets /\ \A r \in gets : Finds(r.got, r.q)
  /\ \A r, o \in gets : r.current /\ o.current => r = o
TagGetsAsked == \A r \in gets : r.current => r.q = listing.debounced /\ r.append = ~listing.loading
TagFlags == (listing.loading \/ listing.loadingMore) <=> (\E r \in gets : r.current)
TagListIInv ==
  /\ rows \in Seq(AllTags) /\ IsInjective(rows)
  /\ listing \in Listings /\ IsInjective(listing.tags)
  /\ TagGetsSound /\ TagGetsAsked /\ TagFlags
  /\ ~listing.loading /\ ~listing.initialError => Finds(listing.tags, listing.debounced)

LEMMA SliceOf ==
  ASSUME TagOrderSound, NEW s \in Seq(AllTags), NEW off \in Nat
  PROVE  /\ Slice(s, off) \in Seq(AllTags) /\ ToSet(Slice(s, off)) \subseteq ToSet(s)
         /\ IsInjective(s) => IsInjective(Slice(s, off))
  <1>1. TagPage \in Nat
    BY Zenon DEF TagOrderSound
  <1>2. PICK n \in Nat : n = (IF off + TagPage > Len(s) THEN Len(s) ELSE off + TagPage)
    BY <1>1
  <1>3. Slice(s, off) = SubSeq(s, off + 1, n) /\ n <= Len(s) /\ off + 1 \in Nat \ {0}
    BY <1>1, <1>2 DEF Slice
  <1>4. /\ SubSeq(s, off + 1, n) \in Seq(AllTags) /\ ToSet(SubSeq(s, off + 1, n)) \subseteq ToSet(s)
        /\ IsInjective(s) => IsInjective(SubSeq(s, off + 1, n))
    BY <1>3, PartOfList
  <1> QED
    BY <1>3, <1>4

\* A page of what a search finds.
LEMMA PageOfTags ==
  ASSUME TagOrderSound, NEW s \in Seq(AllTags), NEW q \in SearchTexts, NEW off \in Nat
  PROVE  /\ Slice(Result(s, q), off) \in Seq(AllTags) /\ ToSet(Slice(Result(s, q), off)) \subseteq TagHits[q]
         /\ IsInjective(s) => IsInjective(Slice(Result(s, q), off))
  <1>1. PICK found : found = Result(s, q)
    OBVIOUS
  <1>2. /\ Within(s, TagHits[q]) \in Seq(AllTags) /\ ToSet(Within(s, TagHits[q])) = ToSet(s) \cap TagHits[q]
        /\ IsInjective(s) => IsInjective(Within(s, TagHits[q]))
    BY WithinKeeps
  <1>3. found \in Seq(AllTags) /\ ToSet(found) \subseteq TagHits[q] /\ (IsInjective(s) => IsInjective(found))
    BY <1>1, <1>2 DEF Result
  <1>4. /\ Slice(found, off) \in Seq(AllTags) /\ ToSet(Slice(found, off)) \subseteq ToSet(found)
        /\ IsInjective(found) => IsInjective(Slice(found, off))
    BY <1>3, SliceOf
  <1> QED
    BY <1>1, <1>3, <1>4

LEMMA SupersededGets ==
  ASSUME TagGetsSound
  PROVE  Superseded(gets) \subseteq TagGets /\ \A r \in Superseded(gets) : ~r.current /\ Finds(r.got, r.q)
  <1> SUFFICES ASSUME NEW q \in gets
               PROVE  LET r == [q EXCEPT !.current = FALSE]
                      IN  r \in TagGets /\ ~r.current /\ Finds(r.got, r.q)
    BY DEF Superseded
  <1>1. q \in TagGets /\ Finds(q.got, q.q)
    BY DEF TagGetsSound
  <1>2. PICK r : r = [q EXCEPT !.current = FALSE]
    OBVIOUS
  <1>3. r \in TagGets /\ ~r.current /\ r.got = q.got /\ r.q = q.q
    BY <1>1, <1>2 DEF TagGets
  <1> QED
    BY <1>1, <1>2, <1>3

LEMMA TagsLoad ==
  ASSUME TagListIInv, NEW s \in Listings, NEW append \in BOOLEAN, loadTags(s, append), IsInjective(s.tags),
         append => ~s.loading /\ (~s.initialError => Finds(s.tags, s.debounced))
  PROVE  TagListIInv'
  <1>1. PICK off, r : /\ r = [q |-> s.debounced, off |-> off, append |-> append, current |-> TRUE, read |-> FALSE, got |-> <<>>]
                      /\ off = (IF append THEN s.offset ELSE 0) /\ gets' = Superseded(gets) \cup {r} /\ UNCHANGED rows
    BY DEF loadTags, Get
  <1>2. off \in Nat
    BY <1>1 DEF Listings
  <1>3. r \in TagGets /\ r.q = s.debounced /\ r.append = append /\ r.current /\ r.got = <<>>
    BY <1>1, <1>2 DEF TagGets, Listings
  <1>4. Finds(<<>>, r.q)
    BY DEF Finds, ToSet, IsInjective
  <1>5. TagGetsSound'
    BY <1>1, <1>3, <1>4, SupersededGets DEF TagListIInv, TagGetsSound
  <1>6. /\ listing' \in Listings /\ listing'.debounced = s.debounced /\ listing'.tags = s.tags
        /\ (append => listing'.loading = s.loading /\ listing'.initialError = s.initialError /\ listing'.loadingMore)
        /\ (~append => listing'.loading)
    BY DEF loadTags, Listings
  <1>7. TagGetsAsked' /\ TagFlags'
    BY <1>1, <1>3, <1>6, SupersededGets DEF TagListIInv, TagGetsAsked, TagFlags
  <1>8. ~listing'.loading /\ ~listing'.initialError => Finds(listing'.tags, listing'.debounced)
    BY <1>6
  <1> QED
    BY <1>1, <1>5, <1>6, <1>7, <1>8 DEF TagListIInv, Finds

LEMMA TagSearches ==
  ASSUME TagListIInv, (\E q \in SearchTexts : searchTags(q)) \/ debounceTags \/ retryTags \/ loadMoreTags
  PROVE  TagListIInv'
  <1>0. listing \in Listings /\ IsInjective(listing.tags) /\ listing.search \in SearchTexts
    BY DEF TagListIInv, Listings
  <1>1. ASSUME NEW q \in SearchTexts, searchTags(q) PROVE TagListIInv'
    <2>1. /\ listing' \in Listings /\ listing'.tags = listing.tags /\ listing'.debounced = listing.debounced
          /\ listing'.loading = listing.loading /\ listing'.loadingMore = listing.loadingMore
          /\ listing'.initialError = listing.initialError /\ UNCHANGED <<rows, gets>>
      BY <1>0, <1>1 DEF searchTags, Listings
    <2> QED
      BY <2>1 DEF TagListIInv, TagGetsSound, TagGetsAsked, TagFlags, Finds
  <1>2. CASE debounceTags
    <2>1. PICK s : s = [listing EXCEPT !.debounced = listing.search] /\ loadTags(s, FALSE)
      BY <1>2 DEF debounceTags
    <2>2. s \in Listings /\ s.tags = listing.tags
      BY <1>0, <2>1 DEF Listings
    <2> QED
      BY <1>0, <2>1, <2>2, TagsLoad
  <1>3. CASE retryTags
    BY <1>0, <1>3, TagsLoad DEF retryTags
  <1>4. CASE loadMoreTags
    <2>1. loadTags(listing, TRUE) /\ ~listing.loading
      BY <1>4 DEF loadMoreTags, TagListIInv, TagFlags
    <2> QED
      BY <1>0, <2>1, TagsLoad DEF TagListIInv
  <1> QED
    BY <1>1, <1>2, <1>3, <1>4

LEMMA TagsRead == ASSUME TagOrderSound, TagListIInv, ReadTags PROVE TagListIInv'
  <1>1. PICK r \in gets : \E page : /\ page = Slice(Result(rows, r.q), r.off)
                                    /\ gets' = (gets \ {r}) \cup {[r EXCEPT !.read = TRUE, !.got = page]}
                                    /\ UNCHANGED <<rows, listing>>
    BY DEF ReadTags
  <1>2. PICK page : /\ page = Slice(Result(rows, r.q), r.off)
                    /\ gets' = (gets \ {r}) \cup {[r EXCEPT !.read = TRUE, !.got = page]}
    BY <1>1
  <1>3. r \in TagGets /\ r.q \in SearchTexts /\ r.off \in Nat
    BY DEF TagListIInv, TagGetsSound, TagGets
  <1>4. rows \in Seq(AllTags) /\ IsInjective(rows)
    BY DEF TagListIInv
  <1>5. page \in Seq(AllTags) /\ Finds(page, r.q)
    BY <1>2, <1>3, <1>4, PageOfTags DEF Finds
  <1>6. PICK n : n = [r EXCEPT !.read = TRUE, !.got = page]
    OBVIOUS
  <1>7. /\ n \in TagGets /\ n.q = r.q /\ n.current = r.current /\ n.append = r.append /\ n.got = page
    BY <1>3, <1>5, <1>6 DEF TagGets
  <1>8. TagGetsSound'
    BY <1>2, <1>5, <1>6, <1>7 DEF TagListIInv, TagGetsSound
  <1>9. TagGetsAsked' /\ TagFlags'
    BY <1>1, <1>2, <1>6, <1>7 DEF TagListIInv, TagGetsAsked, TagFlags
  <1> QED
    BY <1>1, <1>8, <1>9 DEF TagListIInv, Finds

\* A request is over, and when it was the current one both flags are down.
LEMMA TagsOver ==
  ASSUME TagListIInv, NEW r \in gets, gets' = gets \ {r}, UNCHANGED rows, listing' \in Listings,
         IsInjective(listing'.tags), listing'.debounced = listing.debounced,
         r.current => ~listing'.loading /\ ~listing'.loadingMore,
         ~r.current => listing'.loading = listing.loading /\ listing'.loadingMore = listing.loadingMore,
         ~listing'.loading /\ ~listing'.initialError => Finds(listing'.tags, listing'.debounced)
  PROVE  TagListIInv'
  <1>1. TagGetsSound'
    BY DEF TagListIInv, TagGetsSound
  <1>2. r.current => \A o \in gets' : ~o.current
    BY DEF TagListIInv, TagGetsSound
  <1>3. TagGetsAsked' /\ TagFlags'
    <2>1. CASE r.current
      BY <1>2, <2>1 DEF TagGetsAsked, TagFlags
    <2>2. CASE ~r.current
      BY <2>2 DEF TagListIInv, TagGetsAsked, TagFlags
    <2> QED
      BY <2>1, <2>2
  <1> QED
    BY <1>1, <1>3 DEF TagListIInv, Finds

LEMMA TagsAnswered == ASSUME TagListIInv, TagsAnswer PROVE TagListIInv'
  <1>0. listing \in Listings /\ listing.tags \in Seq(AllTags) /\ IsInjective(listing.tags) /\ listing.debounced \in SearchTexts
    BY DEF TagListIInv, Listings
  <1>1. PICK r \in gets :
           /\ gets' = gets \ {r} /\ UNCHANGED rows
           /\ listing' = IF ~r.current THEN listing
                         ELSE [listing EXCEPT !.loading = FALSE, !.loadingMore = FALSE,
                                 !.tags = IF r.append THEN Appended(@, r.got) ELSE r.got,
                                 !.hasMore = Len(r.got) = TagPage, !.offset = r.off + Len(r.got)]
    BY Zenon DEF TagsAnswer
  <1>2. PICK tags, off : /\ tags = (IF r.append THEN Appended(listing.tags, r.got) ELSE r.got)
                         /\ off = r.off + Len(r.got)
    OBVIOUS
  <1>3. r \in TagGets /\ Finds(r.got, r.q) /\ r.got \in Seq(AllTags) /\ r.append \in BOOLEAN
    BY DEF TagListIInv, TagGetsSound, TagGets
  <1>4. off \in Nat
    <2>1. r.off \in Nat /\ Len(r.got) \in Nat
      BY <1>3 DEF TagGets
    <2> QED
      BY <1>2, <2>1
  <1>5. /\ tags \in Seq(AllTags) /\ IsInjective(tags)
        /\ (r.append => Finds(listing.tags, r.q)) => Finds(tags, r.q)
    <2>1. PICK p \in Seq(AllTags) : p = listing.tags /\ IsInjective(p)
      BY <1>0
    <2>2. PICK q \in Seq(AllTags) : q = r.got /\ IsInjective(q) /\ ToSet(q) \subseteq TagHits[r.q]
      BY <1>3 DEF Finds
    <2>3. WithNew(p, q) \in Seq(AllTags) /\ ToSet(WithNew(p, q)) = ToSet(p) \cup ToSet(q)
      BY Merges
    <2>4. IsInjective(WithNew(p, q))
      BY <2>1, <2>2, Merges
    <2>5. tags = IF r.append THEN WithNew(p, q) ELSE q
      BY <1>2, <2>1, <2>2 DEF Appended
    <2> QED
      BY <2>1, <2>2, <2>3, <2>4, <2>5 DEF Finds
  <1>6. CASE ~r.current
    BY <1>0, <1>1, <1>6, TagsOver DEF TagListIInv
  <1>7. CASE r.current
    <2>1. /\ listing' \in Listings /\ listing'.tags = tags /\ listing'.debounced = listing.debounced
          /\ ~listing'.loading /\ ~listing'.loadingMore /\ listing'.initialError = listing.initialError
      <3>1. listing' = [listing EXCEPT !.loading = FALSE, !.loadingMore = FALSE, !.tags = tags,
                                       !.hasMore = Len(r.got) = TagPage, !.offset = off]
        BY <1>1, <1>2, <1>7
      <3> QED
        BY <1>0, <1>4, <1>5, <3>1 DEF Listings
    <2>2. r.q = listing.debounced /\ r.append = ~listing.loading
      BY <1>7 DEF TagListIInv, TagGetsAsked
    <2>3. ~listing'.initialError => Finds(tags, listing.debounced)
      BY <1>5, <2>1, <2>2 DEF TagListIInv
    <2> QED
      BY <1>1, <1>5, <1>7, <2>1, <2>3, TagsOver
  <1> QED
    BY <1>6, <1>7

LEMMA TagsFailed == ASSUME TagListIInv, TagsFail PROVE TagListIInv'
  <1>0. listing \in Listings /\ IsInjective(listing.tags)
    BY DEF TagListIInv
  <1>1. PICK r \in gets : \E s :
           /\ gets' = gets \ {r} /\ UNCHANGED rows /\ r.current
           /\ s = [listing EXCEPT !.loading = FALSE, !.loadingMore = FALSE]
           /\ listing' = IF r.append THEN [s EXCEPT !.loadMoreError = TRUE] ELSE [s EXCEPT !.initialError = TRUE]
    BY DEF TagsFail
  <1>2. PICK s : /\ s = [listing EXCEPT !.loading = FALSE, !.loadingMore = FALSE]
                 /\ listing' = IF r.append THEN [s EXCEPT !.loadMoreError = TRUE] ELSE [s EXCEPT !.initialError = TRUE]
    BY <1>1
  <1>3. /\ s \in Listings /\ s.tags = listing.tags /\ s.debounced = listing.debounced /\ ~s.loading /\ ~s.loadingMore
        /\ s.initialError = listing.initialError
    BY <1>0, <1>2 DEF Listings
  <1>4. /\ listing' \in Listings /\ listing'.tags = listing.tags /\ listing'.debounced = listing.debounced
        /\ ~listing'.loading /\ ~listing'.loadingMore
        /\ IF r.append THEN listing'.initialError = listing.initialError ELSE listing'.initialError
    BY <1>2, <1>3 DEF Listings
  <1>5. ~listing'.initialError => r.append /\ ~listing.loading /\ ~listing.initialError
    BY <1>1, <1>4 DEF TagListIInv, TagGetsAsked
  <1> QED
    BY <1>0, <1>1, <1>4, <1>5, TagsOver DEF TagListIInv

\* Tags that are deleted here and made elsewhere.
LEMMA TagsChange ==
  ASSUME TagListIInv, DeleteTag \/ TagDeleteAnswer \/ CreateElsewhere
  PROVE  TagListIInv'
  <1>0. /\ rows \in Seq(AllTags) /\ IsInjective(rows) /\ listing \in Listings /\ listing.tags \in Seq(AllTags)
        /\ IsInjective(listing.tags)
    BY DEF TagListIInv, Listings
  <1>1. CASE rows' \in Seq(AllTags) /\ IsInjective(rows') /\ UNCHANGED <<listing, gets>>
    BY <1>1 DEF TagListIInv, TagGetsSound, TagGetsAsked, TagFlags, Finds
  <1>2. CASE DeleteTag
    <2>1. rows' = WithoutValue(rows, removing.target) /\ UNCHANGED <<listing, gets>>
      BY <1>2 DEF DeleteTag
    <2>2. WithoutValue(rows, removing.target) \in Seq(AllTags) /\ IsInjective(WithoutValue(rows, removing.target))
      BY <1>0, WithoutOne
    <2> QED
      BY <1>1, <2>1, <2>2
  <1>3. CASE CreateElsewhere
    <2>1. PICK t \in NewTags \ ToSet(rows) : rows' = <<t>> \o rows /\ UNCHANGED <<listing, gets>>
      BY <1>3 DEF CreateElsewhere
    <2>2. PICK one : one = <<t>>
      OBVIOUS
    <2>e. t \in AllTags
      BY DEF AllTags
    <2>3. ToSet(one) = {t} /\ IsInjective(one)
      BY <2>2 DEF ToSet, IsInjective
    <2>4. one \in Seq(AllTags) /\ one \o rows \in Seq(AllTags)
      BY <1>0, <2>2, <2>e
    <2>5. IsInjective(one \o rows)
      BY <1>0, <2>1, <2>3, <2>4, InjectiveJoined
    <2> QED
      BY <1>1, <2>1, <2>2, <2>4, <2>5
  <1>4. CASE TagDeleteAnswer
    <2>1. CASE UNCHANGED listing
      BY <1>0, <1>1, <1>4, <2>1 DEF TagDeleteAnswer
    <2>2. CASE listing' = [listing EXCEPT !.tags = WithoutValue(listing.tags, removing.target)]
      <3>1. PICK tags : tags = WithoutValue(listing.tags, removing.target)
        OBVIOUS
      <3>2. /\ WithoutValue(listing.tags, removing.target) \in Seq(AllTags)
            /\ ToSet(WithoutValue(listing.tags, removing.target)) = ToSet(listing.tags) \ {removing.target}
            /\ IsInjective(WithoutValue(listing.tags, removing.target))
        BY <1>0, WithoutOne
      <3>3. tags \in Seq(AllTags) /\ IsInjective(tags) /\ ToSet(tags) \subseteq ToSet(listing.tags)
        BY <3>1, <3>2
      <3>4. /\ listing' \in Listings /\ listing'.tags = tags /\ listing'.debounced = listing.debounced
            /\ listing'.loading = listing.loading /\ listing'.loadingMore = listing.loadingMore
            /\ listing'.initialError = listing.initialError
        BY <1>0, <2>2, <3>1, <3>3 DEF Listings
      <3>5. UNCHANGED <<rows, gets>>
        BY <1>4 DEF TagDeleteAnswer
      <3> QED
        BY <3>3, <3>4, <3>5 DEF TagListIInv, TagGetsSound, TagGetsAsked, TagFlags, Finds
    <2> QED
      BY <1>4, <2>1, <2>2 DEF TagDeleteAnswer
  <1> QED
    BY <1>2, <1>3, <1>4

LEMMA TagListStep == ASSUME TagOrderSound, TagListIInv, [TagPageNext]_tagPageVars PROVE TagListIInv'
  <1>1. CASE UNCHANGED <<rows, listing, gets>>
    BY <1>1 DEF TagListIInv, TagGetsSound, TagGetsAsked, TagFlags, Finds
  <1>2. CASE closeDeleteDialog \/ confirmTagDelete \/ (\E t \in ToSet(TagOrder) : requestDelete(t)) \/ UNCHANGED tagPageVars
    BY <1>1, <1>2 DEF closeDeleteDialog, confirmTagDelete, requestDelete, tagPageVars
  <1> QED
    BY <1>2, TagSearches, TagsRead, TagsAnswered, TagsFailed, TagsChange DEF TagPageNext

LEMMA TagListStart == ASSUME TagOrderSound, TagPageInit PROVE TagListIInv
  <1>1. "" \in SearchTexts /\ TagOrder \in Seq(AllTags) /\ IsInjective(TagOrder)
    BY Zenon DEF TagOrderSound
  <1>e. <<>> \in Seq(AllTags)
    OBVIOUS
  <1>2. PICK r : /\ r = [q |-> "", off |-> 0, append |-> FALSE, current |-> TRUE, read |-> FALSE, got |-> <<>>]
                 /\ gets = {r}
    BY DEF TagPageInit, Get
  <1>3. /\ r \in TagGets /\ r.q = "" /\ r.append = FALSE /\ r.current /\ r.got = <<>>
    BY <1>1, <1>e, <1>2 DEF TagGets
  <1>4. Finds(<<>>, "")
    BY DEF Finds, ToSet, IsInjective
  <1>5. /\ listing \in Listings /\ listing.tags = <<>> /\ listing.debounced = "" /\ listing.loading
    BY <1>1, <1>e DEF TagPageInit, NewListing, Listings
  <1>6. TagGetsSound /\ TagGetsAsked /\ TagFlags
    BY <1>2, <1>3, <1>4, <1>5 DEF TagGetsSound, TagGetsAsked, TagFlags
  <1>7. rows \in Seq(AllTags) /\ IsInjective(rows) /\ IsInjective(listing.tags)
    BY <1>1, <1>4, <1>5 DEF TagPageInit, Finds
  <1> QED
    BY <1>5, <1>6, <1>7 DEF TagListIInv

LEMMA TagListSound == ASSUME TagListIInv PROVE TagListBelongs
  <1>1. TagsView = "list" => ~listing.loading /\ ~listing.initialError
    BY DEF TagsView, TagListIInv, Listings
  <1> QED
    BY <1>1 DEF TagListBelongs, TagListIInv, TagFlags, Finds

-----------------------------------------------------------------------------
(* The tags beside the document list. Every request carries the text that is *)
(* in the field, or a timer is set that will ask again, or a pin saved under *)
(* another text has asked; otherwise the list is the answer to that text     *)
(* unless a first page is asked for or failed.                               *)

Sides == [search : SearchTexts, tags : Seq(AllTags), loading : BOOLEAN, hasMore : BOOLEAN, offset : Nat,
          timer : BOOLEAN, of : SearchTexts, failed : BOOLEAN, repinned : BOOLEAN]
SideGets == [on : {TRUE}, q : SearchTexts, off : Nat, append : BOOLEAN]
SideAsks == sideGet.on => /\ sideGet \in SideGets /\ side.loading
                          /\ sideGet.q = side.search \/ (side.repinned /\ ~sideGet.append)
SidePins == \A p \in pins : p.q \in SearchTexts
FirstPageAsked == sideGet.on /\ ~sideGet.append
SideAnswers == ~side.timer /\ ~side.failed /\ ~FirstPageAsked /\ ~side.repinned =>
                 side.of = side.search /\ ToSet(side.tags) \subseteq TagHits[side.search]
SideIInv ==
  /\ side \in Sides /\ SideAsks /\ SidePins
  /\ side.loading => sideGet.on \/ side.timer
  /\ SideAnswers

LEMMA OrderedTags ==
  ASSUME TagOrderSound, NEW P
  PROVE  Ordered(P) \in Seq(AllTags)
  <1>1. TagOrder \in Seq(AllTags)
    BY Zenon DEF TagOrderSound
  <1>2. Within(TagOrder, P) \in Seq(AllTags) /\ Within(TagOrder, ToSet(TagOrder) \ P) \in Seq(AllTags)
    BY <1>1, WithinKeeps
  <1>3. PICK p, q \in Seq(AllTags) : p = Within(TagOrder, P) /\ q = Within(TagOrder, ToSet(TagOrder) \ P)
    BY <1>2
  <1>4. p \o q \in Seq(AllTags)
    OBVIOUS
  <1> QED
    BY <1>3, <1>4 DEF Ordered

LEMMA SideLoads ==
  ASSUME NEW s \in Sides, NEW off \in Nat, NEW append \in BOOLEAN, NEW q \in SearchTexts, fetchSidebarTags(s, off, append, q),
         SidePins', q = s.search \/ (s.repinned /\ ~append),
         append => (~s.timer /\ ~s.failed /\ ~s.repinned => s.of = s.search /\ ToSet(s.tags) \subseteq TagHits[s.search])
  PROVE  SideIInv'
  <1>1. PICK g : g = [on |-> TRUE, q |-> q, off |-> off, append |-> append] /\ sideGet' = g
    BY DEF fetchSidebarTags, SideGet
  <1>2. g \in SideGets /\ g.on /\ g.q = q /\ g.append = append
    BY <1>1 DEF SideGets, Sides
  <1>3. /\ side' \in Sides /\ side'.search = s.search /\ side'.tags = s.tags /\ side'.loading /\ side'.timer = s.timer
        /\ side'.failed = s.failed /\ side'.of = s.of /\ side'.repinned = s.repinned
    BY DEF fetchSidebarTags, Sides
  <1>4. SideAsks'
    BY <1>1, <1>2, <1>3 DEF SideAsks
  <1>5. SideAnswers'
    BY <1>1, <1>2, <1>3 DEF SideAnswers, FirstPageAsked
  <1> QED
    BY <1>1, <1>2, <1>3, <1>4, <1>5 DEF SideIInv

LEMMA SideSearches ==
  ASSUME SideIInv, (\E q \in SearchTexts : setTagSearch(q)) \/ sideSearchTimer \/ maybeAutoLoadTags
  PROVE  SideIInv'
  <1>0. side \in Sides /\ side.search \in SearchTexts /\ side.offset \in Nat /\ side.timer \in BOOLEAN /\ SidePins
    BY DEF SideIInv, Sides
  <1>1. ASSUME NEW q \in SearchTexts, setTagSearch(q) PROVE SideIInv'
    <2>1. UNCHANGED pins /\ side' = [side EXCEPT !.search = q, !.timer = TRUE] /\ sideGet' = NoGet
      BY <1>1 DEF setTagSearch
    <2>2. side' \in Sides /\ side'.timer
      BY <1>0, <2>1 DEF Sides
    <2>3. ~sideGet'.on
      BY <2>1 DEF NoGet
    <2> QED
      BY <1>0, <2>1, <2>2, <2>3 DEF SideIInv, SideAsks, SidePins, SideAnswers
  <1>2. CASE sideSearchTimer
    <2>1. PICK s : /\ s = [side EXCEPT !.timer = FALSE, !.offset = 0, !.hasMore = TRUE, !.repinned = FALSE]
                   /\ fetchSidebarTags(s, 0, FALSE, side.search) /\ UNCHANGED pins
      BY <1>2 DEF sideSearchTimer
    <2>2. s \in Sides /\ s.search = side.search
      BY <1>0, <2>1 DEF Sides
    <2>3. SidePins'
      BY <1>0, <2>1 DEF SidePins
    <2> QED
      BY <1>0, <2>1, <2>2, <2>3, SideLoads
  <1>3. CASE maybeAutoLoadTags
    <2>1. fetchSidebarTags(side, side.offset, TRUE, side.search) /\ ~side.loading /\ UNCHANGED pins
      BY <1>3 DEF maybeAutoLoadTags
    <2>2. ~FirstPageAsked
      BY <2>1 DEF SideIInv, SideAsks, FirstPageAsked
    <2>3. SidePins'
      BY <1>0, <2>1 DEF SidePins
    <2> QED
      BY <1>0, <2>1, <2>2, <2>3, SideLoads DEF SideIInv, SideAnswers
  <1> QED
    BY <1>1, <1>2, <1>3

LEMMA SideAnswered == ASSUME TagOrderSound, SideIInv, SidebarAnswer PROVE SideIInv'
  <1>1. PICK got : got = Slice(Result(Ordered(pinned), sideGet.q), sideGet.off)
    OBVIOUS
  <1>2. /\ sideGet.on /\ sideGet' = NoGet /\ UNCHANGED pins
        /\ \/ side' = [side EXCEPT !.loading = FALSE, !.tags = IF sideGet.append THEN @ \o got ELSE got,
                             !.hasMore = Len(got) = TagPage, !.offset = sideGet.off + Len(got),
                             !.of = IF sideGet.append THEN @ ELSE sideGet.q, !.failed = sideGet.append /\ @]
           \/ side' = [side EXCEPT !.loading = FALSE, !.failed = TRUE]
    BY <1>1, Zenon DEF SidebarAnswer
  <1>3. /\ side \in Sides /\ sideGet \in SideGets
        /\ sideGet.q = side.search \/ (side.repinned /\ ~sideGet.append)
    BY <1>2 DEF SideIInv, SideAsks
  <1>4. sideGet.q \in SearchTexts /\ sideGet.off \in Nat /\ sideGet.append \in BOOLEAN /\ side.tags \in Seq(AllTags)
    BY <1>3 DEF SideGets, Sides
  <1>5. ~sideGet'.on
    BY <1>2 DEF NoGet
  <1>6. CASE side' = [side EXCEPT !.loading = FALSE, !.failed = TRUE]
    <2>1. side' \in Sides /\ ~side'.loading /\ side'.failed /\ side'.search = side.search
      BY <1>3, <1>6 DEF Sides
    <2> QED
      BY <1>2, <1>5, <2>1 DEF SideIInv, SideAsks, SidePins, SideAnswers
  <1>7. CASE side' = [side EXCEPT !.loading = FALSE, !.tags = IF sideGet.append THEN @ \o got ELSE got,
                             !.hasMore = Len(got) = TagPage, !.offset = sideGet.off + Len(got),
                             !.of = IF sideGet.append THEN @ ELSE sideGet.q, !.failed = sideGet.append /\ @]
    <2>1. Ordered(pinned) \in Seq(AllTags)
      BY OrderedTags
    <2>2. PICK order \in Seq(AllTags) : order = Ordered(pinned)
      BY <2>1
    <2>3. got \in Seq(AllTags) /\ ToSet(got) \subseteq TagHits[sideGet.q]
      BY <1>1, <1>4, <2>2, PageOfTags
    <2>4. PICK tags, off, of : /\ tags = (IF sideGet.append THEN side.tags \o got ELSE got)
                               /\ off = sideGet.off + Len(got)
                               /\ of = (IF sideGet.append THEN side.of ELSE sideGet.q)
      OBVIOUS
    <2>5. ToSet(side.tags \o got) = ToSet(side.tags) \cup ToSet(got)
      BY <1>4, <2>3, ValuesJoined
    <2>6. /\ tags \in Seq(AllTags) /\ off \in Nat /\ of \in SearchTexts
          /\ (sideGet.append => ToSet(side.tags) \subseteq TagHits[sideGet.q]) => ToSet(tags) \subseteq TagHits[sideGet.q]
      BY <1>3, <1>4, <2>3, <2>4, <2>5 DEF Sides
    <2>7. side' = [side EXCEPT !.loading = FALSE, !.tags = tags, !.hasMore = Len(got) = TagPage, !.offset = off,
                               !.of = of, !.failed = sideGet.append /\ side.failed]
      BY <1>7, <2>4
    <2>8. /\ side' \in Sides /\ ~side'.loading /\ side'.search = side.search /\ side'.tags = tags /\ side'.of = of
          /\ side'.repinned = side.repinned /\ side'.timer = side.timer /\ side'.failed = (sideGet.append /\ side.failed)
      BY <1>3, <1>4, <2>6, <2>7 DEF Sides
    <2>9. SideAnswers'
      <3> SUFFICES ASSUME ~side.timer, ~(sideGet.append /\ side.failed), ~side.repinned
                   PROVE  of = side.search /\ ToSet(tags) \subseteq TagHits[side.search]
        BY <1>3, <1>5, <2>8 DEF SideAnswers
      <3>1. sideGet.q = side.search
        BY <1>3
      <3>2. sideGet.append => side.of = side.search /\ ToSet(side.tags) \subseteq TagHits[side.search]
        BY DEF SideIInv, SideAnswers, FirstPageAsked
      <3> QED
        BY <2>4, <2>6, <3>1, <3>2
    <2> QED
      BY <1>2, <1>5, <2>8, <2>9 DEF SideIInv, SideAsks, SidePins
  <1> QED
    BY <1>2, <1>6, <1>7

LEMMA SidePinned ==
  ASSUME SideIInv, (\E t \in ToSet(TagOrder) : handleToggleTagPin(t)) \/ UpdatePinned \/ PinAnswer
  PROVE  SideIInv'
  <1>0. CASE SidePins' /\ UNCHANGED <<side, sideGet>>
    BY <1>0 DEF SideIInv, SideAsks, SideAnswers, FirstPageAsked
  <1>1. ASSUME NEW t, handleToggleTagPin(t) PROVE SideIInv'
    <2>1. PICK to \in BOOLEAN : /\ pins' = pins \cup {[tag |-> t, to |-> to, q |-> side.search, done |-> FALSE]}
                                /\ UNCHANGED <<side, sideGet>>
      BY <1>1 DEF handleToggleTagPin
    <2>2. SidePins'
      BY <2>1 DEF SideIInv, SidePins, Sides
    <2> QED
      BY <1>0, <2>1, <2>2
  <1>2. CASE UpdatePinned
    <2>1. PICK p \in pins : pins' = (pins \ {p}) \cup {[p EXCEPT !.done = TRUE]} /\ UNCHANGED <<side, sideGet>>
      BY <1>2 DEF UpdatePinned
    <2>2. PICK n : n = [p EXCEPT !.done = TRUE]
      OBVIOUS
    <2>3. n.q = p.q
      BY <2>2
    <2>4. SidePins'
      BY <2>1, <2>2, <2>3 DEF SideIInv, SidePins
    <2> QED
      BY <1>0, <2>1, <2>4
  <1>3. CASE PinAnswer
    <2>1. PICK p \in pins :
             /\ pins' = pins \ {p}
             /\ \/ fetchSidebarTags([side EXCEPT !.offset = 0, !.hasMore = TRUE, !.repinned = p.q # side.search], 0, FALSE, p.q)
                \/ UNCHANGED <<side, sideGet>>
      BY <1>3 DEF PinAnswer
    <2>2. p.q \in SearchTexts /\ SidePins'
      BY <2>1 DEF SideIInv, SidePins
    <2>3. PICK s : s = [side EXCEPT !.offset = 0, !.hasMore = TRUE, !.repinned = p.q # side.search]
      OBVIOUS
    <2>4. s \in Sides /\ s.search = side.search /\ (p.q = s.search \/ s.repinned)
      BY <2>3 DEF SideIInv, Sides
    <2>5. CASE fetchSidebarTags(s, 0, FALSE, p.q)
      BY <2>2, <2>4, <2>5, SideLoads
    <2>6. CASE UNCHANGED <<side, sideGet>>
      BY <1>0, <2>2, <2>6
    <2> QED
      BY <2>1, <2>3, <2>5, <2>6
  <1> QED
    BY <1>1, <1>2, <1>3

LEMMA SideStep == ASSUME TagOrderSound, SideIInv, [SideNext]_sideVars PROVE SideIInv'
  <1>1. CASE UNCHANGED sideVars
    BY <1>1 DEF sideVars, SideIInv, SideAsks, SidePins, SideAnswers, FirstPageAsked
  <1>2. CASE SideNext
    BY <1>2, SideSearches, SideAnswered, SidePinned DEF SideNext
  <1> QED
    BY <1>1, <1>2

\* The list as it begins, and as the chooser finds it.
LEMMA SideStart ==
  ASSUME TagOrderSound, sideGet = NoGet, pins = {},
         \E tags \in Seq(AllTags) : side = [search |-> "", tags |-> tags, loading |-> FALSE, hasMore |-> TRUE,
                                            offset |-> 0, timer |-> TRUE, of |-> "", failed |-> FALSE,
                                            repinned |-> FALSE]
  PROVE  SideIInv
  <1>1. "" \in SearchTexts
    BY Zenon DEF TagOrderSound
  <1>0. PICK tags \in Seq(AllTags) : side = [search |-> "", tags |-> tags, loading |-> FALSE, hasMore |-> TRUE,
                                            offset |-> 0, timer |-> TRUE, of |-> "", failed |-> FALSE,
                                            repinned |-> FALSE]
    OBVIOUS
  <1>e. PICK none \in SearchTexts : none = ""
    BY <1>1
  <1>2. side \in Sides /\ side.timer /\ ~side.loading
    <2>1. side = [search |-> none, tags |-> tags, loading |-> FALSE, hasMore |-> TRUE,
                  offset |-> 0, timer |-> TRUE, of |-> none, failed |-> FALSE, repinned |-> FALSE]
      BY <1>0, <1>e
    <2> QED
      BY <2>1 DEF Sides
  <1>3. ~sideGet.on
    BY DEF NoGet
  <1> QED
    BY <1>2, <1>3 DEF SideIInv, SideAsks, SidePins, SideAnswers

LEMMA SideStarts == ASSUME TagOrderSound, SideInit PROVE SideIInv
  <1>1. <<>> \in Seq(AllTags)
    OBVIOUS
  <1> QED
    BY <1>1, SideStart DEF SideInit

LEMMA SideSound == ASSUME SideIInv PROVE SidebarMatchesSearch
  <1> SUFFICES ASSUME SideQuiet
               PROVE  /\ ~side.repinned => side.of = side.search /\ ToSet(side.tags) \subseteq TagHits[side.search]
                      /\ ~side.loading /\ TagsPanelFoot # "spinner"
    BY DEF SidebarMatchesSearch
  <1>1. ~side.loading
    BY DEF SideIInv, SideQuiet
  <1>2. TagsPanelFoot # "spinner"
    <2>1. side.hasMore \in BOOLEAN
      BY DEF SideIInv, Sides
    <2> QED
      BY <1>1, <2>1 DEF TagsPanelFoot
  <1> QED
    BY <1>1, <1>2 DEF SideIInv, SideAnswers, FirstPageAsked, SideQuiet

TagsSpec == /\ TagPageInit /\ SideInit
            /\ [][TagPageNext \/ UNCHANGED tagPageVars]_<<tagPageVars, sideVars>>
            /\ [][SideNext \/ UNCHANGED sideVars]_<<tagPageVars, sideVars>>

\* The tag page (docs/007): whatever is searched, paged, deleted and made elsewhere, and in whatever
\* order the answers come, the list shows tags of the search above it, each once, and a spinner has
\* its request; beside the document list, the tags are those of the text in the search field once
\* no page is asked for, unless the last page was asked for by a pin saved under another text.
THEOREM TagListsAnswer == ASSUME TagOrderSound PROVE TagsSpec => [](TagListBelongs /\ SidebarMatchesSearch)
  <1>1. TagPageInit /\ SideInit => TagListIInv /\ SideIInv
    BY TagListStart, SideStarts
  <1>2. TagListIInv /\ [TagPageNext \/ UNCHANGED tagPageVars]_<<tagPageVars, sideVars>> => TagListIInv'
    BY TagListStep DEF tagPageVars, sideVars
  <1>3. SideIInv /\ [SideNext \/ UNCHANGED sideVars]_<<tagPageVars, sideVars>> => SideIInv'
    BY SideStep DEF tagPageVars, sideVars
  <1>4. TagListIInv /\ SideIInv => TagListBelongs /\ SidebarMatchesSearch
    BY TagListSound, SideSound
  <1> QED
    BY <1>1, <1>2, <1>3, <1>4, PTL DEF TagsSpec
-----------------------------------------------------------------------------
(* The todos. Every write under way says how far the list is from what is   *)
(* stored: a row may be missing, left over, or have another mark or text.   *)

TodoForms == [create : FormStates, edit : FormStates, editing : TodoIDs \cup {0}, text : {0, 1},
              day : BOOLEAN, target : TodoIDs \cup {0}, deleting : BOOLEAN]
TodoTypes ==
  /\ todos \in Seq(Todo) /\ writes \subseteq Write /\ stored \subseteq Todo
  /\ issued \in Nat /\ forms \in TodoForms /\ doubt \subseteq TodoIDs \cup {0}
  /\ fetch \subseteq [phase : {"wire", "read"}, got : Seq(Todo), beside : SUBSET TodoIDs]
  /\ \A w \in writes : w.kind = "create" /\ w.phase = "done" => w.id \in TodoIDs
StoredKnown == \A s \in stored : s.id <= issued /\ \A t \in stored : t.id = s.id => t = s
OneWrite ==
  /\ \A w \in writes : w.kind = "delete" => w.id # 0
  /\ \A w, v \in writes : w.kind = v.kind /\ (w.kind = "toggle" => w.id = v.id) => w = v

\* Todos of different ids are finitely many.
LEMMA StoredFinite == ASSUME MaxTodos \in Nat, TodoTypes, StoredKnown PROVE IsFiniteSet(stored)
  <1> DEFINE f == [s \in stored |-> s.id]
  <1>1. f \in [stored -> 1..MaxTodos]
    BY DEF TodoTypes, Todo, TodoIDs
  <1>2. f \in Injection(stored, 1..MaxTodos)
    BY <1>1 DEF StoredKnown, Injection, IsInjective
  <1>3. IsFiniteSet(1..MaxTodos)
    BY FS_Interval
  <1> QED
    BY <1>2, <1>3, FS_Injection

LEMMA TodoFields ==
  ASSUME NEW x \in Todo, NEW v \in {0, 1}
  PROVE  /\ [x EXCEPT !.done = v] \in Todo /\ [x EXCEPT !.done = v].id = x.id
         /\ [x EXCEPT !.done = v].done = v /\ [x EXCEPT !.done = v].text = x.text
         /\ [x EXCEPT !.text = v] \in Todo /\ [x EXCEPT !.text = v].id = x.id
         /\ [x EXCEPT !.text = v].done = x.done /\ [x EXCEPT !.text = v].text = v
  BY DEF Todo

LEMMA SameTodo == ASSUME NEW s \in Todo, NEW t \in Todo, s.id = t.id, s.done = t.done, s.text = t.text PROVE s = t
  BY DEF Todo

Marked(q, id, v) == [i \in DOMAIN q |-> IF q[i].id = id THEN [q[i] EXCEPT !.done = v] ELSE q[i]]
Worded(q, id, v) == [i \in DOMAIN q |-> IF q[i].id = id THEN [q[i] EXCEPT !.text = v] ELSE q[i]]

LEMMA Mappings ==
  ASSUME NEW q \in Seq(Todo), NEW id, NEW v
  PROVE  /\ Mapped(q, id, LAMBDA x : [x EXCEPT !.done = v]) = Marked(q, id, v)
         /\ Mapped(q, id, LAMBDA x : [x EXCEPT !.text = v]) = Worded(q, id, v)
  BY DEF Mapped, Marked, Worded

LEMMA MarkedRows ==
  ASSUME NEW q \in Seq(Todo), NEW id, NEW v \in {0, 1}
  PROVE  /\ Marked(q, id, v) \in Seq(Todo) /\ DOMAIN Marked(q, id, v) = DOMAIN q
         /\ \A i \in DOMAIN q : /\ Marked(q, id, v)[i].id = q[i].id /\ Marked(q, id, v)[i].text = q[i].text
                                /\ Marked(q, id, v)[i].done = IF q[i].id = id THEN v ELSE q[i].done
  <1>1. DOMAIN q = 1..Len(q) /\ Len(q) \in Nat /\ \A i \in DOMAIN q : q[i] \in Todo
    OBVIOUS
  <1>2. \A i \in DOMAIN q : Marked(q, id, v)[i] \in Todo
    BY <1>1, TodoFields DEF Marked
  <1>3. Marked(q, id, v) \in [1..Len(q) -> Todo]
    BY <1>1, <1>2 DEF Marked
  <1> QED
    BY <1>1, <1>3, TodoFields DEF Marked

LEMMA WordedRows ==
  ASSUME NEW q \in Seq(Todo), NEW id, NEW v \in {0, 1}
  PROVE  /\ Worded(q, id, v) \in Seq(Todo) /\ DOMAIN Worded(q, id, v) = DOMAIN q
         /\ \A i \in DOMAIN q : /\ Worded(q, id, v)[i].id = q[i].id /\ Worded(q, id, v)[i].done = q[i].done
                                /\ Worded(q, id, v)[i].text = IF q[i].id = id THEN v ELSE q[i].text
  <1>1. DOMAIN q = 1..Len(q) /\ Len(q) \in Nat /\ \A i \in DOMAIN q : q[i] \in Todo
    OBVIOUS
  <1>2. \A i \in DOMAIN q : Worded(q, id, v)[i] \in Todo
    BY <1>1, TodoFields DEF Worded
  <1>3. Worded(q, id, v) \in [1..Len(q) -> Todo]
    BY <1>1, <1>2 DEF Worded
  <1> QED
    BY <1>1, <1>3, TodoFields DEF Worded

LEMMA FormFields ==
  ASSUME NEW f \in TodoForms, NEW c \in FormStates, NEW i \in TodoIDs \cup {0}, NEW x \in {0, 1}, NEW b \in BOOLEAN
  PROVE  /\ /\ [f EXCEPT !.create = c] \in TodoForms /\ [f EXCEPT !.create = c].create = c
            /\ [f EXCEPT !.create = c].edit = f.edit /\ [f EXCEPT !.create = c].editing = f.editing
            /\ [f EXCEPT !.create = c].target = f.target /\ [f EXCEPT !.create = c].deleting = f.deleting
         /\ /\ [f EXCEPT !.edit = c] \in TodoForms /\ [f EXCEPT !.edit = c].edit = c
            /\ [f EXCEPT !.edit = c].create = f.create /\ [f EXCEPT !.edit = c].editing = f.editing
            /\ [f EXCEPT !.edit = c].target = f.target /\ [f EXCEPT !.edit = c].deleting = f.deleting
         /\ /\ [f EXCEPT !.edit = c, !.text = x] \in TodoForms /\ [f EXCEPT !.edit = c, !.text = x].edit = c
            /\ [f EXCEPT !.edit = c, !.text = x].create = f.create /\ [f EXCEPT !.edit = c, !.text = x].editing = f.editing
            /\ [f EXCEPT !.edit = c, !.text = x].target = f.target /\ [f EXCEPT !.edit = c, !.text = x].deleting = f.deleting
         /\ /\ [f EXCEPT !.edit = c, !.editing = i, !.text = x] \in TodoForms
            /\ [f EXCEPT !.edit = c, !.editing = i, !.text = x].edit = c
            /\ [f EXCEPT !.edit = c, !.editing = i, !.text = x].create = f.create
            /\ [f EXCEPT !.edit = c, !.editing = i, !.text = x].editing = i
            /\ [f EXCEPT !.edit = c, !.editing = i, !.text = x].target = f.target
            /\ [f EXCEPT !.edit = c, !.editing = i, !.text = x].deleting = f.deleting
         /\ /\ [f EXCEPT !.day = b] \in TodoForms /\ [f EXCEPT !.day = b].edit = f.edit
            /\ [f EXCEPT !.day = b].create = f.create /\ [f EXCEPT !.day = b].editing = f.editing
            /\ [f EXCEPT !.day = b].target = f.target /\ [f EXCEPT !.day = b].deleting = f.deleting
         /\ /\ [f EXCEPT !.target = i] \in TodoForms /\ [f EXCEPT !.target = i].edit = f.edit
            /\ [f EXCEPT !.target = i].create = f.create /\ [f EXCEPT !.target = i].editing = f.editing
            /\ [f EXCEPT !.target = i].target = i /\ [f EXCEPT !.target = i].deleting = f.deleting
         /\ /\ [f EXCEPT !.deleting = b] \in TodoForms /\ [f EXCEPT !.deleting = b].edit = f.edit
            /\ [f EXCEPT !.deleting = b].create = f.create /\ [f EXCEPT !.deleting = b].editing = f.editing
            /\ [f EXCEPT !.deleting = b].target = f.target /\ [f EXCEPT !.deleting = b].deleting = b
         /\ /\ [f EXCEPT !.target = i, !.deleting = b] \in TodoForms /\ [f EXCEPT !.target = i, !.deleting = b].edit = f.edit
            /\ [f EXCEPT !.target = i, !.deleting = b].create = f.create
            /\ [f EXCEPT !.target = i, !.deleting = b].editing = f.editing
            /\ [f EXCEPT !.target = i, !.deleting = b].target = i /\ [f EXCEPT !.target = i, !.deleting = b].deleting = b
  BY DEF TodoForms


ShownIDs == {t.id : t \in ToSet(todos)}
\* What the dialogs do on their own: none that is busy closes, and what is chosen is a row.
Unhurried ==
  /\ forms' \in TodoForms
  /\ forms.create = "sending" => forms'.create = "sending"
  /\ forms.edit = "sending" => forms'.edit = "sending" /\ forms'.editing = forms.editing
  /\ forms.deleting /\ forms.target # 0 => forms'.deleting /\ forms'.target = forms.target
  /\ forms'.target \in {forms.target, 0} \cup ShownIDs /\ forms'.editing \in {forms.editing, 0} \cup ShownIDs
Dialog ==
  \/ openCreatePanel \/ openDayView \/ closeDayView \/ openEditPanel \/ TypeAndCloseCreate \/ TypeAndCloseEdit
  \/ requestDeleteTodo \/ cancelDeleteTodo

LEMMA ShownTodos ==
  ASSUME TodoTypes
  PROVE  \A t \in ToSet(todos) : t \in Todo /\ t.id \in TodoIDs /\ t.id \in TodoIDs \cup {0} /\ t.text \in {0, 1} /\ t.done \in {0, 1}
                                 /\ t.id \in ShownIDs
  <1>1. todos \in Seq(Todo)
    BY DEF TodoTypes
  <1>2. ASSUME NEW t \in ToSet(todos) PROVE t \in Todo
    BY <1>1, <1>2 DEF ToSet
  <1>3. \A t \in ToSet(todos) : t.id \in ShownIDs
    BY DEF ShownIDs
  <1> QED
    BY <1>2, <1>3 DEF Todo

LEMMA Dialogs ==
  ASSUME TodoTypes, Dialog
  PROVE  Unhurried /\ UNCHANGED <<cal, load, fetch, todos, writes, stored, issued, doubt>>
  <1> UNCHANGED <<cal, load, fetch, todos, writes, stored, issued, doubt>>
    BY DEF Dialog, openCreatePanel, openDayView, closeDayView, openEditPanel, TypeAndCloseCreate, TypeAndCloseEdit,
       requestDeleteTodo, cancelDeleteTodo, Form
  <1>0. /\ forms \in TodoForms /\ forms.create \in FormStates /\ forms.edit \in FormStates /\ forms.text \in {0, 1}
        /\ forms.editing \in TodoIDs \cup {0} /\ forms.target \in TodoIDs \cup {0} /\ forms.deleting \in BOOLEAN
    BY DEF TodoTypes, TodoForms
  <1>r. \A t \in ToSet(todos) : t.id \in TodoIDs \cup {0} /\ t.text \in {0, 1} /\ t.id \in ShownIDs
    BY ShownTodos
  <1>1. CASE openCreatePanel
    <2>1. forms.create = "closed" /\ forms' = [forms EXCEPT !.create = "clean"] /\ "clean" \in FormStates
      BY <1>1 DEF openCreatePanel, Closed, Form, FormStates
    <2> QED
      BY <1>0, <2>1 DEF Unhurried, TodoForms
  <1>2. CASE openDayView \/ closeDayView
    <2>1. PICK b \in BOOLEAN : forms' = [forms EXCEPT !.day = b]
      BY <1>2 DEF openDayView, closeDayView, Form
    <2> QED
      BY <1>0, <2>1 DEF Unhurried, TodoForms
  <1>3. CASE openEditPanel
    <2>1. PICK t \in Offered("edit") : forms' = [forms EXCEPT !.edit = "clean", !.editing = t.id, !.text = t.text]
      BY <1>3 DEF openEditPanel, Form
    <2>2. t \in ToSet(todos) /\ forms.edit = "closed" /\ "clean" \in FormStates
      BY <2>1 DEF Offered, Busy, FormStates
    <2> QED
      BY <1>0, <1>r, <2>1, <2>2 DEF Unhurried, TodoForms
  <1>4. CASE TypeAndCloseCreate
    <2>1. PICK c \in FormStates : forms.create # "sending" /\ forms' = [forms EXCEPT !.create = c]
      BY <1>4 DEF TypeAndCloseCreate, Closing, FormStates, Form
    <2> QED
      BY <1>0, <2>1 DEF Unhurried, TodoForms
  <1>5. CASE TypeAndCloseEdit
    <2>1. CASE forms.edit = "clean" /\ Form([forms EXCEPT !.edit = "dirty", !.text = 1 - @])
      <3>1. forms' = [forms EXCEPT !.edit = "dirty", !.text = 1 - forms.text]
        BY <2>1 DEF Form
      <3>2. 1 - forms.text \in {0, 1} /\ "dirty" \in FormStates
        BY <1>0 DEF FormStates
      <3> QED
        BY <1>0, <2>1, <3>1, <3>2 DEF Unhurried, TodoForms
    <2>2. CASE \E f \in Closing(forms.edit) :
                 Form([forms EXCEPT !.edit = f, !.editing = IF f = "closed" THEN 0 ELSE @,
                                    !.text = IF f = "closed" THEN 0 ELSE @])
      <3>1. PICK f \in Closing(forms.edit) :
                 forms' = [forms EXCEPT !.edit = f, !.editing = IF f = "closed" THEN 0 ELSE forms.editing,
                                        !.text = IF f = "closed" THEN 0 ELSE forms.text]
        BY <2>2 DEF Form
      <3>2. forms.edit # "sending" /\ f \in FormStates
        BY <3>1 DEF Closing, FormStates
      <3>3. PICK i \in TodoIDs \cup {0}, x \in {0, 1} :
              i \in {forms.editing, 0} /\ forms' = [forms EXCEPT !.edit = f, !.editing = i, !.text = x]
        BY <1>0, <3>1
      <3> QED
        BY <1>0, <3>2, <3>3 DEF Unhurried, TodoForms
    <2> QED
      BY <1>5, <2>1, <2>2 DEF TypeAndCloseEdit
  <1>6. CASE requestDeleteTodo
    <2>1. PICK t \in Offered("delete") : forms' = [forms EXCEPT !.target = t.id]
      BY <1>6 DEF requestDeleteTodo, Form
    <2>2. t \in ToSet(todos) /\ forms.target = 0
      BY <2>1 DEF Offered, Busy
    <2> QED
      BY <1>0, <1>r, <2>1, <2>2 DEF Unhurried, TodoForms
  <1>7. CASE cancelDeleteTodo
    <2>1. forms' = [forms EXCEPT !.target = 0] /\ ~forms.deleting
      BY <1>7 DEF cancelDeleteTodo, DeleteDialog, Form
    <2> QED
      BY <1>0, <2>1 DEF Unhurried, TodoForms
  <1> QED
    BY <1>1, <1>2, <1>3, <1>4, <1>5, <1>6, <1>7 DEF Dialog


LEMMA WriteFields ==
  ASSUME NEW w \in Write, NEW p \in {"wire", "done", "failed"}, NEW i \in TodoIDs \cup {0}
  PROVE  /\ [w EXCEPT !.phase = p] \in Write /\ [w EXCEPT !.phase = p].kind = w.kind /\ [w EXCEPT !.phase = p].id = w.id
         /\ [w EXCEPT !.phase = p].value = w.value /\ [w EXCEPT !.phase = p].phase = p
         /\ [w EXCEPT !.phase = p, !.id = i] \in Write /\ [w EXCEPT !.phase = p, !.id = i].kind = w.kind
         /\ [w EXCEPT !.phase = p, !.id = i].id = i /\ [w EXCEPT !.phase = p, !.id = i].value = w.value
         /\ [w EXCEPT !.phase = p, !.id = i].phase = p
  BY DEF Write

LEMMA WireFields ==
  ASSUME NEW k \in {"create", "toggle", "edit", "delete"}, NEW i \in TodoIDs \cup {0}, NEW v \in {0, 1}
  PROVE  /\ Wire(k, i, v) \in Write /\ Wire(k, i, v).kind = k /\ Wire(k, i, v).id = i /\ Wire(k, i, v).value = v
         /\ Wire(k, i, v).phase = "wire"
  BY DEF Wire, Write

\* The list that was read keeps its rows; the todo is now one written beside it.
Aged(id) ==
  /\ fetch' \subseteq [phase : {"wire", "read"}, got : Seq(Todo), beside : SUBSET TodoIDs]
  /\ \A q \in fetch' : q.phase = "read" =>
       \E r \in fetch : /\ r.phase = "read" /\ r.got = q.got /\ r.beside \subseteq q.beside
                        /\ id # 0 => id \in q.beside
LEMMA Ages == ASSUME TodoTypes, NEW id \in TodoIDs \cup {0}, Outdated(id) PROVE Aged(id)
  <1> DEFINE R == [phase : {"wire", "read"}, got : Seq(Todo), beside : SUBSET TodoIDs]
  <1>1. ASSUME NEW q \in fetch'
        PROVE  \E r \in fetch : /\ q \in R /\ q.phase = r.phase /\ r.got = q.got /\ r.beside \subseteq q.beside
                                /\ r.phase = "read" /\ id # 0 => id \in q.beside
    <2>1. PICK r \in fetch : q = IF r.phase = "read" /\ id # 0 THEN [r EXCEPT !.beside = r.beside \cup {id}] ELSE r
      BY DEF Outdated
    <2>2. r \in R
      BY DEF TodoTypes
    <2>3. CASE r.phase = "read" /\ id # 0
      <3>1. PICK b \in SUBSET TodoIDs : b = r.beside \cup {id}
        BY <2>2, <2>3
      <3>2. q = [r EXCEPT !.beside = b]
        BY <2>1, <2>3, <3>1
      <3>3. q \in R /\ q.phase = r.phase /\ q.got = r.got /\ q.beside = b
        BY <2>2, <3>2
      <3> QED
        BY <2>3, <3>1, <3>3
    <2>4. CASE ~(r.phase = "read" /\ id # 0)
      BY <2>1, <2>2, <2>4
    <2> QED
      BY <2>3, <2>4
  <1>2. \A q \in fetch' : q \in R
    BY <1>1
  <1>3. ASSUME NEW q \in fetch', q.phase = "read"
        PROVE  \E r \in fetch : /\ r.phase = "read" /\ r.got = q.got /\ r.beside \subseteq q.beside
                                /\ id # 0 => id \in q.beside
    BY <1>1, <1>3
  <1> QED
    BY <1>2, <1>3 DEF Aged

\* One write is sent: the form of its kind is then busy with it.
Sent(w) ==
  /\ w.phase = "wire" /\ writes' = writes \cup {w} /\ Outdated(w.id)
  /\ UNCHANGED <<stored, issued, doubt>>
LEMMA Sends ==
  ASSUME TodoTypes, handleToggleDone \/ handleCreateTodo \/ handleUpdateTodoContent \/ confirmDeleteTodo
  PROVE  \E w \in Write :
           /\ Sent(w)
           /\ \/ /\ w.kind = "toggle" /\ w.id # 0 /\ UNCHANGED forms /\ w.id \in ShownIDs
                 /\ w.id \notin pendingToggleIDs /\ todos' = Marked(todos, w.id, w.value)
                 /\ \E t \in ToSet(todos) : t.id = w.id /\ w.value = 1 - t.done
              \/ /\ w.kind = "create" /\ w.id = 0 /\ forms.create = "dirty" /\ forms' = [forms EXCEPT !.create = "sending"]
                 /\ UNCHANGED todos
              \/ /\ w.kind = "edit" /\ w.id = forms.editing /\ forms.edit = "dirty" /\ forms' = [forms EXCEPT !.edit = "sending"]
                 /\ UNCHANGED todos
              \/ /\ w.kind = "delete" /\ w.id = forms.target /\ w.id # 0 /\ ~forms.deleting
                 /\ forms' = [forms EXCEPT !.deleting = TRUE] /\ UNCHANGED todos
  <1>1. CASE handleToggleDone
    <2>1. PICK t \in ToSet(todos) :
            /\ t.id \notin pendingToggleIDs
            /\ todos' = Mapped(todos, t.id, LAMBDA x : [x EXCEPT !.done = 1 - t.done])
            /\ send(Wire("toggle", t.id, 1 - t.done))
      BY <1>1 DEF handleToggleDone, Offered, mayToggle
    <2>2. t.id \in TodoIDs /\ t.done \in {0, 1} /\ t.id \in ShownIDs
      BY ShownTodos
    <2>3. t.id # 0 /\ 1 - t.done \in {0, 1} /\ t.id \in TodoIDs \cup {0}
      BY <2>2 DEF TodoIDs
    <2> DEFINE w == Wire("toggle", t.id, 1 - t.done)
    <2>4. w \in Write /\ w.kind = "toggle" /\ w.id = t.id /\ w.value = 1 - t.done /\ w.phase = "wire"
      BY <2>3, WireFields
    <2>5. todos' = Marked(todos, t.id, 1 - t.done)
      BY <2>1, Mappings DEF TodoTypes
    <2>6. writes' = writes \cup {w} /\ Outdated(w.id) /\ UNCHANGED <<stored, issued, doubt, forms>>
      BY <1>1, <2>1 DEF send, handleToggleDone
    <2> HIDE DEF w
    <2> QED
      BY <2>1, <2>2, <2>3, <2>4, <2>5, <2>6 DEF Sent
  <1>2. CASE handleCreateTodo
    <2>1. Wire("create", 0, 0) \in Write /\ Wire("create", 0, 0).kind = "create" /\ Wire("create", 0, 0).id = 0
          /\ Wire("create", 0, 0).phase = "wire"
      BY WireFields
    <2>2. Sent(Wire("create", 0, 0)) /\ forms.create = "dirty" /\ forms' = [forms EXCEPT !.create = "sending"] /\ UNCHANGED todos
      BY <1>2, <2>1 DEF handleCreateTodo, send, Sent
    <2> QED
      BY <2>1, <2>2
  <1>3. CASE handleUpdateTodoContent
    <2>1. forms.editing \in TodoIDs \cup {0} /\ forms.text \in {0, 1}
      BY DEF TodoTypes, TodoForms
    <2> DEFINE w == Wire("edit", forms.editing, forms.text)
    <2>2. w \in Write /\ w.kind = "edit" /\ w.id = forms.editing /\ w.phase = "wire"
      BY <2>1, WireFields
    <2>3. writes' = writes \cup {w} /\ Outdated(w.id) /\ UNCHANGED <<stored, issued, doubt, todos>>
          /\ forms.edit = "dirty" /\ forms' = [forms EXCEPT !.edit = "sending"]
      BY <1>3 DEF handleUpdateTodoContent, send
    <2> HIDE DEF w
    <2> QED
      BY <2>2, <2>3 DEF Sent
  <1>4. CASE confirmDeleteTodo
    <2>1. forms.target \in TodoIDs \cup {0}
      BY DEF TodoTypes, TodoForms
    <2> DEFINE w == Wire("delete", forms.target, 0)
    <2>2. w \in Write /\ w.kind = "delete" /\ w.id = forms.target /\ w.phase = "wire"
      BY <2>1, WireFields
    <2>3. writes' = writes \cup {w} /\ Outdated(w.id) /\ UNCHANGED <<stored, issued, doubt, todos>>
          /\ forms.target # 0 /\ ~forms.deleting /\ forms' = [forms EXCEPT !.deleting = TRUE]
      BY <1>4 DEF confirmDeleteTodo, send, DeleteDialog
    <2> HIDE DEF w
    <2> QED
      BY <2>2, <2>3 DEF Sent
  <1> QED
    BY <1>1, <1>2, <1>3, <1>4

\* The server carries out a write, or refuses it.
Shifted(t, w) == IF t.id # w.id THEN t ELSE IF w.kind = "toggle" THEN [t EXCEPT !.done = w.value] ELSE [t EXCEPT !.text = w.value]
Carried(w) ==
  \/ /\ w.kind = "create" /\ issued + 1 \in TodoIDs /\ issued' = issued + 1
     /\ stored' = stored \cup {[id |-> issued + 1, done |-> 0, text |-> w.value]}
     /\ writes' = (writes \ {w}) \cup {[w EXCEPT !.phase = "done", !.id = issued + 1]} /\ Outdated(issued + 1)
  \/ /\ w.kind \in {"toggle", "edit"} /\ UNCHANGED issued
     /\ stored' = {Shifted(t, w) : t \in stored} /\ writes' = (writes \ {w}) \cup {[w EXCEPT !.phase = "done"]}
     /\ Outdated(0)
  \/ /\ w.kind = "delete" /\ UNCHANGED issued
     /\ stored' = {t \in stored : t.id # w.id} /\ writes' = (writes \ {w}) \cup {[w EXCEPT !.phase = "done"]}
     /\ Outdated(0)
Refused(w) == UNCHANGED <<fetch, stored, issued>> /\ writes' = (writes \ {w}) \cup {[w EXCEPT !.phase = "failed"]}
LEMMA Carries ==
  ASSUME MaxTodos \in Nat, TodoTypes, ServerWrites
  PROVE  \E w \in writes : w \in Write /\ w.phase = "wire" /\ (Carried(w) \/ Refused(w)) /\ UNCHANGED <<todos, forms, doubt>>
  <1>1. PICK w \in writes :
    /\ w.phase = "wire"
    /\ \/ /\ IF w.kind = "create" THEN issued < MaxTodos ELSE \E t \in stored : t.id = w.id
          /\ stored' = Stores(w)
          /\ issued' = IF w.kind = "create" THEN issued + 1 ELSE issued
          /\ writes' = (writes \ {w}) \cup
               {[w EXCEPT !.phase = "done", !.id = IF w.kind = "create" THEN issued + 1 ELSE w.id]}
          /\ Outdated(IF w.kind = "create" THEN issued + 1 ELSE 0)
       \/ Refused(w)
    BY DEF ServerWrites, Refused
  <1>2. w \in Write /\ w.kind \in {"create", "toggle", "edit", "delete"}
    BY DEF TodoTypes, Write
  <1>3. UNCHANGED <<todos, forms, doubt>>
    BY DEF ServerWrites
  <1>4. w.kind # "create" => [w EXCEPT !.phase = "done", !.id = w.id] = [w EXCEPT !.phase = "done"]
    BY <1>2 DEF Write
  <1>5. w.kind = "create" /\ issued < MaxTodos => issued + 1 \in TodoIDs
    BY DEF TodoTypes, TodoIDs
  <1>6. CASE Refused(w)
    BY <1>1, <1>2, <1>3, <1>6
  <1>7. CASE ~Refused(w)
    <2>1. CASE w.kind = "create"
      BY <1>1, <1>2, <1>3, <1>5, <1>7, <2>1 DEF Carried, Stores
    <2>2. CASE w.kind = "toggle"
      <3>1. stored' = {Shifted(t, w) : t \in stored}
        BY <1>1, <1>7, <2>2 DEF Stores, Shifted
      <3> QED
        BY <1>1, <1>2, <1>3, <1>4, <1>7, <2>2, <3>1 DEF Carried
    <2>3. CASE w.kind = "edit"
      <3>1. stored' = {Shifted(t, w) : t \in stored}
        BY <1>1, <1>7, <2>3 DEF Stores, Shifted
      <3> QED
        BY <1>1, <1>2, <1>3, <1>4, <1>7, <2>3, <3>1 DEF Carried
    <2>4. CASE w.kind = "delete"
      BY <1>1, <1>2, <1>3, <1>4, <1>7, <2>4 DEF Carried, Stores
    <2> QED
      BY <1>2, <2>1, <2>2, <2>3, <2>4
  <1> QED
    BY <1>6, <1>7


\* What happens to the requests for the list, and to the answers.
LEMMA Fetches ==
  ASSUME TodosFail \/ retryTodos \/ navigateToMonth \/ handleCalendarScroll
  PROVE  /\ UNCHANGED <<todos, forms, writes, stored, issued, doubt>>
         /\ \A r \in fetch' : r \in fetch \/ (r.phase = "wire" /\ r \in [phase : {"wire"}, got : {<<>>}, beside : {{}}])
  <1>1. UNCHANGED <<todos, forms, writes, stored, issued, doubt>>
    BY DEF TodosFail, retryTodos, navigateToMonth, handleCalendarScroll
  <1>2. fetch' \in {{}, fetch, {[phase |-> "wire", got |-> <<>>, beside |-> {}]}}
    BY DEF TodosFail, retryTodos, navigateToMonth, handleCalendarScroll, fetchStarted, NewFetch
  <1> QED
    BY <1>1, <1>2

LEMMA Given ==
  ASSUME NEW id
  PROVE  todos \in Seq(Todo) => /\ Without(todos, id) \in Seq(Todo)
                                /\ ToSet(Without(todos, id)) = {t \in ToSet(todos) : t.id # id}
                                /\ IsInjective(todos) => IsInjective(Without(todos, id))
  <1> SUFFICES ASSUME todos \in Seq(Todo)
               PROVE  /\ Without(todos, id) \in Seq(Todo)
                      /\ ToSet(Without(todos, id)) = {t \in ToSet(todos) : t.id # id}
                      /\ IsInjective(todos) => IsInjective(Without(todos, id))
    OBVIOUS
  <1> DEFINE S == {t \in ToSet(todos) : t.id # id}
  <1>1. ToSet(todos) \cap S = S
    OBVIOUS
  <1> HIDE DEF S
  <1>2. /\ Within(todos, S) \in Seq(Todo) /\ ToSet(Within(todos, S)) = ToSet(todos) \cap S
        /\ IsInjective(todos) => IsInjective(Within(todos, S))
    BY WithinKeeps
  <1> QED
    BY <1>1, <1>2 DEF S, Without

LEMMA TodoTypesStep ==
  ASSUME MaxTodos \in Nat, TodoTypes, StoredKnown, [TodoNext]_todoVars PROVE TodoTypes'
  <1>1. CASE Dialog
    BY <1>1, Dialogs DEF TodoTypes, Unhurried
  <1>2. CASE handleToggleDone \/ handleCreateTodo \/ handleUpdateTodoContent \/ confirmDeleteTodo
    <2>1. PICK w \in Write :
           /\ Sent(w)
           /\ \/ todos' = Marked(todos, w.id, w.value) /\ UNCHANGED forms
              \/ UNCHANGED todos /\ forms' \in {[forms EXCEPT !.create = "sending"], [forms EXCEPT !.edit = "sending"],
                                               [forms EXCEPT !.deleting = TRUE]}
      BY <1>2, Sends
    <2>2. forms' \in TodoForms
      BY <2>1 DEF TodoTypes, TodoForms, FormStates
    <2>3. todos' \in Seq(Todo)
      <3>1. w.value \in {0, 1} /\ todos \in Seq(Todo)
        BY DEF Write, TodoTypes
      <3> QED
        BY <2>1, <3>1, MarkedRows
    <2>4. Aged(w.id)
      BY <2>1, Ages DEF Sent, Write
    <2>5. \A v \in writes' : v.kind = "create" /\ v.phase = "done" => v.id \in TodoIDs
      BY <2>1 DEF Sent, TodoTypes
    <2> QED
      BY <2>1, <2>2, <2>3, <2>4, <2>5 DEF Sent, Aged, TodoTypes
  <1>3. CASE ReadTodos
    <2>1. fetch' = {[phase |-> "read", got |-> SetToSeq(stored), beside |-> {w.id : w \in writes} \ {0}]}
          /\ UNCHANGED <<todos, forms, writes, stored, issued, doubt>>
      BY <1>3 DEF ReadTodos
    <2>2. SetToSeq(stored) \in Seq(stored) /\ stored \subseteq Todo
      BY StoredFinite, OneOfEach DEF TodoTypes
    <2>3. SetToSeq(stored) \in Seq(Todo)
      BY <2>2
    <2>4. {w.id : w \in writes} \ {0} \subseteq TodoIDs
      BY DEF TodoTypes, Write
    <2> QED
      BY <2>1, <2>3, <2>4 DEF TodoTypes
  <1>4. CASE TodosAnswer
    BY <1>4 DEF TodosAnswer, TodoTypes
  <1>5. CASE TodosFail \/ retryTodos \/ navigateToMonth \/ handleCalendarScroll
    <2>1. <<>> \in Seq(Todo)
      OBVIOUS
    <2> QED
      BY <1>5, <2>1, Fetches DEF TodoTypes
  <1>6. CASE ServerWrites
    <2>1. PICK w \in writes : /\ w \in Write /\ (Carried(w) \/ Refused(w)) /\ UNCHANGED <<todos, forms, doubt>>
      BY <1>6, Carries
    <2>2. w.value \in {0, 1} /\ (w.kind = "create" => issued + 1 \in Nat)
      BY <2>1 DEF Write, TodoTypes
    <2>3. issued' \in Nat
      BY <2>1, <2>2 DEF Carried, Refused, TodoTypes
    <2>4. stored' \subseteq Todo
      <3>1. CASE w.kind = "create" /\ Carried(w)
        <4>1. [id |-> issued + 1, done |-> 0, text |-> w.value] \in Todo
          BY <2>2, <3>1 DEF Carried, Todo
        <4> QED
          BY <3>1, <4>1 DEF Carried, TodoTypes
      <3>2. CASE w.kind \in {"toggle", "edit"} /\ Carried(w)
        <4>1. ASSUME NEW t \in stored PROVE Shifted(t, w) \in Todo
          BY <2>2, TodoFields DEF Shifted, TodoTypes
        <4> QED
          BY <3>2, <4>1 DEF Carried
      <3>3. CASE Refused(w) \/ (w.kind = "delete" /\ Carried(w))
        BY <3>3 DEF Refused, Carried, TodoTypes
      <3> QED
        BY <2>1, <3>1, <3>2, <3>3 DEF Carried
    <2>5. PICK v \in Write : writes' = (writes \ {w}) \cup {v} /\ (v.kind = "create" /\ v.phase = "done" => v.id \in TodoIDs)
      <3>1. CASE Refused(w)
        <4>1. [w EXCEPT !.phase = "failed"] \in Write /\ [w EXCEPT !.phase = "failed"].phase = "failed"
          BY <2>1 DEF Write
        <4> QED
          BY <3>1, <4>1 DEF Refused
      <3>2. CASE Carried(w) /\ w.kind = "create"
        <4>1. issued + 1 \in TodoIDs
          BY <3>2 DEF Carried
        <4>2. [w EXCEPT !.phase = "done", !.id = issued + 1] \in Write /\ [w EXCEPT !.phase = "done", !.id = issued + 1].id = issued + 1
          <5>1. PICK i \in TodoIDs \cup {0} : i = issued + 1
            BY <4>1
          <5>2. [w EXCEPT !.phase = "done", !.id = i] \in Write /\ [w EXCEPT !.phase = "done", !.id = i].id = i
            BY <2>1 DEF Write
          <5> QED
            BY Zenon, <5>1, <5>2
        <4> QED
          BY <3>2, <4>1, <4>2 DEF Carried
      <3>3. CASE Carried(w) /\ w.kind # "create"
        <4>1. [w EXCEPT !.phase = "done"] \in Write /\ [w EXCEPT !.phase = "done"].kind = w.kind
          BY <2>1 DEF Write
        <4> QED
          BY <3>3, <4>1 DEF Carried
      <3> QED
        BY <2>1, <3>1, <3>2, <3>3
    <2>6. fetch' = fetch \/ \E id \in TodoIDs \cup {0} : Aged(id)
      BY <2>1, Ages DEF Carried, Refused
    <2>7. fetch' \subseteq [phase : {"wire", "read"}, got : Seq(Todo), beside : SUBSET TodoIDs]
      BY <2>6 DEF Aged, TodoTypes
    <2> QED
      BY <2>1, <2>3, <2>4, <2>5, <2>7 DEF TodoTypes
  <1>7. CASE AnswerLost
    <2>1. PICK w \in writes : w.phase = "done" /\ writes' = (writes \ {w}) \cup {[w EXCEPT !.phase = "failed"]}
                              /\ doubt' = doubt \cup {w.id}
      BY <1>7 DEF AnswerLost
    <2>2. [w EXCEPT !.phase = "failed"] \in Write /\ [w EXCEPT !.phase = "failed"].phase = "failed"
      BY DEF TodoTypes, Write
    <2>3. w.id \in TodoIDs \cup {0}
      BY DEF TodoTypes, Write
    <2> QED
      BY <1>7, <2>1, <2>2, <2>3 DEF AnswerLost, TodoTypes
  <1>8. CASE ToggleAnswer
    <2>1. PICK w \in writes : /\ writes' = writes \ {w}
                              /\ todos' = IF w.phase = "done" THEN todos
                                          ELSE Mapped(todos, w.id, LAMBDA x : [x EXCEPT !.done = 1 - w.value])
      BY <1>8 DEF ToggleAnswer
    <2>2. 1 - w.value \in {0, 1} /\ todos \in Seq(Todo)
      BY DEF TodoTypes, Write
    <2>3. todos' \in Seq(Todo)
      <3>1. todos' \in {todos, Marked(todos, w.id, 1 - w.value)}
        BY <2>1, <2>2, Mappings
      <3> QED
        BY <2>2, <3>1, MarkedRows
    <2> QED
      BY <1>8, <2>1, <2>3 DEF ToggleAnswer, TodoTypes
  <1>9. CASE CreateAnswer
    <2>1. PICK w \in writes : /\ w.kind = "create" /\ writes' = writes \ {w}
                              /\ \/ /\ w.phase = "done" /\ todos' = Append(todos, [id |-> w.id, done |-> 0, text |-> w.value])
                                    /\ forms' = [forms EXCEPT !.create = "closed"]
                                 \/ /\ UNCHANGED todos
                                    /\ forms' = [forms EXCEPT !.create = IF forms.create = "sending" THEN "dirty" ELSE forms.create]
      BY <1>9 DEF CreateAnswer
    <2>2. todos \in Seq(Todo) /\ (w.phase = "done" => w.id \in TodoIDs) /\ w.value \in {0, 1}
      BY <2>1 DEF TodoTypes, Write
    <2>3. w.phase = "done" => [id |-> w.id, done |-> 0, text |-> w.value] \in Todo
      BY <2>2 DEF Todo
    <2>4. todos' \in Seq(Todo)
      BY <2>1, <2>2, <2>3
    <2>5. forms' \in TodoForms
      BY <2>1 DEF TodoTypes, TodoForms, FormStates
    <2> QED
      BY <1>9, <2>1, <2>4, <2>5 DEF CreateAnswer, TodoTypes
  <1>10. CASE UpdateAnswer
    <2>1. PICK w \in writes : /\ writes' = writes \ {w}
                              /\ \/ /\ todos' = Mapped(todos, w.id, LAMBDA x : [x EXCEPT !.text = w.value])
                                    /\ forms' = [forms EXCEPT !.edit = "closed", !.editing = 0, !.text = 0]
                                 \/ /\ UNCHANGED todos
                                    /\ forms' = [forms EXCEPT !.edit = IF forms.edit = "sending" THEN "dirty" ELSE forms.edit]
      BY <1>10 DEF UpdateAnswer
    <2>2. w.value \in {0, 1} /\ todos \in Seq(Todo)
      BY DEF TodoTypes, Write
    <2>3. todos' \in Seq(Todo)
      <3>1. todos' \in {todos, Worded(todos, w.id, w.value)}
        BY <2>1, <2>2, Mappings
      <3> QED
        BY <2>2, <3>1, WordedRows
    <2>5. forms' \in TodoForms
      BY <2>1 DEF TodoTypes, TodoForms, FormStates
    <2> QED
      BY <1>10, <2>1, <2>3, <2>5 DEF UpdateAnswer, TodoTypes
  <1>11. CASE DeleteAnswer
    <2>1. PICK w \in writes : /\ writes' = writes \ {w}
                              /\ todos' \in {todos, Without(todos, w.id)}
                              /\ forms' \in {[forms EXCEPT !.target = 0, !.deleting = FALSE], [forms EXCEPT !.deleting = FALSE]}
      BY <1>11 DEF DeleteAnswer
    <2>3. todos' \in Seq(Todo)
      BY <2>1, Given DEF TodoTypes
    <2>5. forms' \in TodoForms
      BY <2>1 DEF TodoTypes, TodoForms, FormStates
    <2> QED
      BY <1>11, <2>1, <2>3, <2>5 DEF DeleteAnswer, TodoTypes
  <1>12. CASE UNCHANGED todoVars
    BY <1>12 DEF todoVars, TodoTypes
  <1> QED
    BY <1>1, <1>2, <1>3, <1>4, <1>5, <1>6, <1>7, <1>8, <1>9, <1>10, <1>11, <1>12
    DEF TodoNext, TodoAnswers, TodoUse, Dialog


\* A todo is stored once, with an id that was issued.
LEMMA StoredStep ==
  ASSUME MaxTodos \in Nat, TodoTypes, StoredKnown, [TodoNext]_todoVars PROVE StoredKnown'
  <1>1. CASE ServerWrites
    <2>1. PICK w \in writes : w \in Write /\ (Carried(w) \/ Refused(w))
      BY <1>1, Carries
    <2>2. CASE Refused(w)
      BY <2>2 DEF Refused, StoredKnown
    <2>3. CASE Carried(w) /\ w.kind = "create"
      <3>1. \A s \in stored : s.id \in Int /\ s.id <= issued
        BY DEF TodoTypes, Todo, TodoIDs, StoredKnown
      <3>2. \A s \in stored' : s \in stored \/ s = [id |-> issued + 1, done |-> 0, text |-> w.value]
        BY <2>3 DEF Carried
      <3>3. \A s \in stored' : s \in stored \/ s.id = issued + 1
        BY <3>2
      <3>4. issued' = issued + 1 /\ issued \in Nat
        BY <2>3 DEF Carried, TodoTypes
      <3>5. \A s \in stored : s.id <= issued + 1 /\ s.id # issued + 1
        BY <3>1, <3>4
      <3> QED
        BY <3>2, <3>3, <3>4, <3>5 DEF StoredKnown
    <2>4. CASE Carried(w) /\ w.kind \in {"toggle", "edit"}
      <3>1. \A t \in stored : Shifted(t, w).id = t.id
        <4>1. w.value \in {0, 1} /\ stored \subseteq Todo
          BY <2>1 DEF Write, TodoTypes
        <4> QED
          BY <4>1, TodoFields DEF Shifted
      <3>2. stored' = {Shifted(t, w) : t \in stored} /\ issued' = issued
        BY <2>4 DEF Carried
      <3> QED
        BY <3>1, <3>2 DEF StoredKnown
    <2>5. CASE Carried(w) /\ w.kind = "delete"
      BY <2>5 DEF Carried, StoredKnown
    <2> QED
      BY <2>1, <2>2, <2>3, <2>4, <2>5 DEF Carried
  <1>2. CASE UNCHANGED <<stored, issued>>
    BY <1>2 DEF StoredKnown
  <1>3. CASE Dialog
    BY <1>2, <1>3, Dialogs
  <1>4. CASE handleToggleDone \/ handleCreateTodo \/ handleUpdateTodoContent \/ confirmDeleteTodo
    BY <1>2, <1>4, Sends DEF Sent
  <1> QED
    BY <1>1, <1>2, <1>3, <1>4, Fetches DEF TodoNext, TodoAnswers, TodoUse, Dialog, ReadTodos, TodosAnswer, AnswerLost,
       ToggleAnswer, CreateAnswer, UpdateAnswer, DeleteAnswer, todoVars

\* An answer ends its write, and only the form of its kind follows.
LEMMA Ends ==
  ASSUME TodoTypes, ToggleAnswer \/ CreateAnswer \/ UpdateAnswer \/ DeleteAnswer
  PROVE  \E w \in writes :
           /\ w \in Write /\ w.phase # "wire" /\ writes' = writes \ {w} /\ UNCHANGED <<fetch, stored, issued, doubt>>
           /\ \/ /\ w.kind = "toggle" /\ UNCHANGED forms
                 /\ todos' = IF w.phase = "done" THEN todos ELSE Marked(todos, w.id, 1 - w.value)
              \/ /\ w.kind = "create" /\ forms'.edit = forms.edit /\ forms'.editing = forms.editing
                 /\ forms'.target = forms.target /\ forms'.deleting = forms.deleting
                 /\ IF w.phase = "done" THEN todos' = Append(todos, [id |-> w.id, done |-> 0, text |-> w.value])
                    ELSE UNCHANGED todos
              \/ /\ w.kind = "edit" /\ forms'.create = forms.create /\ forms'.editing \in {forms.editing, 0}
                 /\ forms'.target = forms.target /\ forms'.deleting = forms.deleting
                 /\ todos' = IF w.phase = "done" THEN Worded(todos, w.id, w.value) ELSE todos
              \/ /\ w.kind = "delete" /\ forms'.create = forms.create /\ forms'.editing = forms.editing
                 /\ forms'.edit = forms.edit /\ forms'.target \in {forms.target, 0}
                 /\ todos' = IF w.phase = "done" THEN Without(todos, w.id) ELSE todos
  <1>f. forms \in TodoForms
    BY DEF TodoTypes
  <1>1. CASE ToggleAnswer
    <2>1. PICK w \in writes : /\ w.kind = "toggle" /\ w.phase # "wire" /\ writes' = writes \ {w}
                              /\ todos' = IF w.phase = "done" THEN todos
                                          ELSE Mapped(todos, w.id, LAMBDA x : [x EXCEPT !.done = 1 - w.value])
      BY <1>1 DEF ToggleAnswer
    <2>2. w \in Write /\ todos \in Seq(Todo) /\ UNCHANGED <<forms, fetch, stored, issued, doubt>>
      BY <1>1 DEF TodoTypes, ToggleAnswer
    <2>3. todos' = IF w.phase = "done" THEN todos ELSE Marked(todos, w.id, 1 - w.value)
      BY <2>1, <2>2, Mappings
    <2> QED
      BY <2>1, <2>2, <2>3
  <1>2. CASE CreateAnswer
    <2>1. PICK w \in writes : /\ w.kind = "create" /\ w.phase # "wire" /\ writes' = writes \ {w}
                              /\ \E c \in FormStates : forms' = [forms EXCEPT !.create = c]
                              /\ IF w.phase = "done" THEN todos' = Append(todos, [id |-> w.id, done |-> 0, text |-> w.value])
                                 ELSE UNCHANGED todos
      BY <1>f, <1>2 DEF CreateAnswer, TodoForms, FormStates
    <2>2. w \in Write /\ UNCHANGED <<fetch, stored, issued, doubt>>
      BY <1>2 DEF TodoTypes, CreateAnswer
    <2>3. forms'.edit = forms.edit /\ forms'.editing = forms.editing /\ forms'.target = forms.target /\ forms'.deleting = forms.deleting
      BY <1>f, <2>1 DEF TodoForms
    <2> QED
      BY <2>1, <2>2, <2>3
  <1>3. CASE UpdateAnswer
    <2>1. PICK w \in writes : /\ w.kind = "edit" /\ w.phase # "wire" /\ writes' = writes \ {w}
                              /\ \/ forms' = [forms EXCEPT !.edit = "closed", !.editing = 0, !.text = 0]
                                 \/ \E c \in FormStates : forms' = [forms EXCEPT !.edit = c]
                              /\ todos' = IF w.phase = "done" THEN Mapped(todos, w.id, LAMBDA x : [x EXCEPT !.text = w.value])
                                          ELSE todos
      BY <1>f, <1>3 DEF UpdateAnswer, TodoForms, FormStates
    <2>2. w \in Write /\ todos \in Seq(Todo) /\ UNCHANGED <<fetch, stored, issued, doubt>>
      BY <1>3 DEF TodoTypes, UpdateAnswer
    <2>3. forms'.create = forms.create /\ forms'.editing \in {forms.editing, 0} /\ forms'.target = forms.target
          /\ forms'.deleting = forms.deleting
      BY <1>f, <2>1 DEF TodoForms
    <2>4. todos' = IF w.phase = "done" THEN Worded(todos, w.id, w.value) ELSE todos
      BY <2>1, <2>2, Mappings
    <2> QED
      BY <2>1, <2>2, <2>3, <2>4
  <1>4. CASE DeleteAnswer
    <2>1. PICK w \in writes : /\ w.kind = "delete" /\ w.phase # "wire" /\ writes' = writes \ {w}
                              /\ \/ forms' = [forms EXCEPT !.target = 0, !.deleting = FALSE]
                                 \/ forms' = [forms EXCEPT !.deleting = FALSE]
                              /\ todos' = IF w.phase = "done" THEN Without(todos, w.id) ELSE todos
      BY <1>4 DEF DeleteAnswer
    <2>2. w \in Write /\ UNCHANGED <<fetch, stored, issued, doubt>>
      BY <1>4 DEF TodoTypes, DeleteAnswer
    <2>3. forms'.create = forms.create /\ forms'.editing = forms.editing /\ forms'.edit = forms.edit
          /\ forms'.target \in {forms.target, 0}
      BY <1>f, <2>1 DEF TodoForms
    <2> QED
      BY <2>1, <2>2, <2>3
  <1> QED
    BY <1>1, <1>2, <1>3, <1>4


\* One write of a kind is under way, and its form is there until it ends.
LEMMA OneWriteStep ==
  ASSUME MaxTodos \in Nat, TodoTypes, OneWrite, FormSurvives, [TodoNext]_todoVars PROVE OneWrite' /\ FormSurvives'
  <1>0. forms.target \in TodoIDs \cup {0} /\ \A w \in writes : w \in Write
    BY DEF TodoTypes, TodoForms
  <1>1. CASE Dialog
    <2>1. Unhurried /\ UNCHANGED writes
      BY <1>1, Dialogs
    <2> QED
      BY <2>1 DEF Unhurried, OneWrite, FormSurvives
  <1>2. CASE handleToggleDone \/ handleCreateTodo \/ handleUpdateTodoContent \/ confirmDeleteTodo
    <2>1. PICK w \in Write :
           /\ writes' = writes \cup {w}
           /\ \/ /\ w.kind = "toggle" /\ UNCHANGED forms
                 /\ w.id \notin pendingToggleIDs
              \/ /\ w.kind = "create" /\ w.id = 0 /\ forms.create = "dirty" /\ forms' = [forms EXCEPT !.create = "sending"]
              \/ /\ w.kind = "edit" /\ w.id = forms.editing /\ forms.edit = "dirty" /\ forms' = [forms EXCEPT !.edit = "sending"]
              \/ /\ w.kind = "delete" /\ w.id = forms.target /\ w.id # 0 /\ ~forms.deleting
                 /\ forms' = [forms EXCEPT !.deleting = TRUE]
      BY <1>2, Sends DEF Sent
    <2>2. /\ w.kind = "create" => forms'.create = "sending"
          /\ w.kind # "create" => forms'.create = forms.create
          /\ w.kind = "edit" => forms'.edit = "sending"
          /\ w.kind # "edit" => forms'.edit = forms.edit
          /\ w.kind = "delete" => forms'.deleting
          /\ w.kind # "delete" => forms'.deleting = forms.deleting
          /\ forms'.editing = forms.editing /\ forms'.target = forms.target
      BY <2>1 DEF TodoTypes, TodoForms
    <2>3. \A v \in writes : v.kind = w.kind => w.kind = "toggle" /\ v.id # w.id
      BY <2>1 DEF FormSurvives, pendingToggleIDs
    <2>4. OneWrite'
      BY <2>1, <2>3 DEF OneWrite
    <2>5. FormSurvives'
      BY <2>1, <2>2 DEF FormSurvives
    <2> QED
      BY <2>4, <2>5
  <1>3. CASE ServerWrites \/ AnswerLost
    <2>0. PICK w \in writes : \E v : writes' = (writes \ {w}) \cup {v} /\ v.kind = w.kind /\ (w.kind # "create" => v.id = w.id)
      <3>1. CASE ServerWrites
        <4>1. PICK w \in writes : w \in Write /\ (Carried(w) \/ Refused(w))
          BY <3>1, Carries
        <4>2. CASE Refused(w)
          <5>1. [w EXCEPT !.phase = "failed"].kind = w.kind /\ [w EXCEPT !.phase = "failed"].id = w.id
            BY <4>1 DEF Write
          <5> QED
            BY <4>2, <5>1 DEF Refused
        <4>3. CASE Carried(w) /\ w.kind = "create"
          <5>1. [w EXCEPT !.phase = "done", !.id = issued + 1].kind = w.kind
            BY <4>1 DEF Write
          <5> QED
            BY <4>3, <5>1 DEF Carried
        <4>4. CASE Carried(w) /\ w.kind # "create"
          <5>1. [w EXCEPT !.phase = "done"].kind = w.kind /\ [w EXCEPT !.phase = "done"].id = w.id
            BY <4>1 DEF Write
          <5> QED
            BY <4>4, <5>1 DEF Carried
        <4> QED
          BY <4>1, <4>2, <4>3, <4>4
      <3>2. CASE AnswerLost
        <4>1. PICK w \in writes : writes' = (writes \ {w}) \cup {[w EXCEPT !.phase = "failed"]}
          BY <3>2 DEF AnswerLost
        <4>2. [w EXCEPT !.phase = "failed"].kind = w.kind /\ [w EXCEPT !.phase = "failed"].id = w.id
          BY <1>0 DEF Write
        <4> QED
          BY <4>1, <4>2
      <3> QED
        BY <1>3, <3>1, <3>2
    <2>1. PICK v : writes' = (writes \ {w}) \cup {v} /\ v.kind = w.kind /\ (w.kind # "create" => v.id = w.id)
      BY <2>0
    <2>2. UNCHANGED forms
      BY <1>3 DEF ServerWrites, AnswerLost
    <2>3. OneWrite'
      BY <2>1 DEF OneWrite
    <2>4. FormSurvives'
      BY <2>1, <2>2 DEF FormSurvives
    <2> QED
      BY <2>3, <2>4
  <1>4. CASE ToggleAnswer \/ CreateAnswer \/ UpdateAnswer \/ DeleteAnswer
    <2>1. PICK w \in writes :
           /\ writes' = writes \ {w}
           /\ \/ w.kind = "toggle" /\ UNCHANGED forms
              \/ /\ w.kind = "create" /\ forms'.edit = forms.edit /\ forms'.editing = forms.editing
                 /\ forms'.target = forms.target /\ forms'.deleting = forms.deleting
              \/ /\ w.kind = "edit" /\ forms'.create = forms.create
                 /\ forms'.target = forms.target /\ forms'.deleting = forms.deleting
              \/ /\ w.kind = "delete" /\ forms'.create = forms.create /\ forms'.editing = forms.editing
                 /\ forms'.edit = forms.edit
      BY <1>4, Ends
    <2>2. \A v \in writes' : v \in writes /\ (v.kind = w.kind => w.kind = "toggle")
      BY <2>1 DEF OneWrite
    <2>3. OneWrite'
      BY <2>1 DEF OneWrite
    <2>4. FormSurvives'
      BY <2>1, <2>2 DEF FormSurvives
    <2> QED
      BY <2>3, <2>4
  <1>5. CASE UNCHANGED <<writes, forms>>
    BY <1>5 DEF OneWrite, FormSurvives
  <1> QED
    BY <1>1, <1>2, <1>3, <1>4, <1>5, Fetches DEF TodoNext, TodoAnswers, TodoUse, Dialog, ReadTodos, TodosAnswer, todoVars


\* How far the list may be from what is stored, by the writes under way; of the
\* todos in doubt nothing is said but that their ids are known.
Shown == ToSet(todos)
Created(w) == w.kind = "create" /\ w.phase = "done"
Deleted(w) == w.kind = "delete" /\ w.phase = "done"
Reworded(w) == w.kind = "edit" /\ w.phase = "done"
OnceBut(q, D) == \A i, j \in DOMAIN q : q[i].id = q[j].id /\ q[i].id \notin D => i = j
Once(q) == OnceBut(q, {})
\* A list that was read has the rows of every todo not written beside it.
RowsRead(r) ==
  /\ Once(r.got) /\ (\A t \in ToSet(r.got) : t.id <= issued)
  /\ \A w \in writes : w.id \in r.beside \cup {0}
  /\ \A t \in ToSet(r.got) : t.id \in r.beside \/ t \in stored
  /\ \A s \in stored : s.id \in r.beside \/ s \in ToSet(r.got)
ReadSound == \A r \in fetch : r.phase = "read" => RowsRead(r)
IdsKnown ==
  /\ OnceBut(todos, doubt) /\ \A t \in Shown : t.id <= issued
  /\ forms.target <= issued /\ forms.editing <= issued /\ \A w \in writes : w.id <= issued
CreatedApart ==
  \A w \in writes : Created(w) /\ w.id \notin doubt =>
    /\ [id |-> w.id, done |-> 0, text |-> w.value] \in stored
    /\ forms.target # w.id /\ forms.editing # w.id
    /\ (\A t \in Shown : t.id # w.id) /\ \A v \in writes : v.id = w.id => v = w
StoredShown == \A s \in stored : s.id \notin doubt =>
                 (\E t \in Shown : t.id = s.id) \/ \E w \in writes : Created(w) /\ w.id = s.id
ShownStored ==
  /\ \A t \in Shown : t.id \notin doubt =>
       (\E s \in stored : s.id = t.id) \/ \E w \in writes : Deleted(w) /\ w.id = t.id
  /\ \A w \in writes, s \in stored : Deleted(w) /\ s.id \notin doubt => s.id # w.id
MarksMatch ==
  /\ \A w \in writes, t \in Shown : w.kind = "toggle" /\ t.id = w.id /\ t.id \notin doubt => t.done = w.value
  /\ \A w \in writes, s \in stored : w.kind = "toggle" /\ s.id = w.id /\ s.id \notin doubt =>
       s.done = IF w.phase = "done" THEN w.value ELSE 1 - w.value
  /\ \A t \in Shown, s \in stored :
       t.id = s.id /\ t.id \notin doubt /\ (\A w \in writes : w.kind = "toggle" => w.id # t.id) => t.done = s.done
WordsMatch ==
  /\ \A w \in writes, s \in stored : Reworded(w) /\ s.id = w.id /\ s.id \notin doubt => s.text = w.value
  /\ \A t \in Shown, s \in stored :
       t.id = s.id /\ t.id \notin doubt /\ (\A w \in writes : Reworded(w) => w.id # t.id) => t.text = s.text
ListTrue == /\ IdsKnown /\ CreatedApart /\ StoredShown /\ ShownStored /\ MarksMatch /\ WordsMatch
TodoIInv == /\ TodoTypes /\ StoredKnown /\ OneWrite /\ FormSurvives /\ ReadSound /\ ListTrue

LEMMA OnceBy ==
  ASSUME NEW q \in Seq(Todo)
  PROVE  Once(q) <=> (IsInjective(q) /\ \A t, u \in ToSet(q) : t.id = u.id => t = u)
  BY DEF Once, OnceBut, IsInjective, ToSet

LEMMA MarkedList ==
  ASSUME NEW q \in Seq(Todo), NEW id, NEW v \in {0, 1}, NEW D
  PROVE  /\ OnceBut(q, D) => OnceBut(Marked(q, id, v), D)
         /\ \A u \in ToSet(Marked(q, id, v)) : \E t \in ToSet(q) : /\ u.id = t.id /\ u.text = t.text
                                                                   /\ u.done = IF t.id = id THEN v ELSE t.done
         /\ \A t \in ToSet(q) : \E u \in ToSet(Marked(q, id, v)) : u.id = t.id
  <1>1. OnceBut(q, D) => OnceBut(Marked(q, id, v), D)
    BY MarkedRows DEF OnceBut
  <1>2. \A u \in ToSet(Marked(q, id, v)) : \E t \in ToSet(q) : /\ u.id = t.id /\ u.text = t.text
                                                               /\ u.done = IF t.id = id THEN v ELSE t.done
    BY MarkedRows DEF ToSet
  <1>3. ASSUME NEW t \in ToSet(q) PROVE \E u \in ToSet(Marked(q, id, v)) : u.id = t.id
    <2>1. PICK i \in DOMAIN q : t = q[i]
      BY DEF ToSet
    <2>2. i \in DOMAIN Marked(q, id, v) /\ Marked(q, id, v)[i].id = t.id
      BY <2>1, MarkedRows
    <2> QED
      BY <2>2 DEF ToSet
  <1> QED
    BY <1>1, <1>2, <1>3

LEMMA WordedList ==
  ASSUME NEW q \in Seq(Todo), NEW id, NEW v \in {0, 1}, NEW D
  PROVE  /\ OnceBut(q, D) => OnceBut(Worded(q, id, v), D)
         /\ \A u \in ToSet(Worded(q, id, v)) : \E t \in ToSet(q) : /\ u.id = t.id /\ u.done = t.done
                                                                   /\ u.text = IF t.id = id THEN v ELSE t.text
         /\ \A t \in ToSet(q) : \E u \in ToSet(Worded(q, id, v)) : u.id = t.id
  <1>1. OnceBut(q, D) => OnceBut(Worded(q, id, v), D)
    BY WordedRows DEF OnceBut
  <1>2. \A u \in ToSet(Worded(q, id, v)) : \E t \in ToSet(q) : /\ u.id = t.id /\ u.done = t.done
                                                               /\ u.text = IF t.id = id THEN v ELSE t.text
    BY WordedRows DEF ToSet
  <1>3. ASSUME NEW t \in ToSet(q) PROVE \E u \in ToSet(Worded(q, id, v)) : u.id = t.id
    <2>1. PICK i \in DOMAIN q : t = q[i]
      BY DEF ToSet
    <2>2. i \in DOMAIN Worded(q, id, v) /\ Worded(q, id, v)[i].id = t.id
      BY <2>1, WordedRows
    <2> QED
      BY <2>2 DEF ToSet
  <1> QED
    BY <1>1, <1>2, <1>3

LEMMA GrownList ==
  ASSUME NEW q \in Seq(Todo), NEW e \in Todo, NEW D, OnceBut(q, D), e.id \in D \/ \A t \in ToSet(q) : t.id # e.id
  PROVE  OnceBut(Append(q, e), D) /\ ToSet(Append(q, e)) = ToSet(q) \cup {e}
  <1> DEFINE a == Append(q, e)
  <1>1. DOMAIN a = 1..(Len(q) + 1) /\ DOMAIN q = 1..Len(q) /\ Len(q) \in Nat
    OBVIOUS
  <1>2. a[Len(q) + 1] = e /\ \A i \in 1..Len(q) : a[i] = q[i]
    OBVIOUS
  <1>3. e.id \in D \/ \A i \in DOMAIN q : q[i].id # e.id
    BY DEF ToSet
  <1>4. ASSUME NEW i \in DOMAIN a, NEW j \in DOMAIN a, a[i].id = a[j].id, a[i].id \notin D PROVE i = j
    <2>1. (i = Len(q) + 1 \/ i \in DOMAIN q) /\ (j = Len(q) + 1 \/ j \in DOMAIN q)
      BY <1>1
    <2> HIDE DEF a
    <2> QED
      BY <1>1, <1>2, <1>3, <1>4, <2>1 DEF OnceBut
  <1> QED
    BY <1>4, ValuesAppended DEF OnceBut

LEMMA GivenList ==
  ASSUME NEW id, todos \in Seq(Todo), NEW D, OnceBut(todos, D)
  PROVE  OnceBut(Without(todos, id), D) /\ ToSet(Without(todos, id)) = {t \in ToSet(todos) : t.id # id}
  <1> DEFINE S == {t \in ToSet(todos) : t.id # id}
             q == Within(todos, S)
  <1>1. PICK g \in [DOMAIN q -> DOMAIN todos] :
          /\ \A i \in DOMAIN q : q[i] = todos[g[i]]
          /\ \A i, j \in DOMAIN q : i < j => g[i] < g[j]
    BY WithinOrder
  <1>2. q \in Seq(Todo)
    BY WithinKeeps
  <1>3. DOMAIN q = 1..Len(q) /\ Len(q) \in Nat /\ DOMAIN todos = 1..Len(todos) /\ Len(todos) \in Nat
    BY <1>2
  <1>4. ASSUME NEW i \in DOMAIN q, NEW j \in DOMAIN q, q[i].id = q[j].id, q[i].id \notin D PROVE i = j
    <2>1. q[i] = todos[g[i]] /\ q[j] = todos[g[j]] /\ g[i] \in DOMAIN todos /\ g[j] \in DOMAIN todos
      BY Zenon, <1>1
    <2>2. g[i] = g[j]
      BY Zenon, <1>4, <2>1 DEF OnceBut
    <2>3. ~(i < j) /\ ~(j < i)
      <3>1. g[i] \in Int /\ g[j] \in Int
        BY <1>3, <2>1
      <3>2. ~(g[i] < g[j]) /\ ~(g[j] < g[i])
        BY <2>2, <3>1
      <3> QED
        BY Zenon, <1>1, <3>2
    <2>4. i \in Int /\ j \in Int
      BY <1>3
    <2> QED
      BY <2>3, <2>4
  <1>5. OnceBut(q, D)
    BY Zenon, <1>4 DEF OnceBut
  <1>6. ToSet(Without(todos, id)) = S
    BY Given
  <1> QED
    BY Zenon, <1>5, <1>6 DEF Without

LEMMA TodosSound == ASSUME TodoIInv PROVE OptimismSettles /\ FormSurvives
  <1>1. SUFFICES ASSUME writes = {}, NEW id \in TodoIDs \ doubt
                 PROVE  /\ Row(ToSet(todos), id) = Row(stored, id)
                        /\ \A i, j \in DOMAIN todos : todos[i].id = id /\ todos[j].id = id => i = j
    BY DEF TodoIInv, OptimismSettles
  <1>2. ListTrue /\ TodoTypes /\ todos \in Seq(Todo)
    BY <1>1 DEF TodoIInv, TodoTypes
  <1>3. \A t \in Shown : t \in Todo
    BY <1>2, ShownTodos DEF Shown
  <1>4. ASSUME NEW t \in Shown, NEW s \in stored, t.id = s.id, s.id = id PROVE t = s
    <2>1. t.done = s.done /\ t.text = s.text /\ s \in Todo
      BY <1>1, <1>2, <1>4 DEF ListTrue, MarksMatch, WordsMatch, TodoTypes
    <2> QED
      BY <1>3, <1>4, <2>1, SameTodo
  <1>5. Row(Shown, id) = Row(stored, id)
    <2>1. ASSUME NEW t \in Shown, t.id = id PROVE t \in stored
      BY <1>1, <1>2, <1>4, <2>1 DEF ListTrue, ShownStored
    <2>2. ASSUME NEW s \in stored, s.id = id PROVE s \in Shown
      BY <1>1, <1>2, <1>4, <2>2 DEF ListTrue, StoredShown
    <2> QED
      BY <2>1, <2>2 DEF Row
  <1>6. \A i, j \in DOMAIN todos : todos[i].id = id /\ todos[j].id = id => i = j
    BY <1>1, <1>2 DEF ListTrue, IdsKnown, OnceBut
  <1> QED
    BY <1>5, <1>6 DEF Shown


\* What is not touched matches as it did.
LEMMA ListStays ==
  ASSUME ListTrue, UNCHANGED <<todos, stored, writes, issued, forms, doubt>>
  PROVE  ListTrue'
  <1>1. Shown' = Shown
    BY DEF Shown
  <1> QED
    BY <1>1 DEF ListTrue, IdsKnown, CreatedApart, StoredShown, ShownStored, MarksMatch, WordsMatch

LEMMA ListDialogs == ASSUME TodoTypes, ListTrue, Dialog PROVE ListTrue'
  <1>1. Unhurried /\ UNCHANGED <<todos, writes, stored, issued, doubt>> /\ Shown' = Shown
    BY Dialogs DEF Shown
  <1>2. 0 <= issued /\ (\A w \in writes : Created(w) => w.id # 0)
    BY DEF TodoTypes, Created, TodoIDs
  <1>3. \A i \in ShownIDs : i <= issued /\ \A w \in writes : Created(w) /\ w.id \notin doubt => i # w.id
    BY DEF ShownIDs, ListTrue, IdsKnown, CreatedApart, Shown
  <1>4. IdsKnown'
    BY <1>1, <1>2, <1>3 DEF Unhurried, ListTrue, IdsKnown
  <1>5. CreatedApart'
    BY <1>1, <1>2, <1>3 DEF Unhurried, ListTrue, CreatedApart
  <1> QED
    BY <1>1, <1>4, <1>5 DEF ListTrue, StoredShown, ShownStored, MarksMatch, WordsMatch

LEMMA ListAnswered == ASSUME TodoTypes, StoredKnown, ReadSound, ListTrue, TodosAnswer PROVE ListTrue'
  <1>1. PICK r \in fetch : /\ r.phase = "read" /\ todos' = r.got /\ doubt' = r.beside
                           /\ UNCHANGED <<forms, writes, stored, issued>>
    BY DEF TodosAnswer
  <1>2. RowsRead(r) /\ Shown' = ToSet(r.got) /\ r.got \in Seq(Todo)
    BY <1>1 DEF ReadSound, TodoTypes, Shown
  <1>3. OnceBut(todos', doubt')
    BY <1>1, <1>2 DEF RowsRead, Once, OnceBut
  <1>4. /\ \A t \in Shown' : t.id <= issued /\ t.id # 0 /\ (t.id \in doubt' \/ t \in stored)
        /\ \A s \in stored : s.id # 0 /\ (s.id \in doubt' \/ s \in Shown')
    <2>1. \A t \in Shown' : t \in Todo
      BY <1>2 DEF ToSet
    <2>2. \A t \in Todo : t.id # 0
      BY DEF Todo, TodoIDs
    <2>3. stored \subseteq Todo
      BY DEF TodoTypes
    <2> QED
      BY <1>1, <1>2, <2>1, <2>2, <2>3 DEF RowsRead
  <1>5. IdsKnown'
    BY <1>1, <1>3, <1>4 DEF ListTrue, IdsKnown
  <1>6. \A w \in writes : w.id \notin doubt' => w.id = 0 /\ ~Created(w)
    <2>1. \A w \in writes : Created(w) => w.id # 0
      BY DEF TodoTypes, Created, TodoIDs
    <2> QED
      BY <1>1, <1>2, <2>1 DEF RowsRead
  <1>7. \A t \in Shown', s \in stored : t.id = s.id /\ t.id \notin doubt' => t = s
    BY <1>4 DEF StoredKnown
  <1>8. CreatedApart' /\ StoredShown' /\ ShownStored'
    BY <1>1, <1>4, <1>6 DEF CreatedApart, StoredShown, ShownStored
  <1>9. MarksMatch' /\ WordsMatch'
    BY <1>1, <1>4, <1>6, <1>7 DEF MarksMatch, WordsMatch
  <1> QED
    BY <1>5, <1>8, <1>9 DEF ListTrue

\* The answer about a write that was carried out is lost: its todo is in doubt.
LEMMA ListLost == ASSUME TodoTypes, OneWrite, ListTrue, AnswerLost PROVE ListTrue'
  <1>1. PICK w \in writes : /\ writes' = (writes \ {w}) \cup {[w EXCEPT !.phase = "failed"]}
                            /\ doubt' = doubt \cup {w.id} /\ UNCHANGED <<todos, forms, stored, issued>>
    BY DEF AnswerLost
  <1> DEFINE v == [w EXCEPT !.phase = "failed"]
  <1>2. v.id = w.id /\ v.kind = w.kind /\ v.phase = "failed"
    BY DEF TodoTypes, Write
  <1>3. writes' = (writes \ {w}) \cup {v}
    BY <1>1
  <1> HIDE DEF v
  <1>4. ~Created(v) /\ ~Deleted(v) /\ ~Reworded(v) /\ w.id \in doubt' /\ Shown' = Shown
    BY <1>1, <1>2 DEF Created, Deleted, Reworded, Shown
  <1>5. /\ \A u \in writes' : u = v \/ (u \in writes /\ u # w)
        /\ \A u \in writes : u.id \notin doubt' => u \in writes'
        /\ \A i : i \notin doubt' => i \notin doubt /\ i # w.id
    BY <1>1, <1>3
  <1>6. IdsKnown'
    <2>1. OnceBut(todos', doubt')
      BY <1>1, <1>5 DEF ListTrue, IdsKnown, OnceBut
    <2> QED
      BY <1>1, <1>2, <1>4, <1>5, <2>1 DEF ListTrue, IdsKnown
  <1>7. CreatedApart'
    <2>1. ASSUME NEW u \in writes', Created(u), u.id \notin doubt'
          PROVE  /\ [id |-> u.id, done |-> 0, text |-> u.value] \in stored'
                 /\ forms'.target # u.id /\ forms'.editing # u.id
                 /\ (\A t \in Shown' : t.id # u.id) /\ \A x \in writes' : x.id = u.id => x = u
      BY <1>1, <1>2, <1>4, <1>5, <2>1 DEF ListTrue, CreatedApart
    <2> QED
      BY <2>1 DEF CreatedApart
  <1>8. StoredShown' /\ ShownStored'
    BY <1>1, <1>4, <1>5 DEF ListTrue, StoredShown, ShownStored
  <1>9. MarksMatch'
    BY <1>1, <1>2, <1>4, <1>5 DEF ListTrue, MarksMatch
  <1>10. WordsMatch'
    BY <1>1, <1>2, <1>4, <1>5 DEF ListTrue, WordsMatch
  <1> QED
    BY <1>6, <1>7, <1>8, <1>9, <1>10 DEF ListTrue

LEMMA ListSends ==
  ASSUME TodoTypes, OneWrite, FormSurvives, ListTrue,
         handleToggleDone \/ handleCreateTodo \/ handleUpdateTodoContent \/ confirmDeleteTodo
  PROVE  ListTrue'
  <1>1. PICK w \in Write :
           /\ Sent(w)
           /\ \/ /\ w.kind = "toggle" /\ UNCHANGED forms /\ w.id \in ShownIDs
                 /\ w.id \notin pendingToggleIDs /\ todos' = Marked(todos, w.id, w.value)
                 /\ \E t \in ToSet(todos) : t.id = w.id /\ w.value = 1 - t.done
              \/ /\ w.kind = "create" /\ w.id = 0 /\ forms' = [forms EXCEPT !.create = "sending"]
                 /\ UNCHANGED todos
              \/ /\ w.kind = "edit" /\ w.id = forms.editing /\ forms' = [forms EXCEPT !.edit = "sending"]
                 /\ UNCHANGED todos
              \/ /\ w.kind = "delete" /\ w.id = forms.target
                 /\ forms' = [forms EXCEPT !.deleting = TRUE] /\ UNCHANGED todos
    BY Sends
  <1>2. forms'.editing = forms.editing /\ forms'.target = forms.target
    BY <1>1 DEF TodoTypes, TodoForms
  <1>3. w.phase = "wire" /\ writes' = writes \cup {w} /\ UNCHANGED <<stored, issued, doubt>>
    BY <1>1 DEF Sent
  <1>4. ~Created(w) /\ ~Deleted(w) /\ ~Reworded(w)
    BY <1>3 DEF Created, Deleted, Reworded
  <1>6. w.id <= issued /\ \A v \in writes : Created(v) /\ v.id \notin doubt => v.id # w.id
    <2>1. CASE w.kind = "toggle"
      <3>1. PICK t \in Shown : t.id = w.id
        BY <1>1, <2>1 DEF Shown
      <3> QED
        BY <3>1 DEF ListTrue, IdsKnown, CreatedApart
    <2>2. CASE w.kind = "create"
      <3>1. w.id = 0
        BY <1>1, <2>2
      <3> QED
        BY <3>1 DEF TodoTypes, Created, TodoIDs
    <2>3. CASE w.kind \in {"edit", "delete"}
      <3>1. w.id \in {forms.editing, forms.target}
        BY <1>1, <2>3
      <3> QED
        BY <3>1 DEF ListTrue, IdsKnown, CreatedApart
    <2> QED
      BY <1>1, <2>1, <2>2, <2>3
  <1>7. \A v \in writes' : v \in writes \/ v = w
    BY <1>3
  <1>8. CASE w.kind # "toggle"
    <2>1. UNCHANGED todos /\ Shown' = Shown
      BY <1>1, <1>8 DEF Shown
    <2>2. IdsKnown'
      BY <1>2, <1>3, <1>6, <1>7, <2>1 DEF ListTrue, IdsKnown
    <2>3. CreatedApart'
      BY <1>2, <1>3, <1>4, <1>6, <1>7, <2>1 DEF ListTrue, CreatedApart
    <2>4. StoredShown' /\ ShownStored'
      BY <1>3, <1>4, <1>7, <2>1 DEF ListTrue, StoredShown, ShownStored
    <2>5. MarksMatch' /\ WordsMatch'
      BY <1>3, <1>4, <1>7, <1>8, <2>1 DEF ListTrue, MarksMatch, WordsMatch
    <2> QED
      BY <2>2, <2>3, <2>4, <2>5 DEF ListTrue
  <1>9. CASE w.kind = "toggle"
    <2>0. w.value \in {0, 1} /\ todos \in Seq(Todo) /\ todos' = Marked(todos, w.id, w.value) /\ OnceBut(todos, doubt)
      BY <1>1, <1>9 DEF Write, TodoTypes, ListTrue, IdsKnown
    <2>1. /\ OnceBut(todos', doubt)
          /\ \A u \in Shown' : \E t \in Shown : /\ u.id = t.id /\ u.text = t.text
                                                /\ u.done = IF t.id = w.id THEN w.value ELSE t.done
          /\ \A t \in Shown : \E u \in Shown' : u.id = t.id
      BY <2>0, MarkedList DEF Shown
    <2>2. IdsKnown'
      BY <1>2, <1>3, <1>6, <1>7, <2>1 DEF ListTrue, IdsKnown
    <2>3. CreatedApart'
      BY <1>2, <1>3, <1>4, <1>6, <1>7, <2>1 DEF ListTrue, CreatedApart
    <2>4. StoredShown' /\ ShownStored'
      BY <1>3, <1>4, <1>7, <2>1 DEF ListTrue, StoredShown, ShownStored
    <2>5. WordsMatch'
      BY <1>3, <1>4, <1>7, <2>1 DEF ListTrue, WordsMatch
    <2>6. \A v \in writes : v.kind = "toggle" => v.id # w.id
      BY <1>1, <1>9 DEF pendingToggleIDs
    <2>7. PICK t \in Shown : t.id = w.id /\ w.value = 1 - t.done /\ t.done \in {0, 1}
      BY <1>1, <1>9, ShownTodos DEF Shown
    <2>8. \A s \in stored : s.id = w.id /\ s.id \notin doubt => s.done = t.done
      BY <2>6, <2>7 DEF ListTrue, MarksMatch
    <2>9. \A s \in stored : s.id = w.id /\ s.id \notin doubt => s.done = 1 - w.value
      BY <2>7, <2>8
    <2>10. MarksMatch'
      BY <1>3, <1>7, <1>9, <2>1, <2>6, <2>9 DEF ListTrue, MarksMatch
    <2> QED
      BY <2>2, <2>3, <2>4, <2>5, <2>10 DEF ListTrue
  <1> QED
    BY <1>8, <1>9


LEMMA ListRefused ==
  ASSUME TodoTypes, OneWrite, ListTrue, NEW w \in writes, w \in Write, w.phase = "wire", Refused(w),
         UNCHANGED <<todos, forms, doubt>>
  PROVE  ListTrue'
  <1> DEFINE v == [w EXCEPT !.phase = "failed"]
  <1>1. v.kind = w.kind /\ v.id = w.id /\ v.value = w.value /\ v.phase = "failed"
    BY DEF Write
  <1>2. writes' = (writes \ {w}) \cup {v} /\ UNCHANGED <<stored, issued>> /\ Shown' = Shown
    BY DEF Refused, Shown
  <1> HIDE DEF v
  <1>3. /\ ~Created(w) /\ ~Created(v) /\ ~Deleted(w) /\ ~Deleted(v) /\ ~Reworded(w) /\ ~Reworded(v)
    BY <1>1 DEF Created, Deleted, Reworded
  <1>4. /\ \A u \in writes' : u \in writes \/ u = v
        /\ \A u \in writes : Created(u) \/ Deleted(u) \/ Reworded(u) => u \in writes'
    BY <1>2, <1>3
  <1>6. IdsKnown'
    BY <1>1, <1>2, <1>4 DEF ListTrue, IdsKnown
  <1>7. CreatedApart'
    BY <1>1, <1>2, <1>3, <1>4 DEF ListTrue, CreatedApart
  <1>8. StoredShown' /\ ShownStored'
    BY <1>2, <1>3, <1>4 DEF ListTrue, StoredShown, ShownStored
  <1>9. MarksMatch'
    BY <1>1, <1>2, <1>4 DEF ListTrue, MarksMatch
  <1>10. WordsMatch'
    BY <1>2, <1>3, <1>4 DEF ListTrue, WordsMatch
  <1> QED
    BY <1>6, <1>7, <1>8, <1>9, <1>10 DEF ListTrue

LEMMA ListCreated ==
  ASSUME TodoTypes, StoredKnown, OneWrite, ListTrue, NEW w \in writes, w \in Write, w.phase = "wire", w.kind = "create", Carried(w),
         UNCHANGED <<todos, forms, doubt>>
  PROVE  ListTrue'
  <1> DEFINE v == [w EXCEPT !.phase = "done", !.id = issued + 1]
             e == [id |-> issued + 1, done |-> 0, text |-> w.value]
  <1>1. v.kind = "create" /\ v.id = issued + 1 /\ v.value = w.value /\ v.phase = "done"
    BY DEF Write
  <1>2. /\ writes' = (writes \ {w}) \cup {v} /\ issued' = issued + 1 /\ stored' = stored \cup {e} /\ Shown' = Shown
    BY DEF Carried, Shown
  <1>3. e.id = issued + 1 /\ e = [id |-> v.id, done |-> 0, text |-> v.value]
    BY <1>1
  <1> HIDE DEF v, e
  <1>4. Created(v) /\ ~Deleted(v) /\ ~Reworded(v) /\ ~Created(w) /\ ~Deleted(w) /\ ~Reworded(w)
    BY <1>1 DEF Created, Deleted, Reworded
  <1>5. /\ \A u \in writes' : u \in writes \/ u = v
        /\ \A u \in writes : u # w => u \in writes'
        /\ \A u \in writes : ~Created(u) \/ u # w
    BY <1>2, <1>4
  <1>6. issued \in Nat /\ \A k \in Int : k <= issued => k <= issued + 1 /\ k # issued + 1
    BY DEF TodoTypes
  <1>7. /\ \A t \in Shown : t.id \in Int /\ t.id <= issued
        /\ \A s \in stored : s.id \in Int /\ s.id <= issued
        /\ \A u \in writes : u.id \in Int /\ u.id <= issued
        /\ forms.target \in Int /\ forms.target <= issued /\ forms.editing \in Int /\ forms.editing <= issued
    <2>1. \A t \in Shown : t.id \in Int
      BY ShownTodos DEF Shown, TodoIDs
    <2>2. \A s \in stored : s.id \in Int
      BY DEF TodoTypes, Todo, TodoIDs
    <2>3. \A u \in writes : u.id \in Int
      BY DEF TodoTypes, Write, TodoIDs
    <2>4. forms.target \in Int /\ forms.editing \in Int
      BY DEF TodoTypes, TodoForms, TodoIDs
    <2> QED
      BY <2>1, <2>2, <2>3, <2>4 DEF ListTrue, IdsKnown, StoredKnown
  <1>8. /\ \A t \in Shown : t.id <= issued' /\ t.id # v.id
        /\ \A s \in stored : s.id # v.id
        /\ \A u \in writes : u.id <= issued' /\ u.id # v.id
        /\ forms.target <= issued' /\ forms.target # v.id /\ forms.editing <= issued' /\ forms.editing # v.id
        /\ v.id <= issued'
    BY <1>1, <1>2, <1>6, <1>7
  <1>10. IdsKnown'
    BY <1>2, <1>5, <1>8 DEF ListTrue, IdsKnown
  <1>11. CreatedApart'
    <2>1. [id |-> v.id, done |-> 0, text |-> v.value] \in stored'
      BY <1>2, <1>3
    <2>2. ASSUME NEW u \in writes', Created(u), u.id \notin doubt, u # v
          PROVE  /\ [id |-> u.id, done |-> 0, text |-> u.value] \in stored'
                 /\ forms'.target # u.id /\ forms'.editing # u.id
                 /\ (\A t \in Shown' : t.id # u.id) /\ \A x \in writes' : x.id = u.id => x = u
      BY <1>2, <1>5, <1>8, <2>2 DEF ListTrue, CreatedApart
    <2>3. /\ forms'.target # v.id /\ forms'.editing # v.id
          /\ (\A t \in Shown' : t.id # v.id) /\ \A x \in writes' : x.id = v.id => x = v
      BY <1>2, <1>5, <1>8
    <2> QED
      BY <2>1, <2>2, <2>3 DEF CreatedApart
  <1>12. StoredShown'
    BY <1>2, <1>3, <1>1, <1>4, <1>5 DEF ListTrue, StoredShown
  <1>13. ShownStored'
    BY <1>2, <1>3, <1>1, <1>4, <1>5, <1>8 DEF ListTrue, ShownStored
  <1>14. MarksMatch'
    BY <1>2, <1>3, <1>1, <1>5, <1>8 DEF ListTrue, MarksMatch
  <1>15. WordsMatch'
    BY <1>2, <1>3, <1>1, <1>4, <1>5, <1>8 DEF ListTrue, WordsMatch, Reworded
  <1> QED
    BY <1>10, <1>11, <1>12, <1>13, <1>14, <1>15 DEF ListTrue

LEMMA ListCarried ==
  ASSUME TodoTypes, StoredKnown, OneWrite, ListTrue, NEW w \in writes, w \in Write, w.phase = "wire", w.kind # "create", Carried(w),
         UNCHANGED <<todos, forms, doubt>>
  PROVE  ListTrue'
  <1> DEFINE v == [w EXCEPT !.phase = "done"]
  <1>1. v.kind = w.kind /\ v.id = w.id /\ v.value = w.value /\ v.phase = "done"
    BY DEF Write
  <1>2. /\ writes' = (writes \ {w}) \cup {v} /\ issued' = issued /\ Shown' = Shown
    BY DEF Carried, Shown
  <1> HIDE DEF v
  <1>3. ~Created(v) /\ ~Deleted(w) /\ ~Reworded(w) /\ ~Created(w)
    BY <1>1 DEF Created, Deleted, Reworded
  <1>4. /\ \A u \in writes' : u \in writes \/ u = v
        /\ \A u \in writes : u # w => u \in writes'
        /\ v \in writes'
    BY <1>2
  <1>6. IdsKnown'
    BY <1>1, <1>2, <1>4 DEF ListTrue, IdsKnown
  <1>7. \A u \in writes : Created(u) => (u.id \notin doubt => u.id # w.id) /\ u \in writes'
    BY <1>3, <1>4 DEF ListTrue, CreatedApart
  <1>8. CASE w.kind \in {"toggle", "edit"}
    <2>1. stored' = {Shifted(t, w) : t \in stored}
      BY <1>8 DEF Carried
    <2>2. ASSUME NEW s \in stored
          PROVE  /\ Shifted(s, w).id = s.id /\ (s.id # w.id => Shifted(s, w) = s)
                 /\ Shifted(s, w).done = (IF s.id = w.id /\ w.kind = "toggle" THEN w.value ELSE s.done)
                 /\ Shifted(s, w).text = (IF s.id = w.id /\ w.kind = "edit" THEN w.value ELSE s.text)
      <3>1. s \in Todo /\ w.value \in {0, 1}
        BY DEF TodoTypes, Write
      <3> QED
        BY <1>8, <3>1, TodoFields DEF Shifted
    <2>3. /\ \A x \in stored' : \E s \in stored :
               /\ x.id = s.id /\ x.done = (IF s.id = w.id /\ w.kind = "toggle" THEN w.value ELSE s.done)
               /\ x.text = (IF s.id = w.id /\ w.kind = "edit" THEN w.value ELSE s.text)
          /\ \A s \in stored : \E x \in stored' : x.id = s.id
      BY <2>1, <2>2
    <2>4. \A s \in stored : s.id # w.id => s \in stored'
      BY <2>1, <2>2
    <2>5. ~Deleted(v)
      BY <1>1, <1>8 DEF Deleted
    <2>6. CreatedApart'
      <3>1. ASSUME NEW u \in writes', Created(u), u.id \notin doubt
            PROVE  /\ [id |-> u.id, done |-> 0, text |-> u.value] \in stored'
                   /\ forms'.target # u.id /\ forms'.editing # u.id
                   /\ (\A t \in Shown' : t.id # u.id) /\ \A x \in writes' : x.id = u.id => x = u
        <4>1. u \in writes /\ u.id # w.id
          BY <1>3, <1>4, <1>7, <3>1
        <4>2. [id |-> u.id, done |-> 0, text |-> u.value] \in stored
          BY <3>1, <4>1 DEF ListTrue, CreatedApart
        <4> QED
          BY <1>1, <1>2, <1>4, <2>4, <3>1, <4>1, <4>2 DEF ListTrue, CreatedApart
      <3> QED
        BY <3>1 DEF CreatedApart
    <2>7. StoredShown'
      BY <1>2, <1>7, <2>3 DEF ListTrue, StoredShown
    <2>8. ShownStored'
      BY <1>2, <1>3, <1>4, <2>3, <2>5 DEF ListTrue, ShownStored
    <2>9. MarksMatch'
      <3>1. CASE w.kind = "toggle"
        <4>1. \A u \in writes : u.kind = "toggle" /\ u.id = w.id => u = w
          BY <3>1 DEF OneWrite
        <4>2. \A u \in writes' : u.kind = "toggle" /\ u.id = w.id => u = v
          BY <1>2, <1>4, <4>1
        <4> QED
          BY <1>1, <1>2, <1>4, <2>3, <3>1, <4>1, <4>2 DEF ListTrue, MarksMatch
      <3>2. CASE w.kind = "edit"
        <4>1. \A u \in writes' : u.kind = "toggle" => u \in writes
          BY <1>1, <1>4, <3>2
        <4>2. \A u \in writes : u.kind = "toggle" => u \in writes'
          BY <1>4, <3>2
        <4> QED
          BY <1>2, <2>3, <3>2, <4>1, <4>2 DEF ListTrue, MarksMatch
      <3> QED
        BY <1>8, <3>1, <3>2
    <2>10. WordsMatch'
      <3>1. CASE w.kind = "toggle"
        <4>1. \A u \in writes' : Reworded(u) => u \in writes
          BY <1>1, <1>4, <3>1 DEF Reworded
        <4>2. \A u \in writes : Reworded(u) => u \in writes'
          BY <1>4, <3>1 DEF Reworded
        <4> QED
          BY <1>2, <2>3, <3>1, <4>1, <4>2 DEF ListTrue, WordsMatch
      <3>2. CASE w.kind = "edit"
        <4>1. \A u \in writes' : Reworded(u) => u = v
          <5>1. \A u \in writes : u.kind = "edit" => u = w
            BY <3>2 DEF OneWrite
          <5> QED
            BY <1>3, <1>4, <5>1 DEF Reworded
        <4>2. \A u \in writes : ~Reworded(u)
          <5>1. \A u \in writes : u.kind = "edit" => u = w
            BY <3>2 DEF OneWrite
          <5> QED
            BY <1>3, <5>1 DEF Reworded
        <4>3. Reworded(v)
          BY <1>1, <3>2 DEF Reworded
        <4> QED
          BY <1>1, <1>2, <1>4, <2>3, <3>2, <4>1, <4>2, <4>3 DEF ListTrue, WordsMatch
      <3> QED
        BY <1>8, <3>1, <3>2
    <2> QED
      BY <1>6, <2>6, <2>7, <2>8, <2>9, <2>10 DEF ListTrue
  <1>9. CASE w.kind = "delete"
    <2>1. stored' = {t \in stored : t.id # w.id}
      BY <1>9 DEF Carried
    <2>2. Deleted(v) /\ ~Reworded(v)
      BY <1>1, <1>9 DEF Deleted, Reworded
    <2>3. CreatedApart'
      BY <1>1, <1>2, <1>3, <1>4, <1>7, <2>1 DEF ListTrue, CreatedApart
    <2>4. StoredShown'
      BY <1>2, <1>7, <2>1 DEF ListTrue, StoredShown
    <2>5. ShownStored'
      BY <1>1, <1>2, <1>3, <1>4, <2>1, <2>2 DEF ListTrue, ShownStored
    <2>6. \A u \in writes' : u.kind = "toggle" \/ Reworded(u) => u \in writes
      BY <1>1, <1>4, <1>9, <2>2
    <2>7. \A u \in writes : u.kind = "toggle" \/ Reworded(u) => u \in writes'
      BY <1>3, <1>4, <1>9
    <2>8. MarksMatch' /\ WordsMatch'
      BY <1>2, <2>1, <2>6, <2>7 DEF ListTrue, MarksMatch, WordsMatch
    <2> QED
      BY <1>6, <2>3, <2>4, <2>5, <2>8 DEF ListTrue
  <1> QED
    BY <1>8, <1>9 DEF Carried


LEMMA ListEnds ==
  ASSUME TodoTypes, StoredKnown, OneWrite, ListTrue, ToggleAnswer \/ CreateAnswer \/ UpdateAnswer \/ DeleteAnswer
  PROVE  ListTrue'
  <1>1. PICK w \in writes :
           /\ w \in Write /\ w.phase # "wire" /\ writes' = writes \ {w} /\ UNCHANGED <<fetch, stored, issued, doubt>>
           /\ forms'.target \in {forms.target, 0} /\ forms'.editing \in {forms.editing, 0}
           /\ \/ /\ w.kind = "toggle"
                 /\ todos' = IF w.phase = "done" THEN todos ELSE Marked(todos, w.id, 1 - w.value)
              \/ /\ w.kind = "create"
                 /\ IF w.phase = "done" THEN todos' = Append(todos, [id |-> w.id, done |-> 0, text |-> w.value])
                    ELSE UNCHANGED todos
              \/ /\ w.kind = "edit"
                 /\ todos' = IF w.phase = "done" THEN Worded(todos, w.id, w.value) ELSE todos
              \/ /\ w.kind = "delete"
                 /\ todos' = IF w.phase = "done" THEN Without(todos, w.id) ELSE todos
    BY Ends
  <1>2. w.value \in {0, 1} /\ 1 - w.value \in {0, 1} /\ todos \in Seq(Todo) /\ OnceBut(todos, doubt)
        /\ w.phase \in {"wire", "done", "failed"}
    BY DEF TodoTypes, Write, ListTrue, IdsKnown
  <1>3. \A u \in writes' : u \in writes /\ u # w
    BY <1>1
  <1>4. \A u \in writes : u # w => u \in writes'
    BY <1>1
  <1>6. 0 <= issued /\ \A u \in writes : Created(u) => u.id # 0
    BY DEF TodoTypes, Created, TodoIDs
  <1>7. /\ forms'.target <= issued' /\ forms'.editing <= issued' /\ \A u \in writes' : u.id <= issued'
        /\ \A u \in writes' : Created(u) /\ u.id \notin doubt => forms'.target # u.id /\ forms'.editing # u.id
    BY <1>1, <1>3, <1>6 DEF ListTrue, IdsKnown, CreatedApart
  <1>8. CASE UNCHANGED todos /\ ~Created(w) /\ ~Deleted(w) /\ ~Reworded(w)
    <2>1. Shown' = Shown
      BY <1>8 DEF Shown
    <2>2. IdsKnown'
      BY <1>1, <1>7, <1>8, <2>1 DEF ListTrue, IdsKnown
    <2>3. CreatedApart'
      BY <1>1, <1>3, <1>7, <2>1 DEF ListTrue, CreatedApart
    <2>4. StoredShown' /\ ShownStored' /\ WordsMatch'
      BY <1>1, <1>3, <1>4, <1>8, <2>1 DEF ListTrue, StoredShown, ShownStored, WordsMatch
    <2>5. MarksMatch'
      <3>1. CASE w.kind # "toggle"
        BY <1>1, <1>3, <1>4, <2>1, <3>1 DEF ListTrue, MarksMatch
      <3>2. CASE w.kind = "toggle" /\ w.phase = "done"
        <4>1. \A t \in Shown, s \in stored : t.id = s.id /\ t.id = w.id /\ t.id \notin doubt => t.done = s.done
          BY <3>2 DEF ListTrue, MarksMatch
        <4> QED
          BY <1>1, <1>3, <1>4, <2>1, <3>2, <4>1 DEF ListTrue, MarksMatch
      <3>3. CASE w.kind = "toggle" /\ w.phase = "failed"
        <4>1. todos = Marked(todos, w.id, 1 - w.value)
          BY <1>1, <1>8, <3>3
        <4>3. \A u \in Shown : u.id = w.id => u.done = 1 - w.value
          BY <1>2, <4>1, MarkedRows DEF Shown, ToSet
        <4>4. \A t \in Shown, s \in stored : t.id = s.id /\ t.id = w.id /\ t.id \notin doubt => t.done = s.done
          BY <3>3, <4>3 DEF ListTrue, MarksMatch
        <4> QED
          BY <1>1, <1>3, <1>4, <2>1, <3>3, <4>4 DEF ListTrue, MarksMatch
      <3> QED
        BY <1>1, <1>2, <3>1, <3>2, <3>3
    <2> QED
      BY <2>2, <2>3, <2>4, <2>5 DEF ListTrue
  <1>9. CASE w.kind = "toggle" /\ w.phase = "failed"
    <2>0. todos' = Marked(todos, w.id, 1 - w.value) /\ ~Created(w) /\ ~Deleted(w) /\ ~Reworded(w)
      BY <1>1, <1>9 DEF Created, Deleted, Reworded
    <2>1. /\ OnceBut(todos', doubt)
          /\ \A u \in Shown' : \E t \in Shown : /\ u.id = t.id /\ u.text = t.text
                                                /\ u.done = IF t.id = w.id THEN 1 - w.value ELSE t.done
          /\ \A t \in Shown : \E u \in Shown' : u.id = t.id
      BY <1>2, <2>0, MarkedList DEF Shown
    <2>2. IdsKnown'
      BY <1>1, <1>7, <2>1 DEF ListTrue, IdsKnown
    <2>3. CreatedApart'
      BY <1>1, <1>3, <1>7, <2>1 DEF ListTrue, CreatedApart
    <2>4. StoredShown' /\ ShownStored' /\ WordsMatch'
      BY <1>1, <1>3, <1>4, <2>0, <2>1 DEF ListTrue, StoredShown, ShownStored, WordsMatch
    <2>5. \A s \in stored : s.id = w.id /\ s.id \notin doubt => s.done = 1 - w.value
      BY <1>9 DEF ListTrue, MarksMatch
    <2>6. MarksMatch'
      <3>1. \A v \in writes' : v.kind = "toggle" => v.id # w.id
        BY <1>3, <1>9 DEF OneWrite
      <3> QED
        BY <1>1, <1>3, <1>4, <1>9, <2>1, <2>5, <3>1 DEF ListTrue, MarksMatch
    <2> QED
      BY <2>2, <2>3, <2>4, <2>6 DEF ListTrue
  <1>10. CASE Created(w)
    <2> DEFINE e == [id |-> w.id, done |-> 0, text |-> w.value]
    <2>1. /\ e \in Todo /\ e.id = w.id
          /\ w.id \notin doubt => e \in stored /\ (\A t \in Shown : t.id # e.id) /\ \A u \in writes' : u.id # w.id
      <3>1. w.id \in TodoIDs
        BY <1>10 DEF TodoTypes, Created
      <3> QED
        BY <1>2, <1>3, <1>10, <3>1 DEF ListTrue, CreatedApart, Todo
    <2>2. todos' = Append(todos, e) /\ ~Deleted(w) /\ ~Reworded(w) /\ w.kind = "create"
      BY <1>1, <1>10 DEF Created, Deleted, Reworded
    <2> HIDE DEF e
    <2>3. OnceBut(todos', doubt) /\ Shown' = Shown \cup {e}
      BY <1>2, <2>1, <2>2, GrownList DEF Shown
    <2>4. \A s \in stored : s.id = e.id /\ s.id \notin doubt => s = e
      BY <2>1 DEF StoredKnown
    <2>5. IdsKnown'
      BY <1>1, <1>7, <2>1, <2>3 DEF ListTrue, IdsKnown
    <2>6. CreatedApart'
      BY <1>1, <1>3, <1>7, <2>1, <2>3 DEF ListTrue, CreatedApart
    <2>7. StoredShown'
      BY <1>1, <1>3, <1>4, <2>1, <2>3 DEF ListTrue, StoredShown
    <2>8. ShownStored'
      BY <1>1, <1>3, <1>4, <2>1, <2>2, <2>3 DEF ListTrue, ShownStored
    <2>9. MarksMatch'
      BY <1>1, <1>3, <1>4, <2>1, <2>2, <2>3, <2>4 DEF ListTrue, MarksMatch
    <2>10. WordsMatch'
      BY <1>1, <1>3, <1>4, <2>1, <2>2, <2>3, <2>4 DEF ListTrue, WordsMatch
    <2> QED
      BY <2>5, <2>6, <2>7, <2>8, <2>9, <2>10 DEF ListTrue
  <1>11. CASE Reworded(w)
    <2>0. todos' = Worded(todos, w.id, w.value) /\ ~Created(w) /\ ~Deleted(w) /\ w.kind = "edit"
      BY <1>1, <1>11 DEF Created, Deleted, Reworded
    <2>1. /\ OnceBut(todos', doubt)
          /\ \A u \in Shown' : \E t \in Shown : /\ u.id = t.id /\ u.done = t.done
                                                /\ u.text = IF t.id = w.id THEN w.value ELSE t.text
          /\ \A t \in Shown : \E u \in Shown' : u.id = t.id
      BY <1>2, <2>0, WordedList DEF Shown
    <2>2. IdsKnown'
      BY <1>1, <1>7, <2>1 DEF ListTrue, IdsKnown
    <2>3. CreatedApart'
      BY <1>1, <1>3, <1>7, <2>1 DEF ListTrue, CreatedApart
    <2>4. StoredShown' /\ ShownStored' /\ MarksMatch'
      BY <1>1, <1>3, <1>4, <2>0, <2>1 DEF ListTrue, StoredShown, ShownStored, MarksMatch
    <2>5. \A s \in stored : s.id = w.id /\ s.id \notin doubt => s.text = w.value
      BY <1>11 DEF ListTrue, WordsMatch
    <2>6. WordsMatch'
      BY <1>1, <1>3, <1>4, <2>1, <2>5 DEF ListTrue, WordsMatch
    <2> QED
      BY <2>2, <2>3, <2>4, <2>6 DEF ListTrue
  <1>12. CASE Deleted(w)
    <2>0. todos' = Without(todos, w.id) /\ ~Created(w) /\ ~Reworded(w) /\ w.kind = "delete"
      BY <1>1, <1>12 DEF Created, Deleted, Reworded
    <2>1. OnceBut(todos', doubt) /\ Shown' = {t \in Shown : t.id # w.id}
      BY <1>2, <2>0, GivenList DEF Shown
    <2>2. \A s \in stored : s.id \notin doubt => s.id # w.id
      BY <1>12 DEF ListTrue, ShownStored
    <2>3. IdsKnown'
      BY <1>1, <1>7, <2>1 DEF ListTrue, IdsKnown
    <2>4. CreatedApart'
      BY <1>1, <1>3, <1>7, <2>1 DEF ListTrue, CreatedApart
    <2>5. StoredShown' /\ ShownStored'
      BY <1>1, <1>3, <1>4, <2>0, <2>1, <2>2 DEF ListTrue, StoredShown, ShownStored
    <2>6. MarksMatch' /\ WordsMatch'
      BY <1>1, <1>3, <1>4, <2>0, <2>1 DEF ListTrue, MarksMatch, WordsMatch
    <2> QED
      BY <2>3, <2>4, <2>5, <2>6 DEF ListTrue
  <1> QED
    BY <1>1, <1>2, <1>8, <1>9, <1>10, <1>11, <1>12 DEF Created, Deleted, Reworded

\* The rows of a list that was read, while writes go on.
LEMMA ReadKept ==
  ASSUME NEW id, Aged(id), ReadSound,
         \A t \in stored : t.id = id \/ t \in stored', \A t \in stored' : t.id = id \/ t \in stored,
         stored = stored' \/ id # 0, \A w \in writes' : w.id = id \/ \E u \in writes : u.id = w.id,
         \A i \in Int : i <= issued => i <= issued',
         \A r \in fetch : r.phase = "read" => \A t \in ToSet(r.got) : t.id \in Int
  PROVE  ReadSound'
  <1>1. ASSUME NEW q \in fetch', q.phase = "read" PROVE RowsRead(q)'
    <2>1. PICK r \in fetch : /\ r.phase = "read" /\ r.got = q.got /\ r.beside \subseteq q.beside
                             /\ id # 0 => id \in q.beside
      BY Zenon, <1>1 DEF Aged
    <2>2. RowsRead(r)
      BY Zenon, <2>1 DEF ReadSound
    <2>3. PICK g : g = r.got /\ g = q.got
      BY Zenon, <2>1
    <2>4. /\ Once(g) /\ \A t \in ToSet(g) : t.id <= issued /\ t.id \in Int
      BY Zenon, <2>1, <2>2, <2>3 DEF RowsRead
    <2>5. \A t \in ToSet(g) : t.id <= issued'
      BY Zenon, <2>4
    <2>6. \A w \in writes' : w.id \in q.beside \cup {0}
      <3>1. ASSUME NEW u \in writes PROVE u.id \in q.beside \cup {0}
        BY Zenon, <2>1, <2>2 DEF RowsRead
      <3>2. id \in q.beside \cup {0}
        BY Zenon, <2>1
      <3> QED
        BY Zenon, <3>1, <3>2
    <2>7. \A t \in ToSet(g) : t.id \in q.beside \/ t \in stored'
      <3>1. \A t \in ToSet(g) : t.id \in q.beside \/ t \in stored
        BY Zenon, <2>1, <2>2, <2>3 DEF RowsRead
      <3> QED
        BY Zenon, <2>1, <3>1
    <2>8. \A s \in stored' : s.id \in q.beside \/ s \in ToSet(g)
      <3>1. \A s \in stored : s.id \in q.beside \/ s \in ToSet(g)
        BY Zenon, <2>1, <2>2, <2>3 DEF RowsRead
      <3> QED
        BY Zenon, <2>1, <3>1
    <2> QED
      BY Zenon, <2>3, <2>4, <2>5, <2>6, <2>7, <2>8 DEF RowsRead
  <1> QED
    BY Zenon, <1>1 DEF ReadSound

LEMMA GotTypes ==
  ASSUME TodoTypes PROVE \A r \in fetch : r.phase = "read" => \A t \in ToSet(r.got) : t.id \in Int
  <1>1. ASSUME NEW r \in fetch, NEW t \in ToSet(r.got) PROVE t.id \in Int
    <2>1. r.got \in Seq(Todo)
      BY DEF TodoTypes
    <2>2. t \in Todo
      BY <2>1 DEF ToSet
    <2> QED
      BY <2>2 DEF Todo, TodoIDs
  <1> QED
    BY <1>1

\* Nothing that says what was read is touched.
LEMMA ReadStays ==
  ASSUME ReadSound, UNCHANGED <<stored, issued>>, \A r \in fetch' : r \in fetch \/ r.phase = "wire",
         \A w \in writes' : \E u \in writes : u.id = w.id
  PROVE  ReadSound'
  <1>1. ASSUME NEW r \in fetch', r.phase = "read" PROVE RowsRead(r)'
    <2>1. RowsRead(r)
      BY <1>1 DEF ReadSound
    <2> QED
      BY <2>1 DEF RowsRead
  <1> QED
    BY <1>1 DEF ReadSound

LEMMA ReadStep ==
  ASSUME MaxTodos \in Nat, TodoTypes, StoredKnown, ReadSound, [TodoNext]_todoVars PROVE ReadSound'
  <1>t. stored \subseteq Todo /\ issued \in Nat
    BY DEF TodoTypes
  <1>1. CASE Dialog \/ UNCHANGED todoVars
    <2>1. UNCHANGED <<fetch, stored, issued, writes>>
      BY <1>1, Dialogs DEF todoVars
    <2> QED
      BY <2>1, ReadStays
  <1>2. CASE handleToggleDone \/ handleCreateTodo \/ handleUpdateTodoContent \/ confirmDeleteTodo
    <2>1. PICK w \in Write : writes' = writes \cup {w} /\ Outdated(w.id) /\ UNCHANGED <<stored, issued>>
      BY <1>2, Sends DEF Sent
    <2>2. Aged(w.id)
      BY <2>1, Ages DEF Write
    <2>3. PICK id : id = w.id
      OBVIOUS
    <2> QED
      BY <2>1, <2>2, <2>3, ReadKept, GotTypes
  <1>3. CASE ReadTodos
    <2>1. fetch' = {[phase |-> "read", got |-> SetToSeq(stored), beside |-> {w.id : w \in writes} \ {0}]}
          /\ UNCHANGED <<writes, stored, issued>>
      BY <1>3 DEF ReadTodos
    <2>2. IsInjective(SetToSeq(stored)) /\ ToSet(SetToSeq(stored)) = stored /\ SetToSeq(stored) \in Seq(stored)
      BY StoredFinite, OneOfEach
    <2>3. Once(SetToSeq(stored))
      <3>1. SetToSeq(stored) \in Seq(Todo)
        BY <1>t, <2>2
      <3>2. \A t, u \in stored : t.id = u.id => t = u
        BY DEF StoredKnown
      <3> QED
        BY <2>2, <3>1, <3>2, OnceBy
    <2>4. ASSUME NEW r \in fetch' PROVE RowsRead(r)'
      <3>1. r.got = SetToSeq(stored) /\ r.beside = {w.id : w \in writes} \ {0}
        BY <2>1
      <3> QED
        BY <2>1, <2>2, <2>3, <3>1 DEF RowsRead, StoredKnown
    <2> QED
      BY <2>4 DEF ReadSound
  <1>4. CASE TodosAnswer
    BY <1>4 DEF TodosAnswer, ReadSound
  <1>5. CASE TodosFail \/ retryTodos \/ navigateToMonth \/ handleCalendarScroll
    BY <1>5, Fetches, ReadStays
  <1>6. CASE ServerWrites
    <2>1. PICK w \in writes : w \in Write /\ (Carried(w) \/ Refused(w))
      BY <1>6, Carries
    <2>2. CASE Refused(w)
      <3>1. [w EXCEPT !.phase = "failed"].id = w.id
        BY <2>1 DEF Write
      <3> QED
        BY <2>2, <3>1, ReadStays DEF Refused
    <2>3. CASE Carried(w) /\ w.kind = "create"
      <3>1. PICK id \in TodoIDs : id = issued + 1
        BY <2>3 DEF Carried
      <3>2. /\ stored' = stored \cup {[id |-> id, done |-> 0, text |-> w.value]} /\ Outdated(id) /\ issued' = issued + 1
            /\ writes' = (writes \ {w}) \cup {[w EXCEPT !.phase = "done", !.id = id]}
        BY <2>3, <3>1 DEF Carried
      <3>3. [w EXCEPT !.phase = "done", !.id = id].id = id
        BY <2>1 DEF Write
      <3>4. Aged(id) /\ id # 0
        BY <3>1, <3>2, Ages DEF TodoIDs
      <3>5. \A i \in Int : i <= issued => i <= issued'
        BY <1>t, <3>2
      <3>6. /\ \A t \in stored : t.id = id \/ t \in stored'
            /\ \A t \in stored' : t.id = id \/ t \in stored
        BY <3>2
      <3>7. \A u \in writes' : u.id = id \/ \E x \in writes : x.id = u.id
        BY <3>2, <3>3
      <3> QED
        BY Zenon, <3>4, <3>5, <3>6, <3>7, ReadKept, GotTypes
    <2>4. CASE Carried(w) /\ w.kind # "create"
      <3>1. /\ writes' = (writes \ {w}) \cup {[w EXCEPT !.phase = "done"]} /\ issued' = issued /\ Outdated(0)
            /\ stored' \in {{Shifted(t, w) : t \in stored}, {t \in stored : t.id # w.id}}
        BY <2>4 DEF Carried
      <3>2. [w EXCEPT !.phase = "done"].id = w.id
        BY <2>1 DEF Write
      <3>3. Aged(0)
        BY <3>1, Ages
      <3>4. (\A t \in stored : t.id = w.id \/ t \in stored') /\ (\A t \in stored' : t.id = w.id \/ t \in stored)
        <4>1. \A t \in stored : t.id # w.id => Shifted(t, w) = t
          BY DEF Shifted
        <4>2. \A t \in stored : Shifted(t, w).id = t.id
          BY <1>t, <2>1, TodoFields DEF Shifted, Write
        <4> QED
          BY <3>1, <4>1, <4>2
      <3>5. \A r \in fetch : r.phase = "read" => w.id \in r.beside \cup {0}
        BY DEF ReadSound, RowsRead
      <3>6. Aged(w.id)
        BY <3>3, <3>5 DEF Aged
      <3>7. stored' = stored \/ w.id # 0
        <4>1. \A t \in stored : t.id # 0
          BY <1>t DEF Todo, TodoIDs
        <4> QED
          BY <3>1, <4>1 DEF Shifted
      <3>8. PICK id : id = w.id
        OBVIOUS
      <3>9. \A u \in writes' : u.id = id \/ \E x \in writes : x.id = u.id
        BY <3>1, <3>2, <3>8
      <3> QED
        BY <3>1, <3>4, <3>6, <3>7, <3>8, <3>9, ReadKept, GotTypes
    <2> QED
      BY <2>1, <2>2, <2>3, <2>4
  <1>7. CASE AnswerLost
    <2>1. PICK w \in writes : writes' = (writes \ {w}) \cup {[w EXCEPT !.phase = "failed"]} /\ UNCHANGED <<fetch, stored, issued>>
      BY <1>7 DEF AnswerLost
    <2>2. [w EXCEPT !.phase = "failed"].id = w.id
      BY DEF TodoTypes, Write
    <2> QED
      BY <2>1, <2>2, ReadStays
  <1>8. CASE ToggleAnswer \/ CreateAnswer \/ UpdateAnswer \/ DeleteAnswer
    <2>1. \E w \in writes : writes' = writes \ {w} /\ UNCHANGED <<fetch, stored, issued>>
      BY <1>8, Ends
    <2> QED
      BY <2>1, ReadStays
  <1> QED
    BY <1>1, <1>2, <1>3, <1>4, <1>5, <1>6, <1>7, <1>8 DEF TodoNext, TodoAnswers, TodoUse, Dialog

LEMMA TodosStart == ASSUME TodoInit PROVE TodoIInv
  <1>1. /\ todos = <<>> /\ forms = Closed /\ writes = {} /\ stored = {} /\ issued = 0 /\ doubt = {}
        /\ \A r \in fetch : r.phase = "wire" /\ r \in [phase : {"wire"}, got : {<<>>}, beside : {{}}]
    BY DEF TodoInit, NewFetch
  <1>2. <<>> \in Seq(Todo) /\ ToSet(<<>>) = {} /\ OnceBut(<<>>, {})
    BY DEF ToSet, OnceBut
  <1>3. forms \in TodoForms /\ forms.target = 0 /\ forms.editing = 0
    BY <1>1 DEF Closed, TodoForms, FormStates
  <1>4. TodoTypes
    BY <1>1, <1>2, <1>3 DEF TodoTypes
  <1>5. ListTrue
    BY <1>1, <1>2, <1>3 DEF ListTrue, IdsKnown, CreatedApart, StoredShown, ShownStored, MarksMatch, WordsMatch, Shown
  <1>6. StoredKnown /\ OneWrite /\ FormSurvives /\ ReadSound
    BY <1>1 DEF StoredKnown, OneWrite, FormSurvives, ReadSound
  <1> QED
    BY <1>4, <1>5, <1>6 DEF TodoIInv

LEMMA TodosStep == ASSUME MaxTodos \in Nat, TodoIInv, [TodoNext]_todoVars PROVE TodoIInv'
  <1>1. TodoTypes' /\ StoredKnown' /\ OneWrite' /\ FormSurvives' /\ ReadSound'
    BY Zenon, TodoTypesStep, StoredStep, OneWriteStep, ReadStep DEF TodoIInv
  <1>2. ListTrue'
    <2>1. TodoTypes /\ StoredKnown /\ OneWrite /\ FormSurvives /\ ReadSound /\ ListTrue
      BY Zenon DEF TodoIInv
    <2>2. CASE Dialog
      BY Zenon, <2>1, <2>2, ListDialogs
    <2>3. CASE handleToggleDone \/ handleCreateTodo \/ handleUpdateTodoContent \/ confirmDeleteTodo
      BY Zenon, <2>1, <2>3, ListSends
    <2>4. CASE ReadTodos \/ UNCHANGED todoVars
      BY <2>1, <2>4, ListStays DEF ReadTodos, todoVars
    <2>5. CASE TodosAnswer
      BY Zenon, <2>1, <2>5, ListAnswered
    <2>6. CASE TodosFail \/ retryTodos \/ navigateToMonth \/ handleCalendarScroll
      BY <2>1, <2>6, Fetches, ListStays
    <2>7. CASE ServerWrites
      <3>1. PICK w \in writes : w \in Write /\ w.phase = "wire" /\ (Carried(w) \/ Refused(w)) /\ UNCHANGED <<todos, forms, doubt>>
        BY Zenon, <2>1, <2>7, Carries
      <3> QED
        BY Zenon, <2>1, <3>1, ListRefused, ListCreated, ListCarried
    <2>8. CASE ToggleAnswer \/ CreateAnswer \/ UpdateAnswer \/ DeleteAnswer
      BY Zenon, <2>1, <2>8, ListEnds
    <2>9. CASE AnswerLost
      BY Zenon, <2>1, <2>9, ListLost
    <2> QED
      BY Zenon, <2>2, <2>3, <2>4, <2>5, <2>6, <2>7, <2>8, <2>9 DEF TodoNext, TodoAnswers, TodoUse, Dialog
  <1> QED
    BY Zenon, <1>1, <1>2 DEF TodoIInv

\* However many todos, months and writes under way: the rows of every todo that
\* was not written beside the list shown end up as what is stored, and no form is
\* gone before its own request has succeeded.
THEOREM TodosSettle ==
  ASSUME MaxTodos \in Nat PROVE TodoInit /\ [][TodoNext]_todoVars => [](OptimismSettles /\ FormSurvives)
  <1>1. TodoInit => TodoIInv
    BY TodosStart
  <1>2. TodoIInv /\ [TodoNext]_todoVars => TodoIInv'
    BY TodosStep
  <1>3. TodoIInv => OptimismSettles /\ FormSurvives
    BY TodosSound
  <1> QED
    BY <1>1, <1>2, <1>3, PTL
=============================================================================
