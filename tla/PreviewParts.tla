------------------------------- MODULE PreviewParts ----------------------------
(***************************************************************************)
(* Parts of a rendered document with a life of their own: the preview of   *)
(* the note a link points to (markdown-preview/hooks/use-hover-preview.ts, *)
(* wikilink-anchor.tsx), diagrams (components/mermaid.tsx) with their      *)
(* full-screen view (markdown-preview/mermaid-block.tsx), and the copy     *)
(* button of a block (code-block.tsx).                                     *)
(***************************************************************************)
EXTENDS Integers, FiniteSets

CONSTANTS WikiLinks,     \* links by title only: the note is looked for first
          IDLinks,       \* links that carry the id of the note
          MaxHovers,     \* bound: requests of the hover preview
          Charts,        \* texts of the diagram block
          Trimmed,       \* the text without the white space around it
          Invalid,       \* texts Mermaid refuses
          MaxDrawings,   \* bound: renderings started
          MaxFrames,     \* frames the full-screen view measures for (20 in the code)
          MaxZoom        \* steps of the wheel above and below 100 %

Links == WikiLinks \cup IDLinks
Nowhere == "nowhere"

(***************************************************************************)
(* Hover preview                                                           *)
(***************************************************************************)

VARIABLES pointer,   \* the link under the pointer
          popover,   \* hoverPreview
          hoverTimer, hoverID, hovers,  \* timer, last request, requests under way
          snippets,  \* previewCache: links whose text is there
          opening    \* WikilinkAnchor: resolving, and where the page went
hoverVars == <<pointer, popover, hoverTimer, hoverID, hovers, snippets, opening>>

Popover(link, waiting, content) == [open |-> TRUE, title |-> link, loading |-> waiting, content |-> content]

\* openHoverPreview; the pointer leaves the link before it enters another.
openHoverPreview(l) ==
  /\ pointer = Nowhere /\ pointer' = l
  /\ IF l \in snippets
     THEN popover' = Popover(l, FALSE, l) /\ hoverTimer' = Nowhere
     ELSE popover' = Popover(l, TRUE, "") /\ hoverTimer' = l
  /\ UNCHANGED <<hoverID, hovers, snippets, opening>>
closeHoverPreview ==
  /\ pointer # Nowhere /\ pointer' = Nowhere /\ hoverTimer' = Nowhere
  /\ popover' = [popover EXCEPT !.open = FALSE, !.loading = FALSE]
  /\ UNCHANGED <<hoverID, hovers, snippets, opening>>
\* 140 ms later: a request with the next number.
HoverTimer ==
  /\ hoverTimer # Nowhere /\ hoverID < MaxHovers
  /\ hoverID' = hoverID + 1 /\ hoverTimer' = Nowhere
  /\ hovers' = hovers \cup {[id |-> hoverID + 1, link |-> hoverTimer,
                             stage |-> IF hoverTimer \in IDLinks THEN "detail" ELSE "resolve"]}
  /\ UNCHANGED <<pointer, popover, snippets, opening>>
IfCurrent(r, p) == popover' = IF r.id = hoverID THEN p ELSE popover
\* resolveTargetId finds the note, or none; either request may fail.
HoverResolved ==
  \E r \in hovers :
    /\ r.stage = "resolve"
    /\ \/ hovers' = (hovers \ {r}) \cup {[r EXCEPT !.stage = "detail"]} /\ UNCHANGED popover
       \/ /\ hovers' = hovers \ {r}
          /\ IfCurrent(r, [popover EXCEPT !.loading = FALSE, !.content = "No preview available"])
    /\ UNCHANGED <<pointer, hoverTimer, hoverID, snippets, opening>>
HoverAnswer ==
  \E r \in hovers :
    /\ r.stage = "detail" /\ hovers' = hovers \ {r}
    /\ snippets' = snippets \cup {r.link} /\ IfCurrent(r, Popover(r.link, FALSE, r.link))
    /\ UNCHANGED <<pointer, hoverTimer, hoverID, opening>>
HoverFails ==
  \E r \in hovers :
    /\ hovers' = hovers \ {r}
    /\ IfCurrent(r, [popover EXCEPT !.loading = FALSE, !.content = "Failed to load preview"])
    /\ UNCHANGED <<pointer, hoverTimer, hoverID, snippets, opening>>
\* WikilinkAnchor: a click goes to the note, after a search for it when it has no
\* id; when there is none or the search fails, to the list.
handleClick ==
  /\ opening = "none" /\ pointer # Nowhere
  /\ opening' = IF pointer \in IDLinks THEN "note" ELSE "resolving"
  /\ UNCHANGED <<pointer, popover, hoverTimer, hoverID, hovers, snippets>>
ClickAnswer ==
  /\ opening = "resolving" /\ \E where \in {"note", "list"} : opening' = where
  /\ UNCHANGED <<pointer, popover, hoverTimer, hoverID, hovers, snippets>>

HoverInit ==
  /\ pointer = Nowhere /\ hoverTimer = Nowhere /\ hoverID = 0 /\ hovers = {} /\ snippets = {}
  /\ popover = [open |-> FALSE, title |-> "", loading |-> FALSE, content |-> ""] /\ opening = "none"
HoverNext ==
  \/ \E l \in Links : openHoverPreview(l)
  \/ closeHoverPreview \/ HoverTimer \/ HoverResolved \/ HoverAnswer \/ HoverFails
  \/ handleClick \/ ClickAnswer

\* A preview that says it is loading has a timer or the current request to end it.
HoverNeverStuck ==
  popover.loading => hoverTimer # Nowhere \/ \E r \in hovers : r.id = hoverID

(***************************************************************************)
(* Diagrams                                                                *)
(***************************************************************************)

VARIABLES chart,     \* text of the diagram block
          drawn,     \* the Mermaid components: inline, and in the full-screen view
          drawings,  \* renderings under way
          svgCache,
          drawingNo,
          modal,     \* MermaidModal
          copies     \* copy button: writes under way, copied, its timer
diagramVars == <<chart, drawn, drawings, svgCache, drawingNo, modal, copies>>
Sites == {"inline", "modal"}
Unmounted == [key |-> "none", svg |-> "", failed |-> FALSE, asked |-> -1]
ClosedModal == [open |-> FALSE, zoom |-> 0, panned |-> FALSE, dragging |-> FALSE,
                frames |-> 0, scaled |-> FALSE]

\* A component with the text c: what the cache has, or a rendering of its own,
\* whose answer only counts while the component still shows c.
Component(site, c, no) ==
  [key |-> c, svg |-> IF <<site, c>> \in svgCache THEN Trimmed[c] ELSE "", failed |-> FALSE, asked |-> no]
Draws(site, c) ==
  IF <<site, c>> \in svgCache THEN drawings' = drawings /\ drawingNo' = drawingNo
  ELSE /\ drawingNo < MaxDrawings /\ drawingNo' = drawingNo + 1
       /\ drawings' = drawings \cup {[n |-> drawingNo, site |-> site, chart |-> c]}
\* The text is edited: the component is replaced, or keeps its place when only the
\* white space around the text changed; the modal is closed while one types.
EditChart(c) ==
  /\ c # chart /\ ~modal.open
  /\ chart' = c /\ Draws("inline", c)
  /\ drawn' = [drawn EXCEPT !["inline"] = Component("inline", c, drawingNo)]
  /\ UNCHANGED <<svgCache, modal, copies>>
Counts(d) == drawn[d.site].asked = d.n /\ drawn[d.site].key = d.chart
DrawingAnswer ==
  \E d \in drawings :
    /\ drawings' = drawings \ {d}
    /\ IF ~Counts(d) THEN UNCHANGED <<drawn, svgCache>>
       ELSE IF Trimmed[d.chart] \in Invalid
       THEN drawn' = [drawn EXCEPT ![d.site].failed = TRUE] /\ UNCHANGED svgCache
       ELSE /\ drawn' = [drawn EXCEPT ![d.site].svg = Trimmed[d.chart], ![d.site].failed = FALSE]
            /\ svgCache' = svgCache \cup {<<d.site, d.chart>>}
    /\ UNCHANGED <<chart, drawingNo, modal, copies>>

\* What a mounted diagram shows, and what can be done with it.
Mermaid(d) == IF d.failed THEN "Invalid Mermaid Syntax" ELSE d.svg
MermaidBlock == IF modal.open THEN {} ELSE {"open preview", "copy"}
MermaidModal == IF ~modal.open THEN {} ELSE {"wheel", "reset"} \cup (IF modal.zoom > 0 THEN {"pan"} ELSE {})
openModal ==
  /\ "open preview" \in MermaidBlock /\ modal' = [ClosedModal EXCEPT !.open = TRUE]
  /\ Draws("modal", chart) /\ drawn' = [drawn EXCEPT !["modal"] = Component("modal", chart, drawingNo)]
  /\ UNCHANGED <<chart, svgCache, copies>>
closeModal ==
  /\ modal.open /\ modal' = ClosedModal /\ drawn' = [drawn EXCEPT !["modal"] = Unmounted]
  /\ UNCHANGED <<chart, drawings, svgCache, drawingNo, copies>>
ModalStep(m) == /\ modal.open /\ m # modal /\ modal' = m
                /\ UNCHANGED <<chart, drawn, drawings, svgCache, drawingNo, copies>>
\* updateBaseScale runs in the first frames after every change of the zoom and
\* measures when there is something to measure.
measure == /\ modal.frames < MaxFrames
           /\ ModalStep([modal EXCEPT !.frames = @ + 1, !.scaled = @ \/ drawn["modal"].svg # ""])
handleZoomWheel(d) ==
  /\ "wheel" \in MermaidModal /\ modal.zoom + d \in -MaxZoom..MaxZoom
  /\ ModalStep([modal EXCEPT !.zoom = @ + d, !.frames = 0])
handlePanStart == "pan" \in MermaidModal /\ ModalStep([modal EXCEPT !.dragging = TRUE])
handlePanMove == modal.dragging /\ ModalStep([modal EXCEPT !.panned = TRUE])
handlePanEnd == ModalStep([modal EXCEPT !.dragging = FALSE])
resetZoom == ModalStep([modal EXCEPT !.zoom = 0, !.panned = FALSE,
                                     !.frames = IF modal.zoom = 0 THEN @ ELSE 0])

\* handleCopyLocal: copied for a second after the last successful write.
CopyStep(c) == copies' = c /\ UNCHANGED <<chart, drawn, drawings, svgCache, drawingNo, modal>>
handleCopyLocal == "copy" \in MermaidBlock /\ copies.asked = 0 /\ CopyStep([copies EXCEPT !.asked = @ + 1])
CopyAnswer == /\ copies.asked > 0
              /\ \/ CopyStep([asked |-> copies.asked - 1, copied |-> TRUE, timer |-> TRUE])
                 \/ CopyStep([copies EXCEPT !.asked = @ - 1])
CopyTimer == copies.timer /\ CopyStep([copies EXCEPT !.copied = FALSE, !.timer = FALSE])

DiagramInit ==
  /\ chart \in Charts /\ svgCache = {} /\ drawingNo = 1 /\ modal = ClosedModal
  /\ drawings = {[n |-> 0, site |-> "inline", chart |-> chart]}
  /\ drawn = [s \in Sites |-> IF s = "inline" THEN [Unmounted EXCEPT !.key = chart, !.asked = 0]
                              ELSE Unmounted]
  /\ copies = [asked |-> 0, copied |-> FALSE, timer |-> FALSE]
DiagramNext ==
  \/ \E c \in Charts : EditChart(c)
  \/ DrawingAnswer \/ openModal \/ closeModal \/ measure
  \/ handleZoomWheel(1) \/ handleZoomWheel(-1)
  \/ handlePanStart \/ handlePanMove \/ handlePanEnd \/ resetZoom
  \/ handleCopyLocal \/ CopyAnswer \/ CopyTimer

PreviewTypeOK ==
  /\ pointer \in Links \cup {Nowhere} /\ hoverTimer \in Links \cup {Nowhere} /\ hoverID \in 0..MaxHovers
  /\ chart \in Charts /\ drawingNo \in 0..MaxDrawings
  /\ \A d \in drawings : d.site \in Sites /\ d.chart \in Charts
  /\ copies.asked \in 0..1 /\ modal.zoom \in -MaxZoom..MaxZoom

\* Every mounted diagram shows the text it was given, says that it cannot be drawn,
\* or is being drawn: renderings that end late, or that belong to a text that was
\* edited meanwhile, never show and never leave the block empty.
DiagramMatchesChart ==
  \A s \in Sites : drawn[s] # Unmounted =>
    /\ drawn[s].key = chart
    /\ Mermaid(drawn[s]) \in {"", Trimmed[chart]}
         \cup (IF Trimmed[chart] \in Invalid THEN {"Invalid Mermaid Syntax"} ELSE {})
    /\ Mermaid(drawn[s]) # "" \/ \E d \in drawings : d.site = s /\ Counts(d)
================================================================================
