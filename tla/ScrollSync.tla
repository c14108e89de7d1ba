------------------------------- MODULE ScrollSync ------------------------------
(***************************************************************************)
(* Scroll synchronisation of the editor and the preview, and navigation    *)
(* from the outline (docs/[id]/hooks/useScrollSync.ts,                      *)
(* useOutlineNavigation.ts).  A frame of the browser first fires the scroll *)
(* events and then runs the callbacks that were requested before; the      *)
(* reader acts between frames.  A position is a line of the editor or an   *)
(* offset of the preview.                                                  *)
(***************************************************************************)
EXTENDS Integers, Sequences, FiniteSets, SequencesExt, Subsequences

CONSTANTS Markers,      \* data-source-line markers of the preview: <<line, offset>>, sorted
          Heads,        \* lines of the headings, sorted; each has a marker
          Lines,        \* lines of the document
          PreviewMax,   \* scrollHeight - clientHeight of the preview
          MaxGestures,  \* bound: scrolls and clicks of the reader
          MaxSettle     \* bound: frames a smooth scroll is observed (90 in the code)

VARIABLES editor, preview,  \* scroll positions
          events,    \* per pane the scroll event to be fired: "no", "user" or "sync"
          queue,     \* callbacks requested for the next frame, in order
          running,   \* callbacks of this frame that have not run
          phase,     \* "idle", "events" or "callbacks"
          scrollingSource,  \* the pane that is followed, or "none"
          suppress,  \* suppressionRef
          work,      \* what frameRef's callback does: the pane whose handler requested it
                     \* and the origin of that event
          measure,   \* line that CodeMirror scrolls to in its measuring frame, 0 for none
          glide,     \* the smooth scroll of the preview: whether the browser still moves,
                     \* its target, and the frames counted by checkSettled
          toc,       \* line of the active heading
          enabled,   \* the synchronisation switch
          reduced,   \* prefers-reduced-motion
          clicked,   \* history: the outline was used since everything was last at rest
          gestures
scrollVars == <<editor, preview, events, queue, running, phase, scrollingSource, suppress, work,
                measure, glide, toc, enabled, reduced, clicked, gestures>>

Panes == {"editor", "preview"}
Still == [moving |-> FALSE, to |-> 0, stable |-> 0, observed |-> 0]
Callbacks == {"work", "measure", "settle", "finish", "release1", "release2"}

(***************************************************************************)
(* Positions                                                               *)
(***************************************************************************)

\* Between the last marker at or above a line and the first at or below it.
interpolatePreviewOffset(line) ==
  LET above == {m \in DOMAIN Markers : Markers[m][1] <= line}
      below == {m \in DOMAIN Markers : Markers[m][1] >= line} IN
  IF above = {} THEN Markers[1][2]
  ELSE LET p == Markers[Max(above)] IN
       IF below = {} THEN p[2]
       ELSE LET n == Markers[Min(below)] IN
            IF n[1] = p[1] THEN p[2]
            ELSE p[2] + ((line - p[1]) * (n[2] - p[2])) \div (n[1] - p[1])
Distance(a, b) == IF a > b THEN a - b ELSE b - a
\* The first of the closest markers.
nearestSourceLine(offset) ==
  LET closest == {m \in DOMAIN Markers : \A n \in DOMAIN Markers :
                    Distance(Markers[m][2], offset) <= Distance(Markers[n][2], offset)} IN
  Markers[Min(closest)][1]
\* The last heading at or above a line, the first when there is none above.
activeHeadingForSourceLine(line) ==
  LET above == {h \in DOMAIN Heads : Heads[h] <= line} IN
  Heads[IF above = {} THEN 1 ELSE Max(above)]
\* Binary search for the last heading at or above a line, of headings sorted by offset.
LastAtOrAbove(tops, line) ==
  LET Halved(s) ==
        LET middle == (s.low + s.high) \div 2 IN
        IF s.low > s.high THEN s
        ELSE IF tops[middle] <= line THEN [active |-> middle, low |-> middle + 1, high |-> s.high]
        ELSE [s EXCEPT !.high = middle - 1]
      search[n \in 0..Len(tops)] ==
        IF n = 0 THEN [active |-> 1, low |-> 1, high |-> Len(tops)] ELSE Halved(search[n - 1])
  IN search[Len(tops)].active
\* The activation line is one below the top; the last heading of all at the bottom.
activeHeadingForPreview(tops, offset) ==
  IF offset = PreviewMax THEN Len(tops) ELSE LastAtOrAbove(tops, offset + 1)
HeadOffsets == [h \in DOMAIN Heads |-> interpolatePreviewOffset(Heads[h])]
\* The line in the middle of the editor's viewport, which shows two.
ActivationLine == IF editor = Lines THEN Lines ELSE editor + 1

(***************************************************************************)
(* Frames                                                                  *)
(***************************************************************************)

Without(s, callbacks) == Within(s, Callbacks \ callbacks)
\* A write fires a scroll event only if it moves the pane; an event of the reader's own
\* that is still to be fired stays one.
Scrolled(pane, moved, origin) ==
  IF ~moved \/ events[pane] = "user" THEN events ELSE [events EXCEPT ![pane] = origin]

\* schedule: at most one piece of work per frame; q and r are the queues before.
Schedule(q, r, pane, origin) ==
  /\ queue' = Append(Without(q, {"work"}), "work")
  /\ running' = Without(r, {"work"})
  /\ work' = [pane |-> pane, origin |-> origin]
Releases == {"release1", "release2"}
\* Mutant: the lock is given back before the scroll it caused is heard of.
ReleaseAtOnce(q, r) == queue' = Without(q, Releases) /\ running' = Without(r, Releases)
\* releaseAfterSettledFrames
ReleaseLater(q, r) == queue' = Append(Without(q, Releases), "release1") /\ running' = Without(r, Releases)

AtRest == phase = "idle" /\ queue = <<>> /\ ~glide.moving /\ \A p \in Panes : events[p] = "no"
Gesture == phase = "idle" /\ gestures < MaxGestures /\ gestures' = gestures + 1

UserScroll ==
  /\ Gesture
  /\ \/ \E l \in 1..Lines : l # editor /\ editor' = l /\ UNCHANGED <<preview, glide>>
        /\ events' = [events EXCEPT !["editor"] = "user"]
     \/ \E o \in 0..PreviewMax : o # preview /\ preview' = o /\ glide' = [glide EXCEPT !.moving = FALSE] /\ UNCHANGED editor
        /\ events' = [events EXCEPT !["preview"] = "user"]
  /\ clicked' = (clicked /\ ~AtRest)
  /\ UNCHANGED <<queue, running, phase, scrollingSource, suppress, work, measure, toc, enabled, reduced>>

\* scrollPreviewToHeading: the preview glides (or jumps) to the heading.
scrollPreviewToHeading ==
  /\ Gesture
  /\ \E h \in DOMAIN Heads :
       LET to == HeadOffsets[h] IN
       /\ toc' = Heads[h]
       /\ queue' = Append(Without(queue, {"settle", "finish"}), IF reduced THEN "finish" ELSE "settle")
       /\ glide' = IF reduced THEN Still ELSE [moving |-> TRUE, to |-> to, stable |-> 0, observed |-> 0]
       /\ preview' = IF reduced THEN to ELSE preview
       /\ events' = Scrolled("preview", reduced /\ to # preview, "user")
  /\ suppress' = TRUE /\ clicked' = TRUE
  /\ UNCHANGED <<editor, running, phase, scrollingSource, work, measure, enabled, reduced>>
\* scrollEditorToSourceLine, on a narrow screen where the panes alternate.
scrollEditorToSourceLine ==
  /\ Gesture
  /\ \E h \in DOMAIN Heads : toc' = Heads[h] /\ measure' = Heads[h]
  /\ ReleaseLater(Append(Without(queue, {"measure"}), "measure"), running)
  /\ suppress' = TRUE /\ clicked' = TRUE
  /\ UNCHANGED <<editor, preview, events, phase, scrollingSource, work, glide, enabled, reduced>>
\* The outline: the preview when it is on the screen, the editor otherwise.
OutlinePanel == scrollPreviewToHeading \/ scrollEditorToSourceLine
ToggleSync ==
  /\ Gesture /\ enabled' = ~enabled
  /\ UNCHANGED <<editor, preview, events, queue, running, phase, scrollingSource, suppress, work, measure,
                 glide, toc, reduced, clicked>>

\* A frame starts; a smooth scroll moves on.
BeginFrame ==
  /\ phase = "idle" /\ ~AtRest /\ phase' = "events"
  /\ \/ ~glide.moving /\ UNCHANGED <<preview, events>>
     \/ /\ glide.moving
        /\ \E o \in 0..PreviewMax :
             /\ Distance(o, glide.to) < Distance(preview, glide.to) \/ o = glide.to
             /\ preview' = o /\ events' = Scrolled("preview", o # preview, "user")
  /\ UNCHANGED <<editor, queue, running, scrollingSource, suppress, work, measure, glide, toc, enabled,
                 reduced, clicked, gestures>>

\* handleEditorScroll and handlePreviewScroll: nothing while the other pane is the
\* source or the outline is being followed.
HandleScroll(pane) ==
  /\ phase = "events" /\ events[pane] # "no"
  /\ events' = [events EXCEPT ![pane] = "no"]
  /\ IF scrollingSource \in Panes \ {pane} \/ suppress THEN UNCHANGED <<queue, running, work>>
     ELSE Schedule(queue, running, pane, events[pane])
  /\ UNCHANGED <<editor, preview, phase, scrollingSource, suppress, measure, glide, toc, enabled, reduced,
                 clicked, gestures>>
StartCallbacks ==
  /\ phase = "events" /\ \A p \in Panes : events[p] = "no"
  /\ running' = queue /\ queue' = <<>>
  /\ phase' = IF queue = <<>> THEN "idle" ELSE "callbacks"
  /\ UNCHANGED <<editor, preview, events, scrollingSource, suppress, work, measure, glide, toc, enabled,
                 reduced, clicked, gestures>>

Callback(c) == phase = "callbacks" /\ running # <<>> /\ Head(running) = c
EndOfFrame == phase' = IF running' = <<>> THEN "idle" ELSE "callbacks"
\* The work of handleEditorScroll.
SyncPreview ==
  /\ Callback("work") /\ work.pane = "editor"
  /\ toc' = activeHeadingForSourceLine(ActivationLine)
  /\ IF ~enabled
     THEN running' = Tail(running) /\ UNCHANGED <<queue, preview, events, scrollingSource, glide>>
     ELSE /\ preview' = interpolatePreviewOffset(editor)
          /\ events' = Scrolled("preview", preview' # preview, "sync")
          /\ glide' = [glide EXCEPT !.moving = FALSE] /\ scrollingSource' = "editor"
          /\ ReleaseLater(queue, Tail(running))
  /\ EndOfFrame
  /\ UNCHANGED <<editor, suppress, work, measure, enabled, reduced, clicked, gestures>>
\* The work of handlePreviewScroll; the editor moves when CodeMirror measures.
SyncEditor ==
  /\ Callback("work") /\ work.pane = "preview"
  /\ toc' = Heads[activeHeadingForPreview(HeadOffsets, preview)]
  /\ IF ~enabled
     THEN running' = Tail(running) /\ UNCHANGED <<queue, scrollingSource, measure>>
     ELSE /\ scrollingSource' = "preview" /\ measure' = nearestSourceLine(preview)
          /\ ReleaseLater(Append(Without(queue, {"measure"}), "measure"),
                          Without(Tail(running), {"measure"}))
  /\ EndOfFrame
  /\ UNCHANGED <<editor, preview, events, suppress, work, glide, enabled, reduced, clicked, gestures>>
Measure ==
  /\ Callback("measure") /\ running' = Tail(running) /\ EndOfFrame
  /\ editor' = measure /\ measure' = 0
  /\ events' = Scrolled("editor", editor' # editor, "sync")
  /\ UNCHANGED <<preview, queue, scrollingSource, suppress, work, glide, toc, enabled, reduced, clicked, gestures>>
Release ==
  /\ \/ Callback("release1") /\ queue' = Append(queue, "release2") /\ UNCHANGED <<scrollingSource, suppress>>
     \/ Callback("release2") /\ scrollingSource' = "none" /\ suppress' = FALSE /\ UNCHANGED queue
  /\ running' = Tail(running) /\ EndOfFrame
  /\ UNCHANGED <<editor, preview, events, work, measure, glide, toc, enabled, reduced, clicked, gestures>>
\* finish: the outline was followed; now the editor follows the preview.
Finish ==
  /\ suppress' = FALSE /\ scrollingSource' = "none" /\ glide' = Still
  /\ Schedule(queue, Tail(running), "preview", "user")
\* checkSettled: two frames at the target, or the limit.
CheckSettled ==
  /\ \/ Callback("finish") /\ Finish
     \/ /\ Callback("settle")
        /\ LET stable == IF glide.to = preview THEN glide.stable + 1 ELSE 0
               observed == glide.observed + 1 IN
           IF stable >= 2 \/ observed >= MaxSettle THEN Finish
           ELSE /\ glide' = [glide EXCEPT !.stable = stable, !.observed = observed]
                /\ queue' = Append(queue, "settle") /\ running' = Tail(running)
                /\ UNCHANGED <<suppress, scrollingSource, work>>
  /\ EndOfFrame
  /\ UNCHANGED <<editor, preview, events, measure, toc, enabled, reduced, clicked, gestures>>

ScrollInit ==
  /\ editor = 1 /\ preview = 0 /\ events = [p \in Panes |-> "no"] /\ queue = <<>> /\ running = <<>>
  /\ phase = "idle" /\ scrollingSource = "none" /\ suppress = FALSE /\ work = [pane |-> "editor", origin |-> "no"]
  /\ measure = 0 /\ glide = Still /\ toc = Heads[1] /\ enabled \in BOOLEAN /\ reduced \in BOOLEAN
  /\ clicked = FALSE /\ gestures = 0
ScrollNext ==
  \/ UserScroll \/ OutlinePanel \/ ToggleSync
  \/ BeginFrame \/ (\E p \in Panes : HandleScroll(p)) \/ StartCallbacks
  \/ SyncPreview \/ SyncEditor \/ Measure \/ Release \/ CheckSettled

(***************************************************************************)
(* Properties                                                              *)
(***************************************************************************)

ScrollTypeOK ==
  /\ editor \in 1..Lines /\ preview \in 0..PreviewMax /\ toc \in ToSet(Heads)
  /\ ToSet(queue) \cup ToSet(running) \subseteq Callbacks /\ measure \in 0..Lines
\* A scroll that the synchronisation caused never drives the pane it came from, unless
\* the outline was used meanwhile.
NoEcho == "work" \in ToSet(queue \o running) /\ work.origin = "sync" => clicked
\* A lock or a suppression is never left behind: a callback that releases it is pending.
LocksAreReleased ==
  scrollingSource # "none" \/ suppress
    => ToSet(queue \o running) \cap {"release1", "release2", "settle", "finish"} # {}
\* The binary search finds the last heading at or above the activation line.
ActiveHeadingIsLast ==
  \A tops \in SUBSET (0..PreviewMax) : tops # {} =>
    \A o \in 0..(PreviewMax - 1) :
      LET s == SortedBy(SetToSeq(tops), {p \in tops \X tops : p[1] < p[2]})
          above == {i \in DOMAIN s : s[i] <= o + 1} IN
      activeHeadingForPreview(s, o) = IF above = {} THEN 1 ELSE Max(above)
================================================================================
