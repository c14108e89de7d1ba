---------------------------- MODULE EditorSession ----------------------------
(***************************************************************************)
(* Editing one document in several browser tabs: the editor session of     *)
(* each tab (web/src/app/docs/[id]/hooks: useEditorSaveQueue, with the     *)
(* hooks that drive it), the draft the tabs share in localStorage, and the *)
(* optimistic lock of DocumentService.Save at the other end of a network   *)
(* that loses and delays.                                                  *)
(*                                                                         *)
(* One action is one event handler of the browser, which runs to its next  *)
(* await, or one transaction of the server. A text stands for its title    *)
(* and its hash too. The other writes of a save (versions, tags, links,    *)
(* asset references, embedding jobs) are in the same transaction, and      *)
(* nothing here reads them.                                                *)
(***************************************************************************)
EXTENDS Integers, FiniteSets

CONSTANTS
  Tabs,         \* browser tabs on the document
  Texts,        \* what the editor may hold
  Untitled,     \* the texts extractTitleFromContent finds no title in
  None,         \* null
  MaxRevision,  \* bound on the document's content_revision
  MaxLate       \* bound on abandoned requests that are still on their way

ASSUME EditorAssumption ==
  /\ Untitled \subseteq Texts
  /\ None \notin Texts
  /\ MaxRevision \in Nat \ {0}
  /\ MaxLate \in Nat

VARIABLES
  note,   \* the documents row: its text and content_revision
  tab,    \* the session of each tab
  draft,  \* localStorage["mnote:draft:<id>"], or None
  late    \* saves whose tab has given up on them, not yet at the server

vars == <<note, tab, draft, late>>

Titled == Texts \ Untitled

Status == {"SYNCED", "LOCAL_CHANGES", "SAVING", "QUEUED", "ERROR", "CONFLICT"}

Note == [text: Titled, revision: 1..MaxRevision]
Draft == [text: Texts, base: 1..MaxRevision, hash: Texts]
\* next: the text that the queue of a page still alive sends when this is accepted.
Save == [text: Titled, base: 1..MaxRevision, next: Titled \union {None}]

\* phase: "left" is closed by way of pagehide. request: the save in flight, and
\* whether the server has answered it. found: the draft a dialog asks about.
Tab == [phase: {"closed", "left", "loading", "recovering", "open"},
        text: Texts \union {None}, dirty: BOOLEAN,
        saved: Texts \union {None}, title: Texts \union {None},
        base: 0..MaxRevision, status: Status, edited: BOOLEAN,
        queued: Titled \union {None},
        request: {"none", "sent", "accepted", "rejected"},
        sending: Titled \union {None},
        fetched: Note \union {None}, found: Texts \union {None}]

\* null is not one of the records it stands in for.
ASSUME NoneAssumption == None \notin Note \union Draft

TypeOK ==
  /\ note \in Note
  /\ tab \in [Tabs -> Tab]
  /\ draft \in Draft \union {None}
  /\ late \in SUBSET Save

Closed == [phase |-> "closed", text |-> None, dirty |-> FALSE,
           saved |-> None, title |-> None, base |-> 0, status |-> "SYNCED",
           edited |-> FALSE, queued |-> None, request |-> "none",
           sending |-> None, fetched |-> None, found |-> None]

Init ==
  /\ note \in [text: Titled, revision: {1}]
  /\ tab = [t \in Tabs |-> Closed]
  /\ draft = None
  /\ late = {}

-----------------------------------------------------------------------------
(* The save queue: what its functions make of the session s of a tab.      *)

InFlight(s) == s.request # "none"
Blocked(s) == s.status \in {"ERROR", "CONFLICT"}

\* drainQueue, up to its await
Sent(s, text) ==
  [s EXCEPT !.queued = None, !.status = "SAVING", !.edited = FALSE,
            !.request = "sent", !.sending = text]

\* markLocalChanges
Marked(s) ==
  [s EXCEPT !.edited = InFlight(s),
            !.status = IF Blocked(s) THEN @
                       ELSE IF InFlight(s) THEN "QUEUED" ELSE "LOCAL_CHANGES"]

\* requestSave
SaveRequested(s, text) ==
  IF text = s.saved /\ text = s.title /\ ~InFlight(s)
  THEN [s EXCEPT !.status = "SYNCED"]
  ELSE IF Blocked(s) THEN [s EXCEPT !.queued = text]
  ELSE IF InFlight(s) THEN [s EXCEPT !.queued = text, !.status = "QUEUED"]
  ELSE Sent(s, text)

\* resyncRevision
Resynced(s, server) ==
  [s EXCEPT !.base = server.revision, !.saved = server.text,
            !.title = server.text, !.queued = None, !.status = "SYNCED"]

\* initializeLoaded: the title is the draft's even where the text is the server's.
Initialized(s, text, server) ==
  LET loaded == [Resynced(s, server) EXCEPT
                   !.phase = "open", !.text = text, !.title = text,
                   !.dirty = text # server.text, !.fetched = None, !.found = None]
  IN  IF loaded.dirty THEN Marked(loaded) ELSE loaded

-----------------------------------------------------------------------------
(* Opening the page.                                                       *)

\* getDocument
Fetch(t) ==
  /\ tab[t].phase \in {"closed", "left"}
  /\ tab' = [tab EXCEPT ![t] = [Closed EXCEPT !.phase = "loading", !.fetched = note]]
  /\ UNCHANGED <<note, draft, late>>

\* classifyStoredDraft: auto_recover
Recoverable(server) == draft.base = server.revision /\ draft.hash = server.text

\* fetchDoc, after its await
Load(t) ==
  LET server == tab[t].fetched
  IN  /\ tab[t].phase = "loading"
      /\ tab' = [tab EXCEPT ![t] =
           IF draft = None \/ draft.text = server.text
           THEN Initialized(@, server.text, server)
           ELSE IF Recoverable(server) THEN Initialized(@, draft.text, server)
           ELSE [@ EXCEPT !.phase = "recovering", !.found = draft.text]]
      /\ draft' = IF draft # None /\ draft.text = server.text THEN None ELSE draft
      /\ UNCHANGED <<note, late>>

UseRecoveredServer(t) ==
  /\ tab[t].phase = "recovering"
  /\ draft' = None
  /\ tab' = [tab EXCEPT ![t] = Initialized(@, @.fetched.text, @.fetched)]
  /\ UNCHANGED <<note, late>>

UseRecoveredLocal(t) ==
  /\ tab[t].phase = "recovering"
  /\ tab' = [tab EXCEPT ![t] = Initialized(@, @.found, @.fetched)]
  /\ UNCHANGED <<note, draft, late>>

-----------------------------------------------------------------------------
(* Editing and asking for a save.                                          *)

\* publishContent
Type(t, text) ==
  /\ tab[t].phase = "open"
  /\ text # tab[t].text
  /\ LET typed == [tab[t] EXCEPT !.text = text, !.dirty = text # tab[t].saved]
     IN  tab' = [tab EXCEPT ![t] = IF typed.dirty THEN Marked(typed) ELSE typed]
  /\ UNCHANGED <<note, draft, late>>

\* Mutant: the timers save a text that has no title.
AutosaveAnyText(t) ==
  /\ tab[t].phase = "open" /\ tab[t].dirty /\ ~Blocked(tab[t])
  /\ tab[t].text # tab[t].saved
  /\ tab' = [tab EXCEPT ![t] = SaveRequested(@, @.text)]
  /\ UNCHANGED <<note, draft, late>>

\* The idle and max-wait timers of useAutosaveScheduler.
Autosave(t) ==
  /\ tab[t].phase = "open" /\ tab[t].dirty /\ ~Blocked(tab[t])
  /\ tab[t].text \in Titled /\ tab[t].text # tab[t].saved
  /\ tab' = [tab EXCEPT ![t] = SaveRequested(@, @.text)]
  /\ UNCHANGED <<note, draft, late>>

\* handleSave, when the queue is not blocked
ManualSave(t) ==
  /\ tab[t].phase = "open" /\ ~Blocked(tab[t])
  /\ tab[t].text \in Titled
  /\ tab' = [tab EXCEPT ![t] = SaveRequested(@, @.text)]
  /\ UNCHANGED <<note, draft, late>>

\* retry: by the button, by handleSave, or when the browser is back online
Retry(t) ==
  /\ tab[t].phase = "open" /\ tab[t].status = "ERROR"
  /\ tab[t].text \in Titled
  /\ tab' = [tab EXCEPT ![t] = Sent(@, @.text)]
  /\ UNCHANGED <<note, draft, late>>

-----------------------------------------------------------------------------
(* The server. saveImpl holds the document's row lock throughout.          *)

\* Mutant: the base revision is not compared.
AcceptsAny(base) == TRUE

Accepts(base) == base = note.revision

Write(text) ==
  /\ note.revision < MaxRevision
  /\ note' = [text |-> text, revision |-> note.revision + 1]

ServerSaves(t) ==
  /\ tab[t].request = "sent"
  /\ \/ /\ Accepts(tab[t].base)
        /\ Write(tab[t].sending)
        /\ tab' = [tab EXCEPT ![t].request = "accepted"]
     \/ /\ ~Accepts(tab[t].base)
        /\ tab' = [tab EXCEPT ![t].request = "rejected"]
        /\ UNCHANGED note
  /\ UNCHANGED <<draft, late>>

\* A save arrives whose session no longer waits for it. drainQueue of a session that
\* was unmounted goes on when it hears of it, unless the page is gone meanwhile.
ServerSavesLate ==
  \E q \in late :
    /\ \/ /\ Accepts(q.base) /\ Write(q.text)
          /\ \/ late' = late \ {q}
             \/ /\ q.next # None
                /\ late' = (late \ {q}) \union
                            {[text |-> q.next, base |-> q.base + 1, next |-> None]}
       \/ ~Accepts(q.base) /\ late' = late \ {q} /\ UNCHANGED note
    /\ UNCHANGED <<tab, draft>>

\* A write without a base revision: an import that overwrites the document.
ImportOverwrites(text) ==
  /\ Write(text)
  /\ UNCHANGED <<tab, draft, late>>

-----------------------------------------------------------------------------
(* The answer.                                                             *)

\* Mutant: the session is marked clean by any answer.
AcceptedAsClean(s) ==
  [s EXCEPT !.base = s.base + 1, !.saved = s.sending, !.title = s.sending,
            !.request = "none", !.sending = None, !.queued = None,
            !.dirty = FALSE, !.status = "SYNCED"]

\* commitAccepted with the session's onSaved, and the drain that follows. The
\* status is chosen by what was known before onSaved marked the session dirty.
Accepted(s) ==
  LET newer == s.queued # None /\ s.queued # s.sending
      isLatest == ~newer /\ ~s.edited
      clear == isLatest /\ s.sending = s.text
      done == [s EXCEPT !.base = s.base + 1,
                        !.saved = s.sending, !.title = s.sending,
                        !.request = "none", !.sending = None,
                        !.dirty = ~clear, !.edited = FALSE,
                        !.queued = IF isLatest THEN None ELSE @,
                        !.status = IF newer THEN "QUEUED"
                                   ELSE IF s.edited THEN "LOCAL_CHANGES" ELSE "SYNCED"]
  IN  IF done.queued # None THEN Sent(done, done.queued) ELSE done

\* Mutant: a rejected save moves on to the server's revision, as the queue did
\* when it had only a save sequence.
RejectedFastForwards(s) ==
  [s EXCEPT !.base = note.revision, !.request = "none", !.sending = None,
            !.status = "LOCAL_CHANGES"]

\* commitRejected, reason revision_conflict
Rejected(s) ==
  [s EXCEPT !.queued = s.sending, !.status = "CONFLICT", !.edited = FALSE,
            !.request = "none", !.sending = None, !.fetched = None]

\* Mutant: the failed snapshot is dropped and the queue goes on.
FailedSilently(s) ==
  [s EXCEPT !.request = "none", !.sending = None, !.status = "SAVING"]

\* commitFailure
Failed(s) ==
  [s EXCEPT !.queued = IF @ = None THEN s.sending ELSE @, !.status = "ERROR",
            !.edited = FALSE, !.request = "none", !.sending = None]

Receive(t) ==
  /\ tab[t].request \in {"accepted", "rejected"}
  /\ tab' = [tab EXCEPT ![t] = IF @.request = "accepted" THEN Accepted(@)
                                                         ELSE Rejected(@)]
  /\ UNCHANGED <<note, draft, late>>

StillSent(save) == Cardinality(late) < MaxLate /\ late' = late \union {save}

\* A save that was sent is lost or still arrives when its tab is gone.
Abandoned(t) ==
  \/ UNCHANGED late
  \/ /\ tab[t].request = "sent"
     /\ StillSent([text |-> tab[t].sending, base |-> tab[t].base, next |-> None])

\* The queue of a session that is unmounted, while the page lives on: its request
\* goes on, and what is queued behind it is sent when it has been accepted.
Unmounted(t) ==
  LET next == Accepted(tab[t]).sending
  IN  \/ /\ tab[t].request = "sent"
         /\ StillSent([text |-> tab[t].sending, base |-> tab[t].base, next |-> next])
      \/ /\ tab[t].request = "accepted" /\ next # None
         /\ StillSent([text |-> next, base |-> tab[t].base + 1, next |-> None])

\* The request or its answer is lost, or the tab stops waiting for it.
Fail(t) ==
  /\ tab[t].request # "none"
  /\ tab' = [tab EXCEPT ![t] = Failed(@)]
  /\ Abandoned(t)
  /\ UNCHANGED <<note, draft>>

-----------------------------------------------------------------------------
(* A conflict: nothing is sent until the user has decided.                 *)

\* loadConflict
LoadConflict(t) ==
  /\ tab[t].phase = "open" /\ tab[t].status = "CONFLICT"
  /\ tab[t].fetched = None
  /\ tab' = [tab EXCEPT ![t].fetched = note]
  /\ UNCHANGED <<note, draft, late>>

UseConflictServer(t) ==
  /\ tab[t].phase = "open" /\ tab[t].status = "CONFLICT"
  /\ tab[t].fetched # None
  /\ tab' = [tab EXCEPT ![t] =
       [Resynced(@, @.fetched) EXCEPT !.text = tab[t].fetched.text,
                                      !.dirty = FALSE, !.fetched = None]]
  /\ draft' = None
  /\ UNCHANGED <<note, late>>

KeepConflictDraft(t) ==
  /\ tab[t].phase = "open" /\ tab[t].status = "CONFLICT"
  /\ tab[t].fetched # None /\ tab[t].text \in Titled
  /\ LET resynced == [Resynced(tab[t], tab[t].fetched) EXCEPT
                        !.dirty = TRUE, !.fetched = None]
     IN  tab' = [tab EXCEPT ![t] = SaveRequested(Marked(resynced), @.text)]
  /\ UNCHANGED <<note, draft, late>>

-----------------------------------------------------------------------------
(* The draft, and leaving the page.                                        *)


\* flushDraftNow
Flushed(s) ==
  IF s.dirty THEN [text |-> s.text, base |-> s.base, hash |-> s.saved] ELSE None

\* After 250 ms, or when the page is hidden.
FlushDraft(t) ==
  /\ tab[t].phase = "open"
  /\ draft' = Flushed(tab[t])
  /\ UNCHANGED <<note, tab, late>>

\* pagehide, or the unmount of the session
Leave(t) ==
  /\ tab[t].phase = "open"
  /\ draft' = Flushed(tab[t])
  /\ tab' = [tab EXCEPT ![t] = [Closed EXCEPT !.phase = "left", !.text = tab[t].text,
                                              !.dirty = tab[t].dirty]]
  /\ Abandoned(t) \/ Unmounted(t)
  /\ UNCHANGED note

\* The tab dies, or is closed before its session is enabled: no flush.
Crash(t) ==
  /\ tab[t].phase \notin {"closed", "left"}
  /\ tab' = [tab EXCEPT ![t] = Closed]
  /\ Abandoned(t)
  /\ UNCHANGED <<note, draft>>

-----------------------------------------------------------------------------
Next ==
  \/ \E t \in Tabs :
       \/ Fetch(t) \/ Load(t) \/ UseRecoveredServer(t) \/ UseRecoveredLocal(t)
       \/ \E text \in Texts : Type(t, text)
       \/ Autosave(t) \/ ManualSave(t) \/ Retry(t)
       \/ ServerSaves(t) \/ Receive(t) \/ Fail(t)
       \/ LoadConflict(t) \/ UseConflictServer(t) \/ KeepConflictDraft(t)
       \/ FlushDraft(t) \/ Leave(t) \/ Crash(t)
  \/ ServerSavesLate
  \/ \E text \in Titled : ImportOverwrites(text)

Spec == Init /\ [][Next]_vars

\* The timers fire, and every request is answered or given up.
Fairness ==
  \A t \in Tabs :
    /\ WF_vars(Autosave(t))
    /\ WF_vars(ServerSaves(t) \/ Receive(t) \/ Fail(t))

LiveSpec == Spec /\ Fairness
-----------------------------------------------------------------------------
(* Safety.                                                                 *)

\* Whoever holds a revision number holds it of a state that was, and if it is
\* the present one, of the present text: then a save that the server accepts
\* replaces the text its editor was shown. This is what the comparison of
\* revisions alone is trusted for, after every conflict, retry and recovery.
Knows(revision, text) ==
  revision <= note.revision /\ (revision = note.revision => text = note.text)

BaseIsKnown ==
  /\ \A t \in Tabs :
       /\ tab[t].phase = "open" => Knows(tab[t].base, tab[t].saved)
       /\ tab[t].fetched # None => Knows(tab[t].fetched.revision, tab[t].fetched.text)
       /\ tab[t].request = "accepted" => Knows(tab[t].base + 1, tab[t].sending)
  /\ draft # None => Knows(draft.base, draft.hash)

\* A write based on an old version never replaces a newer one unseen: when the
\* save of a tab is accepted, the text it replaces is the one the tab has last
\* confirmed, and no save of the tab is counted twice.
NoBlindOverwrite ==
  [][\A t \in Tabs :
       tab[t].request = "sent" /\ tab'[t].request = "accepted" =>
         /\ note.text = tab[t].saved
         /\ note'.text = tab[t].sending]_vars

\* Text on the screen that differs from what the server confirmed is marked as
\* unsaved: only such text is kept as a draft, and only it is saved by itself.
UnsavedIsDirty ==
  \A t \in Tabs :
    tab[t].phase = "open" /\ tab[t].text # tab[t].saved => tab[t].dirty

\* The status says whether a request is under way, and one that waits for the
\* user's decision keeps the text that was refused: the buttons depend on it.
StatusIsHonest ==
  \A t \in Tabs :
    /\ InFlight(tab[t]) <=> tab[t].status \in {"SAVING", "QUEUED"}
    /\ Blocked(tab[t]) => tab[t].queued # None
    /\ ~InFlight(tab[t]) /\ ~Blocked(tab[t]) => tab[t].queued = None

-----------------------------------------------------------------------------
(* Liveness.                                                               *)

UserRests == <>[][\A t \in Tabs, text \in Texts : ~Type(t, text)]_vars

\* When the user stops typing, text that has a title is saved, or the session
\* reports an error or a conflict: no edit is left behind in the queue.
EventuallySaved ==
  UserRests =>
    \A t \in Tabs :
      (tab[t].phase = "open" /\ tab[t].text \in Titled) ~>
        \/ tab[t].phase # "open"
        \/ tab[t].text \notin Titled
        \/ tab[t].text = tab[t].saved
        \/ Blocked(tab[t])

-----------------------------------------------------------------------------
(* What the documentation promises and some behaviour breaks.               *)

\* SYNCED means that the server has confirmed the present text.
SyncedIsConfirmed ==
  \A t \in Tabs :
    tab[t].phase = "open" /\ tab[t].status = "SYNCED" => tab[t].text = tab[t].saved

\* A draft is removed only once the server has confirmed its text: when a tab
\* is left with unsaved text, the text is in the draft or in the document.
LeftTextIsKept ==
  \A t \in Tabs :
    tab[t].phase = "left" /\ tab[t].dirty =>
      \/ draft # None /\ draft.text = tab[t].text
      \/ note.text = tab[t].text
=============================================================================
