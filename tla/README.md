# mnote: a TLA+ model of the note server and its web client

mnote is a note application: a Go server (`src/internal`, `src/cmd/mnote`) over PostgreSQL with
pgvector and an object store, and a Next.js client (`src/web`). This directory holds TLA+
models of its protocols and of the pages that take part in them, TLC configurations that check
them on small instances, and proofs that TLAPS checks for every instance. `PROJECT.json` maps
every modelled definition to the lines it translates, lists the components, hazards, runs and theorems and, for
every property, a plausible bug (a *mutant* of one definition) that the property catches.

## 1. The system

The server.

| Component | State | Operations | What makes it hard | What makes it correct |
|---|---|---|---|---|
| Embedding index (`repo/embedding_v2_repo.go`, migration 015) | generations, jobs, index rows, chunk vectors | create/restart/seed a generation, enqueue, claim, renew, complete, fail, retry, activate, roll back, retire, clean up | every one of them is a transaction of another process; leases lapse; batches are interrupted | claims are fenced; jobs ask for present content; search never serves old content; a switch of generations loses no document |
| Embedding worker (`service/embedding_v2_worker.go`) | claims in memory | slots poll, embed, renew, complete or fail | provider call of minutes between claim and completion | late results are refused |
| Bootstrap worker and start-up (`service/embedding_v2_bootstrap_worker.go`, `cmd/mnote/main.go`) | the generation it waits for | create or resume the initial generation, seed it, activate it | crash between documents of a seed; the operator replaces the generation | activation happens or becomes moot |
| Maintenance job (`job/embedding_v2_maintenance_job.go`) | none | retire expired standbys, delete rows in batches | partial progress | no row refers to a deleted one |
| Embedding command line (`cmd/mnote/embedding_command.go`) | none | rebuild, retry, activate, rollback, retire, as a process of its own | races with the running server | as the index |
| Semantic search (`service/embedding_service.go`, `repo/embedding_v2_search_repo.go`) | none | embed the query, search the active generation | generations switch between the two | answers only from current vectors |
| Document writes (`service/document_write_service.go`, `repo/document_repo.go`) | documents, versions, links, tags, save sequence | create, save (base revision), soft delete, pin, ... in one transaction that also enqueues embeddings and synchronises links, tags and assets | two editors; a lost response; deadlock with a completion | no accepted edit is lost or overwritten unseen |
| Import (`service/import_*.go`, `repo/import_job*.go`) | jobs with lease and attempts, notes | upload, preview, confirm, claim, process notes, finish, clean up | lease without fencing token, attempt limit, crash | every note is imported once |
| Assets (`service/asset_*.go`, `repo/asset_repo.go`, `handler/file_handler.go`) | asset rows, references, objects in the store | begin/finish upload, compensate, reference from documents, expire, clean up | the store is outside the transaction | a ready asset has its object, an object has a row |
| Provider failover (`ai/profile_embedder.go`, `ai/profile_cache.go`) | circuit and cool-down per provider, caches | try providers in order, record outcomes | concurrent outcomes out of order | a blocked provider is spared, a text is paid for once |
| Accounts and OAuth (`service/oauth_service.go`, `auth_service.go`, `email_verification_service.go`) | users, bindings, states, tickets, codes | register, bind, unbind, log in, exchange one-time values | the same value presented twice | a one-time value works once; an account keeps a way in |
| Shares and comments (`service/document_share_service.go`) | shares, comments | create, revoke, update, comment | concurrent creation | at most one active share, its password holds |
| Chunker, centroid (`ai/chunker_v2.go`, `ai/centroid.go`) | none | pure functions | boundaries | all text is covered, sizes are bounded |
| Migrations (`db/db.go`) | ledger | apply under an advisory lock | crash between steps, several builds starting | each is applied once, in order |
| Scheduler, application (`schedule`, `app`) | running jobs, handlers, workers | start, stop | overlap, shutdown order | nothing is used after it is closed |
| Todos, tags, templates, properties, export | rows of one user | create, read, update, delete | one transaction each | modelled as the answers the pages get |

The web client (`src/web/src`). Its pages are React components whose state machines live in hooks:
requests that overtake each other, timers, effects that run in another order than one reads them.

| Component | State | What makes it hard | What makes it correct |
|---|---|---|---|
| Editor save queue (`useEditorSaveQueue.ts`, `draft-storage.ts`, ...) | status, queued, failed and conflicting snapshot, base revision, local draft | edits during a request, lost answers, reload, several tabs | the last text is saved or reported |
| Note list (`useDocsData.ts`, `docs/page.tsx`) | filter, paged list, tags, pins and stars, semantic results | answers of an older filter, cancelled and late requests | the list answers its filter |
| Linked notes (`useDocumentLinks.ts`) | two paged lists with a cache of 60 s | refresh beside paging beside a save | nothing skipped, nothing old called fresh |
| Todo page (`useTodoCalendar.ts`) | window of months, todos, forms | optimistic writes that fail after others | what is shown is what was done |
| Dialogs, toasts, menus (`components/ui`) | stack, scroll lock, focus, timers | closing out of order | what was taken is given back |
| Template pages, asset page, tag pages and sidebar | searched and paged lists, selection, details, drafts, PDF preview | late answers; a selection that is removed | lists and details belong to query and selection; no edit is lost |
| Tags of a document (`useTagState.ts`, `useInlineTag.ts`) | selection, suggestions, saves | limit checked before an await, failed saves | settles to the server's rows, within the limit |
| Markdown preview (`markdown-preview`, `mermaid.tsx`, `code-sandbox.tsx`, `sandbox-registry.ts`) | passes over the lines, hover card, diagrams, one worker per language | one listener for many blocks; caches | every line is kept; a run ends |
| Scroll synchronisation, outline (`useScrollSync.ts`, `useOutlineNavigation.ts`) | locks of both panes, frames | events that a program caused | no echo, no frozen pane |
| Menus and panels of the editor (`useQuickOpen.ts`, `useWikilinkMenu.ts`, ...) | query, results, position | overtaken requests | what is shown answers the query |
| Comparison and restore (`docs/[id]/revert`, `lib/diff.ts`) | document, version, rows of the difference | another tab saves | the restore replaces what was seen |
| Share tab and public page (`DetailsShareContent.tsx`, `share/[token]`) | form, gate, paged comments, replies | visitors write while one reads | comments complete, none twice |
| Import and export dialogs, account pages | step, request, polling; session in localStorage | closing while a request runs, tabs | never stuck; one session |

Components of the server meet in the database: there are no calls between the server, the command line and the
workers, only rows, row locks and constraints. The document service calls the embedding service
inside its own transaction. The worker, the bootstrap worker and the scheduler are goroutines of
the server that share nothing else. The client reaches the server by HTTP only; its pages meet in localStorage
(session, drafts) and in the server.

## 2. The modules

    SearchService            what search promises (abstract)
      ^ implemented by
    EmbeddingIndex           the protocol, one action per transaction
      ^ extended by                       ^ extended by
    MCEmbeddingIndex (TLC)                EmbeddingIndexProofs
    EmbeddingTx              the statements inside four of those transactions
      ^ extended by
    FlowProofs               (below)
      v extends
    EditorSession            the editor in several tabs, the draft, the network, the server's lock
      ^ extended by
    MCEditorSession (TLC)

    The parts alone, for all values of their constants
    FlowProofs       EXTENDS EmbeddingTx, EditorSession, ImportFlow, Account, CodeRuns
    SubsequencesProofs  EXTENDS Subsequences
    AnswersProofs    EXTENDS DocsList, DocumentLinks, SharePage, PreviewParts, ImportFlow, SubsequencesProofs
    CatalogProofs    EXTENDS AssetLibrary, TagPages, Templates, TodoCalendar, SubsequencesProofs
    FormsProofs      EXTENDS TagEditing, ShareSettings, Revert, EditorMenus, Overlays, ScrollSync, SubsequencesProofs
    ServicesProofs   EXTENDS AssetUploads, Migrations, ServerLife, ProviderFailover

    MCPages (TLC)            one part open at a time
      EXTENDS  EmbeddingTx
      INSTANCE AnswersProofs, CatalogProofs, FormsProofs, ServicesProofs (twice)
      INSTANCE Account, CodeRuns, MarkdownPipeline, Chunker
      ^ extended by
    PagesProofs      EXTENDS MCPages

`Subsequences` holds what the lists of the pages do with `Array.prototype.filter` and `Array.prototype.sort`, and the order in which the
database returns rows; DocsList, DocumentLinks, AssetLibrary, TagPages, Templates, SharePage, TodoCalendar, Overlays and ScrollSync extend it. `MCPages` instantiates a proof module instead of the components it extends: TLC
ignores the theorems, and the theorems are then about the very definitions that the run evaluates.

### EmbeddingIndex

| Variable | In the code |
|---|---|
| `docs` | `documents`: `state`, `content_hash`, `content_revision` |
| `gens` | `embedding_generations`: `status`, `reason = 'initial'`, and whether `standby_until` is still ahead (`open`) |
| `jobs` | `embedding_jobs`, keyed by generation and document; `lapsed` stands for `lease_until < now` |
| `index`, `chunks` | `document_embedding_indexes`; `chunk_embeddings_v2`, reduced to the content the vectors were computed from |
| `claims` | the `EmbeddingJobClaim` each slot of `EmbeddingV2Worker` is processing |
| `toSeed` | what the cursor loop of `seedGenerationJobs` has not inserted yet |
| `server`, `bootstrap` | the server process, and the `generationID` of its bootstrap worker |

An action is a transaction or an autocommitted statement, with everything it does: `SaveDocument`
includes the enqueueing in all generations that accept writes, `RebuildRestarts` the failing of the old generation, the
fencing of its running jobs and the insertion of the new one. Seeding commits per batch
of 1000 documents, outside the transaction that creates the generation; the model seeds one
document at a time, in any order, so that a batch may be cut anywhere. A server that starts
seeds before it serves (`starting`), the command line seeds while the server runs.

Time appears only where the code compares it: a lease lapses, a standby window closes. Delays
(`available_at`, the retention of the cleanup) can always be waited for and are not represented. `AbandonClaim`
is every way in which `processClaim` returns without a write, also when its context was cancelled while
its claim still held; fairness counts only on the ways back that a lost claim leaves. The server's crash and its orderly
stop are one action: both lose the memory of the workers, and the code writes nothing on the way
down.

Left out: the content of vectors, chunk counts, profiles (immutable, checked at start-up), error
codes, and the checks of vector structure and provider availability that may delay the bootstrap
worker's activation.

`SearchService` is the abstract specification: each document has some content, and search finds it
by that content or not at all. Under the refinement mapping `content` is the hash of a normal
document, `served` the content of the vectors that `SearchActiveChunks` would join for it, `online`
that some generation is active. `ImplementsSearch` says that every step of the index is a step of
`SearchService`: old content is never served, a lost lease or a late completion is invisible,
cleanup is invisible, and activation and rollback switch to an index in which every document is
found.

### EmbeddingTx

`EmbeddingIndex` assumes that transactions are atomic. `EmbeddingTx` takes four of them apart: a
save, a soft delete, the completion of a claim and the seeding of a generation, interleaved statement
by statement as PostgreSQL does under READ COMMITTED (the code never asks for another level). A
statement takes a snapshot, waits for the row locks it needs, and sees the newest version of
the rows it locks but the snapshot of those it only reads; the foreign key of the chunks takes a
key-share lock on the document; a cycle of waits ends by aborting one of its transactions. It is one of the parts that run
`pages` opens, and the three `tx_` runs check it alone.
That part models PostgreSQL, not mnote, and is marked external in the map.

### EditorSession

| Variable | In the code |
|---|---|
| `tab[t]` | one page of the editor: `contentRef` (`text`), `dirtyRef` (`dirty`), the refs of `useEditorSaveQueue` (`saved`, `title`, `base`, `status`, `queued`), the request in flight (`request`, `sending`) and whether the edit epoch moved since it began (`edited`), the document a dialog holds (`fetched`) and the draft it asks about (`found`) |
| `draft` | `localStorage["mnote:draft:<id>"]`, one for all tabs |
| `note` | the document's row: text and `content_revision` |
| `late` | save requests whose page is gone but which may still reach the server, each with what its queue sends after it (`next`) |

An action is one handler of the browser up to its next await, or one transaction of the server.
`ServerSaves` answers a request; `Receive` is what `drainQueue` does with the answer, the callback
`onSaved` and the next drain included; `Fail` is a request or an answer that is lost, also a refusal
such as a deadlock victim. `Leave` is pagehide with its flush or an unmount while the
page lives on; `drainQueue` of an unmounted session still sends what is queued when its request has been accepted (`Unmounted`). `Crash` is a tab that is killed
without a flush. A text stands for its title and its hash; texts in `Untitled` have no title, so they are
kept as a draft and never sent. An import that overwrites the document writes without a base
revision.

Left out: the branch of `commitRejected` for servers that do not know `base_revision`, unreadable
and schema-1 drafts (they ask the user, as a draft with another base does), a localStorage that fails,
and deleting the document from the editor.

### The pages

Each of these modules is a page or a dialog together with the part of the server that answers it.

| Module | Models | State and how it corresponds to the code |
|---|---|---|
| `DocsList` | the note list | the filter and its debounce, the page under way, late answers, the semantic search, the overrides of pin and star with the order in which they arrive |
| `DocumentLinks` | linked notes | the two lists with cursor and time of reading, one refresh and one next page under way, the relations on the server |
| `TodoCalendar` | the todo page | window of months, list request, todos as shown and as stored, writes with their roll-back, the four dialogs |
| `Overlays` | dialogs, toasts, menus | the stack with what restores the focus, toasts with their clocks, the open menu with its submenu |
| `SharePage`, `ShareSettings` | the public page, the share tab | gate and password; comments and replies by offset beside other visitors; the four calls to the share, several under way at once, statement by statement |
| `Templates`, `AssetLibrary`, `TagPages` | catalog pages | list, search, requests by number, selection and its detail; the draft and the leave guard; the PDF.js objects that each preview owns; pins and the tag index |
| `TagEditing` | tags of a document | selection, suggestions, tags being created, the PUTs of the whole selection, which may overlap and be applied out of order, the server's rows |
| `Revert` | comparison and restore | revisions, the two reads, rows of `computeDiff` in both layouts, the restore with the revision it expects |
| `MarkdownPipeline` | the text before it is parsed | one pass per step over lines that are known by kind and place, and the outline of the editor |
| `PreviewParts` | hover card, diagrams, copy button | pointer and timer; drawings that overtake each other, with the cache of SVGs and the full-screen view |
| `CodeRuns` | runnable code | one worker, one listener and one queue of messages per language, workers that cannot load their runtime, the mount of each block |
| `ScrollSync` | scrolling, outline | frames as the browser runs them: first the scroll events, then the callbacks that were asked for before |
| `EditorMenus` | quick open, wikilinks, previews, rail | query and request of each; they share nothing |
| `ImportFlow` | import and export | the dialog, the job with lease and attempts, the notes and the workers that take them over |
| `Account` | registration, session, sign-in | forms of several clients, mailed codes, the token in localStorage, the row lock of an unbind |

A request is a record that goes from "wire" (the server has not seen it) to "read" (answered, but the continuation has
not run) and then disappears. Between the two anything else may happen, and a request that was aborted may still be answered.
A handler is one action up to its next await, with every effect that React runs because of it. Data is reduced to what the
properties distinguish: a search is the set it finds, a list its order, a text its revision.

### The services

| Module | Models | State and how it corresponds to the code |
|---|---|---|
| `AssetUploads` | `persistUpload`, `AssetCleanupWorker` | row, object and upload of each key; every statement may fail, take effect and report an error, or outlive the cut-off of the cleanup, and the process may end after any of them |
| `ProviderFailover` | the cache and `ProfileEmbedder` | calls with the time at which they began, circuit (in memory) and cool-down (in the database) per provider, one flight per text |
| `Migrations` | `db.go` | ledger, schema, the advisory lock and three builds that start, fail and end |
| `ServerLife` | `App.Run`, `CronScheduler` | handlers, workers, running jobs and the steps of `shutdown` with their time limits |
| `Chunker` | `chunker_v2.go` | the chunks of every small note; a byte is its line and place |

### MCPages

The parts share nothing but the server's rows, and each page models those it reads, with other clients
as steps of the environment. So one part is open at a time: `part` names it, its steps are those of its module, and everything
else keeps its first value. The instances borrow the variables `v1` to `v17`; the substitution of each `INSTANCE` says which is which.
The tables of `EmbeddingTx` keep variables of their own, and while they are closed nothing is in them but a document in the trash, which `ServedIsCurrent` and
`NeverAhead` then say nothing about. That is a sum of
state spaces, not a product: interleaving the todo page with a migration would check nothing the code could get wrong.

## 3. Runs

| Run | Question | Bounds | States |
|---|---|---|---|
| `index_one_document` | Are claims fenced, do rows agree, does the index implement search? | 1 document saved twice (2 hashes), 2 generations, 2 slots, 3 tokens, 2 attempts | 784,175 |
| `index_two_documents` | Does a generation lose a document, is a switch all or nothing? | 2 documents saved once, 2 generations, 1 slot, 1 attempt | 914,131 |
| `index_liveness` | Is every document in the end searchable, does bootstrapping end? | 1 document saved 3 times, 1 generation, 2 slots; no symmetry | 43,315 |
| `tx_seed_race`, `tx_delete_race`, `tx_revision_drift` | findings 1-3 below | 1-2 of each transaction | violated |
| `editor_tabs` | Can a save of one tab overwrite what another tab, a recovery or an import wrote? | 2 tabs, 2 texts, 3 revisions | 798,081 |
| `editor_network` | One tab whose requests are lost or late: is the text in the end saved? | 1 tab, 2 texts and one without a title, 4 revisions, 1 late request; no symmetry | 537,238 |
| `editor_synced`, `editor_draft` | findings 4 and 5 below | 1-2 tabs | violated |
| `pages` | Does every page settle to what was asked and done, whatever order answers, tabs, crashes come in? Do the services keep what they promise? Is what search serves current under every interleaving of statements? | below | 3,572,639 |
| `template_typed` | finding 6 below | the template page of `pages` | violated |

Why the bounds of the index and the editor are enough. The tables are keyed by generation and document, and no action reads
rows of two documents except through "all documents of a generation" and "some
document of a generation", for which two suffice; fencing needs two slots on one row and one token
more than are in use; the races between generations need the one that serves and the one that
replaces it; a generation that is deleted and one that is created after it are covered because each of the two may
be the first. Two contents and two revisions tell "same content", "changed" and "changed back"
apart. Two attempts make both outcomes of the attempt limit occur. For the editor, two tabs are all that a conflict, a shared draft or a stale recovery involves; three
revisions let each tab be accepted once, or one tab conflict, resolve and save again; the one-tab run
has a fourth for a save after a late request. The safety theorems of section 5 hold without any of these bounds.
Symmetry is used for safety runs only: documents, generations, hashes, slots and tokens are interchangeable in
`EmbeddingIndex` and in its properties, tabs and texts in `EditorSession`. `Served` uses CHOOSE over generations, and its value does not depend
on the choice because at most one generation is active. Deadlock is checked in every run but `pages` and `template_typed`, whose parts really end: a
restored note leaves the page, a server stops, an import is closed at the bound of its attempts. `EmbeddingTx` ends in `Finished`, and only there.

The bounds of `pages` stand in the `INSTANCE`s of `MCPages`. Lists have two or three rows in pages of one, so that a list has a
first, a middle and a last page; two queries and two selections, so that an answer can belong to the other one; two clients, workers, callers or
blocks, as no race here needs three; as many requests as can overtake each other (one late answer beside the one under way).
The tables of `EmbeddingTx` see three saves (two contents and an unchanged one), a delete, three claims and two
seedings, the share tab two calls under way, the tag field two saves.
Three dialogs are what closing the middle of a stack needs, three builds what an old, a new and an edited one need. The diff runs over every pair of six texts of
up to three lines (kept, moved, doubled and removed lines), the passes of the preview over every text of up to four lines of eleven kinds, the chunker over every note of up to four
lines of eight kinds with limits scaled down to ten.

What the properties of `pages` say:

| Property | In words |
|---|---|
| `PagesTypeOK` | every part keeps its types |
| `ServedIsCurrent`, `NeverAhead` | search never joins vectors of another content than the document's; no recorded revision is ahead of the document's |
| `NothingStuck` | whatever shows that it loads, or refuses an action meanwhile, has the request, the timer or the leader that will end it |
| `AnswersQuestion` | what a quiet list, menu or detail shows answers the present query, filter or selection, but for a cancelled page of notes that waited for its tags, and the sidebar that a pin had read again; links called fresh were read after the last save |
| `UserChangesStay` | stars, todos, forms and typed templates end as the user left them, unless refused and told; but for todos written while the list was read or whose answer was lost, and text typed beside a request that fills the form |
| `NothingTypedIsLost` | the same of templates without the exception; violated |
| `OverlaysHandBack` | focus, scrolling, corner and menu are given back |
| `NothingLostOrDoubled` | comments, replies, links, cards and PDF documents: none missing, none twice |
| `ImportedOnce` | a note of an archive becomes one document at most once, and has become it when its row says so |
| `CodeConsumedWithAccount` | a code is used up if and only if the account exists, and then exactly one is |
| `OneSession`, `AlwaysSignIn` | an exchange code gives one token and the stored e-mail is that of the stored token; an account never loses its last way in |
| `ScrollSettles` | no pane scrolls itself, no lock stays, the outline marks the right heading |
| `RunIsReleased`, `LanguagesApart` | a block that runs is listened to and has what will say the end, or its worker could not load its runtime, or a later run has taken the listener; languages do not hear each other |
| `PreviewIsFaithful` | the preview contains the text it is made of, in order; code that the passes take for code stays as it is; the headings are those of the outline, also around an inline table of contents, with anchors that differ unless a text is another's numbered anchor |
| `TextsAreWhole` | a comparison shows both texts and nothing else; every byte of a note is in a chunk under its own heading |
| `FormsAreTruthful` | tags and share tab show what the server has once they are quiet, also when saves and calls overlap, but for saves that failed beside others, were lost or came out of order; limit and password hold, but for an update that writes back what it had read |
| `FilesAreWhole` | a reported upload has its row, and its object unless the cleanup claimed the row under it; a counted file has its row; an object has a row |
| `ProvidersSpared` | a blocked provider gets no new call; no text is computed twice at once |
| `ServerStartsAndStops` | migrations once and in order, no foreign schema served, nothing used after closing, no job beside itself |
| `RevertIsFaithful` | a restore replaces the content its reader saw, as an action property |

Fairness (`Fairness` in `EmbeddingIndex`), and what justifies it:

- `ClaimJobs` per job, strong: a slot visits every queue in turn (`slotStatuses`) and takes the
  oldest claimable job of each; a job that stays claimable only waits for those before it. Strong
  because the slots may be busy or the server down for a while.
- a claim is processed (completed or failed), strong per job: a job is claimed again after each lost lease or crash, and
  some time the provider answers within the lease. This excludes a server that crashes during every
  attempt, for ever.
- a lease that no slot knows lapses, weak: it is a time in the row.
- seeding, `AbandonClaim` of a claim that no longer matches, `ServerReady`, the bootstrap worker's poll, weak: loops of a live process.
- the server is started again after a stop, weak: the deployment restarts it (`docker-compose`, `restart`).

Nothing is assumed of users, of the operator, of the provider's answers or of crashes.
`EventuallySearchable` asks that the server is up again and again, `BootstrapCompletes` that it stays up, both that the
operator does not retry for ever (`OperatorRests`): a retry resets the attempts.

`EditorSession` assumes that the autosave timer fires (each change of text, status or the dirty
flag arms it again) and that a request is answered or given up. `EventuallySaved` assumes that the
user stops typing, and nothing else of the user: an error or a conflict may wait for a decision for
ever, which the property allows.

The parts of `pages` are checked for safety only. `NothingStuck` says there what liveness would rest on: that
something is under way which ends the wait. Whether it ends is up to the network and the browser's timers.

## 4. What the checks found

1. **A seed can race a save** (`tx_seed_race`). `seedGenerationJobs` reads documents in its
   snapshot. When the generation is created while a save is uncommitted, the save does not see the
   generation and the seed does not see the save: the job asks for the old hash and cannot be claimed,
   reseeding skips it (ON CONFLICT DO NOTHING), and the generation cannot be activated until the document is saved
   again. docs/013 says the workers converge from the database without that.
2. **A delete can race a completion** (`tx_delete_race`). The three DELETEs of `DeleteDocumentData`
   have three snapshots. A completion that commits after the first two leaves chunks and an index row of a deleted
   document. Search does not show them (it joins the document), but they stay.
3. **The recorded revision can be old** (`tx_revision_drift`). A completion takes the document's
   revision from its snapshot; a save of the same content in between leaves index row and job
   behind. Search compares hashes and is not affected; `scripts/audit-db.sql` counts it as drift.

4. **SYNCED on text that is not** (`editor_synced`). Type B, and while its save is under way go
   back to the confirmed text A. The session counts as clean and the edit epoch does not move; when B
   is accepted, `onSaved` notices and marks the session, and `commitAccepted` then sets SYNCED over it. The text is
   dirty (`UnsavedIsDirty` holds), so the next autosave repairs it; until then the status is wrong.
5. **A tab removes another tab's draft** (`editor_draft`). The draft is stored per document and a session that is
   not dirty removes it on every flush. Text that one tab left in the draft is lost when a second,
   unedited tab of the document flushes.
6. **Text typed into a template beside a request is lost** (`template_typed`). "New Template" asks the leave guard before its POST; what is typed
   into the selected template until the answer is in goes with the selection (`useTemplates.ts:91`), and the answer of a save puts the saved content
   over what was typed since (`useTemplateEditor.ts:126`). No field is disabled meanwhile. docs/009:98 says that no unsaved content is lost.

`EmbeddingIndex` has none of the first three, since its transactions are atomic: its `JobTracksDocument` and
`DeletedLeavesNothing` say what the protocol would guarantee with serializable transactions, and `EmbeddingTx` how
far READ COMMITTED stays behind. What search relies on, `ServedIsCurrent` and `NeverAhead`, holds in both.

In nine more places the code does not do what a document promises. The modules have these behaviours, and run `pages` explores them. Beside the property of the run, which
says what holds with them, the module states the promise itself; TLC refutes it on the part alone, in the instance of `MCPages`, by a trace of the given number of states.

| Promise | Said by | What the code does | States |
|---|---|---|---|
| `AssetUploads!ReadyKeepsObject`: a ready row has its object | docs/010:34, :41 | when the transition to ready commits but its call errors (the context of the request was cancelled), `compensateUpload` deletes the object of the ready row (`file_handler.go:141`, `:182`) | 6 |
| `DocsList!OldAnswersStayOut`: nothing of an old filter comes into a new list | docs/003:94, :40, :109, docs/020:249 | a page that waits for the tags of its rows does not look at its abort signal again before `setDocs` (`useDocsData.ts:225`) | 9 |
| `TodoCalendar!NoOldListShown`: an old answer does not cover what the user did last | docs/008:74 | the list of a grown window is applied over a todo written since it was read (`useTodoCalendar.ts:41`) | 8 |
| `TagPages!SidebarFollowsSearch`: the tags beside the list answer the search | docs/007:80, :82 | a pin ends with a read by the search of before it, which aborts the newer one (`useSidebarTags.ts:64`) | 9 |
| `TagEditing!TagsSurviveReload`: a reload shows the tags the editor shows | docs/007:91 | the controls stay enabled during a PUT; of two saves the failing one puts back the selection of before both (`useTagState.ts:44`) | 5 |
| `ShareSettings!PasswordIsEnforced`: a password the owner was told of is asked for | docs/011:91 | a blur and a click start two updates; each reads the share and writes it back in another statement (`document_share_service.go:117-147`) | 13 |
| `CodeRuns!FailureIsReported`: a runtime that cannot be fetched is reported | docs/005:90, :100 | the worker whose `importScripts` fails has no `onerror` (`sandbox-registry.ts:203`): the block runs for ever | 2 |
| `MarkdownPipeline!AnchorsNeverClash`: headings have anchors of their own | docs/005:25 | `createSlugger` numbers `a`, `a` as `a`, `a-1` and does not look whether a heading is called `a-1` (`helpers.ts:10-24`) | 1 |
| `MarkdownPipeline!CodeIsUntouched`: nothing is rewritten in fenced code | docs/005:107 | the passes take only lines that start with three backquotes for fences, so they rewrite text between tildes (`helpers.ts:150`) | 2 |

Others we met, which no property is about, or for which the properties of `pages` say what holds beside them:

- `TodoCalendar`: while a grown window loads, the page takes the calendar away; afterwards the header may name another month than the calendar shows (docs/008:22, `todos/page.tsx:103`).
- `TagEditing`: late suggestions can replace newer ones (docs/007). A handler that waits for a lookup goes on with the selection of the render it belongs to, which a second one may have changed meanwhile.
- `TagPages`: a deletion shifts the offset of the next page.
- `SharePage`: a list read beside an own post shows one comment twice until the next page.
- `CodeRuns`: output of an earlier run reaches the block that runs now, and the earlier block is not told the end (docs/005:88 and :99).
- `MarkdownPipeline`: where the table of contents is shown inline it is a fenced block of its own; in a code block whose lines the passes take for text it closes that block.
- `EditorMenus`: Enter in the wikilink menu can insert a result of the former query (docs/004:247).
- `ScrollSync`: the suppression of synchronisation can end before a slow glide does (docs/004:194).
- `ImportFlow`: a job whose worker dies in the last attempt stays running (docs/015:114); a finished job's report can miss the last note (docs/012); a stale worker can release the lease of its
  successor (`import_job_repo.go:209`).
- `Account`: a 401 that answers an old token ends the new session (`api.ts:72`); two requests for a code pass the cool-down together.
- `AssetUploads`: an upload that outlives the cut-off of the cleanup may be reported although its object was deleted (`overtaken`).
- `ProviderFailover`, `Timeout` and `CircuitDelay`: a circuit counts from the beginning of the batch; with the defaults (30 s each) a provider that times out is not spared
  (`config.go:544`, docs/013:207). A cancelled caller that leads a flight fails those who follow it.

## 5. Proofs

Everything about the index is proved from `ConstantsAssumption` (the null values are not members of the sets; the
limits are positive) for any sets of documents, generations, hashes, slots and tokens.

- `EmbeddingIndexProofs`, types: `TypeCorrect`. One lemma per operator that builds a row, one per group
  of actions, one per step.
- `EmbeddingIndexProofs`, safety: `SingleCorrect`, `DeletedCorrect`, `FencedCorrect`, `TracksCorrect`,
  `ForgottenCorrect`, `ConsistentCorrect`, `FencingCorrect`, `ShrinkCorrect`. The thirty-odd actions are first
  reduced to what they do to the tables (`TableSteps`), then to what they do to one row:
  `ContentSteps` (a row keeps the content it wants or is overwritten by an enqueue, a seed, a delete or a cleanup),
  `LifecycleSteps` (the status of a generation moves only along its life cycle), `TokensOnlyDrop` (every action but a claim only
  drops tokens). Each invariant then follows from a few cases. Two are not inductive by
  themselves: all but `SingleActiveAndBuilding` need `TypeOK`, and those about jobs need `UnusedIsEmpty` (the rows of a
  generation that does not exist yet are empty, else a new one would inherit them). `NothingForgotten` needs that a
  generation becomes active only through `CanActivate` or `CanRollback`, whose counts imply a job per document.
- `EmbeddingIndexProofs`, refinement: `RefinementCorrect == Spec => ImplementsSearch`. From `IndexConsistent` the vectors
  that search joins are of the document's content (`ServedFromConsistency`), which removes the CHOOSE from the
  mapping; then every table step is a `Write`, a `Remove`, a `Publish`, a `Switch` or invisible.

- `FlowProofs`, the editor, from `EditorAssumption` and `NoneAssumption`: `TypeCorrect`, `KnownCorrect`, `DirtyCorrect`,
  `StatusCorrect`, `OverwriteCorrect`. The invariant `IInv` is a predicate of one session and the
  document, `SoundAt(s, n)`: typed, the fields of its phase are filled, what it knows is true, dirty and
  status agree with the rest. There is one lemma per function of the save queue (`SentSound`, `AcceptedSound`, ...), as
  these are composed by the actions, and `WriteKeeps`: a write keeps it for every session because it only raises the
  revision. `TypeOK` alone is not inductive: that `base + 1` stays in range follows from what an accepted request knows.
  `OverwriteCorrect` needs `KnownCorrect` (the base the server compares belongs to the text
  the tab has confirmed) and that only the server turns a request into an accepted one (`TabsAcceptNothing`).
- `FlowProofs`, the transactions, from `MarkersAssumption` (the markers are no rows, no transactions, no claims): `TxTypeCorrect`,
  `ServedCorrect`, `AheadCorrect`, for any number of saves, deletes, claims, seedings and hashes. The invariant `TxIInv` says what each
  transaction may assume at each of its statements: `Held` (a row that was written and not committed is locked by its writer),
  `SaveInv`, `DeleteInv`, `CompleteInv` and `SeedInv` (what a transaction has read and written so far, and how that relates to the committed rows),
  `NeverAhead`, and `Together` (index row and chunks of one document are of one content). The heart is the completion: between the lock of
  the job row and its commit a save may change the document, but not the job, so the vectors it writes cannot be joined with the new hash.
- `FlowProofs`, from `ImportBounds` (a predicate of the constants, the hypothesis of the theorems, as `AccountBounds` and `BlocksNamed` below): `NotesImportedOnce` and `NotesHaveOneWorker`. `ImportIInv` needs, beside types, that
  two workers never hold one note (`RowsExclusive`) although both may work on the job, and that a held note is pending (`HeldIsPending`): the lease of the job gives
  no such guarantee, the claim of the note does.
- `FlowProofs`, the accounts: `WayToSignInStays`, from `AccountBounds` (the unbind counts under the row lock; cardinality of finite sets from the library),
  `CodeGoesWithAccount` (`RegisterIInv`: a code is used at most once, by the transaction that makes the account) and `SessionIsOne` (`SessionIInv`: what is stored comes
  from one token, tabs know only exchanges that happened).
- `FlowProofs`, from `BlocksNamed`: `LanguagesStayApart` (what a block shows, a worker runs or a message carries is of one language) and
  `RunsAreReleased`: as long as a block that is listened to waits, a program runs or a message is queued that says its end; a worker that could not load has neither, for good.

- `ServicesProofs`. *Files* (`UploadsIInv`): what the row of a key is worth at each step of its upload (`RowSound`), and that the cleanup works only on
  a row whose upload is over, or has `overtaken` it (`CleanupSound`). `NothingOrphaned` and `ReadyFilesExist` need no assumption; section 4 says what they leave out. *Migrations* (`MigrationsIInv`), from `SoundBuilds` (what `validateMigrationManifest` checks of a build: it has migrations, and no version twice; nothing is assumed
  of how two builds compare): only the holder of the advisory lock is past it, what it has read is what the ledger holds but for what it executed since, and the ledger tells what was executed.
  *Server* (`LifeIInv`): what each step of `shutdown` has already waited for. *Providers* (`ProvidersIInv`), from `SoundProfile` (times are natural numbers, the limit is positive): the circuit and the cool-down
  of a provider last at least as long as it is to be left alone, and each caller that waits has a leader in flight.
- `FormsProofs`. *Tags* (`TagsIInv`): the cap is kept although it is checked before an await, since every continuation cuts the selection again (`TagsKeepTheCap`, from `TagsBounded`:
  the limit is positive, the tags are finitely many); `TagsSettleInOrder`: the newest PUT that the server took carries what the page shows, or a failure, a lost answer or an inversion was noted. *Share tab* (`ShareTabIInv`): a call whose answer is not late answers
  with the share as it is, and a password that stands is in the row unless a call that read before has written; for any number of calls at once. *Restore* (`RevertIInv`): what the page holds was the document at the revision it sends. *Menus of the editor* (`QuickIInv`, `PeekIInv`): the newest request is
  for the query in the field.
  What an overlay takes it gives back, whatever else opens and closes meanwhile. *Dialogs* (`DialogsIInv`), from `FocusReturns` (a dialog that names an element to return to names one of the page): the counter of the scroll lock is the
  length of the stack (`StackSound`), and unless the focus was moved, every dialog but the first gives it to the one below, the first to where it was taken, and only the topmost dialogs have a focus timer to run (`Handed`), because
  timers of the same delay run in the order they were set: `DialogsGiveBack`. *Toasts* (`ToastsIInv`), from `SomeToasts` (one fits on the screen): there is a clock for each toast shown and for no other, and one that is paused is under the pointer or holds the focus (`NoticesGoAway`).
  *Menus* (`MenusIInv`): the one menu shown is the one the module can close (`MenusTakeTurns`).
  *Scrolling* (`ScrollIInv`), for any length of the document and of the preview, any number of gestures: `ReleasePending` (who locks or suppresses has a callback pending that releases), and, as long as the outline was not followed, `Following`: an
  event that the synchronisation caused is heard while the pane it came from is still the source, since a frame fires its scroll events before its callbacks and the release waits for two frames; in a frame, measuring comes before the
  release it is followed by, and there is one piece of work (`InOrder`).
  `HeadingFound` is the binary search of the outline, for every number of headings: those before `low` are at or above the line, those after `high` below it, and each round leaves fewer between (`PreviewMax \in Nat` makes the
  offsets numbers). Together: `ScrollFollowsTheReader`.
- `AnswersProofs`. *Note list*: `ListIInv` (the fetch under way has the number and the filter of the last change, and every older one has a smaller number; a cancelled one that still writes has marked the list); `ClicksIInv` for the buttons, from `TogglesNamed`
  (a button is one of a note), without any order of answers. *Links* (`LinksIInv`): what the cache vouches for was read after the last save. *Public page* (`ShareIInv`),
  *hover card* (`HoverIInv`, from `Nowhere \notin Links`), *diagrams* (`DiagramIInv`: the rendering that may set the drawing is the last one; from `DrawableTexts`).
  And what the lists lose or show twice. *Note list* (`CardsIInv`: every list of cards that is shown or that a fetch carries, also a cancelled one, has one card for each note), from `FiniteNotes` and
  `TogglesNamed`: `OneCardForEachNote`. *Links* (`CoverIInv`: every relation of the first page's time that is still there stands in the list or behind the cursor; a page under way starts at
  the cursor, and no refresh is under way beside it), from `LinkNumbers`: `PagingSkipsNothing`. *Comments* (`CommentsIInv`: a comment of the first page's time that is not shown lies behind the offset, however many were posted since, and a page under way
  was asked for at an offset that leaves none out) and *replies* (`RepliesIInv`: what is shown or read names each reply once), from `CommentPage, MaxComments \in Nat`: `CommentsAreComplete`, `RepliesAppearOnce`.
  *Dialogs of import and export* (`DialogIInv`): a dialog that is busy has the request or the timer that ends it (`ImportIsNeverStuck`).
- `SubsequencesProofs`, for every sequence: `Within` keeps order and multiplicity (`WithinBy`, `WithinKeeps`, by induction over a set of numbers from the least element of its complement), so that a
  page appended with `WithNew` continues a list without doubles; its rows stand in the list in the same
  order (`WithinOrder`), and are its beginning when those kept come first (`WithinFirst`); the recursive function that repeats a step exists (`Repeats`); `SortedBy` gives the same elements, none twice unless it was, in the order of the relation (`Sorts`, for a weak order), because the
  ranks of the rows are the numbers from 0 below the length (`Ranks`, counted with the cardinality facts of the library).
- `CatalogProofs`. *Assets* (`AssetsIInv`, `PreviewIInv`, `BelongsIInv`): each indicator has the request of its number, the documents of PDF.js are those of the
  preview that shows or discards them, and the rows are a beginning of what the search finds, as long as the offset; from `AssetKindsKnown` and `AssetHitsSound` (rows have a kind and come once). *Tag pages and
  sidebar* (`TagListIInv`, `SideIInv`): requests that were superseded are not current, and what is listed was found by the search of the current one; from `TagOrderSound`. *Templates*
  (`CatalogIInv`, `DetailIInv`), from `MatchingSound`; what was typed (`EditIInv`: a text that is not stored is in
  the form, which no answer under way will replace, unless it was typed beside one), from `TemplatesKnown`. *Todos* (`TodoIInv`): where the list shown differs from what is stored, a write under way
  accounts for it (`ListTrue`), todo by todo, unless `doubt` names it: it was written while the list shown was read, or its answer was lost.
- `PagesProofs`: the properties of the run `pages`, for the specification `MCPages!Spec` that TLC runs: `FilesAreWhole`, `ServerStartsAndStops`, `ProvidersSpared`, `FormsAreTruthful`, `RevertIsFaithful`,
  `NothingStuck`, `AnswersQuestion`, `UserChangesStay`, `NothingLostOrDoubled`, `OverlaysHandBack` and `ScrollSettles`. Lemmas like `OpenPage` say that a behaviour of `MCPages` is one of the part as long as it is open, `FirstPage` that it begins as the part does; with them the
  inductive invariants of the parts are those of the run. The assumptions above are proved there of the values of `MCPages`, so that none is assumed twice and none is empty.

The theorems of `FlowProofs`, `ServicesProofs`, `FormsProofs`, `AnswersProofs` and `CatalogProofs` are about `ImportSpec`, `UploadsSpec`, `TagSpec`, ..., the parts alone, for any sets of notes, files,
builds, tags, workers and for any number of steps. In `MCPages` the open part takes the same steps and the others none.

Model-checked only:

- `PagesTypeOK`: the types of the parts that have a theorem are part of their invariants.
- `PreviewIsFaithful` and `TextsAreWhole`: the passes of the preview, the chunker and the difference are recursive: what these compute for every
  input needs an induction over data. The library's induction theorems cannot be used here (they take an operator as a parameter); `Subsequences` and `HeadingFound` argue from a least counterexample instead, one
  property of one function at a time, which for passes that feed each other has not been done.
- Liveness (`EventuallySearchable`, `BootstrapCompletes`, `EventuallySaved`): fairness and ENABLED are out of the prover's reach.

## 6. Not modelled

- HTTP decoding, middleware, configuration, mail, metrics, object store drivers: I/O and formats without a protocol of their own.
- The V1 embeddings, which V2 replaces and which are only read until the first generation is active; the ranking of search; the centroid, a pure function over vectors.
- The pruning of versions, the links and asset references a save writes, and `save_seq` of clients that send no base revision.
- Parsing and writing of archives, the deletion of old import jobs, properties of a user.
- Layout, formatting commands, the split pane and other components whose state is one boolean; react-markdown with its plugins, math and highlighting.
- Expiry and eviction of the embedding cache.

`components` in `PROJECT.json` says for each component what is left out.
