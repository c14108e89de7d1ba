----------------------------- MODULE EmbeddingTx -----------------------------
(***************************************************************************)
(* The statements inside the transactions that write the embedding tables, *)
(* interleaved under PostgreSQL's READ COMMITTED: one document and one     *)
(* generation under construction; a save, a delete, the completion of a    *)
(* claim and the seeding of the generation, each one at a time.            *)
(*                                                                         *)
(* A statement takes its snapshot when it starts, then waits for the row   *)
(* locks it needs. When it gets a row it sees the row's newest version, but *)
(* of the rows it does not lock it keeps what the snapshot showed. A       *)
(* transaction's writes are private until it commits. Inserting a row that *)
(* references the document takes a key-share lock on the document, which a *)
(* SELECT ... FOR UPDATE of it (the save) excludes and an UPDATE that      *)
(* leaves the keys alone (the soft delete) does not. PostgreSQL ends a     *)
(* cycle of waits by aborting one of the transactions in it.               *)
(***************************************************************************)
EXTENDS Integers

CONSTANTS
  Hashes,       \* values of content_hash
  MaxSaves, MaxDeletes, MaxClaims, MaxSeeds,  \* bounds: how often each runs
  NoRow,        \* the row does not exist
  Keep,         \* the transaction has not written the row
  NoTx,         \* nobody holds the lock
  NoClaim       \* the worker is idle

Tables == {"doc", "job", "index", "chunks"}
Txs == {"save", "delete", "complete", "seed"}

VARIABLES
  db,      \* the committed row of each table
  lock,    \* the transaction that holds the row of each table, or NoTx
  write,   \* per transaction and table, its uncommitted version or Keep
  pc,      \* the statement each transaction is at, "idle" when there is none
  snap,    \* per transaction, the document its current statement's snapshot saw
  shared,  \* the transactions that hold a key-share lock on the document
  gen,     \* the generation: none or building, as committed
  claim,   \* what the worker is embedding (hash, token), or NoClaim
  ran      \* how often each kind of transaction, and the claim, has started

txVars == <<db, lock, write, pc, snap, shared, gen, claim, ran>>

Statements == {"idle", "enqueue", "upsert", "commit", "chunks", "delete chunks",
               "index", "delete index", "job", "delete job", "lock job", "fkey",
               "finish", "insert"}

Doc == [state: {"normal", "deleted"}, hash: Hashes, revision: Nat]
Job == [status: {"pending", "running", "failed", "succeeded"}, hash: Hashes,
        revision: Nat, token: Nat]
Index == [hash: Hashes, revision: Nat]
Chunks == [hash: Hashes, batch: Nat]  \* batch: the claim that inserted the rows

RowOf(t) == CASE t = "doc" -> Doc
              [] t = "job" -> Job \union {NoRow}
              [] t = "index" -> Index \union {NoRow}
              [] t = "chunks" -> Chunks \union {NoRow}

\* The markers are no rows, transactions or claims.
ASSUME MarkersAssumption ==
  /\ NoRow # Keep /\ \A m \in {NoRow, Keep} : m \notin Doc \union Job \union Index \union Chunks
  /\ NoTx \notin Txs
  /\ NoClaim \notin [hash: Hashes, token: Nat]

TablesTypeOK ==
  /\ \A t \in Tables : db[t] \in RowOf(t)
  /\ \A x \in Txs, t \in Tables : write[x][t] \in RowOf(t) \union {Keep}
  /\ lock \in [Tables -> Txs \union {NoTx}]
  /\ pc \in [Txs -> Statements]
  /\ shared \subseteq {"complete", "seed"}
  /\ gen \in {"none", "building"}
  /\ claim = NoClaim \/ claim \in [hash: Hashes, token: Nat]

NothingWritten == [t \in Tables |-> Keep]

TxInit ==
  /\ \E h \in Hashes :
       db = [t \in Tables |->
              IF t = "doc" THEN [state |-> "normal", hash |-> h, revision |-> 1]
              ELSE NoRow]
  /\ lock = [t \in Tables |-> NoTx]
  /\ write = [x \in Txs |-> NothingWritten]
  /\ pc = [x \in Txs |-> "idle"]
  /\ snap = [x \in Txs |-> NoRow]
  /\ shared = {}
  /\ gen = "none"
  /\ claim = NoClaim
  /\ ran = [save |-> 0, delete |-> 0, claim |-> 0, seed |-> 0]

-----------------------------------------------------------------------------
(* Transactions.                                                           *)

Free(t) == lock[t] = NoTx

\* Transaction x writes version row of table t, whose lock it holds or can take.
Writes(x, t, row) ==
  /\ lock[t] \in {NoTx, x}
  /\ lock' = [lock EXCEPT ![t] = x]
  /\ write' = [write EXCEPT ![x][t] = row]

\* The end of transaction x: its versions are the committed ones, or are gone.
Ends(x, versions) ==
  /\ db' = [t \in Tables |-> IF versions[t] # Keep THEN versions[t] ELSE db[t]]
  /\ lock' = [t \in Tables |-> IF lock[t] = x THEN NoTx ELSE lock[t]]
  /\ write' = [write EXCEPT ![x] = NothingWritten]
  /\ pc' = [pc EXCEPT ![x] = "idle"]
  /\ snap' = [snap EXCEPT ![x] = NoRow]
  /\ shared' = shared \ {x}

Commits(x) == Ends(x, write[x])
RollsBack(x) == Ends(x, NothingWritten)

At(x, statement) == pc[x] = statement
Goes(x, statement) == pc' = [pc EXCEPT ![x] = statement]

\* The same for a statement that is a transaction of its own.
Autocommits(t, row) == Free(t) /\ db' = [db EXCEPT ![t] = row]

-----------------------------------------------------------------------------
(* saveImpl: lock the document, write it, enqueue, commit.                  *)

\* The UPSERT on one job row: a changed content starts the job over.
Enqueued(job, h, rev) ==
  IF job # NoRow /\ job.hash = h THEN [job EXCEPT !.revision = rev]
  ELSE [status |-> "pending", hash |-> h, revision |-> rev, token |-> 0]

SaveBegins(h) ==
  /\ At("save", "idle") /\ ran.save < MaxSaves
  /\ shared = {}
  /\ db["doc"].state = "normal" /\ Free("doc")
  /\ Writes("save", "doc", [db["doc"] EXCEPT !.hash = h, !.revision = @ + 1])
  /\ Goes("save", "enqueue")
  /\ ran' = [ran EXCEPT !.save = @ + 1]
  /\ UNCHANGED <<db, snap, shared, gen, claim>>

\* The upsert selects the generations that accept writes from its snapshot.
SaveEnqueues ==
  /\ At("save", "enqueue")
  /\ Goes("save", IF gen = "building" THEN "upsert" ELSE "commit")
  /\ UNCHANGED <<db, lock, write, snap, shared, gen, claim, ran>>

\* Mutant: the upsert runs on the pool's connection, not on the transaction's.
SaveUpsertsOutsideTx ==
  /\ At("save", "upsert")
  /\ Autocommits("job", Enqueued(db["job"], write["save"]["doc"].hash,
                                 write["save"]["doc"].revision))
  /\ Goes("save", "index")
  /\ UNCHANGED <<lock, write, snap, shared, gen, claim, ran>>

SaveUpserts ==
  /\ At("save", "upsert")
  /\ Writes("save", "job", Enqueued(db["job"], write["save"]["doc"].hash,
                                    write["save"]["doc"].revision))
  /\ Goes("save", "index")
  /\ UNCHANGED <<db, snap, shared, gen, claim, ran>>

\* updateEmbeddingIndexRevisionQuery
SaveUpdatesIndex ==
  /\ At("save", "index")
  /\ IF db["index"] # NoRow /\ db["index"].hash = write["save"]["doc"].hash
     THEN Writes("save", "index",
                 [db["index"] EXCEPT !.revision = write["save"]["doc"].revision])
     ELSE UNCHANGED <<lock, write>>
  /\ Goes("save", "commit")
  /\ UNCHANGED <<db, snap, shared, gen, claim, ran>>

SaveCommits ==
  /\ At("save", "commit")
  /\ Commits("save")
  /\ UNCHANGED <<gen, claim, ran>>

-----------------------------------------------------------------------------
(* DocumentService.Delete: mark the document, then DeleteDocumentData takes *)
(* chunks, index and job in this order. A DELETE takes the rows its         *)
(* snapshot shows, unless they were replaced while it waited for them.      *)

DeleteBegins ==
  /\ At("delete", "idle") /\ ran.delete < MaxDeletes
  /\ db["doc"].state = "normal" /\ Free("doc")
  /\ Writes("delete", "doc", [db["doc"] EXCEPT !.state = "deleted"])
  /\ Goes("delete", "chunks")
  /\ ran' = [ran EXCEPT !.delete = @ + 1]
  /\ UNCHANGED <<db, snap, shared, gen, claim>>

DeleteSelects(t, onRow, next) ==
  /\ At("delete", t)
  /\ Goes("delete", IF db[t] = NoRow THEN next ELSE onRow)
  /\ snap' = [snap EXCEPT !["delete"] = db[t]]
  /\ UNCHANGED <<db, lock, write, shared, gen, claim, ran>>

DeletesRow(t, next) ==
  /\ Writes("delete", t, NoRow)
  /\ Goes("delete", next)
  /\ UNCHANGED <<db, snap, shared, gen, claim, ran>>

DeleteSelectsChunks == DeleteSelects("chunks", "delete chunks", "index")
DeleteSelectsIndex == DeleteSelects("index", "delete index", "job")
DeleteSelectsJob == DeleteSelects("job", "delete job", "commit")

\* Mutant: the chunks are deleted on the pool's connection.
DeletesChunksOutsideTx ==
  /\ At("delete", "delete chunks")
  /\ Autocommits("chunks", NoRow)
  /\ Goes("delete", "index")
  /\ UNCHANGED <<lock, write, snap, shared, gen, claim, ran>>

DeletesChunks ==
  /\ At("delete", "delete chunks")
  /\ \/ db["chunks"] = snap["delete"] /\ DeletesRow("chunks", "index")
     \/ /\ db["chunks"] # snap["delete"]
        /\ Goes("delete", "index")
        /\ UNCHANGED <<db, lock, write, snap, shared, gen, claim, ran>>

DeletesIndex == At("delete", "delete index") /\ DeletesRow("index", "job")
DeletesJob == At("delete", "delete job") /\ DeletesRow("job", "commit")

DeleteCommits ==
  /\ At("delete", "commit")
  /\ Commits("delete")
  /\ UNCHANGED <<gen, claim, ran>>

-----------------------------------------------------------------------------
(* The worker: ClaimJobs skips a locked job; the lease of a claim the       *)
(* worker no longer holds has lapsed.                                      *)

Claims ==
  /\ claim = NoClaim /\ ran.claim < MaxClaims
  /\ gen = "building" /\ db["job"] # NoRow
  /\ db["doc"].state = "normal" /\ db["doc"].hash = db["job"].hash
  /\ db["job"].status # "succeeded"
  /\ Autocommits("job", [db["job"] EXCEPT !.status = "running", !.token = ran.claim + 1])
  /\ claim' = [hash |-> db["job"].hash, token |-> ran.claim + 1]
  /\ ran' = [ran EXCEPT !.claim = @ + 1]
  /\ UNCHANGED <<lock, write, pc, snap, shared, gen>>

\* MarkClaimFailed, with attempts left; also after a completion that failed.
ClaimFails ==
  /\ claim # NoClaim /\ At("complete", "idle")
  /\ IF /\ db["job"] # NoRow /\ db["job"].status = "running"
        /\ db["job"].token = claim.token
     THEN Autocommits("job", [db["job"] EXCEPT !.status = "failed", !.token = 0])
     ELSE UNCHANGED db
  /\ claim' = NoClaim
  /\ UNCHANGED <<lock, write, pc, snap, shared, gen, ran>>

\* lockEmbeddingClaim starts: the snapshot shows the document as committed now.
CompleteBegins ==
  /\ claim # NoClaim /\ At("complete", "idle")
  /\ db["job"] # NoRow
  /\ snap' = [snap EXCEPT !["complete"] = db["doc"]]
  /\ Goes("complete", "lock job")
  /\ UNCHANGED <<db, lock, write, shared, gen, claim, ran>>

\* lockedEmbeddingClaim.matches: the locked job, the document of the snapshot.
ClaimMatches(job, doc) ==
  /\ job # NoRow
  /\ job.status = "running" /\ job.token = claim.token
  /\ job.hash = claim.hash
  /\ doc.hash = claim.hash /\ doc.state = "normal"

CompleteLocks ==
  /\ At("complete", "lock job")
  /\ ClaimMatches(db["job"], snap["complete"])
  /\ Writes("complete", "job", db["job"])
  /\ Goes("complete", "chunks")
  /\ UNCHANGED <<db, snap, shared, gen, claim, ran>>

\* The claim is stale: the job went away or no longer matches.
CompleteIsStale ==
  /\ claim # NoClaim /\ Free("job")
  /\ \/ At("complete", "idle") /\ db["job"] = NoRow
     \/ At("complete", "lock job") /\ ~ClaimMatches(db["job"], snap["complete"])
  /\ RollsBack("complete")
  /\ claim' = NoClaim
  /\ UNCHANGED <<gen, ran>>

\* Previous chunks are deleted, the new rows are inserted.
CompleteReplacesChunks ==
  /\ At("complete", "chunks")
  /\ Writes("complete", "chunks", [hash |-> claim.hash, batch |-> claim.token])
  /\ Goes("complete", "fkey")
  /\ UNCHANGED <<db, snap, shared, gen, claim, ran>>

\* The foreign key check of an insert locks the document's key.
KeyFree == lock["doc"] # "save"

CompleteChecksKey ==
  /\ At("complete", "fkey") /\ KeyFree
  /\ shared' = shared \union {"complete"}
  /\ Goes("complete", "index")
  /\ UNCHANGED <<db, lock, write, snap, gen, claim, ran>>

\* The revision is that of the document the lock query returned.
CompleteWritesIndex ==
  /\ At("complete", "index")
  /\ Writes("complete", "index",
            [hash |-> claim.hash, revision |-> snap["complete"].revision])
  /\ Goes("complete", "finish")
  /\ UNCHANGED <<db, snap, shared, gen, claim, ran>>

CompleteFinishes ==
  /\ At("complete", "finish")
  /\ Ends("complete", [write["complete"] EXCEPT !["job"] =
       [@ EXCEPT !.status = "succeeded", !.token = 0,
                 !.revision = snap["complete"].revision]])
  /\ claim' = NoClaim
  /\ UNCHANGED <<gen, ran>>

-----------------------------------------------------------------------------
(* Building the generation: the insert of its row commits, then one INSERT  *)
(* ... SELECT seeds the document.                                          *)

CreateGeneration ==
  /\ gen = "none"
  /\ gen' = "building"
  /\ UNCHANGED <<db, lock, write, pc, snap, shared, claim, ran>>

SeedSelects ==
  /\ gen = "building" /\ At("seed", "idle") /\ ran.seed < MaxSeeds
  /\ IF db["doc"].state = "normal"
     THEN Goes("seed", "insert") /\ snap' = [snap EXCEPT !["seed"] = db["doc"]]
     ELSE UNCHANGED <<pc, snap>>
  /\ ran' = [ran EXCEPT !.seed = @ + 1]
  /\ UNCHANGED <<db, lock, write, shared, gen, claim>>

SeedInserts ==
  /\ At("seed", "insert")
  /\ db["job"] = NoRow
  /\ Writes("seed", "job", [status |-> "pending", hash |-> snap["seed"].hash,
                            revision |-> snap["seed"].revision, token |-> 0])
  /\ Goes("seed", "fkey")
  /\ UNCHANGED <<db, snap, shared, gen, claim, ran>>

\* ON CONFLICT DO NOTHING
SeedSkips ==
  /\ At("seed", "insert") /\ Free("job")
  /\ db["job"] # NoRow
  /\ RollsBack("seed")
  /\ UNCHANGED <<gen, claim, ran>>

SeedCommits ==
  /\ At("seed", "fkey") /\ KeyFree
  /\ Commits("seed")
  /\ UNCHANGED <<gen, claim, ran>>

-----------------------------------------------------------------------------
(* Deadlock detection.                                                     *)

\* The transactions that x waits for.
WaitsFor(x) ==
  LET wants == CASE At(x, "upsert") -> {"job"}
                 [] At(x, "delete chunks") -> {"chunks"}
                 [] At(x, "delete index") -> {"index"}
                 [] At(x, "delete job") -> {"job"}
                 [] At(x, "chunks") /\ x = "complete" -> {"chunks"}
                 [] At(x, "index") /\ x = "complete" -> {"index"}
                 [] OTHER -> {}
  IN  ({lock[t] : t \in wants} \ {NoTx, x})
        \union (IF At(x, "fkey") /\ ~KeyFree THEN {"save"} ELSE {})

Deadlocked(x) == \E y \in WaitsFor(x) : x \in WaitsFor(y)

\* The victim's statement fails and its transaction is rolled back.
DeadlockAborts(x) ==
  /\ Deadlocked(x)
  /\ RollsBack(x)
  /\ UNCHANGED <<gen, claim, ran>>

AtRest == \A x \in Txs : pc[x] = "idle"

\* Bounded runs end here and nowhere else: no wait lasts for ever.
Finished == AtRest /\ claim = NoClaim /\ UNCHANGED txVars

TxNext ==
  \/ \E h \in Hashes : SaveBegins(h)
  \/ SaveEnqueues \/ SaveUpserts \/ SaveUpdatesIndex \/ SaveCommits
  \/ DeleteBegins
  \/ DeleteSelectsChunks \/ DeletesChunks \/ DeleteSelectsIndex \/ DeletesIndex
  \/ DeleteSelectsJob \/ DeletesJob \/ DeleteCommits
  \/ Claims \/ ClaimFails
  \/ CompleteBegins \/ CompleteLocks \/ CompleteIsStale \/ CompleteReplacesChunks
  \/ CompleteChecksKey \/ CompleteWritesIndex \/ CompleteFinishes
  \/ CreateGeneration \/ SeedSelects \/ SeedInserts \/ SeedSkips \/ SeedCommits
  \/ \E x \in Txs : DeadlockAborts(x)
  \/ Finished

TxSpec == TxInit /\ [][TxNext]_txVars

-----------------------------------------------------------------------------
(* What holds in every committed state, whatever the interleaving.          *)

\* Search answers only from vectors of the document's present content: where
\* SearchActiveChunks would find the document, its chunks are of that content.
ServedIsCurrent ==
  /\ db["doc"].state = "normal"
  /\ db["job"] # NoRow /\ db["job"].status = "succeeded"
  /\ db["index"] # NoRow
  /\ db["job"].hash = db["index"].hash /\ db["index"].hash = db["doc"].hash
  => db["chunks"] # NoRow /\ db["chunks"].hash = db["doc"].hash

\* Drift is only ever towards the past: no job or index row is ahead of its
\* document, and one at the document's revision carries its hash. So comparing
\* hashes, as claiming and searching do, recognises every stale row.
NeverAhead ==
  \A t \in {"job", "index"} :
    db[t] # NoRow =>
      /\ db[t].revision <= db["doc"].revision
      /\ db[t].revision = db["doc"].revision => db[t].hash = db["doc"].hash

-----------------------------------------------------------------------------
(* What the documentation promises and some interleaving breaks.            *)

\* A job that waits for a worker can be claimed: the queue converges from the
\* database alone, without the document being saved again.
PendingIsClaimable ==
  AtRest /\ db["doc"].state = "normal" /\ db["job"] # NoRow =>
    db["job"].hash = db["doc"].hash

\* A soft delete removes the document's job, index row and chunks.
DeletedLeavesNothing ==
  AtRest /\ db["doc"].state = "deleted" =>
    \A t \in {"job", "index", "chunks"} : db[t] = NoRow

\* A succeeded job and its index row carry the document's revision.
RevisionRecorded ==
  /\ AtRest /\ db["doc"].state = "normal"
  /\ db["job"] # NoRow /\ db["job"].status = "succeeded"
  /\ db["index"] # NoRow
  /\ db["job"].hash = db["doc"].hash
  => /\ db["index"].revision = db["doc"].revision
     /\ db["job"].revision = db["doc"].revision
=============================================================================
