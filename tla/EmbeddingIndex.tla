--------------------------- MODULE EmbeddingIndex ---------------------------
(***************************************************************************)
(* The embedding index of mnote (internal/repo/embedding_v2_repo.go and    *)
(* the services that drive it): documents, generations, the job table that *)
(* is the work queue, the index rows and their chunk vectors, the workers  *)
(* that claim jobs under a lease, and the operator's and the server's      *)
(* control of generations.                                                 *)
(*                                                                         *)
(* One action is one database transaction, or one autocommitted statement. *)
(* The interleaving of the statements inside the transactions is the       *)
(* subject of module EmbeddingTx.                                          *)
(*                                                                         *)
(* Time is abstracted to the events that the code's comparisons with now   *)
(* tell apart: a lease that lapses, a standby window that closes. A delay  *)
(* (available_at, the cleanup cutoff) is a wait before a step that is      *)
(* otherwise enabled.                                                      *)
(***************************************************************************)
EXTENDS Integers

CONSTANTS
  Docs,          \* identities of documents; each is created at most once
  Gens,          \* identities (UUIDs) of generations, never reused
  Hashes,        \* values of content_hash; equal hash means equal content
  Workers,       \* worker slots of the server process
  Tokens,        \* claim tokens (gen_random_uuid)
  NoDoc, NoGen, NoHash, NoToken,  \* "no such value", the SQL NULL
  MaxAttempts,   \* the worker's MaxAttempts
  MaxRevision    \* bound: a document is saved at most this many times

ASSUME ConstantsAssumption ==
  /\ NoGen \notin Gens /\ NoDoc \notin Docs
  /\ NoHash \notin Hashes /\ NoToken \notin Tokens
  /\ MaxAttempts \in Nat \ {0}
  /\ MaxRevision \in Nat \ {0}

VARIABLES
  docs,       \* documents table: state, content_hash, content_revision
  gens,       \* embedding_generations table: status, reason, standby window
  jobs,       \* embedding_jobs table, one row per generation and document
  index,      \* document_embedding_indexes table
  chunks,     \* chunk_embeddings_v2: the content a document's vectors are of
  claims,     \* what each worker slot is processing (in memory)
  toSeed,     \* the documents a seed loop has not visited yet (in memory)
  server,     \* the server process: down, starting or up
  bootstrap   \* the generation the bootstrap worker waits for, or NoGen

vars == <<docs, gens, jobs, index, chunks, claims, toSeed, server, bootstrap>>

Rows == Gens \X Docs

DocState == {"absent", "normal", "deleted"}
GenStatus == {"none", "building", "active", "standby", "retired", "failed",
              "deleted"}
JobStatus == {"none", "pending", "running", "failed", "dead", "succeeded"}

Document == [state: DocState, hash: Hashes \union {NoHash}, revision: Nat]
Generation == [status: GenStatus, initial: BOOLEAN, open: BOOLEAN]
Job == [status: JobStatus, hash: Hashes \union {NoHash}, revision: Nat,
        attempts: 0..MaxAttempts, token: Tokens \union {NoToken},
        lapsed: BOOLEAN]
IndexRow == [hash: Hashes \union {NoHash}, revision: Nat]
Claim == [gen: Gens \union {NoGen}, doc: Docs \union {NoDoc},
          hash: Hashes \union {NoHash}, token: Tokens \union {NoToken}]

NoJob == [status |-> "none", hash |-> NoHash, revision |-> 0, attempts |-> 0,
          token |-> NoToken, lapsed |-> FALSE]
NoIndex == [hash |-> NoHash, revision |-> 0]
NoClaim == [gen |-> NoGen, doc |-> NoDoc, hash |-> NoHash, token |-> NoToken]

TypeOK ==
  /\ docs \in [Docs -> Document]
  /\ gens \in [Gens -> Generation]
  /\ jobs \in [Rows -> Job]
  /\ index \in [Rows -> IndexRow]
  /\ chunks \in [Rows -> Hashes \union {NoHash}]
  /\ claims \in [Workers -> Claim]
  /\ toSeed \in [Gens -> SUBSET Docs]
  /\ server \in {"down", "starting", "up"}
  /\ bootstrap \in Gens \union {NoGen}

Absent == [state |-> "absent", hash |-> NoHash, revision |-> 0]
Saved(h, rev) == [state |-> "normal", hash |-> h, revision |-> rev]

\* The migration that creates the index tables meets the documents of before.
Init ==
  /\ docs \in [Docs -> {Absent} \union {Saved(h, 1) : h \in Hashes}]
  /\ gens = [g \in Gens |-> [status |-> "none", initial |-> FALSE, open |-> FALSE]]
  /\ jobs = [r \in Rows |-> NoJob]
  /\ index = [r \in Rows |-> NoIndex]
  /\ chunks = [r \in Rows |-> NoHash]
  /\ claims = [w \in Workers |-> NoClaim]
  /\ toSeed = [g \in Gens |-> {}]
  /\ server = "down"
  /\ bootstrap = NoGen

-----------------------------------------------------------------------------
(* What the queries ask of a row.                                          *)

Normal(d) == docs[d].state = "normal"

AcceptsWrites(gen) ==
  \/ gen.status \in {"active", "building"}
  \/ gen.status = "standby" /\ gen.open

\* Mutant: the upsert forgets to reset a job whose content changed.
EnqueuedWithoutReset(job, h, rev) ==
  IF job.status # "none" THEN [job EXCEPT !.hash = h, !.revision = rev]
  ELSE [NoJob EXCEPT !.status = "pending", !.hash = h, !.revision = rev]

\* The UPSERT of enqueueEmbeddingContentChangeQuery on one job row: a job that
\* already wants this content keeps its progress, any other starts over.
Enqueued(job, h, rev) ==
  IF job.status # "none" /\ job.hash = h
  THEN [job EXCEPT !.revision = rev]
  ELSE [NoJob EXCEPT !.status = "pending", !.hash = h, !.revision = rev]

\* A document counts as current in a generation when its job has succeeded and
\* job, index and document carry the same content hash.
Current(g, d) ==
  /\ Normal(d)
  /\ jobs[<<g, d>>].status = "succeeded"
  /\ jobs[<<g, d>>].hash = index[<<g, d>>].hash
  /\ index[<<g, d>>].hash = docs[d].hash

\* The counts of GenerationStats, as activation and rollback require them:
\* every normal document current and no job in any other state. A missing job
\* and a drifted hash are documents that are not current.
FullyIndexed(g) ==
  /\ \A d \in Docs : Normal(d) => Current(g, d)
  /\ \A d \in Docs : jobs[<<g, d>>].status \in {"none", "succeeded"}

\* Mutant: the job counts are checked, the coverage of the documents is not.
CanActivateUncovered(g) ==
  /\ gens[g].status = "building"
  /\ \A d \in Docs : jobs[<<g, d>>].status \in {"none", "succeeded"}

CanActivate(g) == gens[g].status = "building" /\ FullyIndexed(g)

\* Mutant: any generation that is complete may be rolled back to.
CanRollbackAny(g) == gens[g].status # "active" /\ FullyIndexed(g)


CanRollback(g) == gens[g].status = "standby" /\ gens[g].open /\ FullyIndexed(g)

Claimable(g, d) ==
  /\ AcceptsWrites(gens[g])
  /\ Normal(d)
  /\ docs[d].hash = jobs[<<g, d>>].hash
  /\ \/ jobs[<<g, d>>].status \in {"pending", "failed"}
     \/ jobs[<<g, d>>].status = "running" /\ jobs[<<g, d>>].lapsed

FreshTokens ==
  {t \in Tokens : /\ \A w \in Workers : claims[w].token # t
                  /\ \A r \in Rows : jobs[r].token # t}

ClaimedRow(w) == <<claims[w].gen, claims[w].doc>>

\* The job row that worker w's claim names is still running under its token.
HoldsClaim(w) ==
  /\ claims[w] # NoClaim
  /\ jobs[ClaimedRow(w)].status = "running"
  /\ jobs[ClaimedRow(w)].token = claims[w].token

\* lockedEmbeddingClaim.matches
ClaimMatches(w) ==
  LET g == claims[w].gen
      d == claims[w].doc
  IN  /\ HoldsClaim(w)
      /\ jobs[<<g, d>>].hash = claims[w].hash
      /\ docs[d].hash = claims[w].hash
      /\ Normal(d)
      /\ AcceptsWrites(gens[g])

\* Mutant: the running jobs of a retired generation keep their tokens.
Unfenced(job) == job

\* Retiring or restarting a generation takes its running jobs from the workers.
Fenced(job) ==
  IF job.status = "running"
  THEN [job EXCEPT !.status = "dead", !.token = NoToken, !.lapsed = FALSE]
  ELSE job

-----------------------------------------------------------------------------
(* Document transactions, while the server is up.                          *)

\* Mutant: only the active generation hears of the change.
EnqueueActiveOnly(d, h, rev) ==
  /\ jobs' = [r \in Rows |-> IF r[2] = d /\ gens[r[1]].status = "active"
                             THEN Enqueued(jobs[r], h, rev) ELSE jobs[r]]
  /\ UNCHANGED index

EnqueueContentChange(d, h, rev) ==
  /\ jobs' = [r \in Rows |-> IF r[2] = d /\ AcceptsWrites(gens[r[1]])
                             THEN Enqueued(jobs[r], h, rev) ELSE jobs[r]]
  /\ index' = [r \in Rows |-> IF /\ r[2] = d
                                 /\ AcceptsWrites(gens[r[1]])
                                 /\ index[r].hash = h
                              THEN [index[r] EXCEPT !.revision = rev]
                              ELSE index[r]]

CreateDocument(d, h) ==
  /\ server = "up"
  /\ docs[d].state = "absent"
  /\ docs' = [docs EXCEPT ![d] = Saved(h, 1)]
  /\ EnqueueContentChange(d, h, 1)
  /\ UNCHANGED <<gens, chunks, claims, toSeed, server, bootstrap>>

SaveDocument(d, h) ==
  /\ server = "up"
  /\ Normal(d)
  /\ docs[d].revision < MaxRevision
  /\ docs' = [docs EXCEPT ![d] = Saved(h, docs[d].revision + 1)]
  /\ EnqueueContentChange(d, h, docs[d].revision + 1)
  /\ UNCHANGED <<gens, chunks, claims, toSeed, server, bootstrap>>

\* Mutant: the delete spares the generations that no longer accept writes.
DeleteAcceptingData(d) ==
  LET gone(r) == r[2] = d /\ AcceptsWrites(gens[r[1]])
  IN  /\ chunks' = [r \in Rows |-> IF gone(r) THEN NoHash ELSE chunks[r]]
      /\ index' = [r \in Rows |-> IF gone(r) THEN NoIndex ELSE index[r]]
      /\ jobs' = [r \in Rows |-> IF gone(r) THEN NoJob ELSE jobs[r]]

\* The document's rows in every generation, whatever its status.
DeleteDocumentData(d) ==
  /\ chunks' = [r \in Rows |-> IF r[2] = d THEN NoHash ELSE chunks[r]]
  /\ index' = [r \in Rows |-> IF r[2] = d THEN NoIndex ELSE index[r]]
  /\ jobs' = [r \in Rows |-> IF r[2] = d THEN NoJob ELSE jobs[r]]

DeleteDocument(d) ==
  /\ server = "up"
  /\ Normal(d)
  /\ docs' = [docs EXCEPT ![d].state = "deleted"]
  /\ DeleteDocumentData(d)
  /\ UNCHANGED <<gens, claims, toSeed, server, bootstrap>>

-----------------------------------------------------------------------------
(* Worker slots.                                                           *)

\* Attempts are compared with MaxAttempts only, so they saturate there.
Claimed(job, t) ==
  [job EXCEPT !.status = "running", !.token = t, !.lapsed = FALSE,
              !.attempts = IF @ < MaxAttempts THEN @ + 1 ELSE @]

\* ClaimJobs followed by the start of processClaim: a fresh token, a live lease.
ClaimJobs(w, g, d) ==
  /\ server = "up"
  /\ claims[w] = NoClaim
  /\ Claimable(g, d)
  /\ \E t \in FreshTokens :
       /\ jobs' = [jobs EXCEPT ![<<g, d>>] = Claimed(@, t)]
       /\ claims' = [claims EXCEPT ![w] =
            [gen |-> g, doc |-> d, hash |-> jobs[<<g, d>>].hash, token |-> t]]
  /\ UNCHANGED <<docs, gens, index, chunks, toSeed, server, bootstrap>>

\* A worker that stalls past its lease, or died, lets the lease lapse.
LeaseLapses(g, d) ==
  /\ jobs[<<g, d>>].status = "running" /\ ~jobs[<<g, d>>].lapsed
  /\ jobs' = [jobs EXCEPT ![<<g, d>>].lapsed = TRUE]
  /\ UNCHANGED <<docs, gens, index, chunks, claims, toSeed, server, bootstrap>>

RenewClaim(w) ==
  /\ HoldsClaim(w)
  /\ jobs[ClaimedRow(w)].lapsed
  /\ AcceptsWrites(gens[claims[w].gen])
  /\ jobs' = [jobs EXCEPT ![ClaimedRow(w)].lapsed = FALSE]
  /\ UNCHANGED <<docs, gens, index, chunks, claims, toSeed, server, bootstrap>>

\* completeClaimTx on a claim that still matches the locked rows.
CompleteClaim(w) ==
  /\ claims[w] # NoClaim
  /\ ClaimMatches(w)
  /\ LET g == claims[w].gen
         d == claims[w].doc
     IN  /\ chunks' = [chunks EXCEPT ![<<g, d>>] = claims[w].hash]
         /\ index' = [index EXCEPT ![<<g, d>>] =
              [hash |-> claims[w].hash, revision |-> docs[d].revision]]
         /\ jobs' = [jobs EXCEPT ![<<g, d>>] =
              [@ EXCEPT !.status = "succeeded", !.revision = docs[d].revision,
                        !.token = NoToken, !.lapsed = FALSE]]
  /\ claims' = [claims EXCEPT ![w] = NoClaim]
  /\ UNCHANGED <<docs, gens, toSeed, server, bootstrap>>

\* A completion that no longer matches, a lease that cannot be renewed, a failure
\* report whose token is gone, and a provider that calls its own cancelling an answer
\* (the claim may still match then, and its lease is left to lapse): the worker drops
\* the claim, no row moves.
AbandonClaim(w) ==
  /\ claims[w] # NoClaim
  /\ claims' = [claims EXCEPT ![w] = NoClaim]
  /\ UNCHANGED <<docs, gens, jobs, index, chunks, toSeed, server, bootstrap>>

\* Mutant: a status that the table's CHECK does not know.
FailedMisspelt(job, permanent) ==
  [job EXCEPT !.status = "error", !.token = NoToken, !.lapsed = FALSE]

Failed(job, permanent) ==
  [job EXCEPT !.status = IF permanent \/ job.attempts >= MaxAttempts
                         THEN "dead" ELSE "failed",
              !.token = NoToken, !.lapsed = FALSE]

MarkClaimFailed(w, permanent) ==
  /\ HoldsClaim(w)
  /\ jobs' = [jobs EXCEPT ![ClaimedRow(w)] = Failed(@, permanent)]
  /\ claims' = [claims EXCEPT ![w] = NoClaim]
  /\ UNCHANGED <<docs, gens, index, chunks, toSeed, server, bootstrap>>

-----------------------------------------------------------------------------
(* Building a generation: createBuildingGenerationTx, then the seed loop,   *)
(* which runs outside that transaction in the process that called it.       *)

NoneBuilding == \A g \in Gens : gens[g].status # "building"

BuildingRow(initial) == [status |-> "building", initial |-> initial, open |-> FALSE]

\* mnote embedding rebuild, when no generation is building.
RebuildCreates(g, initial) ==
  /\ NoneBuilding
  /\ gens[g].status = "none"
  /\ gens' = [gens EXCEPT ![g] = BuildingRow(initial)]
  /\ toSeed' = [toSeed EXCEPT ![g] = Docs]
  /\ UNCHANGED <<docs, jobs, index, chunks, claims, server, bootstrap>>

\* The same command while a generation of the same profile is building.
RebuildResumes(g) ==
  /\ gens[g].status = "building"
  /\ toSeed' = [toSeed EXCEPT ![g] = Docs]
  /\ UNCHANGED <<docs, gens, jobs, index, chunks, claims, server, bootstrap>>

\* mnote embedding rebuild --restart: fenceRestartedGeneration, then a new one.
RebuildRestarts(old, g, initial) ==
  /\ gens[old].status = "building"
  /\ gens[g].status = "none"
  /\ gens' = [gens EXCEPT ![old].status = "failed", ![g] = BuildingRow(initial)]
  /\ jobs' = [r \in Rows |-> IF r[1] = old THEN Fenced(jobs[r]) ELSE jobs[r]]
  /\ toSeed' = [toSeed EXCEPT ![g] = Docs]
  /\ UNCHANGED <<docs, index, chunks, claims, server, bootstrap>>

\* One document of a seed batch: INSERT ... ON CONFLICT DO NOTHING. Ids are
\* random, so the scan meets the documents in any order.
SeedDocument(g, d) ==
  /\ d \in toSeed[g]
  /\ gens[g].status # "deleted"
  /\ toSeed' = [toSeed EXCEPT ![g] = @ \ {d}]
  /\ jobs' = IF Normal(d) /\ jobs[<<g, d>>].status = "none"
             THEN [jobs EXCEPT ![<<g, d>>] =
                    [NoJob EXCEPT !.status = "pending", !.hash = docs[d].hash,
                                  !.revision = docs[d].revision]]
             ELSE jobs
  /\ UNCHANGED <<docs, gens, index, chunks, claims, server, bootstrap>>

\* The seeding process dies or loses the database: the cursor was in memory.
\* A server that was still starting does not come up.
SeedInterrupted(g) ==
  /\ toSeed[g] # {}
  /\ toSeed' = [toSeed EXCEPT ![g] = {}]
  /\ IF server = "starting" /\ bootstrap = g
     THEN server' = "down" /\ bootstrap' = NoGen
     ELSE UNCHANGED <<server, bootstrap>>
  /\ UNCHANGED <<docs, gens, jobs, index, chunks, claims>>

-----------------------------------------------------------------------------
(* Generation control.                                                     *)

\* Mutant: the previous active generation is not moved to standby.
PromotedBeside(g) == [gens EXCEPT ![g].status = "active", ![g].open = FALSE]

\* The two UPDATEs of ActivateGeneration and RollbackGeneration.
Promoted(g) ==
  [h \in Gens |->
     IF h = g THEN [gens[h] EXCEPT !.status = "active", !.open = FALSE]
     ELSE IF gens[h].status = "active"
          THEN [gens[h] EXCEPT !.status = "standby", !.open = TRUE]
          ELSE gens[h]]

ActivateGeneration(g) ==
  /\ CanActivate(g)
  /\ gens' = Promoted(g)
  /\ UNCHANGED <<docs, jobs, index, chunks, claims, toSeed, server, bootstrap>>

RollbackGeneration(g) ==
  /\ CanRollback(g)
  /\ gens' = Promoted(g)
  /\ UNCHANGED <<docs, jobs, index, chunks, claims, toSeed, server, bootstrap>>

\* The bootstrap worker's activation of the generation it waits for.
BootstrapActivates ==
  /\ server = "up" /\ bootstrap # NoGen
  /\ CanActivate(bootstrap)
  /\ gens' = Promoted(bootstrap)
  /\ bootstrap' = NoGen
  /\ UNCHANGED <<docs, jobs, index, chunks, claims, toSeed, server>>

\* The bootstrap worker finds that there is nothing left to activate.
BootstrapEnds ==
  /\ server = "up" /\ bootstrap # NoGen
  /\ gens[bootstrap].status # "building"
  /\ bootstrap' = NoGen
  /\ UNCHANGED <<docs, gens, jobs, index, chunks, claims, toSeed, server>>

Retried(job) == [job EXCEPT !.status = "pending", !.attempts = 0]

RetryJobs(g, D) ==
  /\ AcceptsWrites(gens[g])
  /\ \E d \in D : jobs[<<g, d>>].status \in {"failed", "dead"}
  /\ jobs' = [r \in Rows |->
       IF r[1] = g /\ r[2] \in D /\ jobs[r].status \in {"failed", "dead"}
       THEN Retried(jobs[r])
       ELSE jobs[r]]
  /\ UNCHANGED <<docs, gens, index, chunks, claims, toSeed, server, bootstrap>>

StandbyWindowCloses(g) ==
  /\ gens[g].status = "standby" /\ gens[g].open
  /\ gens' = [gens EXCEPT ![g].open = FALSE]
  /\ UNCHANGED <<docs, jobs, index, chunks, claims, toSeed, server, bootstrap>>

Expired == {g \in Gens : gens[g].status = "standby" /\ ~gens[g].open}

Retire(S) ==
  /\ gens' = [g \in Gens |-> IF g \in S THEN [gens[g] EXCEPT !.status = "retired"]
                                        ELSE gens[g]]
  /\ jobs' = [r \in Rows |-> IF r[1] \in S THEN Fenced(jobs[r]) ELSE jobs[r]]
  /\ UNCHANGED <<docs, index, chunks, claims, toSeed, server, bootstrap>>

RetireGeneration(g) == g \in Expired /\ Retire({g})

RetireExpiredStandbys == server = "up" /\ Expired # {} /\ Retire(Expired)

\* Mutant: the cleanup also takes standby generations.
InactiveOrStandby(g) ==
  server = "up" /\ gens[g].status \in {"standby", "retired", "failed"}

\* CleanupRetiredGenerationBatch, one document's rows at a time: chunks first,
\* jobs when no chunk is left, index rows when no job is left, then the row.
Inactive(g) == server = "up" /\ gens[g].status \in {"retired", "failed"}
NoChunksLeft(g) == \A d \in Docs : chunks[<<g, d>>] = NoHash
NoJobsLeft(g) == \A d \in Docs : jobs[<<g, d>>].status = "none"
NoIndexLeft(g) == \A d \in Docs : index[<<g, d>>] = NoIndex

CleanupChunks(g, d) ==
  /\ Inactive(g)
  /\ chunks[<<g, d>>] # NoHash
  /\ chunks' = [chunks EXCEPT ![<<g, d>>] = NoHash]
  /\ UNCHANGED <<docs, gens, jobs, index, claims, toSeed, server, bootstrap>>

CleanupJob(g, d) ==
  /\ Inactive(g) /\ NoChunksLeft(g)
  /\ jobs[<<g, d>>].status # "none"
  /\ jobs' = [jobs EXCEPT ![<<g, d>>] = NoJob]
  /\ UNCHANGED <<docs, gens, index, chunks, claims, toSeed, server, bootstrap>>

\* Mutant: index rows are deleted while jobs are left.
CleanupIndexEarly(g, d) ==
  /\ Inactive(g) /\ NoChunksLeft(g)
  /\ index[<<g, d>>] # NoIndex
  /\ index' = [index EXCEPT ![<<g, d>>] = NoIndex]
  /\ UNCHANGED <<docs, gens, jobs, chunks, claims, toSeed, server, bootstrap>>

CleanupIndex(g, d) ==
  /\ Inactive(g) /\ NoChunksLeft(g) /\ NoJobsLeft(g)
  /\ index[<<g, d>>] # NoIndex
  /\ index' = [index EXCEPT ![<<g, d>>] = NoIndex]
  /\ UNCHANGED <<docs, gens, jobs, chunks, claims, toSeed, server, bootstrap>>

CleanupGeneration(g) ==
  /\ Inactive(g) /\ NoChunksLeft(g) /\ NoJobsLeft(g) /\ NoIndexLeft(g)
  /\ gens' = [gens EXCEPT ![g].status = "deleted"]
  /\ UNCHANGED <<docs, jobs, index, chunks, claims, toSeed, server, bootstrap>>

-----------------------------------------------------------------------------
(* The server process: ensureInitialEmbeddingGeneration runs before it      *)
(* serves requests or starts its workers.                                   *)

InitialBuilding(g) == gens[g].status = "building" /\ gens[g].initial

\* Mutant: a start that finds the initial generation does not seed it again.
StartWithoutSeeding(g) ==
  /\ server = "down"
  /\ InitialBuilding(g)
  /\ server' = "starting" /\ bootstrap' = g
  /\ UNCHANGED <<docs, gens, jobs, index, chunks, claims, toSeed>>

StartResuming(g) ==
  /\ server = "down"
  /\ InitialBuilding(g)
  /\ server' = "starting" /\ bootstrap' = g
  /\ toSeed' = [toSeed EXCEPT ![g] = Docs]
  /\ UNCHANGED <<docs, gens, jobs, index, chunks, claims>>

StartCreating(g) ==
  /\ server = "down"
  /\ \A h \in Gens : gens[h].status \in {"none", "deleted"}
  /\ gens[g].status = "none"
  /\ server' = "starting" /\ bootstrap' = g
  /\ gens' = [gens EXCEPT ![g] = BuildingRow(TRUE)]
  /\ toSeed' = [toSeed EXCEPT ![g] = Docs]
  /\ UNCHANGED <<docs, jobs, index, chunks, claims>>

StartServing ==
  /\ server = "down"
  /\ \A g \in Gens : ~InitialBuilding(g)
  /\ \E g \in Gens : gens[g].status \notin {"none", "deleted"}
  /\ server' = "up"
  /\ UNCHANGED <<docs, gens, jobs, index, chunks, claims, toSeed, bootstrap>>

ServerReady ==
  /\ server = "starting"
  /\ toSeed[bootstrap] = {}
  /\ server' = "up"
  /\ UNCHANGED <<docs, gens, jobs, index, chunks, claims, toSeed, bootstrap>>

\* A stop or a crash: what the workers and the bootstrap worker knew is gone.
ServerStops ==
  /\ server = "up"
  /\ server' = "down"
  /\ claims' = [w \in Workers |-> NoClaim]
  /\ bootstrap' = NoGen
  /\ UNCHANGED <<docs, gens, jobs, index, chunks, toSeed>>

-----------------------------------------------------------------------------
DocumentNext ==
  \E d \in Docs :
    \/ \E h \in Hashes : CreateDocument(d, h) \/ SaveDocument(d, h)
    \/ DeleteDocument(d)

WorkerNext ==
  \/ \E w \in Workers :
       \/ \E g \in Gens, d \in Docs : ClaimJobs(w, g, d)
       \/ RenewClaim(w)
       \/ CompleteClaim(w)
       \/ AbandonClaim(w)
       \/ \E permanent \in BOOLEAN : MarkClaimFailed(w, permanent)
  \/ \E g \in Gens, d \in Docs : LeaseLapses(g, d)

BuildNext ==
  \E g \in Gens :
    \/ \E initial \in BOOLEAN :
         \/ RebuildCreates(g, initial)
         \/ \E old \in Gens : RebuildRestarts(old, g, initial)
    \/ RebuildResumes(g)
    \/ \E d \in Docs : SeedDocument(g, d)
    \/ SeedInterrupted(g)

ControlNext ==
  \/ \E g \in Gens :
       \/ ActivateGeneration(g)
       \/ RollbackGeneration(g)
       \/ RetryJobs(g, Docs)
       \/ \E d \in Docs : RetryJobs(g, {d})
       \/ StandbyWindowCloses(g)
       \/ RetireGeneration(g)
       \/ \E d \in Docs : CleanupChunks(g, d) \/ CleanupJob(g, d) \/ CleanupIndex(g, d)
       \/ CleanupGeneration(g)
  \/ BootstrapActivates
  \/ BootstrapEnds
  \/ RetireExpiredStandbys

ServerNext ==
  \/ \E g \in Gens : StartResuming(g) \/ StartCreating(g)
  \/ StartServing
  \/ ServerReady
  \/ ServerStops

Next == DocumentNext \/ WorkerNext \/ BuildNext \/ ControlNext \/ ServerNext

Spec == Init /\ [][Next]_vars

-----------------------------------------------------------------------------
(* Fairness. Slots poll every queue in turn and take the oldest job first,  *)
(* so a job that keeps being claimable is claimed (strong: a slot may be    *)
(* busy). A claim that is taken again and again is some time processed      *)
(* within its lease, and one that no longer matches is dropped. A lease     *)
(* nobody renews lapses. The bootstrap worker polls, a stopped server is    *)
(* started again. Nothing is assumed of users, of the operator, of the      *)
(* provider's answers or of crashes.                                        *)

Processed(w) == CompleteClaim(w) \/ \E permanent \in BOOLEAN : MarkClaimFailed(w, permanent)

ProcessedFor(g, d) ==
  \E w \in Workers : claims[w].gen = g /\ claims[w].doc = d /\ Processed(w)

LeaseExpires(g, d) ==
  /\ \A w \in Workers : claims[w].token # jobs[<<g, d>>].token
  /\ LeaseLapses(g, d)

Start == StartServing \/ \E g \in Gens : StartResuming(g) \/ StartCreating(g)

Fairness ==
  /\ \A g \in Gens, d \in Docs :
       /\ SF_vars(\E w \in Workers : ClaimJobs(w, g, d))
       /\ SF_vars(ProcessedFor(g, d))
       /\ WF_vars(LeaseExpires(g, d))
       /\ WF_vars(SeedDocument(g, d))
  /\ \A w \in Workers : WF_vars(~ClaimMatches(w) /\ AbandonClaim(w))
  /\ WF_vars(BootstrapActivates) /\ WF_vars(BootstrapEnds)
  /\ WF_vars(ServerReady) /\ WF_vars(Start)

LiveSpec == Spec /\ Fairness

-----------------------------------------------------------------------------
(* Safety.                                                                 *)

\* A claim token names one claim: no two workers and no two job rows share it,
\* and a worker whose token is still on a row works on that row's content. This
\* is what lets CompleteClaim, RenewClaim and MarkClaimFailed trust the token.
TokenFencing ==
  /\ \A w, v \in Workers :
       w # v /\ claims[w].token # NoToken => claims[w].token # claims[v].token
  /\ \A r, q \in Rows :
       r # q /\ jobs[r].token # NoToken => jobs[r].token # jobs[q].token
  /\ \A w \in Workers, r \in Rows :
       claims[w].token # NoToken /\ claims[w].token = jobs[r].token =>
         /\ r = ClaimedRow(w)
         /\ jobs[r].hash = claims[w].hash

\* The two partial unique indexes of embedding_generations never reject a
\* transaction: at most one generation is active, at most one is building.
SingleActiveAndBuilding ==
  \A g, h \in Gens :
    gens[g].status = gens[h].status /\ gens[g].status \in {"active", "building"}
      => g = h

\* In a generation that accepts writes, the job of a normal document wants the
\* document's present content: otherwise ClaimJobs never picks the job again.
JobTracksDocument ==
  \A g \in Gens, d \in Docs :
    AcceptsWrites(gens[g]) /\ Normal(d) /\ jobs[<<g, d>>].status # "none" =>
      /\ jobs[<<g, d>>].hash = docs[d].hash
      /\ jobs[<<g, d>>].revision = docs[d].revision

\* A generation that serves, or that rollback could make serve, has a job for
\* every normal document: no document falls out of search for ever.
NothingForgotten ==
  \A g \in Gens :
    gens[g].status \in {"active", "standby"} /\ AcceptsWrites(gens[g]) =>
      \A d \in Docs : Normal(d) => jobs[<<g, d>>].status # "none"

\* What the audit of the tables relies on, also in the middle of a cleanup: a
\* succeeded job has the index row it wrote, vectors never outlive their index
\* row, and a row that is not being cleaned up has its vectors.
IndexConsistent ==
  \A g \in Gens, d \in Docs :
    /\ jobs[<<g, d>>].status = "succeeded" =>
         /\ index[<<g, d>>].hash = jobs[<<g, d>>].hash
         /\ index[<<g, d>>].revision = jobs[<<g, d>>].revision
    /\ chunks[<<g, d>>] # NoHash => chunks[<<g, d>>] = index[<<g, d>>].hash
    /\ gens[g].status \in {"building", "active", "standby"} =>
         chunks[<<g, d>>] = index[<<g, d>>].hash

\* A soft-deleted document has no job, index row or vectors in any generation.
DeletedLeavesNothing ==
  \A g \in Gens, d \in Docs :
    ~Normal(d) => /\ jobs[<<g, d>>].status = "none"
                  /\ index[<<g, d>>] = NoIndex
                  /\ chunks[<<g, d>>] = NoHash

\* A retired or failed generation has no running job: whatever a worker still
\* holds for it can neither complete nor fail a row.
InactiveIsFenced ==
  \A g \in Gens, d \in Docs :
    gens[g].status \in {"retired", "failed", "deleted"} =>
      jobs[<<g, d>>].status # "running"

\* Once a generation is retired or failed its rows only disappear.
InactiveOnlyShrinks ==
  [][\A g \in Gens, d \in Docs :
       gens[g].status \in {"retired", "failed", "deleted"} =>
         /\ gens'[g].status \in {gens[g].status, "deleted"}
         /\ index'[<<g, d>>] \in {index[<<g, d>>], NoIndex}
         /\ chunks'[<<g, d>>] \in {chunks[<<g, d>>], NoHash}]_vars

-----------------------------------------------------------------------------
(* What search serves: SearchActiveChunks joins the active generation's     *)
(* vectors with index row, job and document.                                *)

Serving(g) == gens[g].status = "active"

Served == [d \in Docs |->
  IF \E g \in Gens : Serving(g) /\ Current(g, d)
  THEN chunks[<<CHOOSE g \in Gens : Serving(g) /\ Current(g, d), d>>]
  ELSE NoHash]

Content == [d \in Docs |-> IF Normal(d) THEN docs[d].hash ELSE NoHash]

Search == INSTANCE SearchService
  WITH content <- Content, served <- Served, online <- \E g \in Gens : Serving(g)

\* Every step of the index is a step of SearchService: search never answers from
\* stale content, and a document that can be found stays so until it is edited.
ImplementsSearch == Search!Spec
-----------------------------------------------------------------------------
(* Liveness.                                                               *)

OperatorRests ==
  <>[][\A g \in Gens, D \in SUBSET Docs : ~RetryJobs(g, D)]_vars

\* Once an index is active, a document is in the end found by its present
\* content, is deleted, or has a dead job that waits for the operator's retry,
\* however often the server crashes, as long as it comes up again and the
\* operator does not retry for ever what keeps failing.
EventuallySearchable ==
  []<>(server = "up") /\ OperatorRests =>
    \A d \in Docs :
      (Normal(d) /\ \E g \in Gens : Serving(g)) ~>
        \/ ~Normal(d)
        \/ Served[d] = docs[d].hash
        \/ \E g \in Gens : Serving(g) /\ jobs[<<g, d>>].status = "dead"

\* If the server stays up, the generation that its bootstrap worker waits for
\* is activated, is replaced by the operator, or has a dead job.
BootstrapCompletes ==
  <>[](server = "up") /\ OperatorRests =>
    \A g \in Gens :
      bootstrap = g ~> \/ bootstrap # g
                       \/ \E d \in Docs : jobs[<<g, d>>].status = "dead"
=============================================================================
