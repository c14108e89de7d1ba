------------------------ MODULE EmbeddingIndexProofs ------------------------
(***************************************************************************)
(* Theorems about EmbeddingIndex, for every number of documents,           *)
(* generations, workers and tokens.                                        *)
(***************************************************************************)
EXTENDS EmbeddingIndex, TLAPS

-----------------------------------------------------------------------------
(* Operators on one row keep its type.                                     *)

LEMMA EnqueuedType ==
  ASSUME NEW job \in Job, NEW h \in Hashes, NEW rev \in Nat
  PROVE  Enqueued(job, h, rev) \in Job
<1>1. [job EXCEPT !.revision = rev] \in Job
  BY DEF Job
<1>2. NoJob \in Job
  BY ConstantsAssumption DEF Job, NoJob, JobStatus
<1>3. [NoJob EXCEPT !.status = "pending", !.hash = h, !.revision = rev] \in Job
  BY <1>2 DEF Job, JobStatus
<1> QED
  BY <1>1, <1>3 DEF Enqueued

LEMMA FencedType ==
  ASSUME NEW job \in Job
  PROVE  Fenced(job) \in Job
BY DEF Fenced, Job, JobStatus

LEMMA FailedType ==
  ASSUME NEW job \in Job, NEW permanent \in BOOLEAN
  PROVE  Failed(job, permanent) \in Job
BY DEF Failed, Job, JobStatus

LEMMA ClaimedType ==
  ASSUME NEW job \in Job, NEW t \in Tokens
  PROVE  Claimed(job, t) \in Job
<1>1. job.attempts \in 0..MaxAttempts /\ MaxAttempts \in Nat
  BY ConstantsAssumption DEF Job
<1>2. (IF job.attempts < MaxAttempts THEN job.attempts + 1 ELSE job.attempts)
        \in 0..MaxAttempts
  BY <1>1
<1> QED
  BY <1>2 DEF Claimed, Job, JobStatus

LEMMA RetriedType ==
  ASSUME NEW job \in Job
  PROVE  Retried(job) \in Job
<1>1. 0 \in 0..MaxAttempts
  BY ConstantsAssumption
<1> QED
  BY <1>1 DEF Retried, Job, JobStatus

LEMMA PromotedType ==
  ASSUME gens \in [Gens -> Generation], NEW g \in Gens
  PROVE  Promoted(g) \in [Gens -> Generation]
BY DEF Promoted, Generation, GenStatus

LEMMA NullTypes == NoJob \in Job /\ NoIndex \in IndexRow /\ NoClaim \in Claim
BY ConstantsAssumption DEF NoJob, Job, JobStatus, NoIndex, IndexRow, NoClaim, Claim

LEMMA EnqueueType ==
  ASSUME TypeOK, NEW d \in Docs, NEW h \in Hashes, NEW rev \in Nat,
         EnqueueContentChange(d, h, rev)
  PROVE  jobs' \in [Rows -> Job] /\ index' \in [Rows -> IndexRow]
<1>1. \A r \in Rows : Enqueued(jobs[r], h, rev) \in Job
  BY EnqueuedType DEF TypeOK
<1>2. jobs' \in [Rows -> Job]
  BY <1>1 DEF EnqueueContentChange, TypeOK
<1>3. \A r \in Rows : [index[r] EXCEPT !.revision = rev] \in IndexRow
  BY DEF TypeOK, IndexRow
<1>4. index' \in [Rows -> IndexRow]
  BY <1>3 DEF EnqueueContentChange, TypeOK
<1> QED
  BY <1>2, <1>4

-----------------------------------------------------------------------------
(* Type correctness.                                                       *)

LEMMA TypeInit == Init => TypeOK
BY NullTypes, ConstantsAssumption
   DEF Init, TypeOK, Document, DocState, Absent, Saved, Generation, GenStatus

LEMMA TypeDocuments == TypeOK /\ DocumentNext => TypeOK'
<1> SUFFICES ASSUME TypeOK, NEW d \in Docs,
                    (\E h \in Hashes : CreateDocument(d, h) \/ SaveDocument(d, h))
                      \/ DeleteDocument(d)
             PROVE  TypeOK'
  BY DEF DocumentNext
<1>1. ASSUME NEW h \in Hashes, CreateDocument(d, h) PROVE TypeOK'
  <2>1. docs' \in [Docs -> Document]
    BY <1>1 DEF TypeOK, CreateDocument, Document, DocState, Saved
  <2>2. jobs' \in [Rows -> Job] /\ index' \in [Rows -> IndexRow]
    BY <1>1, EnqueueType DEF CreateDocument
  <2> QED
    BY <1>1, <2>1, <2>2 DEF TypeOK, CreateDocument
<1>2. ASSUME NEW h \in Hashes, SaveDocument(d, h) PROVE TypeOK'
  <2>0. docs[d].revision + 1 \in Nat
    BY DEF TypeOK, Document
  <2>1. docs' \in [Docs -> Document]
    BY <1>2, <2>0 DEF TypeOK, SaveDocument, Document, DocState, Saved
  <2>2. jobs' \in [Rows -> Job] /\ index' \in [Rows -> IndexRow]
    BY <1>2, <2>0, EnqueueType DEF SaveDocument
  <2> QED
    BY <1>2, <2>1, <2>2 DEF TypeOK, SaveDocument
<1>3. ASSUME DeleteDocument(d) PROVE TypeOK'
  <2>1. docs' \in [Docs -> Document]
    BY <1>3 DEF TypeOK, DeleteDocument, DeleteDocumentData, Document, DocState
  <2>2. jobs' \in [Rows -> Job] /\ index' \in [Rows -> IndexRow]
    BY <1>3, NullTypes DEF DeleteDocument, DeleteDocumentData, TypeOK
  <2>3. chunks' \in [Rows -> Hashes \union {NoHash}]
    BY <1>3 DEF DeleteDocument, DeleteDocumentData, TypeOK
  <2> QED
    BY <1>3, <2>1, <2>2, <2>3 DEF TypeOK, DeleteDocument, DeleteDocumentData
<1> QED
  BY <1>1, <1>2, <1>3

\* Writing one row of a table of rows.
LEMMA RowType ==
  ASSUME NEW S, NEW f \in [Rows -> S], NEW r, NEW x, r \in Rows => x \in S
  PROVE  [f EXCEPT ![r] = x] \in [Rows -> S]
OBVIOUS

LEMMA TypeWorkers == TypeOK /\ WorkerNext => TypeOK'
<1> SUFFICES ASSUME TypeOK, WorkerNext PROVE TypeOK'
  OBVIOUS
<1> USE ConstantsAssumption
<1>1. ASSUME NEW w \in Workers, NEW g \in Gens, NEW d \in Docs, ClaimJobs(w, g, d)
      PROVE  TypeOK'
  <2> DEFINE r == <<g, d>>
  <2>1. PICK t \in FreshTokens :
          /\ jobs' = [jobs EXCEPT ![r] = Claimed(@, t)]
          /\ claims' = [claims EXCEPT ![w] =
               [gen |-> g, doc |-> d, hash |-> jobs[r].hash, token |-> t]]
    BY <1>1 DEF ClaimJobs
  <2>2. t \in Tokens /\ r \in Rows /\ jobs[r] \in Job
    BY DEF FreshTokens, Rows, TypeOK
  <2>3. jobs' \in [Rows -> Job]
    BY <2>1, <2>2, ClaimedType DEF TypeOK
  <2>4. claims' \in [Workers -> Claim]
    BY <2>1, <2>2 DEF TypeOK, Claim, Job
  <2> QED
    BY <1>1, <2>3, <2>4 DEF ClaimJobs, TypeOK
<1>2. ASSUME NEW w \in Workers, RenewClaim(w) PROVE TypeOK'
  <2> DEFINE r == ClaimedRow(w)
  <2>1. r \in Rows => [jobs[r] EXCEPT !.lapsed = FALSE] \in Job
    BY DEF TypeOK, Job
  <2>2. jobs' \in [Rows -> Job]
    BY <1>2, <2>1, RowType DEF RenewClaim, TypeOK
  <2> QED
    BY <1>2, <2>2 DEF RenewClaim, TypeOK
<1>3. ASSUME NEW w \in Workers, CompleteClaim(w) PROVE TypeOK'
  <2> DEFINE r == <<claims[w].gen, claims[w].doc>>
             rev == docs[claims[w].doc].revision
  <2>1. claims[w].hash \in Hashes \union {NoHash}
    BY DEF TypeOK, Claim
  <2>2. r \in Rows => rev \in Nat
    BY DEF TypeOK, Document, Rows
  <2>3. chunks' \in [Rows -> Hashes \union {NoHash}]
    BY <1>3, <2>1, RowType DEF CompleteClaim, TypeOK
  <2>4. index' \in [Rows -> IndexRow]
    <3>1. r \in Rows => [hash |-> claims[w].hash, revision |-> rev] \in IndexRow
      BY <2>1, <2>2 DEF IndexRow
    <3> QED
      BY <1>3, <3>1, RowType DEF CompleteClaim, TypeOK
  <2>5. jobs' \in [Rows -> Job]
    <3>1. r \in Rows => [jobs[r] EXCEPT !.status = "succeeded", !.revision = rev,
                           !.token = NoToken, !.lapsed = FALSE] \in Job
      BY <2>2 DEF TypeOK, Job, JobStatus
    <3> QED
      BY <1>3, <3>1, RowType DEF CompleteClaim, TypeOK
  <2>6. claims' \in [Workers -> Claim]
    BY <1>3, NullTypes DEF CompleteClaim, TypeOK
  <2> QED
    BY <1>3, <2>3, <2>4, <2>5, <2>6 DEF CompleteClaim, TypeOK
<1>4. ASSUME NEW w \in Workers, AbandonClaim(w) PROVE TypeOK'
  BY <1>4, NullTypes DEF AbandonClaim, TypeOK
<1>5. ASSUME NEW w \in Workers, NEW permanent \in BOOLEAN, MarkClaimFailed(w, permanent)
      PROVE  TypeOK'
  <2> DEFINE r == ClaimedRow(w)
  <2>1. r \in Rows => Failed(jobs[r], permanent) \in Job
    BY FailedType DEF TypeOK
  <2>2. jobs' \in [Rows -> Job]
    BY <1>5, <2>1, RowType DEF MarkClaimFailed, TypeOK
  <2> QED
    BY <1>5, <2>2, NullTypes DEF MarkClaimFailed, TypeOK
<1>6. ASSUME NEW g \in Gens, NEW d \in Docs, LeaseLapses(g, d) PROVE TypeOK'
  BY <1>6 DEF LeaseLapses, TypeOK, Rows, Job
<1> QED
  BY <1>1, <1>2, <1>3, <1>4, <1>5, <1>6 DEF WorkerNext

LEMMA TypeBuild == TypeOK /\ BuildNext => TypeOK'
<1> SUFFICES ASSUME TypeOK, BuildNext PROVE TypeOK'
  OBVIOUS
<1>1. ASSUME NEW initial \in BOOLEAN PROVE BuildingRow(initial) \in Generation
  BY DEF BuildingRow, Generation, GenStatus
<1>2. ASSUME NEW g \in Gens, NEW initial \in BOOLEAN, RebuildCreates(g, initial)
      PROVE  TypeOK'
  BY <1>1, <1>2 DEF RebuildCreates, TypeOK
<1>3. ASSUME NEW old \in Gens, NEW g \in Gens, NEW initial \in BOOLEAN,
             RebuildRestarts(old, g, initial)
      PROVE  TypeOK'
  <2>1. [gens[old] EXCEPT !.status = "failed"] \in Generation
    BY DEF TypeOK, Generation, GenStatus
  <2>2. gens' \in [Gens -> Generation]
    BY <1>1, <1>3, <2>1 DEF RebuildRestarts, TypeOK
  <2>3. jobs' \in [Rows -> Job]
    BY <1>3, FencedType DEF RebuildRestarts, TypeOK
  <2> QED
    BY <1>3, <2>2, <2>3 DEF RebuildRestarts, TypeOK
<1>4. ASSUME NEW g \in Gens, RebuildResumes(g) PROVE TypeOK'
  BY <1>4 DEF RebuildResumes, TypeOK
<1>5. ASSUME NEW g \in Gens, NEW d \in Docs, SeedDocument(g, d) PROVE TypeOK'
  <2>1. [NoJob EXCEPT !.status = "pending", !.hash = docs[d].hash,
                      !.revision = docs[d].revision] \in Job
    BY NullTypes DEF TypeOK, Document, Job, JobStatus
  <2>2. jobs' \in [Rows -> Job]
    BY <1>5, <2>1, RowType DEF SeedDocument, TypeOK
  <2> QED
    BY <1>5, <2>2 DEF SeedDocument, TypeOK
<1>6. ASSUME NEW g \in Gens, SeedInterrupted(g) PROVE TypeOK'
  BY <1>6 DEF SeedInterrupted, TypeOK
<1> QED
  BY <1>2, <1>3, <1>4, <1>5, <1>6 DEF BuildNext

LEMMA TypeControl == TypeOK /\ ControlNext => TypeOK'
<1> SUFFICES ASSUME TypeOK, ControlNext PROVE TypeOK'
  OBVIOUS
<1>1. ASSUME NEW g \in Gens, ActivateGeneration(g) \/ RollbackGeneration(g)
      PROVE  TypeOK'
  BY <1>1, PromotedType DEF ActivateGeneration, RollbackGeneration, TypeOK
<1>2. ASSUME NEW g \in Gens, NEW D \in SUBSET Docs, RetryJobs(g, D) PROVE TypeOK'
  <2>1. \A r \in Rows : Retried(jobs[r]) \in Job
    BY RetriedType DEF TypeOK
  <2> QED
    BY <1>2, <2>1 DEF RetryJobs, TypeOK
<1>3. ASSUME NEW g \in Gens, StandbyWindowCloses(g) PROVE TypeOK'
  BY <1>3 DEF StandbyWindowCloses, TypeOK, Generation
<1>4. ASSUME NEW S \in SUBSET Gens, Retire(S) PROVE TypeOK'
  <2>1. \A g \in Gens : [gens[g] EXCEPT !.status = "retired"] \in Generation
    BY DEF TypeOK, Generation, GenStatus
  <2> QED
    BY <1>4, <2>1, FencedType DEF Retire, TypeOK
<1>5. ASSUME NEW g \in Gens, RetireGeneration(g) PROVE TypeOK'
  BY <1>4, <1>5 DEF RetireGeneration
<1>6. ASSUME RetireExpiredStandbys PROVE TypeOK'
  BY <1>4, <1>6 DEF RetireExpiredStandbys, Expired
<1>7. ASSUME NEW g \in Gens, NEW d \in Docs,
             CleanupChunks(g, d) \/ CleanupJob(g, d) \/ CleanupIndex(g, d)
      PROVE  TypeOK'
  BY <1>7, NullTypes DEF CleanupChunks, CleanupJob, CleanupIndex, TypeOK
<1>8. ASSUME NEW g \in Gens, CleanupGeneration(g) PROVE TypeOK'
  BY <1>8 DEF CleanupGeneration, TypeOK, Generation, GenStatus
<1>9. ASSUME BootstrapActivates \/ BootstrapEnds PROVE TypeOK'
  BY <1>9, PromotedType DEF BootstrapActivates, BootstrapEnds, TypeOK
<1> QED
  BY <1>1, <1>2, <1>3, <1>5, <1>6, <1>7, <1>8, <1>9 DEF ControlNext

LEMMA TypeServer == TypeOK /\ ServerNext => TypeOK'
<1> SUFFICES ASSUME TypeOK, ServerNext PROVE TypeOK'
  OBVIOUS
<1>1. ASSUME NEW g \in Gens, StartResuming(g) \/ StartCreating(g) PROVE TypeOK'
  <2>1. BuildingRow(TRUE) \in Generation
    BY DEF BuildingRow, Generation, GenStatus
  <2> QED
    BY <1>1, <2>1 DEF StartResuming, StartCreating, TypeOK
<1>2. ASSUME StartServing \/ ServerReady PROVE TypeOK'
  BY <1>2 DEF StartServing, ServerReady, TypeOK
<1>3. ASSUME ServerStops PROVE TypeOK'
  BY <1>3, NullTypes DEF ServerStops, TypeOK
<1> QED
  BY <1>1, <1>2, <1>3 DEF ServerNext

LEMMA TypeStep == TypeOK /\ [Next]_vars => TypeOK'
<1>1. TypeOK /\ UNCHANGED vars => TypeOK'
  BY DEF TypeOK, vars
<1> QED
  BY <1>1, TypeDocuments, TypeWorkers, TypeBuild, TypeControl, TypeServer DEF Next

\* Every variable keeps the type its table or its process gives it.
THEOREM TypeCorrect == Spec => []TypeOK
BY TypeInit, TypeStep, PTL DEF Spec

-----------------------------------------------------------------------------
(***************************************************************************)
(* The safety invariants of EmbeddingIndex, proved for every number of     *)
(* documents, generations, workers and tokens.                             *)
(***************************************************************************)

-----------------------------------------------------------------------------
(* The steps that change a table. What a step does to the memory of the     *)
(* processes (claims, toSeed, server, bootstrap) is of no concern here.     *)

WritesDocument(d, h, rev) ==
  /\ docs' = [docs EXCEPT ![d] = Saved(h, rev)]
  /\ EnqueueContentChange(d, h, rev)
  /\ UNCHANGED <<gens, chunks>>

OpensGeneration(g) ==
  /\ gens[g].status = "none"
  /\ \A h \in Gens : gens[h].status # "building"
  /\ \E initial \in BOOLEAN : gens' = [gens EXCEPT ![g] = BuildingRow(initial)]
  /\ UNCHANGED <<docs, jobs, index, chunks>>

Promotes(g) ==
  /\ CanActivate(g) \/ CanRollback(g)
  /\ gens' = Promoted(g)
  /\ UNCHANGED <<docs, jobs, index, chunks>>

LEMMA DocumentSteps ==
  ASSUME TypeOK, DocumentNext
  PROVE  \/ \E d \in Docs, h \in Hashes, rev \in Nat : WritesDocument(d, h, rev)
         \/ \E d \in Docs : DeleteDocument(d)
<1>1. ASSUME NEW d \in Docs, NEW h \in Hashes, CreateDocument(d, h)
      PROVE  WritesDocument(d, h, 1) /\ 1 \in Nat
  BY <1>1 DEF CreateDocument, WritesDocument
<1>2. ASSUME NEW d \in Docs, NEW h \in Hashes, SaveDocument(d, h)
      PROVE  WritesDocument(d, h, docs[d].revision + 1) /\ docs[d].revision + 1 \in Nat
  BY <1>2 DEF SaveDocument, WritesDocument, TypeOK, Document
<1> QED
  BY <1>1, <1>2 DEF DocumentNext

LEMMA WorkerSteps ==
  ASSUME WorkerNext
  PROVE  \/ UNCHANGED <<docs, gens, jobs, index, chunks>>
         \/ \E w \in Workers, g \in Gens, d \in Docs : ClaimJobs(w, g, d)
         \/ \E w \in Workers : RenewClaim(w)
         \/ \E w \in Workers : CompleteClaim(w)
         \/ \E w \in Workers, permanent \in BOOLEAN : MarkClaimFailed(w, permanent)
         \/ \E g \in Gens, d \in Docs : LeaseLapses(g, d)
BY DEF WorkerNext, AbandonClaim

LEMMA BuildSteps ==
  ASSUME BuildNext
  PROVE  \/ UNCHANGED <<docs, gens, jobs, index, chunks>>
         \/ \E g \in Gens : OpensGeneration(g)
         \/ \E old, g \in Gens, initial \in BOOLEAN : RebuildRestarts(old, g, initial)
         \/ \E g \in Gens, d \in Docs : SeedDocument(g, d)
<1>1. ASSUME NEW g \in Gens, NEW initial \in BOOLEAN, RebuildCreates(g, initial)
      PROVE  OpensGeneration(g)
  BY <1>1 DEF RebuildCreates, NoneBuilding, OpensGeneration
<1> QED
  BY <1>1 DEF BuildNext, RebuildResumes, SeedInterrupted

LEMMA ControlSteps ==
  ASSUME TypeOK, ControlNext
  PROVE  \/ UNCHANGED <<docs, gens, jobs, index, chunks>>
         \/ \E g \in Gens : Promotes(g)
         \/ \E g \in Gens, D \in SUBSET Docs : RetryJobs(g, D)
         \/ \E g \in Gens : StandbyWindowCloses(g)
         \/ \E S \in SUBSET Expired : Retire(S)
         \/ \E g \in Gens, d \in Docs :
              CleanupChunks(g, d) \/ CleanupJob(g, d) \/ CleanupIndex(g, d)
         \/ \E g \in Gens : CleanupGeneration(g)
<1>1. ASSUME NEW g \in Gens, ActivateGeneration(g) \/ RollbackGeneration(g)
      PROVE  Promotes(g)
  BY <1>1 DEF ActivateGeneration, RollbackGeneration, Promotes
<1>2. ASSUME BootstrapActivates PROVE \E g \in Gens : Promotes(g)
  <2>1. bootstrap \in Gens
    BY <1>2 DEF BootstrapActivates, TypeOK
  <2> QED
    BY <1>2, <2>1 DEF BootstrapActivates, Promotes
<1>3. ASSUME NEW g \in Gens, RetireGeneration(g) PROVE \E S \in SUBSET Expired : Retire(S)
  BY <1>3 DEF RetireGeneration
<1>4. ASSUME RetireExpiredStandbys PROVE \E S \in SUBSET Expired : Retire(S)
  BY <1>4 DEF RetireExpiredStandbys
<1>5. ASSUME NEW g \in Gens, NEW d \in Docs
      PROVE  RetryJobs(g, Docs) \/ RetryJobs(g, {d}) =>
               \E D \in SUBSET Docs : RetryJobs(g, D)
  OBVIOUS
<1> QED
  BY <1>1, <1>2, <1>3, <1>4, <1>5 DEF ControlNext, BootstrapEnds

LEMMA ServerSteps ==
  ASSUME ServerNext
  PROVE  \/ UNCHANGED <<docs, gens, jobs, index, chunks>>
         \/ \E g \in Gens : OpensGeneration(g)
<1>1. ASSUME NEW g \in Gens, StartCreating(g) PROVE OpensGeneration(g)
  BY <1>1 DEF StartCreating, OpensGeneration
<1> QED
  BY <1>1 DEF ServerNext, StartResuming, StartServing, ServerReady, ServerStops

LEMMA TableSteps ==
  ASSUME TypeOK, [Next]_vars
  PROVE  \/ UNCHANGED <<docs, gens, jobs, index, chunks>>
         \/ \E d \in Docs, h \in Hashes, rev \in Nat : WritesDocument(d, h, rev)
         \/ \E d \in Docs : DeleteDocument(d)
         \/ \E w \in Workers, g \in Gens, d \in Docs : ClaimJobs(w, g, d)
         \/ \E w \in Workers : RenewClaim(w)
         \/ \E w \in Workers : CompleteClaim(w)
         \/ \E w \in Workers, permanent \in BOOLEAN : MarkClaimFailed(w, permanent)
         \/ \E g \in Gens, d \in Docs : LeaseLapses(g, d)
         \/ \E g \in Gens : OpensGeneration(g)
         \/ \E old, g \in Gens, initial \in BOOLEAN : RebuildRestarts(old, g, initial)
         \/ \E g \in Gens, d \in Docs : SeedDocument(g, d)
         \/ \E g \in Gens : Promotes(g)
         \/ \E g \in Gens, D \in SUBSET Docs : RetryJobs(g, D)
         \/ \E g \in Gens : StandbyWindowCloses(g)
         \/ \E S \in SUBSET Expired : Retire(S)
         \/ \E g \in Gens, d \in Docs :
              CleanupChunks(g, d) \/ CleanupJob(g, d) \/ CleanupIndex(g, d)
         \/ \E g \in Gens : CleanupGeneration(g)
BY DocumentSteps, WorkerSteps, BuildSteps, ControlSteps, ServerSteps DEF Next, vars

-----------------------------------------------------------------------------
(* What the operators on one row do to it.                                  *)

LEMMA FencedFields ==
  ASSUME NEW job \in Job
  PROVE  /\ Fenced(job).status = IF job.status = "running" THEN "dead" ELSE job.status
         /\ Fenced(job).hash = job.hash
         /\ Fenced(job).revision = job.revision
         /\ Fenced(job).token \in {job.token, NoToken}
BY DEF Fenced, Job

LEMMA RetireFields ==
  ASSUME TypeOK, NEW S \in SUBSET Expired, Retire(S)
  PROVE  /\ \A g \in Gens :
              /\ gens'[g].status = IF g \in S THEN "retired" ELSE gens[g].status
              /\ gens'[g].open = gens[g].open
         /\ \A r \in Rows : jobs'[r] = IF r[1] \in S THEN Fenced(jobs[r]) ELSE jobs[r]
         /\ \A g \in S : g \in Gens /\ gens[g].status = "standby" /\ ~gens[g].open
BY DEF Retire, Expired, TypeOK, Generation

LEMMA RestartFields ==
  ASSUME TypeOK, NEW old \in Gens, NEW g \in Gens, NEW initial \in BOOLEAN,
         RebuildRestarts(old, g, initial)
  PROVE  /\ old # g /\ gens[old].status = "building" /\ gens[g].status = "none"
         /\ \A h \in Gens :
              /\ gens'[h].status = IF h = g THEN "building"
                                   ELSE IF h = old THEN "failed" ELSE gens[h].status
              /\ h # g => gens'[h].open = gens[h].open
         /\ \A r \in Rows : jobs'[r] = IF r[1] = old THEN Fenced(jobs[r]) ELSE jobs[r]
BY DEF RebuildRestarts, BuildingRow, TypeOK, Generation

LEMMA PromotedFields ==
  ASSUME TypeOK, NEW g \in Gens, Promotes(g)
  PROVE  /\ gens'[g].status = "active"
         /\ \A h \in Gens \ {g} :
              /\ gens'[h].status = IF gens[h].status = "active" THEN "standby"
                                   ELSE gens[h].status
              /\ gens'[h].open = IF gens[h].status = "active" THEN TRUE ELSE gens[h].open
         /\ \/ gens[g].status = "building"
            \/ gens[g].status = "standby" /\ gens[g].open
         /\ FullyIndexed(g)
<1>1. gens' = Promoted(g) /\ gens \in [Gens -> Generation]
  BY DEF Promotes, TypeOK
<1>2. gens'[g].status = "active"
  BY <1>1 DEF Promoted, Generation
<1>3. ASSUME NEW h \in Gens \ {g}
      PROVE  /\ gens'[h].status = IF gens[h].status = "active" THEN "standby"
                                  ELSE gens[h].status
             /\ gens'[h].open = IF gens[h].status = "active" THEN TRUE ELSE gens[h].open
  BY <1>1 DEF Promoted, Generation
<1>4. /\ \/ gens[g].status = "building"
         \/ gens[g].status = "standby" /\ gens[g].open
      /\ FullyIndexed(g)
  BY DEF Promotes, CanActivate, CanRollback
<1> QED
  BY <1>2, <1>3, <1>4

LEMMA EnqueuedFields ==
  ASSUME NEW job \in Job, NEW h \in Hashes, NEW rev \in Nat
  PROVE  /\ Enqueued(job, h, rev).hash = h
         /\ Enqueued(job, h, rev).revision = rev
         /\ Enqueued(job, h, rev).status # "none"
         /\ Enqueued(job, h, rev).status = "succeeded" =>
              job.status = "succeeded" /\ job.hash = h
         /\ Enqueued(job, h, rev).token # NoToken =>
              Enqueued(job, h, rev).token = job.token /\ job.hash = h
BY DEF Enqueued, NoJob, Job

LEMMA EnqueueFields ==
  ASSUME TypeOK, NEW d \in Docs, NEW h \in Hashes, NEW rev \in Nat,
         EnqueueContentChange(d, h, rev),
         NEW g \in Gens, NEW e \in Docs
  PROVE  IF e = d /\ AcceptsWrites(gens[g])
         THEN /\ jobs'[<<g, e>>] = Enqueued(jobs[<<g, e>>], h, rev)
              /\ index'[<<g, e>>].hash = index[<<g, e>>].hash
              /\ index[<<g, e>>].hash = h => index'[<<g, e>>].revision = rev
         ELSE /\ jobs'[<<g, e>>] = jobs[<<g, e>>]
              /\ index'[<<g, e>>] = index[<<g, e>>]
<1>1. <<g, e>> \in Rows
  BY DEF Rows
<1>2. CASE e = d /\ AcceptsWrites(gens[g])
  BY <1>1, <1>2 DEF EnqueueContentChange, TypeOK, IndexRow
<1>3. CASE ~(e = d /\ AcceptsWrites(gens[g]))
  BY <1>1, <1>3 DEF EnqueueContentChange
<1> QED
  BY <1>2, <1>3

\* A step on the way of a job that concerns neither its content nor an index row.
JobsProgress ==
  /\ UNCHANGED <<docs, index, chunks>>
  /\ \A r \in Rows :
       /\ jobs'[r].hash = jobs[r].hash
       /\ jobs'[r].revision = jobs[r].revision
       /\ jobs[r].status = "none" <=> jobs'[r].status = "none"
       /\ jobs'[r].status = "succeeded" <=> jobs[r].status = "succeeded"

LEMMA ClaimProgress ==
  ASSUME TypeOK, NEW w \in Workers, NEW g \in Gens, NEW d \in Docs, ClaimJobs(w, g, d)
  PROVE  JobsProgress
<1>1. \A t \in Tokens, job \in Job :
        /\ Claimed(job, t).hash = job.hash
        /\ Claimed(job, t).revision = job.revision
        /\ Claimed(job, t).status = "running"
  BY DEF Claimed, Job
<1>2. jobs[<<g, d>>].status \notin {"none", "succeeded"} /\ <<g, d>> \in Rows
  BY DEF ClaimJobs, Claimable, Rows
<1>3. PICK t \in Tokens : jobs' = [jobs EXCEPT ![<<g, d>>] = Claimed(@, t)]
  BY DEF ClaimJobs, FreshTokens
<1> QED
  BY <1>1, <1>2, <1>3 DEF ClaimJobs, JobsProgress, TypeOK

LEMMA LeaseProgress ==
  ASSUME TypeOK,
         \/ \E w \in Workers : RenewClaim(w)
         \/ \E g \in Gens, d \in Docs : LeaseLapses(g, d)
  PROVE  JobsProgress
<1>1. ASSUME NEW w \in Workers, RenewClaim(w) PROVE JobsProgress
  BY <1>1 DEF RenewClaim, JobsProgress, TypeOK, Job
<1>2. ASSUME NEW g \in Gens, NEW d \in Docs, LeaseLapses(g, d) PROVE JobsProgress
  <2>1. \A r \in Rows :
          jobs'[r] = IF r = <<g, d>> THEN [jobs[r] EXCEPT !.lapsed = TRUE] ELSE jobs[r]
    BY <1>2 DEF LeaseLapses, TypeOK
  <2>2. \A job \in Job :
          /\ [job EXCEPT !.lapsed = TRUE].hash = job.hash
          /\ [job EXCEPT !.lapsed = TRUE].revision = job.revision
          /\ [job EXCEPT !.lapsed = TRUE].status = job.status
    BY DEF Job
  <2> QED
    BY <1>2, <2>1, <2>2 DEF LeaseLapses, JobsProgress, TypeOK
<1> QED
  BY <1>1, <1>2

LEMMA FailureProgress ==
  ASSUME TypeOK, NEW w \in Workers, NEW permanent \in BOOLEAN, MarkClaimFailed(w, permanent)
  PROVE  JobsProgress
<1>1. \A job \in Job :
        /\ Failed(job, permanent).hash = job.hash
        /\ Failed(job, permanent).revision = job.revision
        /\ Failed(job, permanent).status \in {"dead", "failed"}
  BY DEF Failed, Job
<1>2. jobs' = [jobs EXCEPT ![ClaimedRow(w)] = Failed(@, permanent)]
  BY DEF MarkClaimFailed
<1>3. jobs[ClaimedRow(w)].status = "running"
  BY DEF MarkClaimFailed, HoldsClaim
<1>4. \A r \in Rows :
        jobs'[r] = IF r = ClaimedRow(w) THEN Failed(jobs[r], permanent) ELSE jobs[r]
  BY <1>2 DEF TypeOK
<1> QED
  BY <1>1, <1>3, <1>4 DEF MarkClaimFailed, JobsProgress, TypeOK

LEMMA RetryProgress ==
  ASSUME TypeOK, NEW g \in Gens, NEW D \in SUBSET Docs, RetryJobs(g, D)
  PROVE  JobsProgress
<1>1. \A job \in Job :
        /\ Retried(job).hash = job.hash
        /\ Retried(job).revision = job.revision
        /\ Retried(job).status = "pending"
  BY DEF Retried, Job
<1> QED
  BY <1>1 DEF RetryJobs, JobsProgress, TypeOK

LEMMA FenceProgress ==
  ASSUME TypeOK,
         \/ \E old, g \in Gens, initial \in BOOLEAN : RebuildRestarts(old, g, initial)
         \/ \E S \in SUBSET Expired : Retire(S)
  PROVE  JobsProgress
BY FencedFields, RestartFields, RetireFields
   DEF RebuildRestarts, Retire, JobsProgress, TypeOK

-----------------------------------------------------------------------------
(* The steps again, as far as the content of the rows is concerned.         *)

LEMMA ContentSteps ==
  ASSUME TypeOK, [Next]_vars
  PROVE  \/ JobsProgress
         \/ \E d \in Docs, h \in Hashes, rev \in Nat : WritesDocument(d, h, rev)
         \/ \E d \in Docs : DeleteDocument(d)
         \/ \E w \in Workers : CompleteClaim(w)
         \/ \E g \in Gens, d \in Docs : SeedDocument(g, d)
         \/ \E g \in Gens, d \in Docs :
              CleanupChunks(g, d) \/ CleanupJob(g, d) \/ CleanupIndex(g, d)
<1>1. UNCHANGED <<docs, jobs, index, chunks>> => JobsProgress
  BY DEF JobsProgress
<1> QED
  BY <1>1, ClaimProgress, LeaseProgress, FailureProgress, RetryProgress,
     FenceProgress, TableSteps
     DEF OpensGeneration, Promotes, StandbyWindowCloses, CleanupGeneration

-----------------------------------------------------------------------------
(* The life of a generation.                                               *)

Lifecycle(old, new) ==
  \/ new.status = old.status /\ new.open \in {old.open, FALSE}
  \/ old.status = "none" /\ new.status = "building"
  \/ old.status = "building" /\ new.status \in {"active", "failed"}
  \/ old.status = "active" /\ new.status = "standby"
  \/ old.status = "standby" /\ old.open /\ new.status = "active"
  \/ old.status = "standby" /\ ~old.open /\ new.status = "retired"
  \/ old.status \in {"retired", "failed"} /\ new.status = "deleted"

LEMMA LifecycleSteps ==
  ASSUME TypeOK, [Next]_vars, NEW g \in Gens
  PROVE  Lifecycle(gens[g], gens'[g])
<1> USE DEF Lifecycle
<1>1. CASE UNCHANGED gens
  BY <1>1
<1>2. ASSUME NEW h \in Gens, OpensGeneration(h) PROVE Lifecycle(gens[g], gens'[g])
  BY <1>2 DEF OpensGeneration, BuildingRow, TypeOK
<1>3. ASSUME NEW old \in Gens, NEW h \in Gens, NEW initial \in BOOLEAN,
             RebuildRestarts(old, h, initial)
      PROVE  Lifecycle(gens[g], gens'[g])
  BY <1>3, RestartFields
<1>4. ASSUME NEW h \in Gens, Promotes(h) PROVE Lifecycle(gens[g], gens'[g])
  BY <1>4, PromotedFields
<1>5. ASSUME NEW h \in Gens, StandbyWindowCloses(h) PROVE Lifecycle(gens[g], gens'[g])
  BY <1>5 DEF StandbyWindowCloses, TypeOK, Generation
<1>6. ASSUME NEW h \in Gens, CleanupGeneration(h) PROVE Lifecycle(gens[g], gens'[g])
  BY <1>6 DEF CleanupGeneration, Inactive, TypeOK, Generation
<1>7. ASSUME NEW S \in SUBSET Expired, Retire(S) PROVE Lifecycle(gens[g], gens'[g])
  BY <1>7, RetireFields
<1> QED
  BY <1>1, <1>2, <1>3, <1>4, <1>5, <1>6, <1>7, TableSteps
     DEF WritesDocument, DeleteDocument, ClaimJobs, RenewClaim, CompleteClaim,
         MarkClaimFailed, LeaseLapses, SeedDocument, RetryJobs, CleanupChunks,
         CleanupJob, CleanupIndex

\* A generation begins to accept writes only when it is created.
LEMMA AcceptingSteps ==
  ASSUME TypeOK, [Next]_vars, NEW g \in Gens, AcceptsWrites(gens'[g])
  PROVE  AcceptsWrites(gens[g]) \/ gens[g].status = "none"
<1>1. gens[g] \in Generation /\ Lifecycle(gens[g], gens'[g])
  BY LifecycleSteps DEF TypeOK
<1> QED
  BY <1>1 DEF AcceptsWrites, Lifecycle, Generation, GenStatus

-----------------------------------------------------------------------------
(* One active generation, one under construction.                          *)

LEMMA SingleStep ==
  TypeOK /\ SingleActiveAndBuilding /\ [Next]_vars => SingleActiveAndBuilding'
<1> SUFFICES ASSUME TypeOK, SingleActiveAndBuilding, [Next]_vars
             PROVE  SingleActiveAndBuilding'
  OBVIOUS
<1> USE DEF TypeOK, SingleActiveAndBuilding
<1>1. CASE UNCHANGED gens
  BY <1>1
<1>2. ASSUME NEW g \in Gens, OpensGeneration(g) PROVE SingleActiveAndBuilding'
  BY <1>2 DEF OpensGeneration, BuildingRow
<1>3. ASSUME NEW old \in Gens, NEW g \in Gens, NEW initial \in BOOLEAN,
             RebuildRestarts(old, g, initial)
      PROVE  SingleActiveAndBuilding'
  BY <1>3 DEF RebuildRestarts, BuildingRow, Generation
<1>4. ASSUME NEW g \in Gens, Promotes(g) PROVE SingleActiveAndBuilding'
  BY <1>4 DEF Promotes, Promoted, Generation
<1>5. ASSUME NEW g \in Gens, StandbyWindowCloses(g) PROVE SingleActiveAndBuilding'
  BY <1>5 DEF StandbyWindowCloses, Generation
<1>6. ASSUME NEW S \in SUBSET Expired, Retire(S) PROVE SingleActiveAndBuilding'
  BY <1>6 DEF Retire, Expired, Generation
<1>7. ASSUME NEW g \in Gens, CleanupGeneration(g) PROVE SingleActiveAndBuilding'
  BY <1>7 DEF CleanupGeneration, Generation
<1> QED
  BY <1>1, <1>2, <1>3, <1>4, <1>5, <1>6, <1>7, TableSteps
     DEF WritesDocument, DeleteDocument, ClaimJobs, RenewClaim, CompleteClaim,
         MarkClaimFailed, LeaseLapses, SeedDocument, RetryJobs, CleanupChunks,
         CleanupJob, CleanupIndex

\* The two partial unique indexes never reject a transaction.
THEOREM SingleCorrect == Spec => []SingleActiveAndBuilding
<1>1. Init => SingleActiveAndBuilding
  BY DEF Init, SingleActiveAndBuilding
<1> QED
  BY <1>1, SingleStep, TypeCorrect, PTL DEF Spec

-----------------------------------------------------------------------------
(* A generation that was not created yet has no row and no seed cursor.     *)

UnusedIsEmpty ==
  \A g \in Gens : gens[g].status = "none" =>
    /\ toSeed[g] = {}
    /\ \A d \in Docs : /\ jobs[<<g, d>>].status = "none"
                       /\ index[<<g, d>>] = NoIndex
                       /\ chunks[<<g, d>>] = NoHash

LEMMA CursorSteps ==
  ASSUME TypeOK, [Next]_vars, NEW g \in Gens, gens'[g].status = "none"
  PROVE  toSeed'[g] \subseteq toSeed[g]
<1> USE DEF TypeOK
<1>1. CASE UNCHANGED toSeed
  BY <1>1
<1>2. CASE DocumentNext
  BY <1>2, <1>1 DEF DocumentNext, CreateDocument, SaveDocument, DeleteDocument
<1>3. CASE WorkerNext
  BY <1>3, <1>1 DEF WorkerNext, ClaimJobs, RenewClaim, CompleteClaim, AbandonClaim,
                    MarkClaimFailed, LeaseLapses
<1>4. CASE BuildNext
  <2>1. ASSUME NEW h \in Gens, NEW initial \in BOOLEAN, RebuildCreates(h, initial)
        PROVE  toSeed'[g] \subseteq toSeed[g]
    BY <2>1 DEF RebuildCreates, BuildingRow
  <2>2. ASSUME NEW old \in Gens, NEW h \in Gens, NEW initial \in BOOLEAN,
               RebuildRestarts(old, h, initial)
        PROVE  toSeed'[g] \subseteq toSeed[g]
    BY <2>2, RestartFields DEF RebuildRestarts
  <2>3. ASSUME NEW h \in Gens, RebuildResumes(h) PROVE toSeed'[g] \subseteq toSeed[g]
    BY <2>3 DEF RebuildResumes
  <2>4. ASSUME NEW h \in Gens, NEW d \in Docs, SeedDocument(h, d)
        PROVE  toSeed'[g] \subseteq toSeed[g]
    BY <2>4 DEF SeedDocument
  <2>5. ASSUME NEW h \in Gens, SeedInterrupted(h) PROVE toSeed'[g] \subseteq toSeed[g]
    BY <2>5 DEF SeedInterrupted
  <2> QED
    BY <1>4, <2>1, <2>2, <2>3, <2>4, <2>5 DEF BuildNext
<1>5. CASE ControlNext
  BY <1>5, <1>1 DEF ControlNext, ActivateGeneration, RollbackGeneration, RetryJobs,
                    StandbyWindowCloses, RetireGeneration, RetireExpiredStandbys,
                    Retire, CleanupChunks, CleanupJob, CleanupIndex,
                    CleanupGeneration, BootstrapActivates, BootstrapEnds
<1>6. CASE ServerNext
  BY <1>6, <1>1 DEF ServerNext, StartResuming, InitialBuilding, StartCreating,
                    BuildingRow, StartServing, ServerReady, ServerStops
<1> QED
  BY <1>1, <1>2, <1>3, <1>4, <1>5, <1>6 DEF Next, vars

LEMMA UnusedStep == TypeOK /\ UnusedIsEmpty /\ [Next]_vars => UnusedIsEmpty'
<1> SUFFICES ASSUME TypeOK, UnusedIsEmpty, [Next]_vars,
                    NEW g \in Gens, gens'[g].status = "none"
             PROVE  /\ toSeed'[g] = {}
                    /\ \A d \in Docs : /\ jobs'[<<g, d>>].status = "none"
                                       /\ index'[<<g, d>>] = NoIndex
                                       /\ chunks'[<<g, d>>] = NoHash
  BY DEF UnusedIsEmpty
<1>1. gens[g].status = "none"
  BY LifecycleSteps DEF Lifecycle
<1>2. toSeed[g] = {} /\ toSeed'[g] = {}
  BY <1>1, CursorSteps DEF UnusedIsEmpty
<1>3. ~AcceptsWrites(gens[g])
  BY <1>1 DEF AcceptsWrites
<1> SUFFICES ASSUME NEW d \in Docs
             PROVE  /\ jobs'[<<g, d>>].status = "none"
                    /\ index'[<<g, d>>] = NoIndex
                    /\ chunks'[<<g, d>>] = NoHash
  BY <1>2
<1>4. /\ <<g, d>> \in Rows
      /\ jobs[<<g, d>>].status = "none"
      /\ index[<<g, d>>] = NoIndex
      /\ chunks[<<g, d>>] = NoHash
  BY <1>1 DEF UnusedIsEmpty, Rows
<1>5. CASE JobsProgress
  BY <1>4, <1>5 DEF JobsProgress
<1>6. ASSUME NEW e \in Docs, NEW h \in Hashes, NEW rev \in Nat, WritesDocument(e, h, rev)
      PROVE  /\ jobs'[<<g, d>>] = jobs[<<g, d>>]
             /\ index'[<<g, d>>] = index[<<g, d>>]
             /\ chunks'[<<g, d>>] = chunks[<<g, d>>]
  BY <1>3, <1>6, EnqueueFields DEF WritesDocument
<1>7. ASSUME NEW e \in Docs, DeleteDocument(e)
      PROVE  /\ jobs'[<<g, d>>].status = "none"
             /\ index'[<<g, d>>] = NoIndex
             /\ chunks'[<<g, d>>] = NoHash
  BY <1>4, <1>7 DEF DeleteDocument, DeleteDocumentData, NoJob
<1>8. ASSUME NEW w \in Workers, CompleteClaim(w)
      PROVE  /\ jobs'[<<g, d>>] = jobs[<<g, d>>]
             /\ index'[<<g, d>>] = index[<<g, d>>]
             /\ chunks'[<<g, d>>] = chunks[<<g, d>>]
  BY <1>3, <1>4, <1>8 DEF CompleteClaim, ClaimMatches, TypeOK
<1>9. ASSUME NEW h \in Gens, NEW e \in Docs, SeedDocument(h, e)
      PROVE  /\ jobs'[<<g, d>>] = jobs[<<g, d>>]
             /\ index'[<<g, d>>] = index[<<g, d>>]
             /\ chunks'[<<g, d>>] = chunks[<<g, d>>]
  BY <1>2, <1>4, <1>9 DEF SeedDocument, TypeOK
<1>10. ASSUME NEW h \in Gens, NEW e \in Docs,
              CleanupChunks(h, e) \/ CleanupJob(h, e) \/ CleanupIndex(h, e)
       PROVE  /\ jobs'[<<g, d>>].status = "none"
              /\ index'[<<g, d>>] = NoIndex
              /\ chunks'[<<g, d>>] = NoHash
  BY <1>4, <1>10 DEF CleanupChunks, CleanupJob, CleanupIndex, NoJob, TypeOK
<1> QED
  BY <1>4, <1>5, <1>6, <1>7, <1>8, <1>9, <1>10, ContentSteps

LEMMA UnusedCorrect == Spec => []UnusedIsEmpty
<1>1. Init => UnusedIsEmpty
  BY DEF Init, UnusedIsEmpty, Rows, NoJob
<1> QED
  BY <1>1, UnusedStep, TypeCorrect, PTL DEF Spec

-----------------------------------------------------------------------------
(* Soft-deleted documents.                                                 *)

LEMMA DeletedStep ==
  TypeOK /\ DeletedLeavesNothing /\ [Next]_vars => DeletedLeavesNothing'
<1> SUFFICES ASSUME TypeOK, DeletedLeavesNothing, [Next]_vars
             PROVE  DeletedLeavesNothing'
  OBVIOUS
<1> USE DEF TypeOK, DeletedLeavesNothing, Normal, Rows
<1>1. CASE JobsProgress
  BY <1>1 DEF JobsProgress
<1>2. ASSUME NEW d \in Docs, NEW h \in Hashes, NEW rev \in Nat, WritesDocument(d, h, rev)
      PROVE  DeletedLeavesNothing'
  BY <1>2 DEF WritesDocument, EnqueueContentChange, Saved
<1>3. ASSUME NEW d \in Docs, DeleteDocument(d) PROVE DeletedLeavesNothing'
  BY <1>3 DEF DeleteDocument, DeleteDocumentData, Document, NoJob
<1>4. ASSUME NEW w \in Workers, CompleteClaim(w) PROVE DeletedLeavesNothing'
  BY <1>4 DEF CompleteClaim, ClaimMatches
<1>5. ASSUME NEW g \in Gens, NEW d \in Docs, SeedDocument(g, d)
      PROVE  DeletedLeavesNothing'
  BY <1>5 DEF SeedDocument
<1>6. ASSUME NEW g \in Gens, NEW d \in Docs,
             CleanupChunks(g, d) \/ CleanupJob(g, d) \/ CleanupIndex(g, d)
      PROVE  DeletedLeavesNothing'
  BY <1>6 DEF CleanupChunks, CleanupJob, CleanupIndex, NoJob
<1> QED
  BY <1>1, <1>2, <1>3, <1>4, <1>5, <1>6, ContentSteps

\* No document that is absent or soft-deleted has a job, an index row or vectors.
THEOREM DeletedCorrect == Spec => []DeletedLeavesNothing
<1>1. Init => DeletedLeavesNothing
  BY DEF Init, DeletedLeavesNothing, Normal, Rows, NoJob
<1> QED
  BY <1>1, DeletedStep, TypeCorrect, PTL DEF Spec

-----------------------------------------------------------------------------
(* Fencing of inactive generations.                                        *)

LEMMA FencedStep ==
  TypeOK /\ InactiveIsFenced /\ [Next]_vars => InactiveIsFenced'
<1> SUFFICES ASSUME TypeOK, InactiveIsFenced, [Next]_vars
             PROVE  InactiveIsFenced'
  OBVIOUS
<1> USE DEF TypeOK, InactiveIsFenced, Rows
<1>1. CASE UNCHANGED <<gens, jobs>>
  BY <1>1
<1>2. ASSUME NEW d \in Docs, NEW h \in Hashes, NEW rev \in Nat, WritesDocument(d, h, rev)
      PROVE  InactiveIsFenced'
  BY <1>2 DEF WritesDocument, EnqueueContentChange, AcceptsWrites
<1>3. ASSUME NEW d \in Docs, DeleteDocument(d) PROVE InactiveIsFenced'
  BY <1>3 DEF DeleteDocument, DeleteDocumentData, NoJob
<1>4. ASSUME NEW w \in Workers, NEW g \in Gens, NEW d \in Docs, ClaimJobs(w, g, d)
      PROVE  InactiveIsFenced'
  BY <1>4 DEF ClaimJobs, Claimable, AcceptsWrites
<1>5. ASSUME NEW w \in Workers, RenewClaim(w) PROVE InactiveIsFenced'
  BY <1>5 DEF RenewClaim, AcceptsWrites
<1>6. ASSUME NEW w \in Workers, CompleteClaim(w) PROVE InactiveIsFenced'
  BY <1>6 DEF CompleteClaim, ClaimMatches, AcceptsWrites
<1>7. ASSUME NEW w \in Workers, NEW permanent \in BOOLEAN, MarkClaimFailed(w, permanent)
      PROVE  InactiveIsFenced'
  BY <1>7 DEF MarkClaimFailed, HoldsClaim
<1>8. ASSUME NEW g \in Gens, NEW d \in Docs, LeaseLapses(g, d) PROVE InactiveIsFenced'
  BY <1>8 DEF LeaseLapses
<1>9. ASSUME NEW g \in Gens, OpensGeneration(g) PROVE InactiveIsFenced'
  BY <1>9 DEF OpensGeneration, BuildingRow
<1>10. ASSUME NEW old \in Gens, NEW g \in Gens, NEW initial \in BOOLEAN,
              RebuildRestarts(old, g, initial)
       PROVE  InactiveIsFenced'
  BY <1>10, RestartFields, FencedFields
<1>11. ASSUME NEW g \in Gens, NEW d \in Docs, SeedDocument(g, d) PROVE InactiveIsFenced'
  BY <1>11, NullTypes DEF SeedDocument, Job
<1>12. ASSUME NEW g \in Gens, Promotes(g) PROVE InactiveIsFenced'
  BY <1>12 DEF Promotes, Promoted, Generation
<1>13. ASSUME NEW g \in Gens, NEW D \in SUBSET Docs, RetryJobs(g, D)
       PROVE  InactiveIsFenced'
  BY <1>13 DEF RetryJobs, Retried, AcceptsWrites
<1>14. ASSUME NEW g \in Gens, StandbyWindowCloses(g) PROVE InactiveIsFenced'
  BY <1>14 DEF StandbyWindowCloses, Generation
<1>15. ASSUME NEW S \in SUBSET Expired, Retire(S) PROVE InactiveIsFenced'
  BY <1>15, RetireFields, FencedFields
<1>16. ASSUME NEW g \in Gens, NEW d \in Docs, CleanupJob(g, d) PROVE InactiveIsFenced'
  BY <1>16 DEF CleanupJob, NoJob
<1>17. ASSUME NEW g \in Gens, CleanupGeneration(g) PROVE InactiveIsFenced'
  BY <1>17 DEF CleanupGeneration, Inactive, Generation
<1> QED
  BY <1>1, <1>2, <1>3, <1>4, <1>5, <1>6, <1>7, <1>8, <1>9, <1>10, <1>11, <1>12,
     <1>13, <1>14, <1>15, <1>16, <1>17, TableSteps DEF CleanupChunks, CleanupIndex

\* No job of a retired, failed or deleted generation is ever running.
THEOREM FencedCorrect == Spec => []InactiveIsFenced
<1>1. Init => InactiveIsFenced
  BY DEF Init, InactiveIsFenced, Rows, NoJob
<1> QED
  BY <1>1, FencedStep, TypeCorrect, PTL DEF Spec

-----------------------------------------------------------------------------
(* Jobs and documents.                                                     *)

LEMMA TracksStep ==
  TypeOK /\ UnusedIsEmpty /\ JobTracksDocument /\ [Next]_vars => JobTracksDocument'
<1> SUFFICES ASSUME TypeOK, UnusedIsEmpty, JobTracksDocument, [Next]_vars,
                    NEW g \in Gens, NEW d \in Docs,
                    AcceptsWrites(gens'[g]), docs'[d].state = "normal",
                    jobs'[<<g, d>>].status # "none"
             PROVE  /\ jobs'[<<g, d>>].hash = docs'[d].hash
                    /\ jobs'[<<g, d>>].revision = docs'[d].revision
  BY DEF JobTracksDocument, Normal, AcceptsWrites
<1> DEFINE r == <<g, d>>
           Tracks == /\ jobs'[r].hash = docs'[d].hash
                     /\ jobs'[r].revision = docs'[d].revision
<1>1. r \in Rows
  BY DEF Rows
<1>2. jobs[r].status # "none" /\ docs[d].state = "normal" =>
        /\ jobs[r].hash = docs[d].hash
        /\ jobs[r].revision = docs[d].revision
  BY AcceptingSteps DEF JobTracksDocument, UnusedIsEmpty, Normal
<1>3. CASE JobsProgress
  BY <1>1, <1>2, <1>3 DEF JobsProgress
<1>4. ASSUME NEW e \in Docs, NEW h \in Hashes, NEW rev \in Nat, WritesDocument(e, h, rev)
      PROVE  Tracks
  <2>1. gens'[g] = gens[g] /\ jobs[r] \in Job
    BY <1>1, <1>4 DEF WritesDocument, TypeOK
  <2>2. CASE e = d
    BY <1>4, <2>1, <2>2, EnqueueFields, EnqueuedFields DEF WritesDocument, Saved, TypeOK
  <2>3. CASE e # d
    BY <1>2, <1>4, <2>3, EnqueueFields DEF WritesDocument, TypeOK
  <2> QED
    BY <2>2, <2>3
<1>5. ASSUME NEW e \in Docs, DeleteDocument(e) PROVE Tracks
  BY <1>1, <1>2, <1>5 DEF DeleteDocument, DeleteDocumentData, NoJob, TypeOK
<1>6. ASSUME NEW w \in Workers, CompleteClaim(w) PROVE Tracks
  <2>1. CASE r = <<claims[w].gen, claims[w].doc>>
    <3>1. jobs[r].status = "running" /\ jobs[r].hash = docs[d].hash
      BY <1>6, <2>1 DEF CompleteClaim, ClaimMatches, HoldsClaim, ClaimedRow
    <3>2. jobs'[r].hash = jobs[r].hash /\ jobs'[r].revision = docs[d].revision
      BY <1>1, <1>6, <2>1 DEF CompleteClaim, TypeOK, Job
    <3> QED
      BY <1>6, <3>1, <3>2 DEF CompleteClaim
  <2>2. CASE r # <<claims[w].gen, claims[w].doc>>
    BY <1>1, <1>2, <1>6, <2>2 DEF CompleteClaim, TypeOK
  <2> QED
    BY <2>1, <2>2
<1>7. ASSUME NEW h \in Gens, NEW e \in Docs, SeedDocument(h, e) PROVE Tracks
  BY <1>1, <1>2, <1>7 DEF SeedDocument, NoJob, TypeOK
<1>8. ASSUME NEW h \in Gens, NEW e \in Docs,
             CleanupChunks(h, e) \/ CleanupJob(h, e) \/ CleanupIndex(h, e)
      PROVE  Tracks
  BY <1>1, <1>2, <1>8 DEF CleanupChunks, CleanupJob, CleanupIndex, NoJob, TypeOK
<1> QED
  BY <1>3, <1>4, <1>5, <1>6, <1>7, <1>8, ContentSteps

\* Where writes are accepted, a job wants its document's present content, so that
\* ClaimJobs picks it: no job waits for ever with a content nobody has.
THEOREM TracksCorrect == Spec => []JobTracksDocument
<1>1. Init => JobTracksDocument
  BY DEF Init, JobTracksDocument, AcceptsWrites, Rows, NoJob
<1> QED
  BY <1>1, TracksStep, UnusedCorrect, TypeCorrect, PTL DEF Spec

-----------------------------------------------------------------------------
(* Coverage of the serving generations.                                    *)

LEMMA ForgottenStep ==
  TypeOK /\ NothingForgotten /\ [Next]_vars => NothingForgotten'
<1> SUFFICES ASSUME TypeOK, NothingForgotten, [Next]_vars,
                    NEW g \in Gens, gens'[g].status \in {"active", "standby"},
                    AcceptsWrites(gens'[g]),
                    NEW d \in Docs, docs'[d].state = "normal"
             PROVE  jobs'[<<g, d>>].status # "none"
  BY DEF NothingForgotten, Normal, AcceptsWrites
<1> DEFINE r == <<g, d>>
           Covered == /\ gens[g].status \in {"active", "standby"}
                      /\ AcceptsWrites(gens[g])
<1>1. r \in Rows
  BY DEF Rows
<1>2. Covered /\ docs[d].state = "normal" => jobs[r].status # "none"
  BY DEF NothingForgotten, Normal
<1>3. ASSUME NEW h \in Gens, Promotes(h) PROVE jobs'[r].status # "none"
  <2>1. FullyIndexed(h) /\ jobs' = jobs /\ docs' = docs
    BY <1>3, PromotedFields DEF Promotes
  <2>2. CASE g = h
    BY <2>1, <2>2 DEF FullyIndexed, Current, Normal
  <2>3. CASE g # h
    BY <1>2, <1>3, <2>1, <2>3, PromotedFields DEF AcceptsWrites
  <2> QED
    BY <2>2, <2>3
<1>4. (\E h \in Gens : Promotes(h)) \/ Covered
  <2> USE DEF AcceptsWrites
  <2>1. CASE UNCHANGED gens
    BY <2>1
  <2>2. ASSUME NEW h \in Gens, OpensGeneration(h) PROVE Covered
    BY <2>2 DEF OpensGeneration, BuildingRow, TypeOK
  <2>3. ASSUME NEW old \in Gens, NEW h \in Gens, NEW initial \in BOOLEAN,
               RebuildRestarts(old, h, initial)
        PROVE  Covered
    BY <2>3, RestartFields
  <2>4. ASSUME NEW h \in Gens, StandbyWindowCloses(h) \/ CleanupGeneration(h)
        PROVE  Covered
    BY <2>4 DEF StandbyWindowCloses, CleanupGeneration, TypeOK, Generation
  <2>5. ASSUME NEW S \in SUBSET Expired, Retire(S) PROVE Covered
    BY <2>5, RetireFields
  <2> QED
    BY <2>1, <2>2, <2>3, <2>4, <2>5, TableSteps
       DEF WritesDocument, DeleteDocument, ClaimJobs, RenewClaim, CompleteClaim,
           MarkClaimFailed, LeaseLapses, SeedDocument, RetryJobs, CleanupChunks,
           CleanupJob, CleanupIndex
<1>5. CASE JobsProgress
  BY <1>1, <1>2, <1>3, <1>4, <1>5 DEF JobsProgress
<1>6. ASSUME NEW e \in Docs, NEW h \in Hashes, NEW rev \in Nat, WritesDocument(e, h, rev)
      PROVE  jobs'[r].status # "none"
  <2>1. gens' = gens /\ jobs[r] \in Job
    BY <1>1, <1>6 DEF WritesDocument, TypeOK
  <2>2. CASE e = d
    BY <1>6, <2>1, <2>2, EnqueueFields, EnqueuedFields DEF WritesDocument
  <2>3. CASE e # d
    BY <1>2, <1>6, <2>1, <2>3, EnqueueFields DEF WritesDocument, TypeOK
  <2> QED
    BY <2>2, <2>3
<1>7. ASSUME NEW e \in Docs, DeleteDocument(e) PROVE jobs'[r].status # "none"
  BY <1>1, <1>2, <1>7 DEF DeleteDocument, DeleteDocumentData, TypeOK, Document
<1>8. ASSUME NEW w \in Workers, CompleteClaim(w) PROVE jobs'[r].status # "none"
  <2>1. jobs'[r].status \in {jobs[r].status, "succeeded"}
    BY <1>1, <1>8 DEF CompleteClaim, TypeOK, Job
  <2> QED
    BY <1>2, <1>8, <2>1 DEF CompleteClaim
<1>9. ASSUME NEW h \in Gens, NEW e \in Docs, SeedDocument(h, e)
      PROVE  jobs'[r].status # "none"
  BY <1>1, <1>2, <1>9 DEF SeedDocument, NoJob, TypeOK
<1>10. ASSUME NEW h \in Gens, NEW e \in Docs,
              CleanupChunks(h, e) \/ CleanupJob(h, e) \/ CleanupIndex(h, e)
       PROVE  jobs'[r].status # "none"
  BY <1>1, <1>2, <1>10
     DEF CleanupChunks, CleanupJob, CleanupIndex, Inactive, AcceptsWrites, TypeOK
<1> QED
  BY <1>3, <1>4, <1>5, <1>6, <1>7, <1>8, <1>9, <1>10, ContentSteps
     DEF WritesDocument, DeleteDocument, CompleteClaim, SeedDocument, CleanupChunks,
         CleanupJob, CleanupIndex

\* A generation that serves, or may serve again, has a job for every document.
THEOREM ForgottenCorrect == Spec => []NothingForgotten
<1>1. Init => NothingForgotten
  BY DEF Init, NothingForgotten
<1> QED
  BY <1>1, ForgottenStep, TypeCorrect, PTL DEF Spec

-----------------------------------------------------------------------------
(* Jobs, index rows and vectors agree.                                     *)

\* The three parts of IndexConsistent for one row, of given job, index and chunks.
RowConsistent(status, job, row, vectors) ==
  /\ job.status = "succeeded" => row.hash = job.hash /\ row.revision = job.revision
  /\ vectors # NoHash => vectors = row.hash
  /\ status \in {"building", "active", "standby"} => vectors = row.hash

LEMMA ConsistentStep ==
  TypeOK /\ UnusedIsEmpty /\ IndexConsistent /\ [Next]_vars => IndexConsistent'
<1> SUFFICES ASSUME TypeOK, UnusedIsEmpty, IndexConsistent, [Next]_vars,
                    NEW g \in Gens, NEW d \in Docs
             PROVE  RowConsistent(gens'[g].status, jobs'[<<g, d>>], index'[<<g, d>>],
                                  chunks'[<<g, d>>])
  BY DEF IndexConsistent, RowConsistent
<1> DEFINE r == <<g, d>>
           live == {"building", "active", "standby"}
           Goal == RowConsistent(gens'[g].status, jobs'[r], index'[r], chunks'[r])
<1>1. r \in Rows /\ jobs[r] \in Job /\ index[r] \in IndexRow
  BY DEF Rows, TypeOK
<1>2. RowConsistent(gens[g].status, jobs[r], index[r], chunks[r])
  BY DEF IndexConsistent, RowConsistent
<1>3. ASSUME gens'[g].status \in live PROVE chunks[r] = index[r].hash
  <2>1. gens[g].status \in live \/ gens[g].status = "none"
    BY <1>3, LifecycleSteps DEF Lifecycle
  <2>2. CASE gens[g].status = "none"
    BY <2>2 DEF UnusedIsEmpty, NoIndex
  <2> QED
    BY <1>2, <2>1, <2>2 DEF RowConsistent
<1>4. RowConsistent(gens'[g].status, jobs[r], index[r], chunks[r])
  BY <1>2, <1>3 DEF RowConsistent
<1>5. CASE JobsProgress
  BY <1>1, <1>4, <1>5 DEF JobsProgress, RowConsistent
<1>6. ASSUME NEW e \in Docs, NEW h \in Hashes, NEW rev \in Nat, WritesDocument(e, h, rev)
      PROVE  Goal
  <2>1. chunks' = chunks
    BY <1>6 DEF WritesDocument
  <2>2. CASE e = d /\ AcceptsWrites(gens[g])
    <3>1. /\ jobs'[r] = Enqueued(jobs[r], h, rev)
          /\ index'[r].hash = index[r].hash
          /\ index[r].hash = h => index'[r].revision = rev
      BY <1>6, <2>2, EnqueueFields DEF WritesDocument
    <3> QED
      BY <1>1, <1>4, <2>1, <3>1, EnqueuedFields DEF RowConsistent
  <2>3. CASE ~(e = d /\ AcceptsWrites(gens[g]))
    BY <1>4, <1>6, <2>1, <2>3, EnqueueFields DEF WritesDocument
  <2> QED
    BY <2>2, <2>3
<1>7. ASSUME NEW e \in Docs, DeleteDocument(e) PROVE Goal
  BY <1>1, <1>4, <1>7 DEF DeleteDocument, DeleteDocumentData, NoJob, NoIndex, RowConsistent
<1>8. ASSUME NEW w \in Workers, CompleteClaim(w) PROVE Goal
  <2>1. CASE r = <<claims[w].gen, claims[w].doc>>
    <3>1. jobs[r].hash = claims[w].hash
      BY <1>8, <2>1 DEF CompleteClaim, ClaimMatches
    <3>2. /\ jobs'[r].hash = jobs[r].hash
          /\ jobs'[r].revision = docs[d].revision
      BY <1>1, <1>8, <2>1 DEF CompleteClaim, TypeOK, Job
    <3>3. /\ index'[r] = [hash |-> claims[w].hash, revision |-> docs[d].revision]
          /\ chunks'[r] = claims[w].hash
      BY <1>1, <1>8, <2>1 DEF CompleteClaim, TypeOK
    <3> QED
      BY <3>1, <3>2, <3>3 DEF RowConsistent
  <2>2. CASE r # <<claims[w].gen, claims[w].doc>>
    BY <1>1, <1>4, <1>8, <2>2 DEF CompleteClaim, TypeOK
  <2> QED
    BY <2>1, <2>2
<1>9. ASSUME NEW h \in Gens, NEW e \in Docs, SeedDocument(h, e) PROVE Goal
  <2>1. jobs'[r] = jobs[r] \/ jobs'[r].status = "pending"
    BY <1>1, <1>9 DEF SeedDocument, NoJob, TypeOK
  <2> QED
    BY <1>4, <1>9, <2>1 DEF SeedDocument, RowConsistent
<1>10. ASSUME NEW h \in Gens, NEW e \in Docs, CleanupChunks(h, e) PROVE Goal
  BY <1>1, <1>4, <1>10 DEF CleanupChunks, Inactive, TypeOK, RowConsistent
<1>11. ASSUME NEW h \in Gens, NEW e \in Docs, CleanupJob(h, e) PROVE Goal
  BY <1>1, <1>4, <1>11 DEF CleanupJob, NoJob, TypeOK, RowConsistent
<1>12. ASSUME NEW h \in Gens, NEW e \in Docs, CleanupIndex(h, e) PROVE Goal
  <2>1. CASE h = g /\ e = d
    BY <1>1, <1>12, <2>1
       DEF CleanupIndex, Inactive, NoChunksLeft, NoJobsLeft, TypeOK, RowConsistent
  <2>2. CASE ~(h = g /\ e = d)
    BY <1>1, <1>4, <1>12, <2>2 DEF CleanupIndex, TypeOK
  <2> QED
    BY <2>1, <2>2
<1> QED
  BY <1>5, <1>6, <1>7, <1>8, <1>9, <1>10, <1>11, <1>12, ContentSteps

\* A succeeded job has the index row it wrote, vectors never outlive their index
\* row, and index rows have their vectors until their generation is cleaned up.
THEOREM ConsistentCorrect == Spec => []IndexConsistent
<1>1. Init => IndexConsistent
  BY DEF Init, IndexConsistent, Rows, NoJob, NoIndex
<1> QED
  BY <1>1, ConsistentStep, UnusedCorrect, TypeCorrect, PTL DEF Spec

-----------------------------------------------------------------------------
(* Claim tokens.                                                           *)

\* Every step but a claim only drops claims, and takes tokens off rows.
TokensOnlyDrop ==
  /\ \A w \in Workers : claims'[w] = claims[w] \/ claims'[w].token = NoToken
  /\ \A r \in Rows : \/ jobs'[r].token = NoToken
                     \/ /\ jobs'[r].token = jobs[r].token
                        /\ jobs'[r].hash = jobs[r].hash

LEMMA DropFencing ==
  ASSUME TokenFencing, TokensOnlyDrop
  PROVE  TokenFencing'
BY DEF TokenFencing, TokensOnlyDrop, ClaimedRow

LEMMA ClaimFencing ==
  ASSUME TypeOK, TokenFencing,
         NEW v \in Workers, NEW g \in Gens, NEW d \in Docs, ClaimJobs(v, g, d)
  PROVE  TokenFencing'
<1> DEFINE q == <<g, d>>
<1>1. PICK t \in FreshTokens :
        /\ jobs' = [jobs EXCEPT ![q] = Claimed(@, t)]
        /\ claims' = [claims EXCEPT ![v] =
             [gen |-> g, doc |-> d, hash |-> jobs[q].hash, token |-> t]]
  BY DEF ClaimJobs
<1>2. t \in Tokens /\ q \in Rows
  BY DEF FreshTokens, Rows
<1>3. jobs'[q].token = t /\ jobs'[q].hash = jobs[q].hash
  BY <1>1, <1>2 DEF TypeOK, Claimed, Job
<1>4. /\ claims'[v].token = t /\ claims'[v].hash = jobs[q].hash
      /\ claims'[v].gen = g /\ claims'[v].doc = d
  BY <1>1 DEF TypeOK
<1>5. \A r \in Rows \ {q} : jobs'[r] = jobs[r] /\ jobs'[r].token # t
  BY <1>1 DEF TypeOK, FreshTokens
<1>6. \A w \in Workers \ {v} : claims'[w] = claims[w] /\ claims'[w].token # t
  BY <1>1 DEF TypeOK, FreshTokens
<1> QED
  BY <1>2, <1>3, <1>4, <1>5, <1>6 DEF TokenFencing, ClaimedRow

LEMMA DocumentsDrop == ASSUME TypeOK, DocumentNext PROVE TokensOnlyDrop
<1>1. ASSUME NEW d \in Docs, NEW h \in Hashes, NEW rev \in Nat,
             EnqueueContentChange(d, h, rev), NEW r \in Rows
      PROVE  \/ jobs'[r].token = NoToken
             \/ /\ jobs'[r].token = jobs[r].token
                /\ jobs'[r].hash = jobs[r].hash
  <2>1. jobs[r] \in Job /\ jobs'[r] \in {jobs[r], Enqueued(jobs[r], h, rev)}
    BY <1>1 DEF EnqueueContentChange, TypeOK
  <2> QED
    BY <2>1, EnqueuedFields
<1>2. ASSUME NEW d \in Docs, DeleteDocument(d) PROVE TokensOnlyDrop
  BY <1>2 DEF DeleteDocument, DeleteDocumentData, TokensOnlyDrop, NoJob
<1>3. ASSUME NEW d \in Docs, NEW h \in Hashes, CreateDocument(d, h) PROVE TokensOnlyDrop
  BY <1>1, <1>3 DEF CreateDocument, TokensOnlyDrop
<1>4. ASSUME NEW d \in Docs, NEW h \in Hashes, SaveDocument(d, h) PROVE TokensOnlyDrop
  <2>1. docs[d].revision + 1 \in Nat
    BY DEF TypeOK, Document
  <2> QED
    BY <1>1, <1>4, <2>1 DEF SaveDocument, TokensOnlyDrop
<1> QED
  BY <1>2, <1>3, <1>4 DEF DocumentNext

LEMMA WorkersDrop ==
  ASSUME TypeOK, WorkerNext
  PROVE  \/ TokensOnlyDrop
         \/ \E w \in Workers, g \in Gens, d \in Docs : ClaimJobs(w, g, d)
<1>1. ASSUME NEW w \in Workers, RenewClaim(w) PROVE TokensOnlyDrop
  BY <1>1 DEF RenewClaim, TokensOnlyDrop, TypeOK, Job
<1>2. ASSUME NEW w \in Workers, CompleteClaim(w) PROVE TokensOnlyDrop
  <2>1. \A r \in Rows : jobs'[r] = jobs[r] \/ jobs'[r].token = NoToken
    BY <1>2 DEF CompleteClaim, TypeOK, Job
  <2> QED
    BY <1>2, <2>1 DEF CompleteClaim, TokensOnlyDrop, TypeOK, NoClaim
<1>3. ASSUME NEW w \in Workers, AbandonClaim(w) PROVE TokensOnlyDrop
  BY <1>3 DEF AbandonClaim, TokensOnlyDrop, TypeOK, NoClaim
<1>4. ASSUME NEW w \in Workers, NEW permanent \in BOOLEAN, MarkClaimFailed(w, permanent)
      PROVE  TokensOnlyDrop
  <2>1. \A job \in Job : Failed(job, permanent).token = NoToken
    BY DEF Failed, Job
  <2> QED
    BY <1>4, <2>1 DEF MarkClaimFailed, TokensOnlyDrop, TypeOK, NoClaim
<1>5. ASSUME NEW g \in Gens, NEW d \in Docs, LeaseLapses(g, d) PROVE TokensOnlyDrop
  <2>1. \A job \in Job : /\ [job EXCEPT !.lapsed = TRUE].token = job.token
                         /\ [job EXCEPT !.lapsed = TRUE].hash = job.hash
    BY DEF Job
  <2>2. \A r \in Rows : jobs'[r] \in {jobs[r], [jobs[r] EXCEPT !.lapsed = TRUE]}
    BY <1>5 DEF LeaseLapses, TypeOK
  <2> QED
    BY <1>5, <2>1, <2>2 DEF LeaseLapses, TokensOnlyDrop, TypeOK
<1> QED
  BY <1>1, <1>2, <1>3, <1>4, <1>5 DEF WorkerNext

LEMMA BuildDrops == ASSUME TypeOK, BuildNext PROVE TokensOnlyDrop
<1>1. CASE UNCHANGED <<jobs, claims>>
  BY <1>1 DEF TokensOnlyDrop
<1>2. ASSUME NEW old \in Gens, NEW g \in Gens, NEW initial \in BOOLEAN,
             RebuildRestarts(old, g, initial)
      PROVE  TokensOnlyDrop
  BY <1>2, RestartFields, FencedFields DEF RebuildRestarts, TokensOnlyDrop, TypeOK
<1>3. ASSUME NEW g \in Gens, NEW d \in Docs, SeedDocument(g, d) PROVE TokensOnlyDrop
  <2>1. \A r \in Rows : jobs'[r] = jobs[r] \/ jobs'[r].token = NoToken
    BY <1>3 DEF SeedDocument, NoJob, TypeOK
  <2> QED
    BY <1>3, <2>1 DEF SeedDocument, TokensOnlyDrop
<1> QED
  BY <1>1, <1>2, <1>3 DEF BuildNext, RebuildCreates, RebuildResumes, SeedInterrupted

LEMMA ControlDrops == ASSUME TypeOK, ControlNext PROVE TokensOnlyDrop
<1>1. CASE UNCHANGED <<jobs, claims>>
  BY <1>1 DEF TokensOnlyDrop
<1>2. ASSUME NEW g \in Gens, NEW D \in SUBSET Docs, RetryJobs(g, D) PROVE TokensOnlyDrop
  <2>1. \A job \in Job : Retried(job).token = job.token /\ Retried(job).hash = job.hash
    BY DEF Retried, Job
  <2>2. \A r \in Rows : jobs'[r] \in {jobs[r], Retried(jobs[r])}
    BY <1>2 DEF RetryJobs
  <2> QED
    BY <1>2, <2>1, <2>2 DEF RetryJobs, TokensOnlyDrop, TypeOK
<1>3. ASSUME NEW S \in SUBSET Expired, Retire(S) PROVE TokensOnlyDrop
  BY <1>3, RetireFields, FencedFields DEF Retire, TokensOnlyDrop, TypeOK
<1>4. ASSUME NEW g \in Gens, NEW d \in Docs, CleanupJob(g, d) PROVE TokensOnlyDrop
  BY <1>4 DEF CleanupJob, NoJob, TokensOnlyDrop, TypeOK
<1>5. ASSUME RetireExpiredStandbys PROVE Retire(Expired)
  BY <1>5 DEF RetireExpiredStandbys
<1>6. ASSUME NEW g \in Gens, RetireGeneration(g) PROVE Retire({g}) /\ {g} \in SUBSET Expired
  BY <1>6 DEF RetireGeneration
<1> QED
  BY <1>1, <1>2, <1>3, <1>4, <1>5, <1>6
     DEF ControlNext, ActivateGeneration, RollbackGeneration, StandbyWindowCloses,
         CleanupChunks, CleanupIndex, CleanupGeneration, BootstrapActivates,
         BootstrapEnds

LEMMA ServerDrops == ASSUME TypeOK, ServerNext PROVE TokensOnlyDrop
<1>1. CASE UNCHANGED <<jobs, claims>>
  BY <1>1 DEF TokensOnlyDrop
<1>2. ASSUME ServerStops PROVE TokensOnlyDrop
  BY <1>2 DEF ServerStops, TokensOnlyDrop, NoClaim
<1> QED
  BY <1>1, <1>2 DEF ServerNext, StartResuming, StartCreating, StartServing, ServerReady

LEMMA FencingStep == TypeOK /\ TokenFencing /\ [Next]_vars => TokenFencing'
<1>1. UNCHANGED vars => TokensOnlyDrop
  BY DEF vars, TokensOnlyDrop
<1> QED
  BY <1>1, DropFencing, ClaimFencing, DocumentsDrop, WorkersDrop, BuildDrops,
     ControlDrops, ServerDrops DEF Next

\* A claim token names one claim of one row and the content it was taken for.
THEOREM FencingCorrect == Spec => []TokenFencing
<1>1. Init => TokenFencing
  BY DEF Init, TokenFencing, NoClaim, NoJob
<1> QED
  BY <1>1, FencingStep, TypeCorrect, PTL DEF Spec

-----------------------------------------------------------------------------
(* Inactive generations only shrink.                                       *)

InactiveStatus == {"retired", "failed", "deleted"}

LEMMA ShrinkStep ==
  ASSUME TypeOK, [Next]_vars, NEW g \in Gens, gens[g].status \in InactiveStatus,
         NEW d \in Docs
  PROVE  /\ gens'[g].status \in {gens[g].status, "deleted"}
         /\ index'[<<g, d>>] \in {index[<<g, d>>], NoIndex}
         /\ chunks'[<<g, d>>] \in {chunks[<<g, d>>], NoHash}
<1> DEFINE r == <<g, d>>
           Shrinks == /\ index'[r] \in {index[r], NoIndex}
                      /\ chunks'[r] \in {chunks[r], NoHash}
<1>1. gens'[g].status \in {gens[g].status, "deleted"}
  BY LifecycleSteps DEF Lifecycle, InactiveStatus
<1>2. r \in Rows /\ ~AcceptsWrites(gens[g])
  BY DEF Rows, AcceptsWrites, InactiveStatus
<1>3. JobsProgress => Shrinks
  BY DEF JobsProgress
<1>4. ASSUME NEW e \in Docs, NEW h \in Hashes, NEW rev \in Nat, WritesDocument(e, h, rev)
      PROVE  Shrinks
  BY <1>2, <1>4, EnqueueFields DEF WritesDocument
<1>5. ASSUME NEW e \in Docs, DeleteDocument(e) PROVE Shrinks
  BY <1>2, <1>5 DEF DeleteDocument, DeleteDocumentData
<1>6. ASSUME NEW w \in Workers, CompleteClaim(w) PROVE Shrinks
  BY <1>2, <1>6 DEF CompleteClaim, ClaimMatches, TypeOK
<1>7. ASSUME NEW h \in Gens, NEW e \in Docs,
             \/ SeedDocument(h, e)
             \/ CleanupChunks(h, e) \/ CleanupJob(h, e) \/ CleanupIndex(h, e)
      PROVE  Shrinks
  BY <1>2, <1>7 DEF SeedDocument, CleanupChunks, CleanupJob, CleanupIndex, TypeOK
<1> QED
  BY <1>1, <1>3, <1>4, <1>5, <1>6, <1>7, ContentSteps

\* Whatever workers, users and the operator do, no row of a retired or failed
\* generation is written again: its index rows and vectors only disappear.
THEOREM ShrinkCorrect == Spec => InactiveOnlyShrinks
<1>1. TypeOK /\ [Next]_vars =>
        [\A g \in Gens, d \in Docs :
           gens[g].status \in {"retired", "failed", "deleted"} =>
             /\ gens'[g].status \in {gens[g].status, "deleted"}
             /\ index'[<<g, d>>] \in {index[<<g, d>>], NoIndex}
             /\ chunks'[<<g, d>>] \in {chunks[<<g, d>>], NoHash}]_vars
  BY ShrinkStep DEF InactiveStatus
<1> QED
  BY <1>1, TypeCorrect, PTL DEF Spec, InactiveOnlyShrinks

-----------------------------------------------------------------------------
(***************************************************************************)
(* EmbeddingIndex implements SearchService: the proof that every step of   *)
(* the tables is, seen through what search serves, a step of the service   *)
(* or invisible.                                                           *)
(***************************************************************************)

-----------------------------------------------------------------------------
(* What search serves, without the CHOOSE.                                  *)

Findable(d) == \E g \in Gens : gens[g].status = "active" /\ Current(g, d)

ServedIsContent ==
  Served = [d \in Docs |-> IF Findable(d) THEN docs[d].hash ELSE NoHash]

LEMMA ServedFromConsistency == IndexConsistent => ServedIsContent
<1> SUFFICES ASSUME IndexConsistent, NEW d \in Docs
             PROVE  (IF \E g \in Gens : Serving(g) /\ Current(g, d)
                     THEN chunks[<<CHOOSE g \in Gens : Serving(g) /\ Current(g, d), d>>]
                     ELSE NoHash)
                      = IF Findable(d) THEN docs[d].hash ELSE NoHash
  BY DEF ServedIsContent, Served
<1>1. ASSUME NEW g \in Gens, Serving(g), Current(g, d)
      PROVE  chunks[<<g, d>>] = docs[d].hash
  BY <1>1 DEF IndexConsistent, Current, Serving
<1> DEFINE active == CHOOSE g \in Gens : Serving(g) /\ Current(g, d)
<1>2. (\E g \in Gens : Serving(g) /\ Current(g, d)) =>
        active \in Gens /\ Serving(active) /\ Current(active, d)
  BY Zenon
<1>3. (\E g \in Gens : Serving(g) /\ Current(g, d)) <=> Findable(d)
  BY DEF Findable, Serving
<1> HIDE DEF active
<1> QED
  BY <1>1, <1>2, <1>3

-----------------------------------------------------------------------------
(* A document that exists has content.                                     *)

HasContent == \A d \in Docs : Normal(d) => docs[d].hash \in Hashes

LEMMA ContentStep == TypeOK /\ HasContent /\ [Next]_vars => HasContent'
<1> SUFFICES ASSUME TypeOK, HasContent, [Next]_vars PROVE HasContent'
  OBVIOUS
<1> USE DEF TypeOK, HasContent, Normal
<1>1. CASE UNCHANGED docs
  BY <1>1
<1>2. ASSUME NEW d \in Docs, NEW h \in Hashes, NEW rev \in Nat, WritesDocument(d, h, rev)
      PROVE  HasContent'
  BY <1>2 DEF WritesDocument, Saved
<1>3. ASSUME NEW d \in Docs, DeleteDocument(d) PROVE HasContent'
  BY <1>3 DEF DeleteDocument, Document
<1> QED
  BY <1>1, <1>2, <1>3, ContentSteps
     DEF JobsProgress, CompleteClaim, SeedDocument, CleanupChunks, CleanupJob,
         CleanupIndex

LEMMA ContentCorrect == Spec => []HasContent
<1>1. Init => HasContent
  BY DEF Init, HasContent, Normal, Absent, Saved
<1> QED
  BY <1>1, ContentStep, TypeCorrect, PTL DEF Spec

-----------------------------------------------------------------------------
(* Steps that search does not see.                                         *)

SameActive ==
  \A g \in Gens : gens'[g].status = "active" <=> gens[g].status = "active"

LEMMA ActiveSteps ==
  ASSUME TypeOK, [Next]_vars
  PROVE  SameActive \/ \E g \in Gens : Promotes(g)
<1> USE DEF SameActive
<1>1. CASE UNCHANGED gens
  BY <1>1
<1>2. ASSUME NEW g \in Gens, OpensGeneration(g) PROVE SameActive
  BY <1>2 DEF OpensGeneration, BuildingRow, TypeOK
<1>3. ASSUME NEW old \in Gens, NEW g \in Gens, NEW initial \in BOOLEAN,
             RebuildRestarts(old, g, initial)
      PROVE  SameActive
  BY <1>3, RestartFields
<1>4. ASSUME NEW g \in Gens, StandbyWindowCloses(g) PROVE SameActive
  BY <1>4 DEF StandbyWindowCloses, TypeOK, Generation
<1>5. ASSUME NEW S \in SUBSET Expired, Retire(S) PROVE SameActive
  BY <1>5, RetireFields
<1>6. ASSUME NEW g \in Gens, CleanupGeneration(g) PROVE SameActive
  BY <1>6 DEF CleanupGeneration, Inactive, TypeOK, Generation
<1> QED
  BY <1>1, <1>2, <1>3, <1>4, <1>5, <1>6, TableSteps
     DEF WritesDocument, DeleteDocument, ClaimJobs, RenewClaim, CompleteClaim,
         MarkClaimFailed, LeaseLapses, SeedDocument, RetryJobs, CleanupChunks,
         CleanupJob, CleanupIndex

Unseen == UNCHANGED <<Content, Served, \E g \in Gens : Serving(g)>>

LEMMA SameService ==
  ASSUME ServedIsContent, ServedIsContent', SameActive, docs' = docs,
         \A g \in Gens, d \in Docs :
           gens[g].status = "active" => (Current(g, d)' <=> Current(g, d))
  PROVE  Unseen
<1>1. Content' = Content
  BY DEF Content, Normal
<1>2. (\E g \in Gens : Serving(g))' = (\E g \in Gens : Serving(g))
  BY DEF Serving, SameActive
<1>3. \A d \in Docs : Findable(d)' <=> Findable(d)
  BY DEF Findable, SameActive
<1>4. Served' = Served
  BY <1>3 DEF ServedIsContent
<1> QED
  BY <1>1, <1>2, <1>4 DEF Unseen

LEMMA ProgressUnseen ==
  ASSUME ServedIsContent, ServedIsContent', SameActive, JobsProgress
  PROVE  Unseen
<1>1. \A g \in Gens, d \in Docs : Current(g, d)' <=> Current(g, d)
  BY DEF Current, Normal, JobsProgress, Rows
<1> QED
  BY <1>1, SameService DEF JobsProgress

LEMMA SeedUnseen ==
  ASSUME TypeOK, ServedIsContent, ServedIsContent',
         NEW g \in Gens, NEW d \in Docs, SeedDocument(g, d)
  PROVE  Unseen
<1>1. \A h \in Gens, e \in Docs :
        \/ jobs'[<<h, e>>] = jobs[<<h, e>>]
        \/ jobs[<<h, e>>].status = "none" /\ jobs'[<<h, e>>].status = "pending"
  BY NullTypes DEF SeedDocument, TypeOK, Rows, Job
<1>2. \A h \in Gens, e \in Docs : Current(h, e)' <=> Current(h, e)
  BY <1>1 DEF Current, Normal, SeedDocument
<1> QED
  BY <1>2, SameService DEF SeedDocument, SameActive

LEMMA CleanupUnseen ==
  ASSUME TypeOK, ServedIsContent, ServedIsContent', NEW g \in Gens, NEW d \in Docs,
         CleanupChunks(g, d) \/ CleanupJob(g, d) \/ CleanupIndex(g, d)
  PROVE  Unseen
<1>1. gens[g].status # "active" /\ UNCHANGED <<docs, gens>>
  BY DEF CleanupChunks, CleanupJob, CleanupIndex, Inactive
<1>2. \A h \in Gens, e \in Docs : gens[h].status = "active" =>
        jobs'[<<h, e>>] = jobs[<<h, e>>] /\ index'[<<h, e>>] = index[<<h, e>>]
  BY <1>1 DEF CleanupChunks, CleanupJob, CleanupIndex, TypeOK, Rows
<1>3. \A h \in Gens, e \in Docs :
        gens[h].status = "active" => (Current(h, e)' <=> Current(h, e))
  BY <1>1, <1>2 DEF Current, Normal
<1> QED
  BY <1>1, <1>3, SameService DEF SameActive

-----------------------------------------------------------------------------
(* Steps that search sees, one action of SearchService each.               *)

\* A document is written: unless its content stays the same, no active
\* generation has a finished job for it any more.
LEMMA WriteStep ==
  ASSUME TypeOK, JobTracksDocument, DeletedLeavesNothing,
         ServedIsContent, ServedIsContent',
         NEW d \in Docs, NEW h \in Hashes, NEW rev \in Nat, WritesDocument(d, h, rev)
  PROVE  Search!Write(d, h)
<1>1. /\ docs' = [docs EXCEPT ![d] = Saved(h, rev)]
      /\ EnqueueContentChange(d, h, rev)
      /\ UNCHANGED <<gens, chunks>>
  BY DEF WritesDocument
<1>2. /\ docs'[d].state = "normal" /\ docs'[d].hash = h
      /\ \A e \in Docs \ {d} : docs'[e] = docs[e]
  BY <1>1 DEF TypeOK, Saved
<1>3. Content' = [Content EXCEPT ![d] = h]
  BY <1>2 DEF Content, Normal
<1>4. (\E g \in Gens : Serving(g))' = (\E g \in Gens : Serving(g))
  BY <1>1 DEF Serving
<1>5. ASSUME NEW e \in Docs \ {d} PROVE Served'[e] = Served[e]
  <2>1. ASSUME NEW g \in Gens PROVE Current(g, e)' <=> Current(g, e)
    <3>1. jobs'[<<g, e>>] = jobs[<<g, e>>] /\ index'[<<g, e>>] = index[<<g, e>>]
      BY <1>1, EnqueueFields
    <3> QED
      BY <1>2, <3>1 DEF Current, Normal
  <2> QED
    BY <1>1, <1>2, <2>1 DEF ServedIsContent, Findable
<1>6. ASSUME NEW g \in Gens, gens[g].status = "active"
      PROVE  Current(g, d)' <=> /\ Content[d] = h
                                /\ Current(g, d)
  <2>1. /\ jobs'[<<g, d>>] = Enqueued(jobs[<<g, d>>], h, rev)
        /\ index'[<<g, d>>].hash = index[<<g, d>>].hash
    BY <1>1, <1>6, EnqueueFields DEF AcceptsWrites
  <2>2. jobs[<<g, d>>] \in Job
    BY DEF TypeOK, Rows
  <2>3. /\ jobs'[<<g, d>>].hash = h
        /\ jobs'[<<g, d>>].status = "succeeded" <=>
             jobs[<<g, d>>].status = "succeeded" /\ jobs[<<g, d>>].hash = h
    BY <2>1, <2>2 DEF Enqueued, NoJob, Job
  <2>4. Current(g, d)' <=> /\ jobs[<<g, d>>].status = "succeeded"
                           /\ jobs[<<g, d>>].hash = h
                           /\ index[<<g, d>>].hash = h
    BY <1>2, <2>1, <2>3 DEF Current, Normal
  <2>5. jobs[<<g, d>>].status = "succeeded" =>
          Normal(d) /\ jobs[<<g, d>>].hash = docs[d].hash
    BY <1>6 DEF DeletedLeavesNothing, JobTracksDocument, AcceptsWrites
  <2>6. Normal(d) => Content[d] = docs[d].hash
    BY DEF Content
  <2> QED
    BY <2>4, <2>5, <2>6 DEF Current
<1>7. Findable(d)' <=> Content[d] = h /\ Findable(d)
  BY <1>1, <1>6 DEF Findable
<1>8. CASE Content[d] = h
  <2>1. Findable(d) => docs[d].hash = h
    BY <1>8 DEF Findable, Current, Content
  <2>2. Served'[d] = Served[d]
    BY <1>2, <1>7, <1>8, <2>1 DEF ServedIsContent
  <2>3. Served' = Served
    BY <1>5, <2>2 DEF ServedIsContent
  <2> QED
    BY <1>3, <1>4, <1>8, <2>3 DEF Search!Write
<1>9. CASE Content[d] # h
  <2>1. Served'[d] = NoHash
    BY <1>7, <1>9 DEF ServedIsContent
  <2>2. Served' = [Served EXCEPT ![d] = NoHash]
    BY <1>5, <2>1 DEF ServedIsContent
  <2> QED
    BY <1>3, <1>4, <1>9, <2>2 DEF Search!Write
<1> QED
  BY <1>8, <1>9

LEMMA RemoveStep ==
  ASSUME TypeOK, HasContent, ServedIsContent, ServedIsContent',
         NEW d \in Docs, DeleteDocument(d)
  PROVE  Search!Remove(d)
<1>1. /\ Normal(d) /\ docs'[d].state = "deleted"
      /\ \A e \in Docs \ {d} : docs'[e] = docs[e]
      /\ gens' = gens
  BY DEF DeleteDocument, TypeOK, Document
<1>2. Content[d] # NoHash
  BY <1>1, ConstantsAssumption DEF Content, HasContent
<1>3. Content' = [Content EXCEPT ![d] = NoHash]
  BY <1>1 DEF Content, Normal
<1>4. (\E g \in Gens : Serving(g))' = (\E g \in Gens : Serving(g))
  BY <1>1 DEF Serving
<1>5. \A g \in Gens, e \in Docs \ {d} : Current(g, e)' <=> Current(g, e)
  BY <1>1 DEF DeleteDocument, DeleteDocumentData, Current, Normal, Rows
<1>6. \A e \in Docs \ {d} : Findable(e)' <=> Findable(e)
  BY <1>1, <1>5 DEF Findable
<1>7. ~Findable(d)'
  BY <1>1 DEF Findable, Current, Normal
<1>8. Served' = [Served EXCEPT ![d] = NoHash]
  BY <1>1, <1>6, <1>7 DEF ServedIsContent
<1> QED
  BY <1>2, <1>3, <1>4, <1>8 DEF Search!Remove

LEMMA PublishStep ==
  ASSUME TypeOK, ServedIsContent, ServedIsContent', HasContent,
         NEW w \in Workers, CompleteClaim(w)
  PROVE  Unseen \/ \E d \in Docs : Search!Publish(d)
<1>0. PICK g, d : g = claims[w].gen /\ d = claims[w].doc
  OBVIOUS
<1>1. UNCHANGED <<docs, gens>> /\ Content' = Content
  BY DEF CompleteClaim, Content, Normal
<1>2. (\E h \in Gens : Serving(h))' = (\E h \in Gens : Serving(h))
  BY <1>1 DEF Serving
<1>3. \A r \in Rows : r # <<g, d>> => jobs'[r] = jobs[r] /\ index'[r] = index[r]
  BY <1>0 DEF CompleteClaim, TypeOK
<1>4. CASE g \in Gens /\ d \in Docs /\ gens[g].status = "active"
  <2>1. Normal(d) /\ docs[d].hash = claims[w].hash /\ jobs[<<g, d>>].hash = claims[w].hash
    BY <1>0 DEF CompleteClaim, ClaimMatches
  <2>2. <<g, d>> \in Rows /\ jobs[<<g, d>>] \in Job
    BY <1>4 DEF Rows, TypeOK
  <2>3. /\ jobs'[<<g, d>>].status = "succeeded"
        /\ jobs'[<<g, d>>].hash = jobs[<<g, d>>].hash
    BY <1>0, <2>2 DEF CompleteClaim, TypeOK, Job
  <2>4. index'[<<g, d>>] = [hash |-> claims[w].hash, revision |-> docs[d].revision]
    BY <1>0, <2>2 DEF CompleteClaim, TypeOK
  <2>5. Current(g, d)'
    BY <1>1, <2>1, <2>3, <2>4 DEF Current, Normal
  <2>6. Served'[d] = Content[d]
    BY <1>1, <1>4, <2>1, <2>5 DEF ServedIsContent, Findable, Content
  <2>7. ASSUME NEW e \in Docs \ {d} PROVE Served'[e] = Served[e]
    <3>1. \A h \in Gens : Current(h, e)' <=> Current(h, e)
      BY <1>1, <1>3 DEF Current, Normal, Rows
    <3> QED
      BY <1>1, <3>1 DEF ServedIsContent, Findable
  <2>8. Served' = [Served EXCEPT ![d] = Content[d]]
    BY <2>6, <2>7 DEF ServedIsContent
  <2>9. Content[d] # NoHash
    BY <1>4, <2>1, ConstantsAssumption DEF HasContent, Content
  <2>10. Search!Publish(d)
    BY <1>1, <1>2, <1>4, <2>8, <2>9 DEF Search!Publish, Serving
  <2> QED
    BY <1>4, <2>10
<1>5. CASE ~(g \in Gens /\ d \in Docs /\ gens[g].status = "active")
  <2>1. \A h \in Gens, e \in Docs :
          gens[h].status = "active" => (Current(h, e)' <=> Current(h, e))
    BY <1>1, <1>3, <1>5 DEF Current, Normal, Rows
  <2> QED
    BY <1>1, <2>1, SameService DEF SameActive
<1> QED
  BY <1>4, <1>5

\* A promoted generation is complete, so it serves every document at once.
LEMMA SwitchStep ==
  ASSUME TypeOK, ServedIsContent', NEW g \in Gens, Promotes(g)
  PROVE  Search!Switch
<1>1. gens'[g].status = "active" /\ FullyIndexed(g)
  BY PromotedFields
<1>2. UNCHANGED <<docs, jobs, index, chunks>>
  BY DEF Promotes
<1>3. Content' = Content
  BY <1>2 DEF Content, Normal
<1>4. (\E h \in Gens : Serving(h))' = TRUE
  BY <1>1 DEF Serving
<1>5. \A d \in Docs : Findable(d)' <=> Normal(d)
  BY <1>1, <1>2 DEF Findable, FullyIndexed, Current, Normal
<1>6. Served' = Content
  BY <1>2, <1>5 DEF ServedIsContent, Content
<1> QED
  BY <1>3, <1>4, <1>6 DEF Search!Switch

-----------------------------------------------------------------------------
(* The refinement.                                                         *)

LEMMA InitImplements == Init => Search!Init
<1> SUFFICES ASSUME Init PROVE Search!Init
  OBVIOUS
<1>1. \A g \in Gens : ~Serving(g)
  BY DEF Init, Serving
<1>2. Content \in [Docs -> Hashes \union {NoHash}]
  BY DEF Init, Content, Normal, Absent, Saved
<1>3. Served = [d \in Docs |-> NoHash]
  BY <1>1 DEF Served
<1>4. (\E g \in Gens : Serving(g)) = FALSE
  BY <1>1
<1> QED
  BY <1>2, <1>3, <1>4 DEF Search!Init

LEMMA StepImplements ==
  ASSUME TypeOK, HasContent, JobTracksDocument, DeletedLeavesNothing,
         ServedIsContent, ServedIsContent', [Next]_vars
  PROVE  [Search!Next]_(Search!svars)
<1>1. Unseen => UNCHANGED Search!svars
  BY DEF Unseen, Search!svars
<1>2. ASSUME NEW g \in Gens, Promotes(g) PROVE Search!Next
  BY <1>2, SwitchStep DEF Search!Next
<1>3. CASE SameActive
  <2>1. ASSUME NEW d \in Docs, NEW h \in Hashes, NEW rev \in Nat, WritesDocument(d, h, rev)
        PROVE  Search!Next
    BY <2>1, WriteStep DEF Search!Next
  <2>2. ASSUME NEW d \in Docs, DeleteDocument(d) PROVE Search!Next
    BY <2>2, RemoveStep DEF Search!Next
  <2>3. ASSUME NEW w \in Workers, CompleteClaim(w) PROVE Unseen \/ Search!Next
    BY <2>3, PublishStep DEF Search!Next
  <2>4. CASE JobsProgress
    BY <1>1, <1>3, <2>4, ProgressUnseen
  <2>5. ASSUME NEW g \in Gens, NEW d \in Docs,
               \/ SeedDocument(g, d)
               \/ CleanupChunks(g, d) \/ CleanupJob(g, d) \/ CleanupIndex(g, d)
        PROVE  Unseen
    BY <2>5, SeedUnseen, CleanupUnseen
  <2> QED
    BY <1>1, <2>1, <2>2, <2>3, <2>4, <2>5, ContentSteps
<1> QED
  BY <1>2, <1>3, ActiveSteps

\* Every behaviour of the index, seen through what search serves, is one of the
\* service: search never answers from stale content, and a document that can be
\* found stays so until it is edited, whatever generation serves it.
THEOREM RefinementCorrect == Spec => ImplementsSearch
<1>1. TypeOK /\ HasContent /\ JobTracksDocument /\ DeletedLeavesNothing
        /\ ServedIsContent /\ ServedIsContent' /\ [Next]_vars
        => [Search!Next]_(Search!svars)
  BY StepImplements
<1> QED
  BY <1>1, InitImplements, TypeCorrect, ContentCorrect, TracksCorrect, DeletedCorrect,
     ConsistentCorrect, ServedFromConsistency, PTL
     DEF Spec, ImplementsSearch, Search!Spec
=============================================================================
