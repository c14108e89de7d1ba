---------------------------- MODULE AssetUploads ----------------------------
(***************************************************************************)
(* Files on their way into the object store, and the worker that removes   *)
(* what did not arrive: FileHandler.persistUpload with AssetService,       *)
(* AssetRepo and AssetCleanupWorker. The store is not part of any          *)
(* transaction, so row and object can part wherever a step fails or the    *)
(* server stops. A key is made of random parts for one upload              *)
(* (GenerateFileRef), so the upsert always inserts.                        *)
(***************************************************************************)
EXTENDS Naturals, FiniteSets

CONSTANTS FileKeys  \* one per upload

VARIABLES
  rows,     \* assets: the status, locked_until > now, mtime older than the cutoff
  objects,  \* the keys the store holds
  uploads,  \* where persistUpload is
  cleanup,  \* the row runBatch has claimed, and whether its object is deleted
  cited,    \* document_assets of one note
  overtaken \* the keys whose row was claimed while their upload was at work
assetVars == <<rows, objects, uploads, cleanup, cited, overtaken>>

NoAsset == [status |-> "none", locked |-> FALSE, old |-> FALSE]
Fresh(status, locked) == [status |-> status, locked |-> locked, old |-> FALSE]
NoCleanup == [key |-> "none", deleted |-> FALSE]
Running == {"saving", "failing", "completing", "compensating", "removing"}
NotReady(k) == rows[k].status \in {"pending", "failed"}
ReadyKeys == {k \in FileKeys : rows[k].status = "ready"}

UploadsInit ==
  /\ rows = [k \in FileKeys |-> NoAsset] /\ objects = {}
  /\ uploads = [k \in FileKeys |-> "new"] /\ cleanup = NoCleanup
  /\ cited = {} /\ overtaken = {}

------------------------------------------------------------------------------
(* An upload: BeginUpload, Save, then CompleteUpload or what undoes it.     *)

To(k, step) == uploads' = [uploads EXCEPT ![k] = step]
\* A statement whose answer is an error may have taken effect: the request was cancelled,
\* or the connection broke behind the commit.
Outcome(k, new) == rows' \in {rows, [rows EXCEPT ![k] = new]}

BeginUpload(k) ==
  /\ uploads[k] = "new"
  /\ \/ rows' = [rows EXCEPT ![k] = Fresh("pending", TRUE)] /\ To(k, "saving")
     \/ Outcome(k, Fresh("pending", TRUE)) /\ To(k, "refused")
  /\ UNCHANGED <<objects, cleanup, cited, overtaken>>

\* A copy that is cut off leaves a file behind in the local store.
SaveObject(k) ==
  /\ uploads[k] = "saving"
  /\ \/ objects' = objects \cup {k} /\ To(k, "completing")
     \/ objects' \in {objects, objects \cup {k}} /\ To(k, "failing")
  /\ UNCHANGED <<rows, cleanup, cited, overtaken>>

\* updateUploadStatus moves a pending row and no other.
MarkReady(k) == IF rows[k].status = "pending" THEN Fresh("ready", FALSE) ELSE rows[k]
MarkFailed(k) == IF rows[k].status = "pending" THEN Fresh("failed", FALSE) ELSE rows[k]

FailUpload(k) ==
  /\ uploads[k] = "failing"
  /\ Outcome(k, MarkFailed(k)) /\ To(k, "refused")
  /\ UNCHANGED <<objects, cleanup, cited, overtaken>>

CompleteUpload(k) ==
  /\ uploads[k] = "completing"
  /\ \/ /\ rows[k].status = "pending"
        /\ rows' = [rows EXCEPT ![k] = Fresh("ready", FALSE)] /\ To(k, "done")
     \/ Outcome(k, MarkReady(k)) /\ To(k, "compensating")
  /\ UNCHANGED <<objects, cleanup, cited, overtaken>>

\* It deletes the object whether or not the row could be marked.
compensateUpload(k) ==
  \/ /\ uploads[k] = "compensating"
     /\ Outcome(k, MarkFailed(k)) /\ To(k, "removing")
     /\ UNCHANGED <<objects, cleanup, cited, overtaken>>
  \/ /\ uploads[k] = "removing"
     /\ objects' \in {objects, objects \ {k}} /\ To(k, "refused")
     /\ UNCHANGED <<rows, cleanup, cited, overtaken>>

------------------------------------------------------------------------------
(* The cleanup, and what only time does.                                    *)

ClaimCleanup(k) ==
  /\ cleanup = NoCleanup /\ NotReady(k) /\ ~rows[k].locked /\ rows[k].old
  /\ rows' = [rows EXCEPT ![k].locked = TRUE] /\ cleanup' = [key |-> k, deleted |-> FALSE]
  /\ overtaken' = IF uploads[k] \in Running THEN overtaken \cup {k} ELSE overtaken
  /\ UNCHANGED <<objects, uploads, cited>>

\* Mutant: the row is removed before the object.
RowDeleted ==
  /\ cleanup # NoCleanup /\ ~cleanup.deleted
  /\ cleanup' = [cleanup EXCEPT !.deleted = TRUE]
  /\ rows' = [rows EXCEPT ![cleanup.key] = IF NotReady(cleanup.key) THEN NoAsset ELSE @]
  /\ UNCHANGED <<objects, uploads, cited, overtaken>>
ReleaseCleanup(k) == IF NotReady(k) THEN Fresh(rows[k].status, FALSE) ELSE rows[k]

DeleteObject ==
  /\ cleanup # NoCleanup /\ ~cleanup.deleted
  /\ \/ /\ objects' = objects \ {cleanup.key} /\ cleanup' = [cleanup EXCEPT !.deleted = TRUE]
        /\ UNCHANGED rows
     \/ /\ Outcome(cleanup.key, ReleaseCleanup(cleanup.key)) /\ cleanup' = NoCleanup
        /\ objects' \in {objects, objects \ {cleanup.key}}
  /\ UNCHANGED <<uploads, cited, overtaken>>

DeleteIfNotReady ==
  /\ cleanup # NoCleanup /\ cleanup.deleted /\ cleanup' = NoCleanup
  /\ Outcome(cleanup.key, IF NotReady(cleanup.key) THEN NoAsset ELSE rows[cleanup.key])
  /\ UNCHANGED <<objects, uploads, cited, overtaken>>

\* Five minutes, then an hour after the last change of the row.
LockLapses(k) ==
  /\ rows[k].locked /\ rows' = [rows EXCEPT ![k].locked = FALSE]
  /\ UNCHANGED <<objects, uploads, cleanup, cited, overtaken>>
CutoffPasses(k) ==
  /\ NotReady(k) /\ ~rows[k].locked /\ ~rows[k].old
  /\ rows' = [rows EXCEPT ![k].old = TRUE]
  /\ UNCHANGED <<objects, uploads, cleanup, cited, overtaken>>

\* The process ends between any two steps; the next one has a new worker.
ServerStops ==
  /\ uploads' = [k \in FileKeys |-> IF uploads[k] \in Running THEN "cut" ELSE uploads[k]]
  /\ cleanup' = NoCleanup /\ UNCHANGED <<rows, objects, cited, overtaken>>

------------------------------------------------------------------------------
(* A note that names files: those its author was given, or found among the  *)
(* assets; only ready ones count.                                           *)

SyncDocumentReferences ==
  /\ \E named \in SUBSET FileKeys : cited' = named \cap ReadyKeys
  /\ UNCHANGED <<rows, objects, uploads, cleanup, overtaken>>

UploadsNext ==
  \/ \E k \in FileKeys : BeginUpload(k) \/ SaveObject(k) \/ FailUpload(k) \/ CompleteUpload(k) \/ compensateUpload(k)
  \/ \E k \in FileKeys : ClaimCleanup(k) \/ LockLapses(k) \/ CutoffPasses(k)
  \/ DeleteObject \/ DeleteIfNotReady \/ ServerStops \/ SyncDocumentReferences

------------------------------------------------------------------------------
UploadsTypeOK ==
  /\ rows \in [FileKeys -> [status : {"none", "pending", "failed", "ready"}, locked : BOOLEAN, old : BOOLEAN]]
  /\ objects \subseteq FileKeys /\ cited \subseteq FileKeys /\ overtaken \subseteq FileKeys
  /\ uploads \in [FileKeys -> Running \cup {"new", "done", "refused", "cut"}]
  /\ cleanup \in [key : FileKeys \cup {"none"}, deleted : BOOLEAN]

\* docs/010: an upload that was reported, and a file that a note counts, has its row for
\* good, and the reported one its bytes too unless the cleanup had claimed its row, the
\* upload having taken longer than an hour.
ReadyHasObject ==
  /\ \A k \in FileKeys : uploads[k] = "done" =>
       rows[k].status = "ready" /\ (k \in objects \/ k \in overtaken)
  /\ cited \subseteq ReadyKeys

\* Nothing stays in the store that no row leads to: the cleanup finds it.  Again an
\* upload is excepted whose row the cleanup took away under it.
NoOrphan == \A k \in objects : rows[k].status # "none" \/ k \in overtaken

\* docs/010:34 and :41: a row is ready once its object is stored, a transition that failed
\* makes it failed, and no ready asset enters the path that deletes.
ReadyKeepsObject == ReadyKeys \subseteq objects
==============================================================================
