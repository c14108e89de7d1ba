---------------------------- MODULE ServicesProofs ----------------------------
(***************************************************************************)
(* The services of the server that stand alone, for any number of uploads, *)
(* processes, builds, workers, jobs, callers and providers: files and      *)
(* their rows, migrations, the life of a server, and provider failover.    *)
(***************************************************************************)
EXTENDS AssetUploads, Migrations, ServerLife, ProviderFailover, TLAPS

-----------------------------------------------------------------------------
(* Uploads and their cleanup.                                               *)

UploadsSpec == UploadsInit /\ [][UploadsNext]_assetVars

AssetRow == [status : {"none", "pending", "failed", "ready"}, locked : BOOLEAN, old : BOOLEAN]
UploadStep == Running \cup {"new", "done", "refused", "cut"}

\* What the row r of a key is worth when its upload is at step u, and whether the store
\* has its object.  A commit that went unheard of parts row and object of an upload that
\* was refused, the cleanup those of an upload it has overtaken.
RowSound(r, u, has, over) ==
  /\ u = "new" => r = NoAsset /\ ~has
  /\ u \in {"saving", "failing", "completing"} => r.status = "pending" \/ over
  /\ u = "completing" => has \/ over
  /\ u \in {"compensating", "removing"} => r.status # "none" \/ over
  /\ u = "done" => r.status = "ready" /\ (has \/ over)
  /\ r.status = "ready" => u \notin {"saving", "failing", "completing"}
  /\ has => r.status # "none" \/ over
KeySound(k) == RowSound(rows[k], uploads[k], k \in objects, k \in overtaken)
\* The cleanup works on a row whose upload is over, or was overtaken.
CleanupSound ==
  cleanup # NoCleanup =>
    /\ cleanup.key \in FileKeys
    /\ \/ cleanup.key \in overtaken
       \/ /\ uploads[cleanup.key] \in {"refused", "cut"} /\ NotReady(cleanup.key)
          /\ cleanup.deleted => cleanup.key \notin objects
UploadsIInv ==
  UploadsTypeOK /\ (\A k \in FileKeys : KeySound(k)) /\ CleanupSound /\ cited \subseteq ReadyKeys

LEMMA UploadsStart == ASSUME UploadsInit PROVE UploadsIInv
  BY DEF UploadsInit, UploadsIInv, UploadsTypeOK, KeySound, RowSound, CleanupSound, NoAsset, NoCleanup, Running, NotReady

\* A step that changes the row, the upload or the object of no key but k; k may have
\* been overtaken by it, and a row that is ready stays so.
OnlyKey(k) ==
  /\ \A j \in FileKeys \ {k} : /\ rows'[j] = rows[j] /\ uploads'[j] = uploads[j]
                               /\ j \in objects' <=> j \in objects
                               /\ j \in overtaken' <=> j \in overtaken
  /\ k \in overtaken => k \in overtaken'
  /\ rows[k].status = "ready" => rows'[k].status = "ready"
LEMMA OneKey ==
  ASSUME UploadsIInv, NEW k \in FileKeys, UploadsTypeOK', OnlyKey(k), cited' = cited,
         RowSound(rows'[k], uploads'[k], k \in objects', k \in overtaken'), CleanupSound'
  PROVE  UploadsIInv'
  <1>1. ASSUME NEW j \in FileKeys PROVE KeySound(j)'
    BY DEF UploadsIInv, KeySound, RowSound, OnlyKey
  <1>2. cited' \subseteq ReadyKeys'
    BY DEF UploadsIInv, UploadsTypeOK, OnlyKey, ReadyKeys
  <1> QED
    BY <1>1, <1>2 DEF UploadsIInv

\* The cleanup holds no key whose upload is at work, unless it has overtaken it.
LEMMA OneUpload ==
  ASSUME UploadsIInv, NEW k \in FileKeys, UploadsTypeOK', OnlyKey(k), UNCHANGED <<cleanup, cited, overtaken>>,
         uploads[k] \notin {"refused", "cut"},
         RowSound(rows'[k], uploads'[k], k \in objects', k \in overtaken)
  PROVE  UploadsIInv'
  <1>1. CleanupSound'
    BY DEF UploadsIInv, OnlyKey, CleanupSound, NotReady, NoCleanup
  <1> QED
    BY <1>1, OneKey

LEMMA UploadSteps ==
  ASSUME UploadsIInv, NEW k \in FileKeys, BeginUpload(k) \/ SaveObject(k) \/ FailUpload(k) \/ CompleteUpload(k) \/ compensateUpload(k)
  PROVE UploadsIInv'
  <1>1. rows[k] \in AssetRow /\ RowSound(rows[k], uploads[k], k \in objects, k \in overtaken) /\ UploadsTypeOK
    BY DEF UploadsIInv, UploadsTypeOK, AssetRow, KeySound
  <1>2. \A status \in {"pending", "failed", "ready"}, locked \in BOOLEAN :
          Fresh(status, locked) \in AssetRow /\ Fresh(status, locked).status = status
    BY DEF Fresh, AssetRow
  <1>3. /\ MarkFailed(k) \in AssetRow
        /\ MarkFailed(k).status = "none" <=> rows[k].status = "none"
        /\ MarkFailed(k).status = "ready" <=> rows[k].status = "ready"
    BY <1>1, <1>2 DEF MarkFailed
  <1>4. CASE BeginUpload(k)
    <2>1. PICK r \in {rows[k], Fresh("pending", TRUE)}, u \in {"saving", "refused"} :
            /\ u = "saving" => r = Fresh("pending", TRUE)
            /\ rows' = [rows EXCEPT ![k] = r] /\ uploads' = [uploads EXCEPT ![k] = u]
      BY <1>1, <1>4 DEF BeginUpload, Outcome, To, UploadsTypeOK
    <2>2. k \notin objects /\ r \in AssetRow /\ rows[k].status = "none" /\ r.status \in {"none", "pending"}
      <3>1. Fresh("pending", TRUE) \in AssetRow /\ Fresh("pending", TRUE).status = "pending"
        BY <1>2
      <3>2. rows[k].status = "none" /\ k \notin objects /\ rows[k] \in AssetRow
        BY <1>1, <1>4 DEF BeginUpload, RowSound, NoAsset
      <3> QED
        BY <2>1, <3>1, <3>2
    <2>3. UNCHANGED <<objects, cleanup, cited, overtaken>>
      BY <1>4 DEF BeginUpload
    <2>4. UploadsTypeOK' /\ OnlyKey(k) /\ rows'[k] = r /\ uploads'[k] = u
      BY <1>1, <2>1, <2>2, <2>3 DEF UploadsTypeOK, AssetRow, OnlyKey, Running
    <2>5. RowSound(rows'[k], uploads'[k], k \in objects', k \in overtaken)
      <3>1. u = "saving" => r.status = "pending"
        BY <1>2, <2>1
      <3> QED
        BY <2>2, <2>3, <2>4, <3>1 DEF RowSound
    <2>6. uploads[k] \notin {"refused", "cut"}
      BY <1>4 DEF BeginUpload
    <2> QED
      BY <2>3, <2>4, <2>5, <2>6, OneUpload
  <1>5. CASE SaveObject(k)
    <2>1. PICK u \in {"completing", "failing"} : uploads' = [uploads EXCEPT ![k] = u] /\ (u = "completing" => k \in objects')
      BY <1>5 DEF SaveObject, To
    <2>2. objects' \in {objects, objects \cup {k}} /\ UNCHANGED <<rows, cleanup, cited, overtaken>>
      BY <1>5 DEF SaveObject
    <2>3. UploadsTypeOK' /\ OnlyKey(k) /\ rows'[k] = rows[k] /\ uploads'[k] = u
      BY <1>1, <2>1, <2>2 DEF UploadsTypeOK, OnlyKey, Running
    <2>4. uploads[k] \notin {"refused", "cut"} /\ uploads[k] = "saving"
      BY <1>5 DEF SaveObject
    <2>5. RowSound(rows'[k], uploads'[k], k \in objects', k \in overtaken)
      BY <1>1, <2>1, <2>2, <2>3, <2>4 DEF RowSound
    <2> QED
      BY <2>2, <2>3, <2>4, <2>5, OneUpload
  <1>6. CASE FailUpload(k)
    <2>1. PICK r \in {rows[k], MarkFailed(k)} : rows' = [rows EXCEPT ![k] = r]
      BY <1>1, <1>6 DEF FailUpload, Outcome, UploadsTypeOK
    <2>2. uploads' = [uploads EXCEPT ![k] = "refused"] /\ uploads[k] = "failing" /\ UNCHANGED <<objects, cleanup, cited, overtaken>>
      BY <1>6 DEF FailUpload, To
    <2>3. r \in AssetRow /\ (r.status = "none" <=> rows[k].status = "none") /\ (r.status = "ready" <=> rows[k].status = "ready")
      BY <1>1, <1>3, <2>1
    <2>4. UploadsTypeOK' /\ OnlyKey(k) /\ rows'[k] = r /\ uploads'[k] = "refused"
      BY <1>1, <2>1, <2>2, <2>3 DEF UploadsTypeOK, AssetRow, OnlyKey, Running
    <2>5. RowSound(rows'[k], uploads'[k], k \in objects', k \in overtaken)
      BY <1>1, <2>2, <2>3, <2>4 DEF RowSound
    <2> QED
      BY <2>2, <2>4, <2>5, OneUpload
  <1>7. CASE CompleteUpload(k)
    <2>1. MarkReady(k) \in {rows[k], Fresh("ready", FALSE)}
      BY DEF MarkReady
    <2>2. PICK r \in {rows[k], Fresh("ready", FALSE)}, u \in {"done", "compensating"} :
            /\ u = "done" => r = Fresh("ready", FALSE)
            /\ rows' = [rows EXCEPT ![k] = r] /\ uploads' = [uploads EXCEPT ![k] = u]
      <3>1. rows = [rows EXCEPT ![k] = rows[k]]
        BY <1>1 DEF UploadsTypeOK
      <3> QED
        BY <1>7, <2>1, <3>1 DEF CompleteUpload, Outcome, To
    <2>3. uploads[k] = "completing" /\ UNCHANGED <<objects, cleanup, cited, overtaken>>
      BY <1>7 DEF CompleteUpload
    <2>4. r \in AssetRow /\ RowSound(r, u, k \in objects, k \in overtaken) /\ (rows[k].status = "ready" => r.status = "ready")
      BY <1>1, <1>2, <2>2, <2>3 DEF RowSound
    <2>5. UploadsTypeOK' /\ OnlyKey(k) /\ rows'[k] = r /\ uploads'[k] = u
      BY <1>1, <2>2, <2>3, <2>4 DEF UploadsTypeOK, AssetRow, OnlyKey, Running
    <2>6. RowSound(rows'[k], uploads'[k], k \in objects', k \in overtaken)
      BY <2>3, <2>4, <2>5 DEF RowSound
    <2> QED
      BY <2>3, <2>5, <2>6, OneUpload
  <1>8. CASE uploads[k] = "compensating" /\ compensateUpload(k)
    <2>1. PICK r \in {rows[k], MarkFailed(k)} : rows' = [rows EXCEPT ![k] = r]
      BY <1>1, <1>8 DEF compensateUpload, Outcome, UploadsTypeOK
    <2>2. uploads' = [uploads EXCEPT ![k] = "removing"] /\ UNCHANGED <<objects, cleanup, cited, overtaken>>
      BY <1>8 DEF compensateUpload, To
    <2>3. r \in AssetRow /\ (r.status = "none" <=> rows[k].status = "none") /\ (r.status = "ready" <=> rows[k].status = "ready")
      BY <1>1, <1>3, <2>1
    <2>4. UploadsTypeOK' /\ OnlyKey(k) /\ rows'[k] = r /\ uploads'[k] = "removing"
      BY <1>1, <2>1, <2>2, <2>3 DEF UploadsTypeOK, AssetRow, OnlyKey, Running
    <2>5. RowSound(rows'[k], uploads'[k], k \in objects', k \in overtaken)
      BY <1>1, <1>8, <2>2, <2>3, <2>4 DEF RowSound
    <2> QED
      BY <1>8, <2>2, <2>4, <2>5, OneUpload
  <1>9. CASE uploads[k] = "removing" /\ compensateUpload(k)
    <2>1. /\ objects' \in {objects, objects \ {k}} /\ uploads' = [uploads EXCEPT ![k] = "refused"]
          /\ UNCHANGED <<rows, cleanup, cited, overtaken>>
      BY <1>9 DEF compensateUpload, To
    <2>2. UploadsTypeOK' /\ OnlyKey(k) /\ rows'[k] = rows[k] /\ uploads'[k] = "refused" /\ (k \in objects' => k \in objects)
      BY <1>1, <2>1 DEF UploadsTypeOK, OnlyKey, Running
    <2>3. RowSound(rows'[k], uploads'[k], k \in objects', k \in overtaken)
      BY <1>1, <1>9, <2>1, <2>2 DEF RowSound
    <2> QED
      BY <1>9, <2>1, <2>2, <2>3, OneUpload
  <1> QED
    BY <1>4, <1>5, <1>6, <1>7, <1>8, <1>9 DEF compensateUpload

\* A step of the cleanup or of the clock changes one row, and no upload.
LEMMA CleanupSteps ==
  ASSUME UploadsIInv,
         DeleteObject \/ DeleteIfNotReady \/ \E k \in FileKeys : ClaimCleanup(k) \/ LockLapses(k) \/ CutoffPasses(k)
  PROVE  UploadsIInv'
  <1>1. /\ \A k \in FileKeys : /\ rows[k] \in AssetRow /\ uploads[k] \in UploadStep
                             /\ RowSound(rows[k], uploads[k], k \in objects, k \in overtaken)
        /\ CleanupSound /\ UploadsTypeOK
    BY DEF UploadsIInv, UploadsTypeOK, AssetRow, UploadStep, KeySound
  <1>2. /\ cleanup' = NoCleanup => CleanupSound'
        /\ NoCleanup \in [key : FileKeys \cup {"none"}, deleted : BOOLEAN]
    BY DEF CleanupSound, NoCleanup
  <1>3. CASE DeleteObject /\ cleanup' # NoCleanup
    <2>1. PICK k \in FileKeys : k = cleanup.key
      BY <1>1, <1>3 DEF DeleteObject, CleanupSound
    <2>2. k \in overtaken \/ (uploads[k] \in {"refused", "cut"} /\ NotReady(k))
      BY <1>1, <1>3, <2>1 DEF DeleteObject, CleanupSound
    <2>3. objects' = objects \ {k} /\ cleanup' = [cleanup EXCEPT !.deleted = TRUE] /\ UNCHANGED <<rows, uploads, cited, overtaken>>
      BY <1>3, <2>1 DEF DeleteObject
    <2>4. UploadsTypeOK' /\ OnlyKey(k) /\ cleanup'.key = k
      BY <1>1, <2>1, <2>3 DEF UploadsTypeOK, OnlyKey
    <2>5. CleanupSound'
      BY <2>2, <2>3, <2>4 DEF CleanupSound, NotReady
    <2>6. RowSound(rows'[k], uploads'[k], k \in objects', k \in overtaken')
      BY <1>1, <2>2, <2>3 DEF RowSound, NotReady
    <2> QED
      BY <2>3, <2>4, <2>5, <2>6, OneKey
  <1>4. CASE DeleteObject /\ cleanup' = NoCleanup
    <2>1. PICK k \in FileKeys : k = cleanup.key
      BY <1>1, <1>4 DEF DeleteObject, CleanupSound
    <2>2. k \in overtaken \/ (uploads[k] \in {"refused", "cut"} /\ NotReady(k))
      BY <1>1, <1>4, <2>1 DEF DeleteObject, CleanupSound
    <2>3. cleanup' # [cleanup EXCEPT !.deleted = TRUE]
      BY <1>1, <1>4 DEF UploadsTypeOK, NoCleanup
    <2>4. PICK r \in {rows[k], ReleaseCleanup(k)} :
            /\ rows' = [rows EXCEPT ![k] = r] /\ objects' \in {objects, objects \ {k}} /\ UNCHANGED <<uploads, cited, overtaken>>
      BY <1>1, <1>4, <2>1, <2>3 DEF DeleteObject, Outcome, UploadsTypeOK
    <2>5. r \in AssetRow /\ r.status = rows[k].status
      <3>1. rows[k] \in AssetRow
        BY <1>1
      <3>2. NotReady(k) => Fresh(rows[k].status, FALSE) \in AssetRow /\ Fresh(rows[k].status, FALSE).status = rows[k].status
        BY <3>1 DEF Fresh, AssetRow, NotReady
      <3> QED
        BY <2>4, <3>1, <3>2 DEF ReleaseCleanup
    <2>6. UploadsTypeOK' /\ OnlyKey(k) /\ rows'[k] = r /\ (k \in objects' => k \in objects)
      BY <1>1, <1>2, <1>4, <2>4, <2>5 DEF UploadsTypeOK, OnlyKey, AssetRow
    <2>7. RowSound(r, uploads[k], k \in objects', k \in overtaken)
      <3>1. uploads[k] = "new" => ~NotReady(k) /\ r = rows[k]
        <4>1. RowSound(rows[k], uploads[k], k \in objects, k \in overtaken)
          BY <1>1
        <4>2. uploads[k] = "new" => ~NotReady(k)
          BY <4>1 DEF RowSound, NoAsset, NotReady
        <4> QED
          BY <2>4, <4>2 DEF ReleaseCleanup
      <3>2. uploads[k] = "done" => k \in overtaken
        BY <2>2
      <3>3. uploads[k] \in {"saving", "failing", "completing"} => k \in overtaken
        BY <2>2
      <3> QED
        BY <1>1, <2>5, <2>6, <3>1, <3>2, <3>3 DEF RowSound
    <2>8. RowSound(rows'[k], uploads'[k], k \in objects', k \in overtaken')
      BY <2>4, <2>6, <2>7
    <2> QED
      BY <1>2, <1>4, <2>4, <2>6, <2>8, OneKey
  <1>5. CASE DeleteIfNotReady
    <2>1. PICK k \in FileKeys : k = cleanup.key
      BY <1>1, <1>5 DEF DeleteIfNotReady, CleanupSound
    <2>2. /\ k \in overtaken \/ (uploads[k] \in {"refused", "cut"} /\ NotReady(k) /\ k \notin objects)
          /\ cleanup' = NoCleanup /\ UNCHANGED <<objects, uploads, cited, overtaken>>
      BY <1>1, <1>5, <2>1 DEF DeleteIfNotReady, CleanupSound
    <2>3. PICK r \in {rows[k], NoAsset} : rows' = [rows EXCEPT ![k] = r] /\ (r = rows[k] \/ NotReady(k))
      BY <1>1, <1>5, <2>1 DEF DeleteIfNotReady, Outcome, UploadsTypeOK
    <2>4. r \in AssetRow /\ RowSound(r, uploads[k], k \in objects, k \in overtaken) /\ (rows[k].status = "ready" => r.status = "ready")
      <3>1. RowSound(rows[k], uploads[k], k \in objects, k \in overtaken) /\ rows[k] \in AssetRow
        BY <1>1
      <3>2. NoAsset \in AssetRow /\ NoAsset.status = "none"
        BY DEF NoAsset, AssetRow
      <3>3. NotReady(k) => RowSound(NoAsset, uploads[k], k \in objects, k \in overtaken) /\ rows[k].status # "ready"
        BY <2>2, <3>1, <3>2 DEF RowSound, NotReady
      <3> QED
        BY <2>3, <3>1, <3>2, <3>3
    <2>5. UploadsTypeOK' /\ OnlyKey(k) /\ rows'[k] = r
      BY <1>1, <1>2, <2>2, <2>3, <2>4 DEF UploadsTypeOK, OnlyKey, AssetRow
    <2>6. RowSound(rows'[k], uploads'[k], k \in objects', k \in overtaken')
      BY <2>2, <2>4, <2>5
    <2> QED
      BY <1>2, <2>2, <2>5, <2>6, OneKey
  <1>6. ASSUME NEW k \in FileKeys, ClaimCleanup(k) PROVE UploadsIInv'
    <2>1. /\ NotReady(k) /\ cleanup' = [key |-> k, deleted |-> FALSE]
          /\ rows' = [rows EXCEPT ![k].locked = TRUE] /\ UNCHANGED <<objects, uploads, cited>>
          /\ overtaken' = IF uploads[k] \in Running THEN overtaken \cup {k} ELSE overtaken
      BY <1>6 DEF ClaimCleanup
    <2>2. rows'[k].status = rows[k].status
      BY <1>1, <2>1 DEF UploadsTypeOK, AssetRow
    <2>3. UploadsTypeOK' /\ OnlyKey(k)
      BY <1>1, <2>1, <2>2 DEF UploadsTypeOK, OnlyKey, AssetRow
    <2>4. uploads[k] \in {"refused", "cut"} \/ k \in overtaken'
      BY <1>1, <2>1 DEF RowSound, UploadStep, NotReady, NoAsset
    <2>5. CleanupSound'
      BY <2>1, <2>2, <2>4 DEF CleanupSound, NotReady
    <2>6. uploads[k] # "new" /\ (k \in overtaken => k \in overtaken')
      BY <1>1, <2>1 DEF RowSound, NotReady, NoAsset
    <2>7. RowSound(rows'[k], uploads'[k], k \in objects', k \in overtaken')
      BY <1>1, <2>1, <2>2, <2>6 DEF RowSound
    <2> QED
      BY <2>1, <2>3, <2>5, <2>7, OneKey
  <1>7. ASSUME NEW k \in FileKeys, LockLapses(k) PROVE UploadsIInv'
    <2>1. rows[k].locked /\ rows' = [rows EXCEPT ![k].locked = FALSE] /\ UNCHANGED <<objects, uploads, cleanup, cited, overtaken>>
      BY <1>7 DEF LockLapses
    <2>2. rows'[k].status = rows[k].status
      BY <1>1, <2>1 DEF UploadsTypeOK, AssetRow
    <2>3. UploadsTypeOK' /\ OnlyKey(k)
      BY <1>1, <2>1, <2>2 DEF UploadsTypeOK, OnlyKey, AssetRow
    <2>4. uploads[k] # "new"
      BY <1>1, <2>1 DEF RowSound, NoAsset
    <2>5. CleanupSound'
      BY <1>1, <2>1, <2>2, <2>3 DEF CleanupSound, NotReady, OnlyKey
    <2>6. RowSound(rows'[k], uploads'[k], k \in objects', k \in overtaken')
      BY <1>1, <2>1, <2>2, <2>4 DEF RowSound
    <2> QED
      BY <2>1, <2>3, <2>5, <2>6, OneKey
  <1>8. ASSUME NEW k \in FileKeys, CutoffPasses(k) PROVE UploadsIInv'
    <2>1. rows' = [rows EXCEPT ![k].old = TRUE] /\ NotReady(k) /\ UNCHANGED <<objects, uploads, cleanup, cited, overtaken>>
      BY <1>8 DEF CutoffPasses
    <2>2. rows'[k].status = rows[k].status
      BY <1>1, <2>1 DEF UploadsTypeOK, AssetRow
    <2>3. UploadsTypeOK' /\ OnlyKey(k)
      BY <1>1, <2>1, <2>2 DEF UploadsTypeOK, OnlyKey, AssetRow
    <2>4. uploads[k] # "new"
      BY <1>1, <2>1 DEF RowSound, NoAsset, NotReady
    <2>5. CleanupSound'
      BY <1>1, <2>1, <2>2, <2>3 DEF CleanupSound, NotReady, OnlyKey
    <2>6. RowSound(rows'[k], uploads'[k], k \in objects', k \in overtaken')
      BY <1>1, <2>1, <2>2, <2>4 DEF RowSound
    <2> QED
      BY <2>1, <2>3, <2>5, <2>6, OneKey
  <1> QED
    BY <1>3, <1>4, <1>5, <1>6, <1>7, <1>8

\* A stop of the server cuts uploads off and forgets what was claimed.
LEMMA StopsAndReferences ==
  ASSUME UploadsIInv, ServerStops \/ SyncDocumentReferences PROVE UploadsIInv'
  <1>1. CASE ServerStops
    <2>1. UploadsTypeOK' /\ cleanup' = NoCleanup /\ UNCHANGED <<rows, objects, cited, overtaken>>
      BY <1>1 DEF ServerStops, UploadsIInv, UploadsTypeOK, NoCleanup
    <2>2. \A k \in FileKeys : uploads'[k] = IF uploads[k] \in Running THEN "cut" ELSE uploads[k]
      BY <1>1 DEF ServerStops
    <2>3. \A k \in FileKeys : KeySound(k)'
      BY <2>1, <2>2 DEF UploadsIInv, KeySound, RowSound, Running
    <2>4. cited' \subseteq ReadyKeys'
      BY <2>1 DEF UploadsIInv, ReadyKeys
    <2> QED
      BY <2>1, <2>3, <2>4 DEF UploadsIInv, CleanupSound
  <1>2. CASE SyncDocumentReferences
    BY <1>2 DEF SyncDocumentReferences, ReadyKeys, UploadsIInv, UploadsTypeOK, KeySound, CleanupSound, NotReady
  <1> QED
    BY <1>1, <1>2

LEMMA UploadsStep == ASSUME UploadsIInv, [UploadsNext]_assetVars PROVE UploadsIInv'
  <1>1. CASE UNCHANGED assetVars
    BY <1>1 DEF assetVars, UploadsIInv, UploadsTypeOK, KeySound, CleanupSound, NotReady, ReadyKeys
  <1>2. CASE UploadsNext
    BY <1>2, UploadSteps, CleanupSteps, StopsAndReferences DEF UploadsNext
  <1> QED
    BY <1>1, <1>2

\* What the invariant says of files.
LEMMA UploadsSound ==
  ASSUME UploadsIInv PROVE UploadsTypeOK /\ NoOrphan /\ ReadyHasObject
  BY DEF UploadsIInv, UploadsTypeOK, KeySound, RowSound, NoOrphan, ReadyHasObject, ReadyKeys

\* docs/010: every object in the store has a row by which it can be removed, also if a
\* statement takes effect whose answer is lost; only an upload at work for longer than
\* the cleanup waits may lose its row (AssetCleanupWorker, FileHandler.compensateUpload).
THEOREM NothingOrphaned == UploadsSpec => []NoOrphan
  <1>1. UploadsInit => UploadsIInv
    BY UploadsStart
  <1>2. UploadsIInv /\ [UploadsNext]_assetVars => UploadsIInv'
    BY UploadsStep
  <1>3. UploadsIInv => NoOrphan
    BY UploadsSound
  <1> QED
    BY <1>1, <1>2, <1>3, PTL DEF UploadsSpec

\* An upload that was reported has a ready row and its object for good, unless the cleanup
\* had overtaken it, and a file that a note counts has a ready row: whatever step fails,
\* and whether or not a failed statement took effect (FileHandler.persistUpload).
THEOREM ReadyFilesExist == UploadsSpec => []ReadyHasObject
  <1>1. UploadsInit => UploadsIInv
    BY UploadsStart
  <1>2. UploadsIInv /\ [UploadsNext]_assetVars => UploadsIInv'
    BY UploadsStep
  <1>3. UploadsIInv => ReadyHasObject
    BY UploadsSound
  <1> QED
    BY <1>1, <1>2, <1>3, PTL DEF UploadsSpec
-----------------------------------------------------------------------------
(* Migrations.                                                              *)

MigrationsSpec == MigrationsInit /\ [][MigrationsNext]_migrationVars

\* What validateMigrationManifest checks of the files of a build: there is one, and no version twice.
SoundBuilds ==
  /\ "none" \notin Processes
  /\ \A p \in Processes :
       /\ Build[p] \in Seq(FilesOf(p)) /\ Build[p] # <<>>
       /\ \A i, j \in DOMAIN Build[p] : Build[p][i].version = Build[p][j].version => i = j

Locked == {"locked", "bootstrap", "read", "applying"}
ProcessState == [step : {"off", "starting", "serving", "failed"} \cup Locked,
                 applied : SUBSET AllFiles, next : Nat, starts : Nat]
Executed(p, next) == {Build[p][i] : i \in 1..(next - 1)}

\* Who is at work has the lock, and so knows what the ledger holds.
ProcessSound(p, me) ==
  /\ me.step \in Locked => holder = p
  /\ me.step \in {"locked", "bootstrap", "read", "starting"} => me.next = 1
  /\ me.step = "bootstrap" => ~ledger.exists
  /\ me.step = "read" => me.applied = ledger.files
  /\ me.step = "applying" =>
       /\ me.applied \subseteq FilesOf(p) /\ me.next \in 1..(Len(Build[p]) + 1)
       /\ ledger.files = me.applied \cup Executed(p, me.next)
  /\ me.step = "serving" => FilesOf(p) \subseteq ledger.files
LedgerSound ==
  /\ ledger \in [exists : BOOLEAN, files : SUBSET AllFiles] /\ schema \in Seq(AllFiles)
  /\ ~ledger.exists => ledger.files = {}
  /\ MigratedOnce
MigrationsIInv ==
  /\ LedgerSound /\ process \in [Processes -> ProcessState]
  /\ \A p \in Processes : ProcessSound(p, process[p])

\* A file is executed while p has the lock, if the ledger has no row of its version.
Commits(p) == \E f \in AllFiles : holder = p /\ f.version \notin Versions(ledger.files) /\ Commit(f)
LEMMA CommitOnce ==
  ASSUME LedgerSound, NEW f \in AllFiles, f.version \notin Versions(ledger.files), Commit(f)
  PROVE  LedgerSound' /\ ledger' = [exists |-> TRUE, files |-> ledger.files \cup {f}]
  <1>1. /\ ledger' = [exists |-> TRUE, files |-> ledger.files \cup {f}] /\ schema' = Append(schema, f)
        /\ schema \in Seq(AllFiles) /\ ledger.files \in SUBSET AllFiles
    BY DEF Commit, LedgerSound
  <1>2. /\ schema' \in Seq(AllFiles) /\ Len(schema') = Len(schema) + 1 /\ schema'[Len(schema) + 1] = f
        /\ \A i \in 1..Len(schema) : schema'[i] = schema[i]
        /\ DOMAIN schema = 1..Len(schema) /\ DOMAIN schema' = 1..(Len(schema) + 1) /\ Len(schema) \in Nat
    BY <1>1
  <1>3. \A i \in 1..Len(schema) : schema[i] \in ledger.files /\ schema[i].version # f.version
    BY <1>2 DEF LedgerSound, MigratedOnce, Versions
  <1>4. ASSUME NEW i \in 1..(Len(schema) + 1), NEW j \in 1..(Len(schema) + 1), schema'[i].version = schema'[j].version
        PROVE i = j
    <2>1. CASE i \in 1..Len(schema) /\ j \in 1..Len(schema)
      BY <1>2, <1>4, <2>1 DEF LedgerSound, MigratedOnce
    <2>2. CASE i = Len(schema) + 1 \/ j = Len(schema) + 1
      BY <1>2, <1>3, <1>4, <2>2
    <2> QED
      BY <1>2, <2>1, <2>2
  <1>5. ledger'.files = {schema'[i] : i \in DOMAIN schema'}
    <2>1. ledger.files = {schema[i] : i \in 1..Len(schema)}
      BY <1>2 DEF LedgerSound, MigratedOnce
    <2>2. \A x : x \in {schema'[i] : i \in 1..(Len(schema) + 1)} <=> x = f \/ \E i \in 1..Len(schema) : x = schema[i]
      <3>1. \A i : i \in 1..(Len(schema) + 1) <=> i \in 1..Len(schema) \/ i = Len(schema) + 1
        BY <1>2
      <3> QED
        BY <1>2, <3>1
    <2> QED
      BY <1>1, <1>2, <2>1, <2>2
  <1>6. MigratedOnce'
    BY <1>2, <1>4, <1>5 DEF MigratedOnce
  <1>7. ledger' \in [exists : BOOLEAN, files : SUBSET AllFiles] /\ ledger'.exists
    BY <1>1
  <1> QED
    BY <1>1, <1>2, <1>6, <1>7 DEF LedgerSound

\* A step of one process that does not take the lock from another.
LEMMA OneProcess ==
  ASSUME SoundBuilds, MigrationsIInv, NEW p \in Processes, NEW me \in ProcessState,
         process' = [process EXCEPT ![p] = me], UNCHANGED <<ledger, schema>> \/ Commits(p),
         holder' = holder \/ Released(p) \/ (holder = "none" /\ holder' = p), ProcessSound(p, me)'
  PROVE  MigrationsIInv'
  <1>1. LedgerSound' /\ ledger.files \subseteq ledger'.files /\ (holder = p \/ ledger' = ledger)
    <2>1. CASE UNCHANGED <<ledger, schema>>
      BY <2>1 DEF MigrationsIInv, LedgerSound, MigratedOnce
    <2>2. CASE Commits(p)
      BY <2>2, CommitOnce DEF Commits, MigrationsIInv
    <2> QED
      BY <2>1, <2>2
  <1>2. process' \in [Processes -> ProcessState] /\ process'[p] = me
    BY DEF MigrationsIInv
  <1>3. ASSUME NEW q \in Processes, q # p PROVE ProcessSound(q, process[q])'
    <2>1. process'[q] = process[q] /\ ProcessSound(q, process[q]) /\ process[q] \in ProcessState
      BY <1>3 DEF MigrationsIInv
    <2>2. CASE process[q].step \in Locked
      <3>1. holder = q /\ holder' = q /\ ledger' = ledger
        BY <1>1, <1>3, <2>1, <2>2 DEF ProcessSound, Released, SoundBuilds
      <3> QED
        BY <2>1, <3>1 DEF ProcessSound
    <2>3. CASE process[q].step \notin Locked
      BY <1>1, <2>1, <2>3 DEF ProcessSound, Locked
    <2> QED
      BY <2>2, <2>3
  <1> QED
    BY <1>1, <1>2, <1>3 DEF MigrationsIInv

LEMMA MigrationsStart == ASSUME SoundBuilds, MigrationsInit PROVE MigrationsIInv
  <1>1. LedgerSound
    BY DEF MigrationsInit, LedgerSound, MigratedOnce
  <1>2. Off(0) \in ProcessState /\ Off(0).step = "off"
    BY DEF Off, ProcessState
  <1> QED
    BY <1>1, <1>2 DEF MigrationsInit, MigrationsIInv, ProcessSound, Locked
\* A process that has nothing left to apply has executed its whole build.
LEMMA AllExecuted ==
  ASSUME SoundBuilds, NEW p \in Processes, process[p] \in ProcessState, ProcessSound(p, process[p]),
         process[p].step = "applying", ~Remaining(p)
  PROVE  ledger.files = FilesOf(p)
  <1>1. /\ process[p].applied \subseteq FilesOf(p) /\ process[p].next \in 1..(Len(Build[p]) + 1)
        /\ ledger.files = process[p].applied \cup Executed(p, process[p].next)
    BY DEF ProcessSound
  <1>2. Len(Build[p]) \in Nat /\ DOMAIN Build[p] = 1..Len(Build[p])
    BY DEF SoundBuilds
  <1>3. process[p].next - 1 = Len(Build[p])
    BY <1>1, <1>2 DEF Remaining
  <1>4. Executed(p, process[p].next) = FilesOf(p)
    BY <1>2, <1>3 DEF Executed, FilesOf
  <1> QED
    BY <1>1, <1>4

\* The record of a process after Step.
At(p, step) == [process[p] EXCEPT !.step = step]
LEMMA StepOf ==
  ASSUME MigrationsIInv, NEW p \in Processes, NEW step \in {"off", "starting", "serving", "failed"} \cup Locked
  PROVE  /\ At(p, step) \in ProcessState /\ At(p, step).step = step
         /\ At(p, step).applied = process[p].applied /\ At(p, step).next = process[p].next
         /\ Step(p, step) => process' = [process EXCEPT ![p] = At(p, step)]
  <1>1. process[p] \in ProcessState
    BY DEF MigrationsIInv
  <1> QED
    BY <1>1 DEF At, Step, ProcessState

LEMMA RefuseStep ==
  ASSUME SoundBuilds, MigrationsIInv, NEW p \in Processes, Released(p), Step(p, "failed"),
         UNCHANGED <<ledger, schema>> \/ Commits(p)
  PROVE  MigrationsIInv'
  <1>1. PICK me \in ProcessState : me = At(p, "failed") /\ me.step = "failed"
    BY StepOf
  <1>2. ProcessSound(p, me)'
    BY <1>1 DEF ProcessSound, Locked
  <1> QED
    BY <1>1, <1>2, StepOf, OneProcess

LEMMA LockSteps ==
  ASSUME SoundBuilds, MigrationsIInv, NEW p \in Processes,
         Start(p) \/ acquireMigrationLock(p) \/ loadAppliedMigrations(p) \/ bootstrapLedger(p) \/ Exit(p)
  PROVE  MigrationsIInv'
  <1>1. process[p] \in ProcessState /\ ProcessSound(p, process[p]) /\ LedgerSound
    BY DEF MigrationsIInv
  <1>2. \A n \in Nat : /\ Off(n) \in ProcessState /\ Off(n).step = "off" /\ Off(n).next = 1
                       /\ [Off(n) EXCEPT !.step = "starting"] \in ProcessState
                       /\ [Off(n) EXCEPT !.step = "starting"].step = "starting"
                       /\ [Off(n) EXCEPT !.step = "starting"].next = 1
    BY DEF Off, ProcessState
  <1>3. process[p].starts \in Nat /\ process[p].starts + 1 \in Nat
    BY <1>1 DEF ProcessState
  <1>4. CASE Start(p)
    <2> DEFINE me == [Off(process[p].starts + 1) EXCEPT !.step = "starting"]
    <2>1. me \in ProcessState /\ me.step = "starting" /\ me.next = 1
      BY <1>2, <1>3
    <2>2. process' = [process EXCEPT ![p] = me] /\ UNCHANGED <<ledger, schema, holder>>
      BY <1>4 DEF Start
    <2> HIDE DEF me
    <2>3. ASSUME NEW m, m = me PROVE ProcessSound(p, m)'
      BY <2>1, <2>3 DEF ProcessSound, Locked
    <2> QED
      BY <2>1, <2>2, <2>3, OneProcess
  <1>5. CASE acquireMigrationLock(p)
    <2>1. holder = "none" /\ holder' = p /\ Step(p, "locked") /\ UNCHANGED <<ledger, schema>> /\ process[p].next = 1
      BY <1>1, <1>5 DEF acquireMigrationLock, ProcessSound
    <2>2. PICK me \in ProcessState : me = At(p, "locked")
      BY StepOf DEF Locked
    <2>3. me.step = "locked" /\ me.next = 1 /\ process' = [process EXCEPT ![p] = me]
      BY <2>1, <2>2, StepOf DEF Locked
    <2>4. ProcessSound(p, me)'
      BY <2>1, <2>3 DEF ProcessSound
    <2> QED
      BY <2>1, <2>3, <2>4, OneProcess
  <1>6. CASE loadAppliedMigrations(p) /\ ~(Released(p) /\ Step(p, "failed"))
    <2>1. /\ process[p].step = "locked" /\ process[p].next = 1 /\ holder = p /\ UNCHANGED <<ledger, schema, holder>>
          /\ \/ process' = [process EXCEPT ![p].step = "read", ![p].applied = ledger.files]
             \/ ~ledger.exists /\ Step(p, "bootstrap")
      BY <1>1, <1>6 DEF loadAppliedMigrations, Refuse, ProcessSound, Locked
    <2>2. CASE process' = [process EXCEPT ![p].step = "read", ![p].applied = ledger.files]
      <3>1. PICK me \in ProcessState : me = [process[p] EXCEPT !.step = "read", !.applied = ledger.files]
        BY <1>1 DEF ProcessState, LedgerSound, Locked
      <3>2. me.step = "read" /\ me.applied = ledger.files /\ me.next = 1 /\ process' = [process EXCEPT ![p] = me]
        BY <1>1, <2>1, <2>2, <3>1 DEF ProcessState
      <3>3. ProcessSound(p, me)'
        BY <2>1, <3>2 DEF ProcessSound
      <3> QED
        BY <2>1, <3>2, <3>3, OneProcess
    <2>3. CASE ~ledger.exists /\ Step(p, "bootstrap")
      <3>1. PICK me \in ProcessState : me = At(p, "bootstrap")
        BY StepOf DEF Locked
      <3>2. me.step = "bootstrap" /\ me.next = 1 /\ process' = [process EXCEPT ![p] = me]
        BY <2>1, <2>3, <3>1, StepOf DEF Locked
      <3>3. ProcessSound(p, me)'
        BY <2>1, <2>3, <3>2 DEF ProcessSound
      <3> QED
        BY <2>1, <3>2, <3>3, OneProcess
    <2> QED
      BY <2>1, <2>2, <2>3
  <1>7. CASE bootstrapLedger(p)
    <2>1. /\ holder = p /\ process[p].next = 1 /\ ledger.files = {}
          /\ \/ Commit(Bootstrap(p)) /\ Step(p, "locked") /\ UNCHANGED holder
             \/ Released(p) /\ Step(p, "failed") /\ (UNCHANGED <<ledger, schema>> \/ Commit(Bootstrap(p)))
      BY <1>1, <1>7 DEF bootstrapLedger, Refuse, ProcessSound, Locked, LedgerSound
    <2>2. Bootstrap(p) \in AllFiles
      BY DEF SoundBuilds, Bootstrap, AllFiles, FilesOf
    <2>3. Commit(Bootstrap(p)) => Commits(p)
      BY <2>1, <2>2 DEF Commits, Versions
    <2>4. CASE Commit(Bootstrap(p)) /\ Step(p, "locked") /\ UNCHANGED holder
      <3>1. PICK me \in ProcessState : me = At(p, "locked")
        BY StepOf DEF Locked
      <3>2. me.step = "locked" /\ me.next = 1 /\ process' = [process EXCEPT ![p] = me]
        BY <2>1, <2>4, <3>1, StepOf DEF Locked
      <3>3. ProcessSound(p, me)'
        BY <2>1, <2>4, <3>2 DEF ProcessSound
      <3> QED
        BY <2>1, <2>3, <2>4, <3>2, <3>3, OneProcess
    <2> QED
      BY <2>1, <2>3, <2>4, RefuseStep
  <1>8. CASE Exit(p)
    <2>1. process' = [process EXCEPT ![p] = Off(process[p].starts)] /\ Released(p) /\ UNCHANGED <<ledger, schema>>
      BY <1>8 DEF Exit
    <2>2. PICK me \in ProcessState : me = Off(process[p].starts) /\ me.step = "off"
      BY <1>2, <1>3
    <2>3. ProcessSound(p, me)'
      BY <2>2 DEF ProcessSound, Locked
    <2> QED
      BY <2>1, <2>2, <2>3, OneProcess
  <1> QED
    BY <1>4, <1>5, <1>6, <1>7, <1>8, RefuseStep DEF loadAppliedMigrations, Refuse

LEMMA ApplySteps ==
  ASSUME SoundBuilds, MigrationsIInv, NEW p \in Processes, validateApplied(p) \/ applyOne(p) \/ Serve(p)
  PROVE  MigrationsIInv'
  <1>1. process[p] \in ProcessState /\ ProcessSound(p, process[p]) /\ LedgerSound
    BY DEF MigrationsIInv
  <1>2. /\ Len(Build[p]) \in Nat \ {0} /\ DOMAIN Build[p] = 1..Len(Build[p])
        /\ \A i \in 1..Len(Build[p]) : Build[p][i] \in FilesOf(p) /\ Build[p][i] \in AllFiles
        /\ \A i, j \in 1..Len(Build[p]) : Build[p][i].version = Build[p][j].version => i = j
    <2>1. Build[p] \in Seq(FilesOf(p)) /\ Build[p] # <<>>
      BY DEF SoundBuilds
    <2>2. Len(Build[p]) \in Nat \ {0} /\ DOMAIN Build[p] = 1..Len(Build[p])
      BY <2>1
    <2>3. \A i \in 1..Len(Build[p]) : Build[p][i] \in FilesOf(p) /\ Build[p][i] \in AllFiles
      BY <2>2 DEF FilesOf, AllFiles
    <2> QED
      BY <2>2, <2>3 DEF SoundBuilds
  <1>3. CASE validateApplied(p) /\ ~(Released(p) /\ Step(p, "failed"))
    <2>1. /\ process[p].applied \subseteq FilesOf(p) /\ Step(p, "applying") /\ UNCHANGED <<ledger, schema, holder>>
          /\ holder = p /\ process[p].next = 1 /\ process[p].applied = ledger.files
      BY <1>1, <1>3 DEF validateApplied, Refuse, ProcessSound, Locked
    <2>2. PICK me \in ProcessState : me = At(p, "applying")
      BY StepOf DEF Locked
    <2>3. me.step = "applying" /\ me.next = 1 /\ me.applied = ledger.files /\ process' = [process EXCEPT ![p] = me]
      BY <2>1, <2>2, StepOf DEF Locked
    <2>4. Executed(p, 1) = {}
      BY DEF Executed
    <2>5. ProcessSound(p, me)'
      BY <1>2, <2>1, <2>3, <2>4 DEF ProcessSound
    <2> QED
      BY <2>1, <2>3, <2>5, OneProcess
  <1>4. CASE applyOne(p)
    <2> DEFINE n == process[p].next
               f == Build[p][n]
    <2>1. /\ holder = p /\ n \in 1..Len(Build[p]) /\ process[p].applied \subseteq FilesOf(p)
          /\ ledger.files = process[p].applied \cup Executed(p, n) /\ process[p].step = "applying"
      BY <1>1, <1>2, <1>4 DEF applyOne, Remaining, ProcessSound, Locked
    <2>2. \A x : x \in Executed(p, n + 1) <=> x \in Executed(p, n) \/ x = f
      <3>1. n \in Nat /\ \A i : i \in 1..(n + 1 - 1) <=> i \in 1..(n - 1) \/ i = n
        BY <2>1
      <3> HIDE DEF n
      <3> QED
        BY <3>1 DEF Executed
    <2>3. PICK me \in ProcessState : me = [process[p] EXCEPT !.next = n + 1]
      <3>1. n + 1 \in Nat
        BY <2>1
      <3> QED
        BY <1>1, <3>1 DEF ProcessState
    <2>4. /\ me.next = n + 1 /\ me.applied = process[p].applied /\ me.step = "applying"
          /\ [process EXCEPT ![p].next = @ + 1] = [process EXCEPT ![p] = me]
      BY <1>1, <2>1, <2>3 DEF ProcessState
    <2>5. CASE f.version \in Versions(process[p].applied)
      <3>1. PICK g \in process[p].applied : g.version = f.version
        BY <2>5 DEF Versions
      <3>2. f \in process[p].applied
        BY <1>2, <2>1, <3>1 DEF FilesOf
      <3>3. process' = [process EXCEPT ![p] = me] /\ UNCHANGED <<ledger, schema, holder>>
        BY <1>4, <2>4, <2>5 DEF applyOne
      <3>4. ledger.files = me.applied \cup Executed(p, n + 1)
        BY <2>1, <2>2, <2>4, <3>2
      <3>5. n + 1 \in 1..(Len(Build[p]) + 1)
        BY <1>2, <2>1
      <3> HIDE DEF n
      <3>6. ProcessSound(p, me)'
        BY <2>1, <2>4, <3>3, <3>4, <3>5 DEF ProcessSound
      <3> QED
        BY <3>3, <3>6, OneProcess
    <2>6. CASE f.version \notin Versions(process[p].applied)
      <3>1. f.version \notin Versions(ledger.files)
        <4>1. \A i \in 1..(n - 1) : Build[p][i].version # f.version
          BY <1>2, <2>1
        <4> QED
          BY <2>1, <2>6, <4>1 DEF Versions, Executed
      <3>2. Commit(f) => Commits(p)
        BY <1>2, <2>1, <3>1 DEF Commits
      <3>3. \/ Commit(f) /\ process' = [process EXCEPT ![p] = me] /\ UNCHANGED holder
            \/ Released(p) /\ Step(p, "failed") /\ (UNCHANGED <<ledger, schema>> \/ Commit(f))
        BY <1>4, <2>4, <2>6 DEF applyOne, Refuse
      <3>4. CASE Commit(f) /\ process' = [process EXCEPT ![p] = me] /\ UNCHANGED holder
        <4>1. ledger'.files = me.applied \cup Executed(p, n + 1)
          BY <2>1, <2>2, <2>4, <3>4 DEF Commit
        <4>2. n + 1 \in 1..(Len(Build[p]) + 1)
          BY <1>2, <2>1
        <4> HIDE DEF n, f
        <4>3. ProcessSound(p, me)'
          BY <2>1, <2>4, <3>4, <4>1, <4>2 DEF ProcessSound
        <4> QED
          BY <3>2, <3>4, <4>3, OneProcess
      <3> QED
        BY <3>2, <3>3, <3>4, RefuseStep
    <2> QED
      BY <2>5, <2>6
  <1>5. CASE Serve(p)
    <2>1. /\ holder = p /\ process[p].step = "applying" /\ ~Remaining(p) /\ Released(p) /\ Step(p, "serving")
          /\ UNCHANGED <<ledger, schema>>
      BY <1>1, <1>5 DEF Serve, ProcessSound, Locked
    <2>2. ledger.files = FilesOf(p)
      BY <1>1, <1>2, <2>1, AllExecuted
    <2>3. PICK me \in ProcessState : me = At(p, "serving") /\ me.step = "serving"
      BY StepOf
    <2>4. ProcessSound(p, me)'
      BY <2>1, <2>2, <2>3 DEF ProcessSound, Locked
    <2> QED
      BY <2>1, <2>3, <2>4, StepOf, OneProcess
  <1> QED
    BY <1>3, <1>4, <1>5, RefuseStep DEF validateApplied, Refuse

LEMMA MigrationsStep ==
  ASSUME SoundBuilds, MigrationsIInv, [MigrationsNext]_migrationVars PROVE MigrationsIInv'
  <1>1. CASE UNCHANGED migrationVars
    <2>1. ledger' = ledger /\ schema' = schema /\ holder' = holder /\ process' = process
      BY <1>1 DEF migrationVars
    <2>2. LedgerSound'
      BY <2>1 DEF MigrationsIInv, LedgerSound, MigratedOnce
    <2>3. ASSUME NEW p \in Processes PROVE ProcessSound(p, process[p])'
      BY <2>1 DEF MigrationsIInv, ProcessSound
    <2> QED
      BY <2>1, <2>2, <2>3 DEF MigrationsIInv
  <1>2. CASE MigrationsNext
    BY <1>2, LockSteps, ApplySteps DEF MigrationsNext
  <1> QED
    BY <1>1, <1>2

LEMMA MigrationsSound == ASSUME SoundBuilds, MigrationsIInv PROVE MigratedOnce /\ ServesOwnSchema
  <1>1. ASSUME NEW p \in Processes PROVE /\ process[p].step = "serving" => FilesOf(p) \subseteq ledger.files
                                         /\ process[p].step = "applying" /\ ~Remaining(p) => ledger.files = FilesOf(p)
    <2>1. process[p] \in ProcessState /\ ProcessSound(p, process[p])
      BY DEF MigrationsIInv
    <2> QED
      BY <2>1, AllExecuted DEF ProcessSound
  <1> QED
    BY <1>1 DEF MigrationsIInv, LedgerSound, ServesOwnSchema

\* docs/014: however many processes of whatever builds start, migrate, fail and end,
\* a version is executed once and the ledger tells what was executed; none serves on
\* a schema that lacks one of its migrations (applyMigrations in db.go).
THEOREM SchemaMigratedOnce ==
  ASSUME SoundBuilds PROVE MigrationsSpec => [](MigratedOnce /\ ServesOwnSchema)
  <1>1. MigrationsInit => MigrationsIInv
    BY MigrationsStart
  <1>2. MigrationsIInv /\ [MigrationsNext]_migrationVars => MigrationsIInv'
    BY MigrationsStep
  <1>3. MigrationsIInv => MigratedOnce /\ ServesOwnSchema
    BY MigrationsSound
  <1> QED
    BY <1>1, <1>2, <1>3, PTL DEF MigrationsSpec
-----------------------------------------------------------------------------
(* The life of a server.                                                    *)

LifeSpec == LifeInit /\ [][LifeNext]_lifeVars

LifeSteps == {"serving", "draining", "scheduler", "workers", "closing", "closed"}
LifeTypes ==
  /\ main \in LifeSteps /\ handlers \in Nat /\ workers \subseteq Workers
  /\ cron \in {"on", "stopping", "stopped"}
  /\ running \in [Jobs -> BOOLEAN] /\ runs \in [Jobs -> {0, 1}]
\* The flag of wrap is the run under way, and Stop has waited for all of them.
RunsSound ==
  /\ \A j \in Jobs : running[j] <=> runs[j] = 1
  /\ cron = "stopped" => \A j \in Jobs : runs[j] = 0
\* What shutdown has waited for is gone, or it has noted that it gave up.
ShutdownSound ==
  /\ cron = "on" <=> main \in {"serving", "draining"}
  /\ main \in {"scheduler", "workers", "closing", "closed"} => handlers = 0 \/ "drain" \in errors
  /\ main \in {"workers", "closing", "closed"} => cron = "stopped" \/ "timeout" \in errors
  /\ main \in {"closing", "closed"} => workers = {} \/ "timeout" \in errors
LifeIInv == LifeTypes /\ RunsSound /\ ShutdownSound

LEMMA LifeStart == ASSUME LifeInit PROVE LifeIInv
  BY DEF LifeInit, LifeIInv, LifeTypes, LifeSteps, RunsSound, ShutdownSound

LEMMA LifeStep == ASSUME LifeIInv, [LifeNext]_lifeVars PROVE LifeIInv'
  <1> USE DEF LifeIInv, LifeTypes, LifeSteps
  <1>1. CASE UNCHANGED lifeVars
    BY <1>1 DEF lifeVars, RunsSound, ShutdownSound
  <1>2. CASE Request \/ Answer
    BY <1>2 DEF Request, Answer, RunsSound, ShutdownSound
  <1>3. CASE RunEnds
    BY <1>3 DEF RunEnds, RunsSound, ShutdownSound
  <1>4. CASE Drain
    BY <1>4 DEF Drain, RunsSound, ShutdownSound
  <1>5. CASE StopScheduler
    BY <1>5 DEF StopScheduler, RunsSound, ShutdownSound
  <1>6. CASE AwaitScheduler
    BY <1>6 DEF AwaitScheduler, RunsSound, ShutdownSound
  <1>7. CASE AwaitWorkers \/ CloseDatabase
    BY <1>7 DEF AwaitWorkers, CloseDatabase, RunsSound, ShutdownSound
  <1>8. ASSUME NEW j \in Jobs, Fire(j) PROVE LifeIInv'
    <2>1. cron = "on" /\ runs[j] = 0 /\ running' = [running EXCEPT ![j] = TRUE] /\ runs' = [runs EXCEPT ![j] = @ + 1]
      BY <1>8 DEF Fire, RunsSound
    <2>2. /\ running' \in [Jobs -> BOOLEAN] /\ runs' \in [Jobs -> {0, 1}] /\ runs'[j] = 1 /\ running'[j] = TRUE
          /\ \A i \in Jobs \ {j} : runs'[i] = runs[i] /\ running'[i] = running[i]
      BY <2>1
    <2>3. RunsSound'
      BY <1>8, <2>1, <2>2 DEF Fire, RunsSound
    <2> QED
      BY <1>8, <2>2, <2>3 DEF Fire, ShutdownSound
  <1>9. ASSUME NEW j \in Jobs, JobEnds(j) PROVE LifeIInv'
    <2>1. runs[j] = 1 /\ running' = [running EXCEPT ![j] = FALSE] /\ runs' = [runs EXCEPT ![j] = @ - 1]
      BY <1>9 DEF JobEnds
    <2>2. /\ running' \in [Jobs -> BOOLEAN] /\ runs' \in [Jobs -> {0, 1}] /\ runs'[j] = 0 /\ running'[j] = FALSE
          /\ \A i \in Jobs \ {j} : runs'[i] = runs[i] /\ running'[i] = running[i]
      BY <2>1
    <2>3. RunsSound'
      BY <1>9, <2>1, <2>2 DEF JobEnds, RunsSound
    <2> QED
      BY <1>9, <2>2, <2>3 DEF JobEnds, ShutdownSound
  <1>10. ASSUME NEW w \in Workers, WorkerEnds(w) PROVE LifeIInv'
    BY <1>10 DEF WorkerEnds, RunsSound, ShutdownSound
  <1> QED
    BY <1>1, <1>2, <1>3, <1>4, <1>5, <1>6, <1>7, <1>8, <1>9, <1>10 DEF LifeNext

LEMMA LifeSound == ASSUME LifeIInv PROVE NothingUsedAfterClose /\ OneRunPerJob
  BY DEF LifeIInv, LifeTypes, RunsSound, ShutdownSound, NothingUsedAfterClose, OneRunPerJob

\* docs/015: with any number of requests, workers and jobs, a process that ends without
\* reporting that a wait timed out has closed the database under nobody (App.shutdown),
\* and a job never runs beside itself nor starts after the stop (CronScheduler.wrap).
THEOREM ShutdownInOrder == LifeSpec => [](NothingUsedAfterClose /\ OneRunPerJob)
  <1>1. LifeInit => LifeIInv
    BY LifeStart
  <1>2. LifeIInv /\ [LifeNext]_lifeVars => LifeIInv'
    BY LifeStep
  <1>3. LifeIInv => NothingUsedAfterClose /\ OneRunPerJob
    BY LifeSound
  <1> QED
    BY <1>1, <1>2, <1>3, PTL DEF LifeSpec
-----------------------------------------------------------------------------
(* Provider failover.                                                       *)

ProvidersSpec == ProvidersInit /\ [][ProvidersNext]_providerVars

\* The profile and the limits of embedding; a caller and a text have names of their own.
SoundProfile ==
  /\ "none" \notin Callers /\ "none" \notin Texts
  /\ Endpoints \in Seq(Names) /\ CircuitLimit \in Nat \ {0} /\ CircuitDelay \in Nat
  /\ Timeout \in Nat /\ RetryAfters \subseteq Nat

CallState == [step : {"idle", "missed", "waiting", "trying", "calling"}, text : Texts \cup {"none"},
              at : Nat \ {0}, now : Nat, since : Nat, asked : Nat]
Span == [from : Nat, till : Int]
ProvidersTypes ==
  /\ clock \in Nat /\ cached \in [lru : SUBSET Texts, rows : SUBSET Texts] /\ cached.rows \subseteq cached.lru
  /\ circuits \in [Names -> [failures : Nat, until : Nat]] /\ cooldowns \in [Names -> Nat]
  /\ calls \in [Callers -> CallState] /\ leaders \in [Texts -> Callers \cup {"none"}]
  /\ answered \in [Texts -> Nat] /\ streaks \in [Names -> Nat]
  /\ spared \in [Names -> [circuit : Span, limit : Span]]

\* What a batch that tries its provider number at may have taken before.
Spent(at) == Timeout * (at - 1)
Begun(span, now) == span.from < now /\ now < span.till

\* Who leads a flight has not had its answer; its batch takes no longer than its calls.
CallSound(c, me) ==
  /\ me.step # "idle" => me.text \in Texts
  /\ me.step = "missed" => me.at = 1
  /\ me.step = "waiting" => leaders[me.text] # "none"
  /\ me.step \in {"trying", "calling"} => leaders[me.text] = c /\ me.text \notin cached.lru /\ me.now <= clock
  /\ me.step = "trying" => clock <= me.now + Spent(me.at)
  /\ me.step = "calling" =>
       /\ me.at \in DOMAIN Endpoints /\ me.since <= me.now + Spent(me.at) /\ clock <= me.since + Timeout
       /\ LET p == Endpoints[me.at] IN ~Begun(spared[p].circuit, me.now) /\ ~Begun(spared[p].limit, me.now)
\* The circuit and the cool-down of p last at least as long as p is to be left alone.
ProviderSound(p) ==
  /\ circuits[p].failures = streaks[p] /\ streaks[p] < CircuitLimit
  /\ spared[p].circuit.till <= circuits[p].until /\ spared[p].limit.till <= cooldowns[p]
AnswerSound(t) == answered[t] = 0 \/ (answered[t] = 1 /\ t \in cached.lru)
ProvidersIInv ==
  /\ ProvidersTypes
  /\ \A c \in Callers : CallSound(c, calls[c])
  /\ \A p \in Names : ProviderSound(p)
  /\ \A t \in Texts : AnswerSound(t)

LEMMA EndpointNames == \A at \in DOMAIN Endpoints : Endpoints[at] \in Names
  BY DEF Names

LEMMA SpentAt ==
  ASSUME SoundProfile
  PROVE  /\ Spent(1) = 0
         /\ \A at \in Nat \ {0} : Spent(at) \in Nat /\ Spent(at + 1) \in Nat /\ Spent(at + 1) = Spent(at) + Timeout
         /\ \A at \in DOMAIN Endpoints : at \in Nat \ {0} /\ Spent(at) + Timeout <= Timeout * Len(Endpoints)
                                         /\ Timeout * Len(Endpoints) \in Nat
  <1>1. Timeout \in Nat /\ Len(Endpoints) \in Nat /\ DOMAIN Endpoints = 1..Len(Endpoints)
    BY DEF SoundProfile
  <1>2. Spent(1) = 0
    BY <1>1 DEF Spent
  <1>3. ASSUME NEW at \in Nat \ {0} PROVE Spent(at) \in Nat /\ Spent(at + 1) \in Nat /\ Spent(at + 1) = Spent(at) + Timeout
    <2>1. PICK n \in Nat : at = n + 1
      <3>1. at - 1 \in Nat /\ at = (at - 1) + 1
        OBVIOUS
      <3> QED
        BY <3>1
    <2>2. Timeout * n \in Nat /\ Timeout * (n + 1) = Timeout * n + Timeout
      BY <1>1, <2>1
    <2>3. at - 1 = n /\ at + 1 - 1 = n + 1
      BY <2>1
    <2> QED
      BY <1>1, <2>2, <2>3 DEF Spent
  <1>4. ASSUME NEW at \in DOMAIN Endpoints PROVE Spent(at) + Timeout <= Timeout * Len(Endpoints) /\ Timeout * Len(Endpoints) \in Nat
    <2>1. PICK d \in Nat : Len(Endpoints) = at + d
      <3>1. Len(Endpoints) - at \in Nat /\ Len(Endpoints) = at + (Len(Endpoints) - at)
        BY <1>1
      <3> QED
        BY <3>1
    <2>2. Timeout * (at + d) = Timeout * at + Timeout * d /\ Timeout * d \in Nat /\ Timeout * at \in Nat
      BY <1>1
    <2>3. Spent(at) + Timeout = Timeout * at
      BY <1>1, <1>3 DEF Spent
    <2> QED
      BY <2>1, <2>2, <2>3
  <1>5. \A at \in DOMAIN Endpoints : at \in Nat \ {0}
    BY <1>1
  <1> QED
    BY <1>2, <1>3, <1>4, <1>5

LEMMA ProvidersStart == ASSUME SoundProfile, ProvidersInit PROVE ProvidersIInv
  <1>1. ProvidersTypes
    BY DEF ProvidersInit, ProvidersTypes, Closed, NoSpan, Span, Idle, CallState
  <1>2. \A c \in Callers : CallSound(c, calls[c])
    BY DEF ProvidersInit, CallSound, Idle
  <1>3. \A p \in Names : ProviderSound(p)
    BY DEF ProvidersInit, ProviderSound, Closed, NoSpan, SoundProfile
  <1> QED
    BY <1>1, <1>2, <1>3 DEF ProvidersInit, ProvidersIInv, AnswerSound
\* No batch under way meets a new pause: it began before.
Calm == \A p \in Names : \A now \in 0..clock :
          /\ Begun(spared[p].circuit, now)' => Begun(spared[p].circuit, now)
          /\ Begun(spared[p].limit, now)' => Begun(spared[p].limit, now)
Steady == clock' = clock /\ Calm

\* A caller that nobody else's step moves keeps what it relies on.
LEMMA Unmoved ==
  ASSUME SoundProfile, ProvidersIInv, Steady, NEW d \in Callers, calls'[d] = calls[d],
         calls[d].step \in {"waiting", "trying", "calling"} =>
           /\ leaders[calls[d].text] # "none" => leaders'[calls[d].text] = leaders[calls[d].text]
           /\ calls[d].text \in cached'.lru => calls[d].text \in cached.lru
  PROVE  CallSound(d, calls[d])'
  <1> DEFINE me == calls[d]
  <1>1. me \in CallState /\ CallSound(d, me) /\ clock \in Nat
    BY DEF ProvidersIInv, ProvidersTypes
  <1>2. ASSUME me.step = "calling" PROVE Endpoints[me.at] \in Names /\ me.now \in 0..clock
    <2>1. me.at \in DOMAIN Endpoints /\ me.now \in Nat /\ me.now <= clock
      BY <1>1, <1>2 DEF CallSound, CallState
    <2> QED
      BY <1>1, <2>1, EndpointNames
  <1>4. ASSUME me.step = "calling" PROVE LET p == Endpoints[me.at] IN ~Begun(spared[p].circuit, me.now)' /\ ~Begun(spared[p].limit, me.now)'
    BY <1>1, <1>2, <1>4 DEF CallSound, Steady, Calm
  <1> QED
    BY <1>1, <1>4 DEF CallSound, SoundProfile, Steady

LEMMA OneCall ==
  ASSUME SoundProfile, ProvidersIInv, Steady, NEW c \in Callers, NEW me \in CallState, calls' = [calls EXCEPT ![c] = me],
         cached'.lru = cached.lru, \A t \in Texts : leaders[t] # "none" => leaders'[t] = leaders[t], CallSound(c, me)'
  PROVE  \A d \in Callers : CallSound(d, calls[d])'
  <1>1. calls'[c] = me /\ \A d \in Callers \ {c} : calls'[d] = calls[d]
    BY DEF ProvidersIInv, ProvidersTypes
  <1>2. ASSUME NEW d \in Callers \ {c} PROVE CallSound(d, calls[d])'
    <2>1. calls[d].step \in {"waiting", "trying", "calling"} => calls[d].text \in Texts
      BY DEF ProvidersIInv, CallSound
    <2> QED
      BY <1>1, <2>1, Unmoved
  <1>3. CallSound(c, calls[c])'
    BY <1>1 DEF CallSound
  <1> QED
    BY <1>2, <1>3

\* What Ended does: whoever waits for t is released, and nobody else hears of it.
LEMMA FlightEnds ==
  ASSUME SoundProfile, ProvidersIInv, Steady, NEW t \in Texts, Ended(t),
         cached'.lru \subseteq cached.lru \cup {t}
  PROVE  /\ calls' \in [Callers -> CallState] /\ leaders' \in [Texts -> Callers \cup {"none"}]
         /\ \A d \in Callers : CallSound(d, calls[d])'
  <1>1. \A d \in Callers : calls[d] \in CallState /\ CallSound(d, calls[d])
    BY DEF ProvidersIInv, ProvidersTypes
  <1>2. \A d \in Callers : Idle(calls[d].asked) \in CallState /\ Idle(calls[d].asked).step = "idle"
    BY <1>1 DEF Idle, CallState
  <1>3. \A d \in Callers : calls'[d] = IF calls[d].text = t /\ calls[d].step # "missed" THEN Idle(calls[d].asked) ELSE calls[d]
    BY DEF Ended
  <1>4. leaders' \in [Texts -> Callers \cup {"none"}] /\ \A u \in Texts \ {t} : leaders'[u] = leaders[u]
    BY DEF Ended, ProvidersIInv, ProvidersTypes
  <1>5. calls' \in [Callers -> CallState]
    BY <1>1, <1>2 DEF Ended
  <1>6. ASSUME NEW d \in Callers PROVE CallSound(d, calls[d])'
    <2>1. CASE calls[d].text = t /\ calls[d].step # "missed"
      <3>1. calls'[d].step = "idle"
        BY <1>2, <1>3, <2>1
      <3> QED
        BY <3>1 DEF CallSound
    <2>2. CASE ~(calls[d].text = t /\ calls[d].step # "missed")
      <3>1. calls'[d] = calls[d]
        BY <1>3, <2>2
      <3>2. calls[d].step \in {"waiting", "trying", "calling"} => calls[d].text \in Texts \ {t}
        BY <1>1, <2>2 DEF CallSound
      <3> QED
        BY <1>4, <3>1, <3>2, Unmoved
    <2> QED
      BY <2>1, <2>2
  <1> QED
    BY <1>4, <1>5, <1>6

\* A step of one caller that neither asks a provider nor hears from one.
LEMMA QuietCall ==
  ASSUME SoundProfile, ProvidersIInv, UNCHANGED <<clock, circuits, cooldowns, cached, answered, streaks, spared>>,
         NEW c \in Callers, NEW me \in CallState, calls' = [calls EXCEPT ![c] = me], CallSound(c, me)',
         leaders' \in [Texts -> Callers \cup {"none"}], \A t \in Texts : leaders[t] # "none" => leaders'[t] = leaders[t]
  PROVE  ProvidersIInv'
  <1>1. Steady
    BY DEF Steady, Calm, Begun
  <1>2. \A d \in Callers : CallSound(d, calls[d])'
    BY <1>1, OneCall
  <1>3. ProvidersTypes'
    BY DEF ProvidersIInv, ProvidersTypes
  <1> QED
    BY <1>2, <1>3 DEF ProvidersIInv, ProviderSound, AnswerSound

LEMMA AskStep ==
  ASSUME SoundProfile, ProvidersIInv, NEW c \in Callers, NEW t \in Texts, Ask(c, t) PROVE ProvidersIInv'
  <1>1. /\ leaders' = leaders /\ leaders \in [Texts -> Callers \cup {"none"}] /\ calls[c] \in CallState
        /\ UNCHANGED <<clock, circuits, cooldowns, answered, streaks, spared>>
    BY DEF ProvidersIInv, ProvidersTypes, Ask
  <1>5. cached' = cached
    <2>1. cached \in [lru : SUBSET Texts, rows : SUBSET Texts] /\ cached.rows \subseteq cached.lru
      BY DEF ProvidersIInv, ProvidersTypes
    <2>2. t \in cached.lru \cup cached.rows => cached.lru \cup {t} = cached.lru
      BY <2>1
    <2>3. [cached EXCEPT !.lru = cached.lru] = cached
      BY <2>1
    <2> QED
      BY <2>2, <2>3 DEF Ask
  <1>2. calls[c].asked + 1 \in Nat
    BY <1>1 DEF CallState
  <1>3. PICK me \in CallState : /\ calls' = [calls EXCEPT ![c] = me] /\ me.step \in {"idle", "missed"} /\ me.at = 1
                                /\ me.step = "missed" => me.text \in Texts
    <2>1. CASE calls' = [calls EXCEPT ![c] = Idle(@.asked + 1)]
      <3>1. Idle(calls[c].asked + 1) \in CallState /\ Idle(calls[c].asked + 1).step = "idle" /\ Idle(calls[c].asked + 1).at = 1
        BY <1>2 DEF Idle, CallState
      <3> QED
        BY <2>1, <3>1
    <2>2. CASE calls' = [calls EXCEPT ![c] = [Idle(@.asked + 1) EXCEPT !.step = "missed", !.text = t]]
      <3>1. PICK idle \in CallState : idle = Idle(calls[c].asked + 1) /\ idle.at = 1
        <4>1. Idle(calls[c].asked + 1) \in CallState /\ Idle(calls[c].asked + 1).at = 1
          BY <1>2 DEF Idle, CallState
        <4> QED
          BY <4>1
      <3>2. PICK me \in CallState : me = [idle EXCEPT !.step = "missed", !.text = t]
        BY DEF CallState
      <3>3. me.step = "missed" /\ me.at = 1 /\ me.text = t
        BY <3>1, <3>2 DEF CallState
      <3>4. calls' = [calls EXCEPT ![c] = me]
        BY <2>2, <3>1, <3>2
      <3> QED
        BY <3>3, <3>4
    <2> QED
      BY <2>1, <2>2 DEF Ask
  <1>4. CallSound(c, me)'
    BY <1>3 DEF CallSound
  <1> QED
    BY <1>1, <1>3, <1>4, <1>5, QuietCall

LEMMA MissesStep ==
  ASSUME SoundProfile, ProvidersIInv, NEW c \in Callers, embedMisses(c) PROVE ProvidersIInv'
  <1>1. /\ ProvidersTypes /\ calls[c] \in CallState /\ CallSound(c, calls[c])
        /\ calls[c].step = "missed" /\ calls[c].text \in Texts /\ calls[c].at = 1
    BY DEF ProvidersIInv, ProvidersTypes, CallSound, embedMisses
  <1> DEFINE t == calls[c].text
  <1>2. CASE leaders[t] # "none"
    <2>1. PICK me \in CallState : me = [calls[c] EXCEPT !.step = "waiting"]
      BY <1>1 DEF CallState
    <2>2. calls' = [calls EXCEPT ![c] = me] /\ leaders' = leaders /\ me.step = "waiting" /\ me.text = t
      BY <1>1, <1>2, <2>1 DEF embedMisses, CallState
    <2>3. CallSound(c, me)'
      BY <1>1, <1>2, <2>2 DEF CallSound
    <2> QED
      BY <1>1, <2>2, <2>3, QuietCall DEF embedMisses, ProvidersTypes
  <1>3. CASE leaders[t] = "none" /\ t \in cached.lru
    <2>1. PICK me \in CallState : me = Idle(calls[c].asked) /\ me.step = "idle"
      <3>1. Idle(calls[c].asked) \in CallState /\ Idle(calls[c].asked).step = "idle"
        BY <1>1 DEF CallState, Idle
      <3> QED
        BY <3>1
    <2>2. calls' = [calls EXCEPT ![c] = me] /\ leaders' = leaders
      BY <1>1, <1>3, <2>1 DEF embedMisses
    <2>3. CallSound(c, me)'
      BY <2>1 DEF CallSound
    <2> QED
      BY <1>1, <2>2, <2>3, QuietCall DEF embedMisses, ProvidersTypes
  <1>4. CASE leaders[t] = "none" /\ t \notin cached.lru
    <2>1. PICK me \in CallState : me = [calls[c] EXCEPT !.step = "trying", !.now = clock]
      BY <1>1 DEF CallState, ProvidersTypes
    <2>2. /\ calls' = [calls EXCEPT ![c] = me] /\ leaders' = [leaders EXCEPT ![t] = c]
          /\ me.step = "trying" /\ me.text = t /\ me.now = clock /\ me.at = 1
      BY <1>1, <1>4, <2>1 DEF embedMisses, CallState
    <2>3. /\ leaders'[t] = c /\ leaders' \in [Texts -> Callers \cup {"none"}] /\ clock' = clock /\ clock \in Nat /\ cached' = cached
          /\ \A u \in Texts : leaders[u] # "none" => leaders'[u] = leaders[u]
      BY <1>1, <1>4, <2>2 DEF embedMisses, ProvidersTypes
    <2>4. me.now <= clock' /\ clock' <= me.now + Spent(me.at)
      BY <2>2, <2>3, SpentAt
    <2>5. me.text \in Texts /\ leaders'[me.text] = c /\ me.text \notin cached'.lru /\ me.step = "trying"
      BY <1>1, <1>4, <2>2, <2>3
    <2>6. CallSound(c, me)'
      BY <2>4, <2>5 DEF CallSound, Spent
    <2> QED
      BY <2>2, <2>3, <2>6, QuietCall DEF embedMisses
  <1> QED
    BY <1>2, <1>3, <1>4
\* A step with which the flight for t ends.
LEMMA FlightOver ==
  ASSUME SoundProfile, ProvidersIInv, Steady, NEW t \in Texts, Ended(t),
         cached' \in [lru : SUBSET Texts, rows : SUBSET Texts], cached'.rows \subseteq cached'.lru,
         cached.lru \subseteq cached'.lru, cached'.lru \subseteq cached.lru \cup {t},
         circuits' \in [Names -> [failures : Nat, until : Nat]], cooldowns' \in [Names -> Nat],
         streaks' \in [Names -> Nat], spared' \in [Names -> [circuit : Span, limit : Span]],
         \A p \in Names : ProviderSound(p)',
         answered' = answered \/ (answered[t] = 0 /\ t \in cached'.lru /\ answered' = [answered EXCEPT ![t] = @ + 1])
  PROVE  ProvidersIInv'
  <1>1. /\ calls' \in [Callers -> CallState] /\ leaders' \in [Texts -> Callers \cup {"none"}]
        /\ \A d \in Callers : CallSound(d, calls[d])'
    BY FlightEnds
  <1>2. answered' \in [Texts -> Nat] /\ \A u \in Texts : AnswerSound(u)'
    <2>1. answered \in [Texts -> Nat] /\ \A u \in Texts : AnswerSound(u)
      BY DEF ProvidersIInv, ProvidersTypes
    <2>2. CASE answered' = answered
      BY <2>1, <2>2 DEF AnswerSound
    <2>3. CASE answered[t] = 0 /\ t \in cached'.lru /\ answered' = [answered EXCEPT ![t] = @ + 1]
      <3>1. answered' \in [Texts -> Nat] /\ answered'[t] = 1 /\ \A u \in Texts \ {t} : answered'[u] = answered[u]
        BY <2>1, <2>3
      <3> QED
        BY <2>1, <2>3, <3>1 DEF AnswerSound
    <2> QED
      BY <2>2, <2>3
  <1>3. ProvidersTypes'
    BY <1>1, <1>2 DEF ProvidersIInv, ProvidersTypes, Steady
  <1> QED
    BY <1>1, <1>2, <1>3 DEF ProvidersIInv

LEMMA NothingHeard ==
  ASSUME SoundProfile, ProvidersIInv, NEW t \in Texts, Ended(t),
         UNCHANGED <<clock, circuits, cooldowns, cached, answered, streaks, spared>>
  PROVE  ProvidersIInv'
  <1>1. Steady
    BY DEF Steady, Calm, Begun
  <1>2. \A p \in Names : ProviderSound(p)'
    BY DEF ProvidersIInv, ProviderSound
  <1> QED
    BY <1>1, <1>2, FlightOver DEF ProvidersIInv, ProvidersTypes

LEMMA NextProviderStep ==
  ASSUME SoundProfile, ProvidersIInv, NEW c \in Callers, NextProvider(c) PROVE ProvidersIInv'
  <1>1. /\ ProvidersTypes /\ calls[c] \in CallState /\ CallSound(c, calls[c])
        /\ calls[c].step = "trying" /\ calls[c].text \in Texts
        /\ UNCHANGED <<clock, circuits, cooldowns, cached, answered, streaks, spared>>
    BY DEF ProvidersIInv, ProvidersTypes, CallSound, NextProvider
  <1>2. /\ clock \in Nat /\ calls[c].now \in Nat /\ calls[c].at \in Nat \ {0} /\ leaders[calls[c].text] = c
        /\ calls[c].text \notin cached.lru /\ calls[c].now <= clock /\ clock <= calls[c].now + Spent(calls[c].at)
        /\ leaders \in [Texts -> Callers \cup {"none"}]
    BY <1>1 DEF CallSound, CallState, ProvidersTypes
  <1>3. CASE calls[c].at \notin DOMAIN Endpoints
    BY <1>1, <1>3, NothingHeard DEF NextProvider
  <1>4. CASE calls[c].at \in DOMAIN Endpoints /\ providerBlocked(Endpoint(c), calls[c].now)
    <2>1. PICK me \in CallState : me = [calls[c] EXCEPT !.at = calls[c].at + 1]
      <3>1. calls[c].at + 1 \in Nat \ {0}
        BY <1>2
      <3> QED
        BY <1>1, <3>1 DEF CallState
    <2>2. calls' = [calls EXCEPT ![c] = me] /\ leaders' = leaders
      BY <1>4, <1>1, <2>1 DEF NextProvider
    <2>3. me.step = "trying" /\ me.text = calls[c].text /\ me.now = calls[c].now /\ me.at = calls[c].at + 1
      BY <1>1, <2>1 DEF CallState
    <2>4. clock <= me.now + Spent(me.at)
      <3>1. Spent(me.at) = Spent(calls[c].at) + Timeout /\ Spent(calls[c].at) \in Nat /\ Timeout \in Nat
        BY <1>2, <2>3, SpentAt DEF SoundProfile
      <3> QED
        BY <1>2, <2>3, <3>1
    <2>5. CallSound(c, me)'
      BY <1>1, <1>2, <2>2, <2>3, <2>4 DEF CallSound
    <2> QED
      BY <1>1, <1>2, <2>2, <2>5, QuietCall
  <1>5. CASE calls[c].at \in DOMAIN Endpoints /\ ~providerBlocked(Endpoint(c), calls[c].now)
    <2>1. PICK me \in CallState : me = [calls[c] EXCEPT !.step = "calling", !.since = clock]
      BY <1>1, <1>2 DEF CallState
    <2>2. calls' = [calls EXCEPT ![c] = me] /\ leaders' = leaders
      BY <1>5, <1>1, <2>1 DEF NextProvider
    <2>3. /\ me.step = "calling" /\ me.text = calls[c].text /\ me.now = calls[c].now /\ me.at = calls[c].at
          /\ me.since = clock
      BY <1>1, <2>1 DEF CallState
    <2> DEFINE p == Endpoints[me.at]
    <2>4. ~Begun(spared[p].circuit, me.now) /\ ~Begun(spared[p].limit, me.now)
      <3>1. p \in Names
        BY <1>5, <2>3, EndpointNames
      <3>2. ~(circuits[p].until > me.now) /\ ~(cooldowns[p] > me.now)
        BY <1>5, <2>3 DEF providerBlocked, Endpoint
      <3>3. circuits[p].until \in Nat /\ cooldowns[p] \in Nat /\ spared[p].circuit.till \in Int /\ spared[p].limit.till \in Int
        BY <1>1, <3>1 DEF ProvidersTypes, Span
      <3>4. spared[p].circuit.till <= circuits[p].until /\ spared[p].limit.till <= cooldowns[p]
        BY <3>1 DEF ProvidersIInv, ProviderSound
      <3> HIDE DEF p
      <3> QED
        BY <1>2, <2>3, <3>2, <3>3, <3>4 DEF Begun
    <2>5. CallSound(c, me)'
      <3>1. clock <= clock + Timeout
        BY <1>2 DEF SoundProfile
      <3>2. ~Begun(spared[p].circuit, me.now)' /\ ~Begun(spared[p].limit, me.now)'
        BY <1>1, <2>4 DEF Begun
      <3> QED
        BY <1>1, <1>2, <1>5, <2>2, <2>3, <3>1, <3>2 DEF CallSound
    <2> QED
      BY <1>1, <1>2, <2>2, <2>5, QuietCall
  <1> QED
    BY <1>3, <1>4, <1>5

\* What is known of a call under way.
LEMMA Calling ==
  ASSUME SoundProfile, ProvidersIInv, NEW c \in Callers, calls[c].step = "calling"
  PROVE  /\ calls[c] \in CallState /\ calls[c].text \in Texts /\ calls[c].at \in DOMAIN Endpoints /\ calls[c].at \in Nat \ {0}
         /\ leaders[calls[c].text] = c /\ calls[c].text \notin cached.lru /\ answered[calls[c].text] = 0
         /\ calls[c].now \in Nat /\ clock \in Nat /\ calls[c].now <= clock
         /\ clock <= calls[c].now + Spent(calls[c].at) + Timeout
         /\ Endpoint(c) \in Names /\ ProviderSound(Endpoint(c))
  <1>1. calls[c] \in CallState /\ CallSound(c, calls[c]) /\ clock \in Nat
    BY DEF ProvidersIInv, ProvidersTypes
  <1>2. /\ calls[c].text \in Texts /\ calls[c].at \in DOMAIN Endpoints /\ calls[c].at \in Nat \ {0}
        /\ leaders[calls[c].text] = c /\ calls[c].text \notin cached.lru /\ calls[c].now <= clock
        /\ calls[c].since <= calls[c].now + Spent(calls[c].at) /\ clock <= calls[c].since + Timeout
        /\ calls[c].now \in Nat /\ calls[c].since \in Nat
    BY <1>1 DEF CallSound, CallState
  <1>3. answered[calls[c].text] = 0
    BY <1>2 DEF ProvidersIInv, AnswerSound
  <1>4. clock <= calls[c].now + Spent(calls[c].at) + Timeout
    <2>1. Spent(calls[c].at) \in Nat /\ Timeout \in Nat
      BY <1>2, SpentAt DEF SoundProfile
    <2> QED
      BY <1>1, <1>2, <2>1
  <1>5. Endpoint(c) \in Names /\ ProviderSound(Endpoint(c))
    BY <1>2, EndpointNames DEF Endpoint, ProvidersIInv
  <1> QED
    BY <1>1, <1>2, <1>3, <1>4, <1>5
LEMMA SucceedsStep ==
  ASSUME SoundProfile, ProvidersIInv, NEW c \in Callers, Succeeds(c) PROVE ProvidersIInv'
  <1>1. PICK t \in Texts : /\ t = calls[c].text /\ answered[t] = 0
                           /\ cached' \in {[lru |-> cached.lru \cup {t}, rows |-> r] : r \in {cached.rows, cached.rows \cup {t}}}
                           /\ Ended(t) /\ answered' = [answered EXCEPT ![t] = @ + 1]
    BY Calling DEF Succeeds
  <1>2. PICK p \in Names : /\ p = Endpoint(c) /\ circuits' = [circuits EXCEPT ![p] = Closed] /\ UNCHANGED <<clock, cooldowns>>
                           /\ streaks' = [streaks EXCEPT ![p] = 0] /\ spared' = [spared EXCEPT ![p].circuit = NoSpan]
    BY Calling DEF Succeeds
  <1>3. ProvidersTypes /\ \A q \in Names : ProviderSound(q)
    BY DEF ProvidersIInv
  <1>4. /\ circuits' \in [Names -> [failures : Nat, until : Nat]] /\ cooldowns' \in [Names -> Nat]
        /\ streaks' \in [Names -> Nat] /\ spared' \in [Names -> [circuit : Span, limit : Span]]
    <2>1. Closed \in [failures : Nat, until : Nat] /\ NoSpan \in Span
      BY DEF Closed, NoSpan, Span
    <2>2. circuits' \in [Names -> [failures : Nat, until : Nat]] /\ cooldowns' \in [Names -> Nat] /\ streaks' \in [Names -> Nat]
      BY <1>2, <1>3, <2>1 DEF ProvidersTypes
    <2>3. spared' \in [Names -> [circuit : Span, limit : Span]]
      BY <1>2, <1>3, <2>1 DEF ProvidersTypes
    <2> QED
      BY <2>2, <2>3
  <1>5. /\ cached' \in [lru : SUBSET Texts, rows : SUBSET Texts] /\ cached'.rows \subseteq cached'.lru
        /\ cached'.lru = cached.lru \cup {t}
    BY <1>1, <1>3 DEF ProvidersTypes
  <1>6. /\ circuits'[p] = Closed /\ streaks'[p] = 0 /\ spared'[p].circuit = NoSpan /\ spared'[p].limit = spared[p].limit
        /\ \A q \in Names \ {p} : circuits'[q] = circuits[q] /\ streaks'[q] = streaks[q] /\ spared'[q] = spared[q]
    BY <1>2, <1>3 DEF ProvidersTypes
  <1>7. \A q \in Names : ProviderSound(q)'
    BY <1>2, <1>3, <1>6 DEF ProviderSound, Closed, NoSpan, SoundProfile
  <1>8. Steady
    BY <1>2, <1>3, <1>6 DEF Steady, Calm, Begun, NoSpan, ProvidersTypes
  <1> QED
    BY <1>1, <1>4, <1>5, <1>7, <1>8, FlightOver

\* Max is that of the community module FiniteSetsExt.
LEMMA MaxOfTwo == ASSUME NEW a \in Nat, NEW b \in Nat PROVE Max({a, b}) \in Nat /\ Max({a, b}) >= a /\ Max({a, b}) >= b
  <1>1. \E x \in {a, b} : \A y \in {a, b} : x >= y
    OBVIOUS
  <1> QED
    BY <1>1 DEF Max

LEMMA RateLimitedStep ==
  ASSUME SoundProfile, ProvidersIInv, NEW c \in Callers, RateLimited(c) PROVE ProvidersIInv'
  <1>1. PICK t \in Texts : t = calls[c].text /\ Ended(t)
    BY Calling DEF RateLimited
  <1>2. UNCHANGED <<clock, circuits, cached, answered, streaks>> /\ ProvidersTypes /\ \A q \in Names : ProviderSound(q)
    BY DEF RateLimited, ProvidersIInv
  <1>3. PICK p \in Names, retryAfter \in RetryAfters :
          /\ SaveCooldown(p, calls[c].now + retryAfter)
          /\ spared' = IF calls[c].now + retryAfter < spared[p].limit.till THEN spared
                       ELSE [spared EXCEPT ![p].limit = [from |-> clock, till |-> calls[c].now + retryAfter]]
    BY Calling DEF RateLimited
  <1>4. PICK until \in Nat : until = calls[c].now + retryAfter
    BY Calling DEF RateLimited, SoundProfile
  <1>5. clock \in Nat /\ cooldowns[p] \in Nat /\ spared[p].limit.till \in Int
    BY <1>2 DEF ProvidersTypes, Span
  <1>6. PICK most \in Nat : /\ cooldowns' = [cooldowns EXCEPT ![p] = most] /\ most >= cooldowns[p] /\ most >= until
    BY <1>3, <1>4, <1>5, MaxOfTwo DEF SaveCooldown
  <1>7. cooldowns' \in [Names -> Nat] /\ cooldowns'[p] = most /\ \A q \in Names \ {p} : cooldowns'[q] = cooldowns[q]
    BY <1>2, <1>6 DEF ProvidersTypes
  <1>8. PICK span \in Span : /\ span = spared[p].limit \/ span = [from |-> clock, till |-> until]
                             /\ spared' = [spared EXCEPT ![p].limit = span]
    <2>1. spared[p].limit \in Span /\ [from |-> clock, till |-> until] \in Span /\ [spared EXCEPT ![p].limit = spared[p].limit] = spared
      BY <1>2, <1>5 DEF ProvidersTypes, Span
    <2> QED
      BY <1>3, <1>4, <2>1
  <1>9. /\ spared' \in [Names -> [circuit : Span, limit : Span]]
        /\ spared'[p].limit = span /\ spared'[p].circuit = spared[p].circuit
        /\ \A q \in Names \ {p} : spared'[q] = spared[q]
    BY <1>2, <1>8 DEF ProvidersTypes
  <1>10. \A q \in Names : ProviderSound(q)'
    <2>1. ProviderSound(p)'
      BY <1>2, <1>5, <1>6, <1>7, <1>8, <1>9 DEF ProviderSound
    <2>2. \A q \in Names \ {p} : ProviderSound(q)'
      BY <1>2, <1>7, <1>9 DEF ProviderSound
    <2> QED
      BY <2>1, <2>2
  <1>11. Steady
    BY <1>2, <1>5, <1>8, <1>9 DEF Steady, Calm, Begun
  <1> QED
    BY <1>1, <1>2, <1>7, <1>9, <1>10, <1>11, FlightOver DEF ProvidersIInv, ProvidersTypes

LEMMA FallsBackStep ==
  ASSUME SoundProfile, ProvidersIInv, NEW c \in Callers, FallsBack(c) PROVE ProvidersIInv'
  <1>1. /\ UNCHANGED <<clock, cooldowns, cached, leaders, answered>> /\ ProvidersTypes
        /\ \A q \in Names : ProviderSound(q)
    BY DEF FallsBack, ProvidersIInv
  <1>2. PICK p \in Names : p = Endpoint(c)
    BY Calling DEF FallsBack
  <1>3. PICK me \in CallState : /\ calls' = [calls EXCEPT ![c] = me] /\ me.step = "trying" /\ me.at = calls[c].at + 1
                                /\ me.now = calls[c].now /\ me.text = calls[c].text
    <2>1. calls[c] \in CallState /\ calls[c].at + 1 \in Nat \ {0}
      BY Calling DEF FallsBack
    <2>2. PICK me \in CallState : me = [calls[c] EXCEPT !.step = "trying", !.at = calls[c].at + 1]
      BY <2>1 DEF CallState
    <2>3. calls' = [calls EXCEPT ![c] = me]
      BY <2>2 DEF FallsBack
    <2> QED
      BY <2>1, <2>2, <2>3 DEF CallState
  <1>4. CallSound(c, me)'
    <2>1. Spent(me.at) = Spent(calls[c].at) + Timeout /\ Spent(calls[c].at) \in Nat /\ Timeout \in Nat
      BY <1>3, Calling, SpentAt DEF FallsBack, SoundProfile
    <2>2. clock <= me.now + Spent(me.at)
      BY <1>3, <2>1, Calling DEF FallsBack
    <2> QED
      BY <1>1, <1>3, <2>2, Calling DEF CallSound, FallsBack
  <1> DEFINE trips == streaks[p] + 1 = CircuitLimit
             until == calls[c].now + CircuitDelay
             span == [from |-> clock, till |-> clock + CircuitDelay - Timeout * Len(Endpoints)]
  <1>5. /\ until \in Nat /\ span \in Span /\ span.from = clock /\ span.till <= until
    <2>1. Timeout * Len(Endpoints) \in Nat /\ Spent(calls[c].at) + Timeout <= Timeout * Len(Endpoints) /\ Spent(calls[c].at) \in Nat
      BY Calling, SpentAt DEF FallsBack
    <2>2. clock \in Nat /\ calls[c].now \in Nat /\ clock <= calls[c].now + Spent(calls[c].at) + Timeout
      BY Calling DEF FallsBack
    <2> QED
      BY <2>1, <2>2 DEF SoundProfile, Span
  <1>6. /\ streaks[p] \in Nat /\ circuits[p] \in [failures : Nat, until : Nat] /\ circuits[p].failures = streaks[p] /\ streaks[p] < CircuitLimit
        /\ CircuitLimit \in Nat \ {0}
    BY <1>1 DEF ProvidersTypes, ProviderSound, SoundProfile
  <1>7. /\ circuits' = [circuits EXCEPT ![p] = Failed(circuits[p], calls[c].now)]
        /\ streaks' = [streaks EXCEPT ![p] = IF trips THEN 0 ELSE streaks[p] + 1]
        /\ spared' = IF trips THEN [spared EXCEPT ![p].circuit = span] ELSE spared
    BY <1>2 DEF FallsBack
  <1>8. /\ Failed(circuits[p], calls[c].now) \in [failures : Nat, until : Nat]
        /\ trips => Failed(circuits[p], calls[c].now).failures = 0 /\ Failed(circuits[p], calls[c].now).until = until
        /\ ~trips => /\ Failed(circuits[p], calls[c].now).failures = streaks[p] + 1
                     /\ Failed(circuits[p], calls[c].now).until = circuits[p].until
    BY <1>5, <1>6 DEF Failed
  <1>9. /\ circuits' \in [Names -> [failures : Nat, until : Nat]] /\ streaks' \in [Names -> Nat]
        /\ spared' \in [Names -> [circuit : Span, limit : Span]]
    BY <1>1, <1>5, <1>6, <1>7, <1>8 DEF ProvidersTypes
  <1>10. /\ circuits'[p] = Failed(circuits[p], calls[c].now) /\ streaks'[p] = IF trips THEN 0 ELSE streaks[p] + 1
         /\ spared'[p].limit = spared[p].limit /\ spared'[p].circuit = IF trips THEN span ELSE spared[p].circuit
         /\ \A q \in Names \ {p} : circuits'[q] = circuits[q] /\ streaks'[q] = streaks[q] /\ spared'[q] = spared[q]
    BY <1>1, <1>7 DEF ProvidersTypes
  <1> HIDE DEF trips, until, span
  <1>11. \A q \in Names : ProviderSound(q)'
    <2>1. ProviderSound(p)'
      <3>1. streaks[p] + 1 = CircuitLimit <=> trips
        BY DEF trips
      <3> QED
        BY <1>1, <1>5, <1>6, <1>8, <1>10, <3>1 DEF ProviderSound
    <2>2. \A q \in Names \ {p} : ProviderSound(q)'
      BY <1>1, <1>10 DEF ProviderSound
    <2> QED
      BY <2>1, <2>2
  <1>12. Steady
    BY <1>1, <1>5, <1>10 DEF Steady, Calm, Begun, ProvidersTypes
  <1>13. \A d \in Callers : CallSound(d, calls[d])'
    BY <1>1, <1>3, <1>4, <1>12, OneCall
  <1>14. ProvidersTypes'
    BY <1>1, <1>3, <1>9 DEF ProvidersTypes
  <1> QED
    BY <1>1, <1>11, <1>13, <1>14 DEF ProvidersIInv, AnswerSound

LEMMA TickStep == ASSUME SoundProfile, ProvidersIInv, Tick PROVE ProvidersIInv'
  <1>1. /\ UNCHANGED <<circuits, cooldowns, cached, calls, leaders, answered, streaks, spared>>
        /\ clock \in Nat /\ clock' = clock + 1 /\ ProvidersTypes
    BY DEF Tick, ProvidersIInv, ProvidersTypes
  <1>2. ASSUME NEW c \in Callers PROVE CallSound(c, calls[c])'
    <2>1. calls[c] \in CallState /\ CallSound(c, calls[c]) /\ calls[c].step # "trying"
      BY DEF Tick, ProvidersIInv, ProvidersTypes
    <2>2. calls[c].now \in Nat /\ calls[c].since \in Nat /\ (calls[c].now <= clock => calls[c].now <= clock')
      BY <1>1, <2>1 DEF CallState
    <2>3. calls[c].step = "calling" => clock' <= calls[c].since + Timeout
      BY <1>1, <2>1, <2>2 DEF Tick, SoundProfile
    <2> QED
      BY <1>1, <2>1, <2>2, <2>3 DEF CallSound, Begun
  <1>3. ProvidersTypes'
    BY <1>1 DEF ProvidersTypes
  <1> QED
    BY <1>1, <1>2, <1>3 DEF ProvidersIInv, ProviderSound, AnswerSound

LEMMA ProvidersStep ==
  ASSUME SoundProfile, ProvidersIInv, [ProvidersNext]_providerVars PROVE ProvidersIInv'
  <1>1. CASE UNCHANGED providerVars
    <2>1. UNCHANGED <<clock, circuits, cooldowns, cached, calls, leaders, answered, streaks, spared>>
      BY <1>1 DEF providerVars
    <2>2. \A c \in Callers : CallSound(c, calls[c])'
      BY <2>1 DEF ProvidersIInv, CallSound, Begun
    <2>3. ProvidersTypes'
      BY <2>1 DEF ProvidersIInv, ProvidersTypes
    <2> QED
      BY <2>1, <2>2, <2>3 DEF ProvidersIInv, ProviderSound, AnswerSound
  <1>2. ASSUME NEW c \in Callers, Refused(c) PROVE ProvidersIInv'
    <2>1. calls[c].text \in Texts
      BY <1>2 DEF Refused, ProvidersIInv, CallSound
    <2> QED
      BY <1>2, <2>1, NothingHeard DEF Refused
  <1>3. CASE ProvidersNext
    BY <1>2, <1>3, AskStep, MissesStep, NextProviderStep, SucceedsStep, FallsBackStep, RateLimitedStep, TickStep DEF ProvidersNext
  <1> QED
    BY <1>1, <1>3

LEMMA ProvidersSound ==
  ASSUME ProvidersIInv PROVE BlockedIsSpared /\ AnsweredOnce /\ WaitersHaveLeader
  <1>1. BlockedIsSpared
    BY DEF ProvidersIInv, CallSound, Begun, BlockedIsSpared, Endpoint
  <1>2. AnsweredOnce
    BY DEF ProvidersIInv, AnswerSound, AnsweredOnce
  <1>3. WaitersHaveLeader
    BY DEF ProvidersIInv, CallSound, WaitersHaveLeader
  <1> QED
    BY <1>1, <1>2, <1>3

\* docs/013: with any number of callers and any sequence of providers, no batch that
\* began after a pause asks the provider before the pause is over (profile_embedder.go),
\* a text is answered once however many ask for it, and who waits for another's flight
\* is not forgotten (profile_cache.go).
THEOREM ProvidersLeftAlone ==
  ASSUME SoundProfile PROVE ProvidersSpec => [](BlockedIsSpared /\ AnsweredOnce /\ WaitersHaveLeader)
  <1>1. ProvidersInit => ProvidersIInv
    BY ProvidersStart
  <1>2. ProvidersIInv /\ [ProvidersNext]_providerVars => ProvidersIInv'
    BY ProvidersStep
  <1>3. ProvidersIInv => BlockedIsSpared /\ AnsweredOnce /\ WaitersHaveLeader
    BY ProvidersSound
  <1> QED
    BY <1>1, <1>2, <1>3, PTL DEF ProvidersSpec
=============================================================================
