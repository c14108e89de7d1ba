-------------------------------- MODULE Revert ---------------------------------
(***************************************************************************)
(* The comparison of a document with one of its versions, and the restore  *)
(* (app/docs/[id]/revert/page.tsx, helpers.ts; lib/diff.ts), while other   *)
(* tabs go on saving the document.  A content is its sequence of lines; a  *)
(* title is left out.                                                      *)
(***************************************************************************)
EXTENDS Integers, Sequences, FiniteSets, SequencesExt

CONSTANTS Contents,    \* non-empty sequences of lines: "".split gives one line
          MaxRevisions, \* bound on content_revision
          ByVersionID  \* the address names the version by its id, not its number

(***************************************************************************)
(* lib/diff.ts                                                             *)
(***************************************************************************)

\* dp[<<i, j>>]: the longest common subsequence of the first i and j lines.
buildDpTable(s, t) ==
  LET dp[i \in 0..Len(s), j \in 0..Len(t)] ==
        IF i = 0 \/ j = 0 THEN 0
        ELSE IF s[i] = t[j] THEN dp[i-1, j-1] + 1
        ELSE IF dp[i-1, j] > dp[i, j-1] THEN dp[i-1, j] ELSE dp[i, j-1]
  IN  dp
Line(type, value) == [type |-> type, value |-> value]
traceback(dp, s, t) ==
  LET upTo[i \in 0..Len(s), j \in 0..Len(t)] ==
        CASE i = 0 /\ j = 0 -> <<>>
          [] i > 0 /\ j > 0 /\ s[i] = t[j] -> Append(upTo[i-1, j-1], Line("same", s[i]))
          [] ~(i > 0 /\ j > 0 /\ s[i] = t[j]) /\ j > 0 /\ (i = 0 \/ dp[i, j-1] >= dp[i-1, j]) ->
               Append(upTo[i, j-1], Line("added", t[j]))
          [] OTHER -> Append(upTo[i-1, j], Line("removed", s[i]))
  IN  upTo[Len(s), Len(t)]
\* A row has a line on the left, on the right, or the same one on both sides.
computeDiff(s, t) == traceback(buildDpTable(s, t), s, t)

changed(row) == row.type # "same"
\* The rows a run of changes starts at: the places the navigator visits.
diffIndices(rows) ==
  SetToSortSeq({i \in DOMAIN rows : changed(rows[i]) /\ (i = 1 \/ ~changed(rows[i-1]))}, <)
\* The stacked view of a narrow screen: maximal blocks of one kind.
buildMobileDiffBlocks(rows) ==
  LET add(blocks, i) ==
        LET n == Len(blocks) IN
        IF n > 0 /\ blocks[n].change = changed(rows[i])
        THEN [blocks EXCEPT ![n].rows = Append(@, rows[i])]
        ELSE Append(blocks, [change |-> changed(rows[i]), start |-> i, rows |-> <<rows[i]>>])
      after[i \in 0..Len(rows)] == IF i = 0 THEN <<>> ELSE add(after[i-1], i)
  IN  after[Len(rows)]

\* What a reader sees of one side: a column of the wide screen, and the stacked
\* blocks from top to bottom, where a block of changes shows each side apart.
DesktopDiff(rows, gone) ==
  LET kept == SelectSeq(rows, LAMBDA r : r.type # gone) IN [i \in DOMAIN kept |-> kept[i].value]
MobileDiff(rows, gone) ==
  LET blocks == buildMobileDiffBlocks(rows)
  IN  FlattenSeq([b \in DOMAIN blocks |->
        IF blocks[b].change THEN DesktopDiff(blocks[b].rows, gone)
        ELSE [i \in DOMAIN blocks[b].rows |-> blocks[b].rows[i].value]])

(***************************************************************************)
(* The page                                                                *)
(***************************************************************************)

VARIABLES note,     \* the documents row: content and content_revision
          version,  \* the document_versions row: its content, and whether it is kept
          compared, \* RevertPage and useRevertData
          reads,    \* the load under way: what it has read so far
          restore   \* the PUT under way
revertVars == <<note, version, compared, reads, restore>>

Nothing == [doc |-> FALSE, text |-> <<>>, revision |-> 0]
NotReading == [running |-> FALSE, listed |-> FALSE, doc |-> Nothing, version |-> "asked"]
NotSaving == [phase |-> "none", base |-> 0]
\* cursor: currentDiffIndex + 1.  left: the page has moved on to the editor.
NewPage == [doc |-> Nothing, version |-> FALSE, rows |-> <<>>, loading |-> TRUE, error |-> FALSE,
            cursor |-> 0, left |-> FALSE]
Read(p) == /\ compared' = [p EXCEPT !.loading = TRUE, !.error = FALSE]
           /\ reads' = [NotReading EXCEPT !.running = TRUE, !.listed = ~ByVersionID]

\* What is rendered: the comparison only when both sides have arrived.
RevertPage == IF compared.loading THEN "loading"
              ELSE IF compared.error \/ ~compared.doc.doc \/ ~compared.version THEN "error"
              ELSE IF diffIndices(compared.rows) = <<>> THEN "empty" ELSE "diff"

\* loadData asks for the document beside the list of versions, which names the
\* number to ask for next, or beside the version itself.
ReadDocument ==
  /\ reads.running /\ ~reads.doc.doc
  /\ reads' = [reads EXCEPT !.doc = [doc |-> TRUE, text |-> note.text, revision |-> note.revision]]
  /\ UNCHANGED <<note, version, compared, restore>>
ReadSummaries ==
  /\ reads.running /\ ~reads.listed /\ version.kept
  /\ reads' = [reads EXCEPT !.listed = TRUE]
  /\ UNCHANGED <<note, version, compared, restore>>
\* A version the list lacks sends the reader back to the editor.
VersionUnknown ==
  /\ reads.running /\ ~reads.listed /\ ~version.kept /\ reads.doc.doc
  /\ reads' = NotReading /\ compared' = [compared EXCEPT !.left = TRUE, !.loading = FALSE]
  /\ UNCHANGED <<note, version, restore>>
ReadVersion ==
  /\ reads.running /\ reads.listed /\ version.kept /\ (ByVersionID => reads.doc.doc)
  /\ reads.version = "asked" /\ reads' = [reads EXCEPT !.version = "read"]
  /\ UNCHANGED <<note, version, compared, restore>>
Compared ==
  /\ reads.running /\ reads.doc.doc /\ reads.version = "read"
  /\ compared' = [compared EXCEPT !.doc = reads.doc, !.version = TRUE, !.loading = FALSE,
                                  !.rows = computeDiff(reads.doc.text, version.text)]
  /\ reads' = NotReading /\ UNCHANGED <<note, version, restore>>
ReadFails ==
  /\ reads.running /\ reads' = NotReading
  /\ compared' = [compared EXCEPT !.error = TRUE, !.loading = FALSE]
  /\ UNCHANGED <<note, version, restore>>
reload == RevertPage = "error" /\ ~compared.left /\ Read(compared) /\ UNCHANGED <<note, version, restore>>

\* The buttons are disabled at either end, and there the arrow keys do nothing;
\* scrollToDiff refuses what is beyond.
DiffNavigator(p) ==
  LET n == Len(diffIndices(p.rows))
  IN  {b \in {"previous", "next"} : n > 0 /\ IF b = "previous" THEN p.cursor > 1 ELSE p.cursor < n}
scrollToDiff(p, index) ==
  IF index < 1 \/ index > Len(diffIndices(p.rows)) THEN p ELSE [p EXCEPT !.cursor = index]
previousChange == /\ "previous" \in DiffNavigator(compared) /\ ~compared.left
                  /\ compared' = scrollToDiff(compared, compared.cursor - 1)
                  /\ UNCHANGED <<note, version, reads, restore>>
nextChange == /\ "next" \in DiffNavigator(compared) /\ ~compared.left
              /\ compared' = scrollToDiff(compared, compared.cursor + 1)
              /\ UNCHANGED <<note, version, reads, restore>>

\* Mutant: the restore is based on whatever revision the document has now.
confirmOnLatest ==
  /\ RevertPage \in {"diff", "empty"} /\ ~compared.left /\ restore.phase = "none"
  /\ restore' = [phase |-> "sent", base |-> note.revision]
  /\ UNCHANGED <<note, version, compared, reads>>
\* savingRef lets one restore run at a time, also while the page reloads.
confirmRevert ==
  /\ RevertPage \in {"diff", "empty"} /\ ~compared.left /\ restore.phase = "none"
  /\ restore' = [phase |-> "sent", base |-> compared.doc.revision]
  /\ UNCHANGED <<note, version, compared, reads>>
\* DocumentService.saveImpl, for a request with a base_revision.
saveImpl ==
  /\ restore.phase = "sent"
  /\ IF restore.base # note.revision
     THEN restore' = [restore EXCEPT !.phase = "rejected"] /\ UNCHANGED note
     ELSE /\ restore' = [restore EXCEPT !.phase = "accepted"]
          /\ note.revision < MaxRevisions
          /\ note' = [text |-> version.text, revision |-> note.revision + 1]
  /\ UNCHANGED <<version, compared, reads>>
RestoreAnswer ==
  /\ restore.phase \in {"accepted", "rejected"} /\ restore' = NotSaving
  /\ IF restore.phase = "rejected" THEN Read(compared)
     ELSE compared' = [compared EXCEPT !.left = TRUE] /\ UNCHANGED reads
  /\ UNCHANGED <<note, version>>
\* The request or its answer is lost: a message, and the button again.
RestoreFails ==
  /\ restore.phase # "none" /\ restore' = NotSaving
  /\ UNCHANGED <<note, version, compared, reads>>
back == /\ RevertPage \in {"diff", "empty"} /\ restore.phase = "none" /\ ~compared.left
        /\ compared' = [compared EXCEPT !.left = TRUE] /\ UNCHANGED <<note, version, reads, restore>>

\* Another tab saves; with each save the oldest versions may go.
SaveElsewhere ==
  \E text \in Contents, kept \in BOOLEAN :
    /\ note.revision < MaxRevisions /\ (kept => version.kept)
    /\ note' = [text |-> text, revision |-> note.revision + 1]
    /\ version' = [version EXCEPT !.kept = kept] /\ UNCHANGED <<compared, reads, restore>>

RevertInit ==
  /\ note \in [text : Contents, revision : {1}] /\ version \in [text : Contents, kept : {TRUE}]
  /\ compared = NewPage /\ restore = NotSaving
  /\ reads = [NotReading EXCEPT !.running = TRUE, !.listed = ~ByVersionID]
RevertNext ==
  \/ ReadDocument \/ ReadSummaries \/ VersionUnknown \/ ReadVersion \/ Compared \/ ReadFails
  \/ reload \/ previousChange \/ nextChange \/ confirmRevert \/ saveImpl \/ RestoreAnswer
  \/ RestoreFails \/ back \/ SaveElsewhere

(***************************************************************************)
(* Properties                                                              *)
(***************************************************************************)

RevertTypeOK ==
  /\ note.text \in Contents /\ note.revision \in 1..MaxRevisions
  /\ compared.cursor \in Nat /\ restore.phase \in {"none", "sent", "accepted", "rejected"}

\* The common subsequences, to compare with: pairs of equally long index sets.
Common(s, t) ==
  {I \in SUBSET DOMAIN s : \E J \in SUBSET DOMAIN t :
     /\ Cardinality(I) = Cardinality(J)
     /\ LET a == SetToSortSeq(I, <)  b == SetToSortSeq(J, <)
        IN  \A k \in DOMAIN a : s[a[k]] = t[b[k]]}
\* lib/diff.ts: the left side of a comparison is the document, the right one the
\* version, on a wide and on a narrow screen; no comparison has fewer changed
\* rows; and the stacked blocks (helpers.ts) have one at each place the
\* navigator goes to.
DiffIsFaithful ==
  compared.doc.doc =>
    LET rows == compared.rows  s == compared.doc.text  t == version.text
        blocks == buildMobileDiffBlocks(rows)
    IN  /\ DesktopDiff(rows, "added") = s /\ DesktopDiff(rows, "removed") = t
        /\ MobileDiff(rows, "added") = s /\ MobileDiff(rows, "removed") = t
        /\ \A I \in Common(s, t) :
             Cardinality(I) <= Len(SelectSeq(rows, LAMBDA r : r.type = "same"))
        /\ ToSet(diffIndices(rows)) = {blocks[b].start : b \in {b \in DOMAIN blocks : blocks[b].change}}

\* docs/020: the restore is based on the revision compared, and a conflict asks
\* for another look: it replaces exactly the content that was on the left of a
\* comparison this reader saw, never an edit of another tab.
RestoresWhatWasCompared ==
  saveImpl /\ note' # note => note.text = compared.doc.text /\ RevertPage # "loading"
==============================================================================
