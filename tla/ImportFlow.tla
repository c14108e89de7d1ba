------------------------------ MODULE ImportFlow -------------------------------
(***************************************************************************)
(* Importing an archive: the dialog that uploads, previews, confirms and   *)
(* polls (app/docs/hooks/useImportFlow.ts, components/ImportDialog.tsx),   *)
(* the job and its notes in the database (service/import_service.go,       *)
(* repo/import_job_repo.go, import_job_note_repo.go) and the workers of    *)
(* several instances that take the job over from each other                *)
(* (service/import_worker.go); and the export dialog (useExportFlow.ts).   *)
(*                                                                         *)
(* A note is its position in the archive: its title is unique there, and   *)
(* `library` says whether a document bears that title.                     *)
(***************************************************************************)
EXTENDS Integers, FiniteSets

CONSTANTS ImportNotes,    \* 1..n, the notes of the archive
          ImportWorkers,  \* the instances of the application
          MaxAttempts     \* 5 in the code
\* What the proofs ask of them.
ImportBounds == ImportNotes \subseteq Nat \ {0} /\ MaxAttempts \in Nat

VARIABLES flow,      \* the state of useImportFlow
          request,   \* its request under way: what for, and how far it got
          job,       \* the row of import_jobs, or Unstaged
          noteRows,  \* the rows of import_job_notes: their status
          library,   \* the archive's titles that documents bear
          worker,    \* what each worker does
          written,   \* history: how often the import wrote each note's document
          export     \* the state of useExportFlow
importVars == <<flow, request, job, noteRows, library, worker, written>>
exportVars == <<export>>

ImportModes == {"skip", "overwrite", "append"}
Unstaged  == [status |-> "none", mode |-> "append", leased |-> FALSE, backoff |-> FALSE,
              attempts |-> 0, processed |-> 0]
FlowStart(open) == [open |-> open, step |-> "upload", mode |-> "append", error |-> FALSE,
                    known |-> FALSE]
FlowReset == FlowStart(FALSE)
Quiet     == [for |-> "none", at |-> "wire"]
IdleWorker == [does |-> "poll", note |-> 0, outcome |-> "none"]
Terminal  == {"done", "skipped", "failed"}

(***************************************************************************)
(* The dialog                                                              *)
(***************************************************************************)

\* What the dialog lets the visitor do: choose a file, choose the mode, press a
\* button of its footer; it can be left unless it is busy.
ImportDialog(f) == f.open /\ f.step # "importing"
UploadStep(f)   == f.open /\ f.step = "upload"
PreviewStep(f)  == f.open /\ f.step = "preview" /\ f.known
ImportFooter(f) == CASE f.step = "importing" -> {}
                     [] f.step = "preview"   -> {"close", "start"}
                     [] OTHER                -> {"close"}

Server == <<job, noteRows, library, worker, written>>
openDialog ==
  /\ ~flow.open
  /\ flow' = FlowStart(TRUE)
  /\ request' = Quiet
  /\ UNCHANGED Server
closeDialog ==
  /\ ImportDialog(flow) /\ "close" \in ImportFooter(flow)
  /\ flow' = FlowReset /\ request' = Quiet
  /\ UNCHANGED Server
importFile ==
  /\ UploadStep(flow)
  /\ flow' = [flow EXCEPT !.step = "parsing", !.error = FALSE]
  /\ request' = [for |-> "upload", at |-> "wire"]
  /\ UNCHANGED Server
setMode(m) ==
  /\ PreviewStep(flow)
  /\ flow' = [flow EXCEPT !.mode = m]
  /\ UNCHANGED <<request, Server>>
confirm ==
  /\ flow.open /\ "start" \in ImportFooter(flow) /\ flow.known
  /\ flow' = [flow EXCEPT !.step = "importing", !.error = FALSE]
  /\ request' = [for |-> "confirm", at |-> "wire"]
  /\ UNCHANGED Server

\* The job and its notes are staged in one transaction.
createImportJob ==
  /\ request = [for |-> "upload", at |-> "wire"] /\ job.status = "none"
  /\ job' = [job EXCEPT !.status = "ready"]
  /\ request' = [request EXCEPT !.at = "answered"]
  /\ UNCHANGED <<flow, noteRows, library, worker, written>>
previewAnswer ==
  /\ request = [for |-> "upload", at |-> "answered"]
  /\ flow' = [flow EXCEPT !.step = "preview", !.known = TRUE]
  /\ request' = Quiet
  /\ UNCHANGED Server

\* Confirm: only a ready job takes the mode; a job that runs or is done is
\* left as it is and the answer is the same.
Confirm ==
  /\ request = [for |-> "confirm", at |-> "wire"]
  /\ job' = IF job.status = "ready"
            THEN [job EXCEPT !.status = "running", !.mode = flow.mode,
                             !.leased = FALSE, !.backoff = FALSE]
            ELSE job
  /\ request' = [request EXCEPT !.at = IF job.status = "failed" THEN "refused" ELSE "answered"]
  /\ UNCHANGED <<flow, noteRows, library, worker, written>>
pollImport ==
  /\ request = [for |-> "confirm", at |-> "answered"]
  /\ request' = [for |-> "poll", at |-> "wire"]
  /\ UNCHANGED <<flow, Server>>
Failing(step) ==
  /\ flow' = [flow EXCEPT !.step = step, !.error = TRUE]
  /\ request' = Quiet
  /\ UNCHANGED Server
pollAnswer ==
  /\ request.for = "poll"
  /\ \/ /\ job.status = "done"
        /\ flow' = [flow EXCEPT !.step = "done"]
        /\ request' = Quiet
        /\ UNCHANGED Server
     \/ job.status = "failed" /\ Failing("preview")
\* A request fails, or the polls run out while the server still works.
requestFails ==
  \/ request.for = "upload" /\ Failing("upload")
  \/ request.for \in {"confirm", "poll"} /\ Failing("preview")
leavePage ==
  /\ flow # FlowReset
  /\ flow' = FlowReset /\ request' = Quiet
  /\ UNCHANGED Server

(***************************************************************************)
(* The workers                                                             *)
(***************************************************************************)

\* locked_until is two minutes after the claim and nothing renews it.
LeaseLapses ==
  /\ job.leased /\ job' = [job EXCEPT !.leased = FALSE]
  /\ UNCHANGED <<flow, request, noteRows, library, worker, written>>
RetryIsDue ==
  /\ job.backoff /\ job' = [job EXCEPT !.backoff = FALSE]
  /\ UNCHANGED <<flow, request, noteRows, library, worker, written>>
Claim(w) ==
  /\ worker[w].does = "poll"
  /\ job.status = "running" /\ ~job.leased /\ ~job.backoff /\ job.attempts < MaxAttempts
  /\ job' = [job EXCEPT !.leased = TRUE, !.attempts = @ + 1]
  /\ worker' = [worker EXCEPT ![w].does = "loop"]
  /\ UNCHANGED <<flow, request, noteRows, library, written>>

\* The first pending row that no open transaction holds.
LockedRows == {worker[w].note : w \in ImportWorkers}
NextPending == {n \in ImportNotes : noteRows[n] = "pending" /\ n \notin LockedRows}
First(S)    == {n \in S : \A k \in S : n <= k}
Outcomes(n) ==
  IF n \in library
  THEN CASE job.mode = "skip" -> {"skipped"} [] job.mode = "overwrite" -> {"updated", "failed"}
         [] OTHER -> {"suffixed", "failed"}
  ELSE {"created", "failed"}
\* One transaction per note: the decision on the title and the write to the
\* document wait for the commit, which marks the row.
importNote(w) ==
  /\ worker[w].does = "loop"
  /\ \E n \in First(NextPending) : \E o \in Outcomes(n) :
       worker' = [worker EXCEPT ![w] = [does |-> "note", note |-> n, outcome |-> o]]
  /\ UNCHANGED <<flow, request, job, noteRows, library, written>>
RowStatus(o) == IF o \in {"skipped", "failed"} THEN o ELSE "done"
MarkTerminal(w) ==
  /\ worker[w].does = "note"
  /\ LET n == worker[w].note  o == worker[w].outcome IN
       /\ noteRows[n] = "pending"
       /\ noteRows' = [noteRows EXCEPT ![n] = RowStatus(o)]
       /\ library' = IF o = "created" THEN library \cup {n} ELSE library
       /\ written' = [written EXCEPT ![n] = IF RowStatus(o) = "done" THEN @ + 1 ELSE @]
  /\ worker' = [worker EXCEPT ![w] = [IdleWorker EXCEPT !.does = "loop"]]
  /\ UNCHANGED <<flow, request, job>>
\* No row is left to take: the report counts what is terminal at this moment.
Finish(w) ==
  /\ worker[w].does = "loop" /\ NextPending = {}
  /\ IF job.status = "running"
     THEN job' = [job EXCEPT !.status = "done", !.leased = FALSE, !.backoff = FALSE,
                             !.processed = Cardinality({n \in ImportNotes : noteRows[n] # "pending"})]
     ELSE UNCHANGED job
  /\ worker' = [worker EXCEPT ![w] = IdleWorker]
  /\ UNCHANGED <<flow, request, noteRows, library, written>>
\* The transaction rolls back and whoever holds the lease now loses it.
releaseFailure(w) ==
  /\ worker[w].does \in {"loop", "note"}
  /\ job' = IF job.status # "running" THEN job
            ELSE IF job.attempts >= MaxAttempts
            THEN [job EXCEPT !.status = "failed", !.leased = FALSE, !.backoff = FALSE]
            ELSE [job EXCEPT !.leased = FALSE, !.backoff = TRUE]
  /\ worker' = [worker EXCEPT ![w] = IdleWorker]
  /\ UNCHANGED <<flow, request, noteRows, library, written>>
\* Mutant: the document is written in a transaction before that of its row.
WorkerCrashBetween(w) ==
  /\ worker[w] # IdleWorker
  /\ worker' = [worker EXCEPT ![w] = IdleWorker]
  /\ written' = IF RowStatus(worker[w].outcome) = "done" /\ worker[w].does = "note"
                THEN [written EXCEPT ![worker[w].note] = @ + 1] ELSE written
  /\ UNCHANGED <<flow, request, job, noteRows, library>>
\* The instance crashes or stops: the transaction rolls back, the lease stays.
WorkerCrash(w) ==
  /\ worker[w] # IdleWorker
  /\ worker' = [worker EXCEPT ![w] = IdleWorker]
  /\ UNCHANGED <<flow, request, job, noteRows, library, written>>
\* A document with the note's title is created or deleted by hand; one that a
\* transaction updates is locked.
LibraryChanges ==
  /\ \E n \in ImportNotes :
       /\ \A w \in ImportWorkers : worker[w].note = n => worker[w].outcome # "updated"
       /\ library' = IF n \in library THEN library \ {n} ELSE library \cup {n}
  /\ UNCHANGED <<flow, request, job, noteRows, worker, written>>

(***************************************************************************)
(* Export                                                                  *)
(***************************************************************************)

ExportStart(open, error) == [open |-> open, exporting |-> FALSE, error |-> error, wire |-> FALSE]
NoExport == ExportStart(FALSE, FALSE)
ExportDialog(e) == IF ~e.open THEN {} ELSE IF e.exporting THEN {"close"} ELSE {"close", "export"}
exportOpen   == ~export.open /\ export' = ExportStart(TRUE, FALSE)
\* Closing cancels: a later answer finds another request number.
exportClose  == "close" \in ExportDialog(export) /\ export' = NoExport
exportNotes  == /\ "export" \in ExportDialog(export)
                /\ export' = [open |-> TRUE, exporting |-> TRUE, error |-> FALSE, wire |-> TRUE]
exportAnswer == export.wire /\ export' \in {NoExport, ExportStart(TRUE, TRUE)}
ExportInit == export = NoExport
ExportNext == exportOpen \/ exportClose \/ exportNotes \/ exportAnswer

ImportInit ==
  /\ flow = FlowReset /\ request = Quiet /\ job = Unstaged
  /\ noteRows = [n \in ImportNotes |-> "pending"] /\ library = {}
  /\ worker = [w \in ImportWorkers |-> IdleWorker]
  /\ written = [n \in ImportNotes |-> 0]
ImportNext ==
  \/ openDialog \/ closeDialog \/ importFile \/ confirm \/ createImportJob \/ previewAnswer
  \/ \E m \in ImportModes : setMode(m)
  \/ Confirm \/ pollImport \/ pollAnswer \/ requestFails \/ leavePage
  \/ LeaseLapses \/ RetryIsDue \/ LibraryChanges
  \/ \E w \in ImportWorkers : \/ Claim(w) \/ importNote(w) \/ MarkTerminal(w)
                              \/ Finish(w) \/ releaseFailure(w) \/ WorkerCrash(w)
\* The two dialogs share nothing.
FlowNext == (ImportNext /\ UNCHANGED exportVars) \/ (ExportNext /\ UNCHANGED importVars)
ImportSpec == ImportInit /\ ExportInit /\ [][FlowNext]_<<importVars, exportVars>>

(***************************************************************************)
(* Properties                                                              *)
(***************************************************************************)

ImportTypeOK ==
  /\ flow.step \in {"upload", "parsing", "preview", "importing", "done"}
  /\ flow.mode \in ImportModes /\ job.attempts \in 0..MaxAttempts
  /\ noteRows \in [ImportNotes -> {"pending"} \cup Terminal]
  /\ library \subseteq ImportNotes

\* However often the job is taken over, crashes or is retried, no note is
\* written twice, and a note that is marked done was written: the transaction
\* per note, its row lock and its terminal state together.
ImportedOnce ==
  \A n \in ImportNotes : written[n] = IF noteRows[n] = "done" THEN 1 ELSE 0

\* The dialog is locked only while a request of its own is under way, so the
\* visitor always gets out; and the export spinner is never left behind.
ImportNeverStuck ==
  /\ flow.step = "importing" => request.for \in {"confirm", "poll"}
  /\ flow.step = "parsing" => request.for = "upload"
  /\ export.exporting => export.open /\ export.wire
==============================================================================
