----------------------------- MODULE Migrations -----------------------------
(***************************************************************************)
(* The migrator of db.go in several processes at once, of old and new      *)
(* builds. A build carries a sequence of files, sorted by name, each a     *)
(* version with a checksum; the first one creates the ledger. The lock is  *)
(* an advisory lock of the one connection on which everything runs, so it  *)
(* goes when the process does.                                             *)
(***************************************************************************)
EXTENDS Naturals, Sequences, FiniteSets

CONSTANTS
  Processes,  \* server processes that start
  Build,      \* Build[p]: the migration files of the binary p runs
  MaxStarts   \* how often a process starts, at most

VARIABLES
  ledger,   \* schema_migrations: whether the table exists, and its rows
  schema,   \* the files executed and committed, in that order
  holder,   \* who holds the advisory lock
  process   \* where each process is and what it has read
migrationVars == <<ledger, schema, holder, process>>

FilesOf(p) == {Build[p][i] : i \in DOMAIN Build[p]}
Versions(files) == {f.version : f \in files}
Bootstrap(p) == Build[p][1]
Off(starts) == [step |-> "off", applied |-> {}, next |-> 1, starts |-> starts]

MigrationsInit ==
  /\ ledger = [exists |-> FALSE, files |-> {}] /\ schema = <<>> /\ holder = "none"
  /\ process = [p \in Processes |-> Off(0)]

Step(p, step) == process' = [process EXCEPT ![p].step = step]

Start(p) ==
  /\ process[p].step = "off" /\ process[p].starts < MaxStarts
  /\ process' = [process EXCEPT ![p] = [Off(@.starts + 1) EXCEPT !.step = "starting"]]
  /\ UNCHANGED <<ledger, schema, holder>>

\* Mutant: a process does not wait for the one that migrates.
acquireNoLock(p) ==
  /\ process[p].step = "starting"
  /\ holder' = p /\ Step(p, "locked") /\ UNCHANGED <<ledger, schema>>
acquireMigrationLock(p) ==
  /\ process[p].step = "starting" /\ holder = "none"
  /\ holder' = p /\ Step(p, "locked") /\ UNCHANGED <<ledger, schema>>

\* The deferred unlock, or the end of the connection.
Released(p) == holder' = IF holder = p THEN "none" ELSE holder
Refuse(p) == Released(p) /\ Step(p, "failed") /\ UNCHANGED <<ledger, schema>>

\* Without the table, the first file creates it (bootstrapLedger).
loadAppliedMigrations(p) ==
  /\ process[p].step = "locked"
  /\ \/ /\ ledger.exists /\ UNCHANGED <<ledger, schema, holder>>
        /\ process' = [process EXCEPT ![p].step = "read", ![p].applied = ledger.files]
     \/ ~ledger.exists /\ Step(p, "bootstrap") /\ UNCHANGED <<ledger, schema, holder>>
     \/ Refuse(p)

\* One transaction: the file and its row. A commit may stand though its answer
\* is lost, and a file may fail on what it finds.
Commit(f) ==
  /\ ledger' = [exists |-> TRUE, files |-> ledger.files \cup {f}] /\ schema' = Append(schema, f)
bootstrapLedger(p) ==
  /\ process[p].step = "bootstrap"
  /\ \/ Commit(Bootstrap(p)) /\ Step(p, "locked") /\ UNCHANGED holder
     \/ Commit(Bootstrap(p)) /\ Released(p) /\ Step(p, "failed")
     \/ Refuse(p)

\* A row of an unknown version, or of another checksum, stops the start.
validateApplied(p) ==
  /\ process[p].step = "read"
  /\ IF process[p].applied \subseteq FilesOf(p)
     THEN Step(p, "applying") /\ UNCHANGED <<ledger, schema, holder>>
     ELSE Refuse(p)

Remaining(p) == process[p].next \in DOMAIN Build[p]
applyOne(p) ==
  /\ process[p].step = "applying" /\ Remaining(p)
  /\ LET f == Build[p][process[p].next]
         onward == process' = [process EXCEPT ![p].next = @ + 1]
     IN  IF f.version \in Versions(process[p].applied)
         THEN onward /\ UNCHANGED <<ledger, schema, holder>>
         ELSE \/ Commit(f) /\ onward /\ UNCHANGED holder
              \/ Commit(f) /\ Released(p) /\ Step(p, "failed")
              \/ Refuse(p)

\* Everything after ApplyMigrations: the server, the workers, the command line.
Serve(p) ==
  /\ process[p].step = "applying" /\ ~Remaining(p)
  /\ Released(p) /\ Step(p, "serving") /\ UNCHANGED <<ledger, schema>>

\* The process ends anywhere; an open transaction goes with its connection.
Exit(p) ==
  /\ process[p].step # "off" /\ Released(p)
  /\ process' = [process EXCEPT ![p] = Off(@.starts)] /\ UNCHANGED <<ledger, schema>>

MigrationsNext ==
  \E p \in Processes :
    \/ Start(p) \/ acquireMigrationLock(p) \/ loadAppliedMigrations(p) \/ bootstrapLedger(p)
    \/ validateApplied(p) \/ applyOne(p) \/ Serve(p) \/ Exit(p)

------------------------------------------------------------------------------
AllFiles == UNION {FilesOf(p) : p \in Processes}
MigrationsTypeOK ==
  /\ ledger \in [exists : BOOLEAN, files : SUBSET AllFiles] /\ schema \in Seq(AllFiles)
  /\ holder \in Processes \cup {"none"}
  /\ process \in [Processes -> [step : {"off", "starting", "locked", "bootstrap", "read", "applying", "serving", "failed"},
                                applied : SUBSET AllFiles, next : 1..(1 + Cardinality(AllFiles)), starts : 0..MaxStarts]]

\* docs/014: however many processes start, fail and end, a version is executed
\* once, and the ledger tells exactly what was executed.
MigratedOnce ==
  /\ \A i, j \in DOMAIN schema : schema[i].version = schema[j].version => i = j
  /\ ledger.files = {schema[i] : i \in DOMAIN schema}

\* A server serves only on a schema that has all its own migrations, and comes
\* to serve only when there are no others: an old build not on a newer schema.
ServesOwnSchema ==
  \A p \in Processes :
    /\ process[p].step = "serving" => FilesOf(p) \subseteq ledger.files
    /\ process[p].step = "applying" /\ ~Remaining(p) => ledger.files = FilesOf(p)
==============================================================================
