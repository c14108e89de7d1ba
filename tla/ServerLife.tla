----------------------------- MODULE ServerLife -----------------------------
(***************************************************************************)
(* The life of one server process: App.Run and App.shutdown with its HTTP  *)
(* handlers, its workers and the jobs of CronScheduler, all of which use   *)
(* the database that shutdown closes last.                                 *)
(***************************************************************************)
EXTENDS Naturals, FiniteSets

CONSTANTS
  Workers,     \* background workers
  Jobs,        \* scheduled jobs
  MaxHandlers  \* requests handled at a time

VARIABLES
  main,      \* where Run and shutdown are
  ready,     \* app.ready
  handlers,  \* requests being handled
  canceled,  \* the context of workers and jobs
  workers,   \* which workers still run
  cron,      \* the scheduler takes new runs, stops, or has stopped
  running,   \* the flag that wrap sets, per job
  runs,      \* the runs of each job under way
  errors     \* runErr and shutdownErr, as far as they are set
lifeVars == <<main, ready, handlers, canceled, workers, cron, running, runs, errors>>

LifeInit ==
  /\ main = "serving" /\ ready = TRUE /\ handlers = 0 /\ canceled = FALSE
  /\ workers = Workers /\ cron = "on" /\ running = [j \in Jobs |-> FALSE]
  /\ runs = [j \in Jobs |-> 0] /\ errors = {}

\* The listener closes when shutdown calls server.Shutdown, and not before.
Request ==
  /\ main \in {"serving", "draining"} /\ handlers < MaxHandlers /\ handlers' = handlers + 1
  /\ UNCHANGED <<main, ready, canceled, workers, cron, running, runs, errors>>
Answer ==
  /\ handlers > 0 /\ handlers' = handlers - 1
  /\ UNCHANGED <<main, ready, canceled, workers, cron, running, runs, errors>>

\* A tick starts wrap's function; it runs the job unless one is under way.
Fire(j) ==
  /\ cron = "on" /\ ~running[j]
  /\ running' = [running EXCEPT ![j] = TRUE] /\ runs' = [runs EXCEPT ![j] = @ + 1]
  /\ UNCHANGED <<main, ready, handlers, canceled, workers, cron, errors>>
JobEnds(j) ==
  /\ runs[j] > 0
  /\ running' = [running EXCEPT ![j] = FALSE] /\ runs' = [runs EXCEPT ![j] = @ - 1]
  /\ UNCHANGED <<main, ready, handlers, canceled, workers, cron, errors>>

\* A worker returns when its context ends, or before: with an error, which ends
\* the server, or without one (the bootstrap worker when it has nothing to do).
WorkerEnds(w) ==
  /\ w \in workers /\ workers' = workers \ {w}
  /\ \/ UNCHANGED <<main, ready, errors>>
     \/ /\ ~canceled /\ main = "serving"
        /\ main' = "draining" /\ ready' = FALSE /\ errors' = errors \cup {"run"}
  /\ UNCHANGED <<handlers, canceled, cron, running, runs>>

\* waitForRunEnd: a signal (which also ends the context), or the listener fails.
RunEnds ==
  /\ main = "serving" /\ main' = "draining" /\ ready' = FALSE
  /\ \/ canceled' = TRUE /\ UNCHANGED errors
     \/ errors' = errors \cup {"run"} /\ UNCHANGED canceled
  /\ UNCHANGED <<handlers, workers, cron, running, runs>>

\* server.Shutdown waits for the handlers, or 15 s; then the context is cancelled.
Drain ==
  /\ main = "draining" /\ main' = "scheduler" /\ canceled' = TRUE /\ cron' = "stopping"
  /\ \/ handlers = 0 /\ UNCHANGED errors
     \/ handlers > 0 /\ errors' = errors \cup {"drain"}
  /\ UNCHANGED <<ready, handlers, workers, running, runs>>

\* Stop waits for the runs under way.
StopScheduler ==
  /\ cron = "stopping" /\ \A j \in Jobs : runs[j] = 0
  /\ cron' = "stopped" /\ UNCHANGED <<main, ready, handlers, canceled, workers, running, runs, errors>>

\* shutdown waits for Stop, then for the workers, each 30 s at most.
AwaitScheduler ==
  /\ main = "scheduler" /\ main' = "workers"
  /\ \/ cron = "stopped" /\ UNCHANGED errors
     \/ cron # "stopped" /\ errors' = errors \cup {"timeout"}
  /\ UNCHANGED <<ready, handlers, canceled, workers, cron, running, runs>>
AwaitWorkers ==
  /\ main = "workers" /\ main' = "closing"
  /\ \/ workers = {} /\ UNCHANGED errors
     \/ workers # {} /\ errors' = errors \cup {"timeout"}
  /\ UNCHANGED <<ready, handlers, canceled, workers, cron, running, runs>>
CloseDatabase ==
  /\ main = "closing" /\ main' = "closed"
  /\ UNCHANGED <<ready, handlers, canceled, workers, cron, running, runs, errors>>

LifeNext ==
  \/ Request \/ Answer \/ RunEnds \/ Drain \/ StopScheduler \/ AwaitScheduler \/ AwaitWorkers \/ CloseDatabase
  \/ \E j \in Jobs : Fire(j) \/ JobEnds(j)
  \/ \E w \in Workers : WorkerEnds(w)

------------------------------------------------------------------------------
LifeTypeOK ==
  /\ main \in {"serving", "draining", "scheduler", "workers", "closing", "closed"}
  /\ ready \in BOOLEAN /\ canceled \in BOOLEAN /\ handlers \in 0..MaxHandlers /\ workers \subseteq Workers
  /\ cron \in {"on", "stopping", "stopped"} /\ running \in [Jobs -> BOOLEAN] /\ runs \in [Jobs -> 0..2]
  /\ errors \subseteq {"run", "drain", "timeout"}

\* The database is closed under a handler, a run or a worker only in a process
\* that reports it: unless a wait timed out, everyone was gone before.
NothingUsedAfterClose ==
  main = "closed" /\ errors \cap {"drain", "timeout"} = {} =>
    handlers = 0 /\ workers = {} /\ \A j \in Jobs : runs[j] = 0

\* docs/015: a job never runs beside itself, and none starts after the stop.
OneRunPerJob == \A j \in Jobs : runs[j] <= 1 /\ (cron = "stopped" => runs[j] = 0)
==============================================================================
