-------------------------------- MODULE CodeRuns -------------------------------
(***************************************************************************)
(* Runnable code blocks of a rendered document: the blocks                 *)
(* (components/code-sandbox.tsx) and the registry that gives every         *)
(* language one worker and one listener (lib/sandbox-registry.ts).  The    *)
(* runtimes inside the workers are external; what their scripts post       *)
(* around a run is modelled.                                               *)
(***************************************************************************)
EXTENDS Integers, Sequences, FiniteSets

CONSTANTS Blocks,       \* code blocks of the page
          LanguageOf,   \* the language written on each of them
          Alias,        \* language names that mean another one
          Fetched,      \* languages whose runtime comes from a CDN
          Sequential,   \* languages whose script runs a program to its end
          MaxRuns       \* bound: runs of one behaviour

\* A language nobody listens to is not a block.
BlocksNamed == "none" \notin Blocks

VARIABLES sandboxes,  \* what each block shows
          envs,       \* Go blocks: has the probe for yaegi.wasm answered
          workers, listeners,  \* the registry, by language
          programs,   \* programs running in the worker of a language
          posted,     \* their messages on the way to the page
          started     \* runs so far, the age of a mount
runVars == <<sandboxes, envs, workers, listeners, programs, posted, started>>

NoListener == [block |-> "none", mount |-> 0]
Fresh(n) == [mount |-> n, running |-> FALSE, output |-> {}, failed |-> FALSE]

\* getLangKey: aliases share a worker.
getLangKey(l) == IF l \in DOMAIN Alias THEN Alias[l] ELSE l
Key(b) == getLangKey(LanguageOf[b])
Keys == {Key(b) : b \in Blocks}

\* CodeSandbox: the probe for the Go runtime, asked once per mount.
ProbeGo(b) ==
  /\ envs[b] = "checking"
  /\ \E found \in {"ready", "missing"} : envs' = [envs EXCEPT ![b] = found]
  /\ UNCHANGED <<sandboxes, workers, listeners, programs, posted, started>>

\* The imports are the first statement of a script (getWorkerCode): a worker that
\* cannot load its runtime never listens, says nothing and stays registered.
getOrCreateWorker(k) ==
  IF workers[k] # "none" THEN {workers[k]}
  ELSE {"up"} \cup (IF k \in Fetched THEN {"dead"} ELSE {})
\* Mutant: a worker that is being made takes no program yet.
registryRunEarly(k, program) ==
  /\ workers' = [workers EXCEPT ![k] = "up"]
  /\ listeners' = [listeners EXCEPT ![k] = [block |-> program.block, mount |-> program.mount]]
  /\ programs' = IF workers[k] = "up" THEN [programs EXCEPT ![k] = Append(@, program)] ELSE programs
\* sandboxRegistry.run: the listener is replaced, the program is posted.
registryRun(k, program) ==
  \E w \in getOrCreateWorker(k) :
    /\ workers' = [workers EXCEPT ![k] = w]
    /\ listeners' = [listeners EXCEPT ![k] = [block |-> program.block, mount |-> program.mount]]
    /\ programs' = IF w = "up" THEN [programs EXCEPT ![k] = Append(@, program)] ELSE programs
\* What a block shows around its code: the run button rests while the block runs
\* or the probe does; a missing runtime is only warned of.
CodeSandbox(b) == [run |-> ~sandboxes[b].running /\ envs[b] # "checking", warning |-> envs[b] = "missing"]
runCode(b) ==
  /\ CodeSandbox(b).run /\ started < MaxRuns
  /\ started' = started + 1
  /\ sandboxes' = [sandboxes EXCEPT ![b].running = TRUE, ![b].failed = FALSE, ![b].output = {}]
  /\ registryRun(Key(b), [block |-> b, mount |-> sandboxes[b].mount, n |-> started, printed |-> FALSE])
  /\ UNCHANGED <<envs, posted>>

Without(s, i) == SubSeq(s, 1, i - 1) \o SubSeq(s, i + 1, Len(s))
Turn(k) == IF k \in Sequential THEN {1} \cap DOMAIN programs[k] ELSE DOMAIN programs[k]
Post(k, type, p) == posted' = [posted EXCEPT ![k] = Append(@, [type |-> type, from |-> p.block, n |-> p.n])]
\* A program prints, and ends with done or with an error.
Prints(k) ==
  \E i \in Turn(k) :
    /\ ~programs[k][i].printed
    /\ programs' = [programs EXCEPT ![k][i].printed = TRUE]
    /\ Post(k, "stdout", programs[k][i])
    /\ UNCHANGED <<sandboxes, envs, workers, listeners, started>>
RunEnds(k) ==
  \E i \in Turn(k), type \in {"done", "error"} :
    /\ programs' = [programs EXCEPT ![k] = Without(@, i)]
    /\ Post(k, type, programs[k][i])
    /\ UNCHANGED <<sandboxes, envs, workers, listeners, started>>

\* onMessage of a block; the closure of an unmounted block sets the state of nothing.
onMessage(s, msg) ==
  CASE msg.type = "done" -> [s EXCEPT !.running = FALSE]
    [] msg.type = "error" -> [s EXCEPT !.running = FALSE, !.failed = TRUE]
    [] msg.type = "stdout" -> [s EXCEPT !.output = @ \cup {[from |-> msg.from, n |-> msg.n]}]
\* Mutant: one listener hears every worker.
onmessageOfAny(k) ==
  /\ posted[k] # <<>>
  /\ posted' = [posted EXCEPT ![k] = Tail(@)]
  /\ \E j \in Keys :
       LET l == listeners[j] IN
       sandboxes' = IF l # NoListener /\ sandboxes[l.block].mount = l.mount
                    THEN [sandboxes EXCEPT ![l.block] = onMessage(@, Head(posted[k]))] ELSE sandboxes
  /\ UNCHANGED <<envs, workers, listeners, programs, started>>
\* worker.onmessage hands every message to the listener of the language.
onmessage(k) ==
  /\ posted[k] # <<>>
  /\ posted' = [posted EXCEPT ![k] = Tail(@)]
  /\ LET l == listeners[k] IN
     sandboxes' = IF l # NoListener /\ sandboxes[l.block].mount = l.mount
                  THEN [sandboxes EXCEPT ![l.block] = onMessage(@, Head(posted[k]))] ELSE sandboxes
  /\ UNCHANGED <<envs, workers, listeners, programs, started>>

\* The preview is left and rendered again: new components, the same registry.
Remount(b) ==
  /\ started < MaxRuns /\ sandboxes[b].mount # started
  /\ sandboxes' = [sandboxes EXCEPT ![b] = Fresh(started)]
  /\ envs' = [envs EXCEPT ![b] = IF Key(b) = "go" THEN "checking" ELSE "ready"]
  /\ UNCHANGED <<workers, listeners, programs, posted, started>>

RunInit ==
  /\ sandboxes = [b \in Blocks |-> Fresh(0)]
  /\ envs = [b \in Blocks |-> IF Key(b) = "go" THEN "checking" ELSE "ready"]
  /\ workers = [k \in Keys |-> "none"] /\ listeners = [k \in Keys |-> NoListener]
  /\ programs = [k \in Keys |-> <<>>] /\ posted = [k \in Keys |-> <<>>] /\ started = 0
RunNext ==
  \/ \E b \in Blocks : ProbeGo(b) \/ runCode(b) \/ Remount(b)
  \/ \E k \in Keys : Prints(k) \/ RunEnds(k) \/ onmessage(k)
RunSpec == RunInit /\ [][RunNext]_runVars

\* What the terminal of a block shows: an error hides the output.
TerminalOutput(b) == IF sandboxes[b].failed THEN {} ELSE sandboxes[b].output

CodeRunsTypeOK ==
  /\ \A b \in Blocks : sandboxes[b] \in [mount : 0..MaxRuns, running : BOOLEAN, failed : BOOLEAN,
                                         output : SUBSET [from : Blocks, n : 0..MaxRuns]]
  /\ workers \in [Keys -> {"none", "up", "dead"}] /\ envs \in [Blocks -> {"checking", "ready", "missing"}]

\* Two languages never meet: what a block prints was printed by a block whose
\* language has the same worker, whatever aliases they are written with.
LanguagesApart == \A b \in Blocks : \A line \in TerminalOutput(b) : Key(line.from) = Key(b)

\* A block shows that it runs only while something is left that will tell it the
\* end: CodeSandbox has no other way out. The two runs that nothing ends are told
\* apart: the worker could not load its runtime, or a later run of the language
\* has taken the listener.
EndComes(k) == \/ programs[k] # <<>>
               \/ \E i \in DOMAIN posted[k] : posted[k][i].type \in {"done", "error"}
Heard(b) == listeners[Key(b)] = [block |-> b, mount |-> sandboxes[b].mount]
RunIsReleased ==
  \A b \in Blocks : sandboxes[b].running =>
    \/ Heard(b) /\ workers[Key(b)] = "up" /\ EndComes(Key(b))
    \/ ~Heard(b) /\ listeners[Key(b)] # NoListener
    \/ workers[Key(b)] = "dead" /\ programs[Key(b)] = <<>> /\ posted[Key(b)] = <<>>

\* docs/005:90 and :100 promise an error for a runtime that cannot be fetched:
\* a block that has nothing to wait for does not show that it runs.
FailureIsReported == \A b \in Blocks : sandboxes[b].running => EndComes(Key(b))
================================================================================
