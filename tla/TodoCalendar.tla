----------------------------- MODULE TodoCalendar -----------------------------
(***************************************************************************)
(* The /todos page of the web client: the window of months that grows as   *)
(* one scrolls, the list fetched for it, the optimistic writes             *)
(* (app/todos/hooks/useTodoCalendar.ts) and the dialogs they start from    *)
(* (components/TodoModals.tsx, DeleteTodoDialog.tsx).                      *)
(*                                                                         *)
(* Months are integers; the viewport is the month in its middle.  A form   *)
(* is "closed", "clean", "dirty" (typed into), "confirm" (the discard      *)
(* question) or "sending".                                                 *)
(***************************************************************************)
EXTENDS Integers, Sequences, FiniteSets, SequencesExt, Subsequences

CONSTANTS Months,       \* bound: the months one reaches
          ThisMonth,    \* todayMonth
          Radius, Batch,   \* INITIAL_MONTH_RADIUS, EXPAND_BATCH
          MaxTodos,     \* bound: todos that are ever created
          MaxWrites     \* bound: writes in flight

VARIABLES cal,     \* months, visibleMonth, the viewport and the refs beside them
          load,    \* loading and loadError: "loading", "error" or "ready"
          fetch,   \* the current list request, or none; beside: the todos a
                   \* write of which was under way after the server read the list
          todos,   \* the list shown
          forms,   \* create, edit, the day view and the delete question
          writes,  \* requests that change a todo, of all kinds
          stored,  \* the server's todos
          issued,  \* todos created so far
          doubt    \* history: the todos that were written beside the list shown,
                   \* or the answer about which was lost since

todoVars == <<cal, load, fetch, todos, forms, writes, stored, issued, doubt>>

TodoIDs == 1..MaxTodos
Todo    == [id : TodoIDs, done : {0, 1}, text : {0, 1}]
Write   == [kind : {"create", "toggle", "edit", "delete"}, id : TodoIDs \cup {0},
            value : {0, 1}, phase : {"wire", "done", "failed"}]
FormStates == {"closed", "clean", "dirty", "confirm", "sending"}

Closed == [create |-> "closed", edit |-> "closed", editing |-> 0, text |-> 0,
           day |-> FALSE, target |-> 0, deleting |-> FALSE]

(***************************************************************************)
(* The list                                                                *)
(***************************************************************************)

\* The effect of useTodoFetch: a request replaces the one before it (seq).
\* page.tsx takes the calendar away while it loads: a new one is at its top.
NewFetch == [phase |-> "wire", got |-> <<>>, beside |-> {}]
fetchStarted(c) == /\ fetch' = {NewFetch}
                   /\ load' = "loading"
                   /\ cal' = [c EXCEPT !.top = c.first]
Without(s, id) == Within(s, {t \in ToSet(s) : t.id # id})
Mapped(s, id, f(_)) == [i \in DOMAIN s |-> IF s[i].id = id THEN f(s[i]) ELSE s[i]]

ReadTodos ==
  \E r \in fetch :
    /\ r.phase = "wire"
    /\ fetch' = {[phase |-> "read", got |-> SetToSeq(stored), beside |-> {w.id : w \in writes} \ {0}]}
    /\ UNCHANGED <<cal, load, todos, forms, writes, stored, issued, doubt>>
TodosAnswer ==
  \E r \in fetch :
    /\ r.phase = "read"
    /\ todos' = r.got /\ doubt' = r.beside
    /\ load' = "ready" /\ fetch' = {}
    /\ UNCHANGED <<cal, forms, writes, stored, issued>>
TodosFail ==
  /\ fetch # {}
  /\ load' = "error" /\ fetch' = {}
  /\ UNCHANGED <<cal, todos, forms, writes, stored, issued, doubt>>
retryTodos ==
  /\ load = "error" /\ forms = Closed
  /\ fetchStarted(cal)
  /\ UNCHANGED <<todos, forms, writes, stored, issued, doubt>>

(***************************************************************************)
(* The calendar                                                            *)
(***************************************************************************)

buildInitialMonths(m) == [cal EXCEPT !.first = m - Radius, !.last = m + Radius]
Mounted == load = "ready"

\* The layout effect of a change of months, on the container before it goes.
Adjusted(c) ==
  IF ~Mounted THEN c
  ELSE IF ~c.inited THEN [c EXCEPT !.top = c.requested, !.visible = c.requested, !.inited = TRUE]
  ELSE IF c.adjust THEN [c EXCEPT !.adjust = FALSE, !.more = FALSE] ELSE c

navigateToMonth ==
  \E m \in {cal.visible - 1, cal.visible + 1, ThisMonth} \cap Months :
    LET c == [cal EXCEPT !.requested = m, !.visible = m]
    IN  /\ forms = Closed
        /\ IF Mounted /\ m \in cal.first..cal.last
           THEN cal' = [c EXCEPT !.top = m] /\ UNCHANGED <<load, fetch>>
           ELSE /\ {m - Radius, m + Radius} \subseteq Months
                /\ fetchStarted(Adjusted([buildInitialMonths(m) EXCEPT
                                  !.requested = m, !.visible = m, !.inited = FALSE,
                                  !.more = FALSE, !.adjust = FALSE]))
        /\ UNCHANGED <<todos, forms, writes, stored, issued, doubt>>

\* One scrolls to month m: the window grows at its edges, unless it is growing.
handleCalendarScroll ==
  \E m \in cal.first..cal.last :
    LET c == [cal EXCEPT !.top = m, !.visible = m]
        grown == [c EXCEPT !.more = TRUE, !.adjust = TRUE,
                           !.first = IF m = c.first THEN @ - Batch ELSE @,
                           !.last = IF m = c.first THEN @ ELSE @ + Batch]
    IN  /\ Mounted /\ forms = Closed
        /\ IF cal.more \/ m \notin {cal.first, cal.last}
           THEN cal' = c /\ UNCHANGED <<load, fetch>>
           ELSE /\ {grown.first, grown.last} \subseteq Months
                /\ fetchStarted(Adjusted(grown))
        /\ UNCHANGED <<todos, forms, writes, stored, issued, doubt>>

(***************************************************************************)
(* Writes                                                                  *)
(***************************************************************************)

\* The list that was read, if any, is older than a write of this todo.
Outdated(id) == fetch' = {IF r.phase = "read" /\ id # 0 THEN [r EXCEPT !.beside = @ \cup {id}] ELSE r : r \in fetch}
send(w) == /\ Cardinality(writes) < MaxWrites
           /\ writes' = writes \cup {w}
           /\ Outdated(w.id)
Wire(kind, id, v) == [kind |-> kind, id |-> id, value |-> v, phase |-> "wire"]

pendingToggleIDs == {w.id : w \in {w \in writes : w.kind = "toggle"}}

\* The buttons of a row: in a cell of the calendar, in the list of a small
\* screen, and in the day view, which alone deletes.
CellOffers(t)     == {"edit"} \cup (IF t.id \in pendingToggleIDs THEN {} ELSE {"toggle"})
ScheduleOffers(t) == CellOffers(t)
DayOffers(t)      == CellOffers(t) \cup {"delete"}
\* Only the topmost layer takes input: the page, or the day view above it.
Busy == forms.edit # "closed" \/ forms.target # 0 \/ forms.create # "closed"
Offered(b) == {t \in ToSet(todos) : /\ ~Busy
                                    /\ \/ forms.day /\ b \in DayOffers(t)
                                       \/ ~forms.day /\ Mounted
                                          /\ b \in CellOffers(t) \cup ScheduleOffers(t)}

mayToggle(t) == t.id \notin pendingToggleIDs
handleToggleDone ==
  \E t \in Offered("toggle") :
    /\ mayToggle(t)
    /\ todos' = Mapped(todos, t.id, LAMBDA x : [x EXCEPT !.done = 1 - t.done])
    /\ send(Wire("toggle", t.id, 1 - t.done))
    /\ UNCHANGED <<cal, load, forms, stored, issued, doubt>>

\* The server carries out a write, or refuses it; an update or a deletion of
\* a todo that is gone is refused.
Stores(w) ==
  CASE w.kind = "create" -> stored \cup {[id |-> issued + 1, done |-> 0, text |-> w.value]}
    [] w.kind = "toggle" -> {IF t.id = w.id THEN [t EXCEPT !.done = w.value] ELSE t : t \in stored}
    [] w.kind = "edit"   -> {IF t.id = w.id THEN [t EXCEPT !.text = w.value] ELSE t : t \in stored}
    [] w.kind = "delete" -> {t \in stored : t.id # w.id}
ServerWrites ==
  \E w \in writes :
    /\ w.phase = "wire"
    /\ \/ /\ IF w.kind = "create" THEN issued < MaxTodos ELSE \E t \in stored : t.id = w.id
          /\ stored' = Stores(w)
          /\ issued' = IF w.kind = "create" THEN issued + 1 ELSE issued
          /\ writes' = (writes \ {w}) \cup
               {[w EXCEPT !.phase = "done", !.id = IF w.kind = "create" THEN issued + 1 ELSE @]}
          /\ Outdated(IF w.kind = "create" THEN issued + 1 ELSE 0)
       \/ /\ writes' = (writes \ {w}) \cup {[w EXCEPT !.phase = "failed"]}
          /\ UNCHANGED <<fetch, stored, issued>>
    /\ UNCHANGED <<cal, load, todos, forms, doubt>>
AnswerLost ==
  \E w \in writes :
    /\ w.phase = "done"
    /\ writes' = (writes \ {w}) \cup {[w EXCEPT !.phase = "failed"]}
    /\ doubt' = doubt \cup {w.id}
    /\ UNCHANGED <<cal, load, fetch, todos, forms, stored, issued>>

\* The continuations of the four handlers.
ToggleAnswer ==
  \E w \in writes :
    /\ w.kind = "toggle" /\ w.phase # "wire"
    /\ todos' = IF w.phase = "done" THEN todos
                ELSE Mapped(todos, w.id, LAMBDA x : [x EXCEPT !.done = 1 - w.value])
    /\ writes' = writes \ {w}
    /\ UNCHANGED <<cal, load, fetch, forms, stored, issued, doubt>>
CreateAnswer ==
  \E w \in writes :
    /\ w.kind = "create" /\ w.phase # "wire"
    /\ IF w.phase = "done"
       THEN /\ todos' = Append(todos, [id |-> w.id, done |-> 0, text |-> w.value])
            /\ forms' = [forms EXCEPT !.create = "closed"]
       ELSE /\ forms' = [forms EXCEPT !.create = IF @ = "sending" THEN "dirty" ELSE @]
            /\ UNCHANGED todos
    /\ writes' = writes \ {w}
    /\ UNCHANGED <<cal, load, fetch, stored, issued, doubt>>
UpdateAnswer ==
  \E w \in writes :
    /\ w.kind = "edit" /\ w.phase # "wire"
    /\ IF w.phase = "done"
       THEN /\ todos' = Mapped(todos, w.id, LAMBDA x : [x EXCEPT !.text = w.value])
            /\ forms' = [forms EXCEPT !.edit = "closed", !.editing = 0, !.text = 0]
       ELSE /\ forms' = [forms EXCEPT !.edit = IF @ = "sending" THEN "dirty" ELSE @]
            /\ UNCHANGED todos
    /\ writes' = writes \ {w}
    /\ UNCHANGED <<cal, load, fetch, stored, issued, doubt>>
DeleteAnswer ==
  \E w \in writes :
    /\ w.kind = "delete" /\ w.phase # "wire"
    /\ IF w.phase = "done"
       THEN /\ todos' = Without(todos, w.id)
            /\ forms' = [forms EXCEPT !.target = 0, !.deleting = FALSE]
       ELSE /\ forms' = [forms EXCEPT !.deleting = FALSE]
            /\ UNCHANGED todos
    /\ writes' = writes \ {w}
    /\ UNCHANGED <<cal, load, fetch, stored, issued, doubt>>

(***************************************************************************)
(* Dialogs: only the topmost takes input, and none closes while it is busy *)
(***************************************************************************)

Form(f) == /\ forms' = f
           /\ UNCHANGED <<cal, load, fetch, todos, writes, stored, issued, doubt>>
openCreatePanel == forms = Closed /\ Form([forms EXCEPT !.create = "clean"])
openDayView     == Offered("edit") # {} /\ ~forms.day /\ Form([forms EXCEPT !.day = TRUE])
closeDayView    == forms.edit = "closed" /\ forms.target = 0 /\ forms.day
                   /\ Form([forms EXCEPT !.day = FALSE])
openEditPanel   == \E t \in Offered("edit") : Form([forms EXCEPT !.edit = "clean", !.editing = t.id,
                                                         !.text = t.text])

\* requestClose asks before it drops what was typed; the buttons of the
\* question keep or discard it.
Closing(f) == CASE f = "dirty" -> {"confirm"} [] f = "clean" -> {"closed"}
                [] f = "confirm" -> {"closed", "dirty", "confirm"} [] OTHER -> {}
TypeAndCloseCreate ==
  \/ forms.create = "clean" /\ Form([forms EXCEPT !.create = "dirty"])
  \/ \E f \in Closing(forms.create) : Form([forms EXCEPT !.create = f])
TypeAndCloseEdit ==
  \/ forms.edit = "clean" /\ Form([forms EXCEPT !.edit = "dirty", !.text = 1 - @])
  \/ \E f \in Closing(forms.edit) :
       Form([forms EXCEPT !.edit = f, !.editing = IF f = "closed" THEN 0 ELSE @,
                          !.text = IF f = "closed" THEN 0 ELSE @])
handleCreateTodo ==
  /\ forms.create = "dirty"
  /\ send(Wire("create", 0, 0))
  /\ forms' = [forms EXCEPT !.create = "sending"]
  /\ UNCHANGED <<cal, load, todos, stored, issued, doubt>>
handleUpdateTodoContent ==
  /\ forms.edit = "dirty"
  /\ send(Wire("edit", forms.editing, forms.text))
  /\ forms' = [forms EXCEPT !.edit = "sending"]
  /\ UNCHANGED <<cal, load, todos, stored, issued, doubt>>

requestDeleteTodo == \E t \in Offered("delete") : Form([forms EXCEPT !.target = t.id])
DeleteDialog      == IF forms.target = 0 \/ forms.deleting THEN {} ELSE {"Cancel", "Delete todo"}
cancelDeleteTodo  == "Cancel" \in DeleteDialog /\ Form([forms EXCEPT !.target = 0])
confirmDeleteTodo ==
  /\ "Delete todo" \in DeleteDialog
  /\ send(Wire("delete", forms.target, 0))
  /\ forms' = [forms EXCEPT !.deleting = TRUE]
  /\ UNCHANGED <<cal, load, todos, stored, issued, doubt>>

TodoInit ==
  /\ cal = [first |-> ThisMonth - Radius, last |-> ThisMonth + Radius, visible |-> ThisMonth,
            requested |-> ThisMonth, top |-> ThisMonth - Radius, inited |-> FALSE, more |-> FALSE,
            adjust |-> FALSE]
  /\ load = "loading" /\ fetch = {NewFetch}
  /\ todos = <<>> /\ forms = Closed /\ writes = {}
  /\ stored = {} /\ issued = 0 /\ doubt = {}

TodoAnswers == ReadTodos \/ TodosAnswer \/ TodosFail \/ ServerWrites \/ AnswerLost
               \/ ToggleAnswer \/ CreateAnswer \/ UpdateAnswer \/ DeleteAnswer
TodoUse == \/ retryTodos \/ navigateToMonth \/ handleCalendarScroll \/ handleToggleDone
           \/ openCreatePanel \/ openDayView \/ closeDayView \/ openEditPanel
           \/ TypeAndCloseCreate \/ TypeAndCloseEdit
           \/ handleCreateTodo \/ handleUpdateTodoContent
           \/ requestDeleteTodo \/ cancelDeleteTodo \/ confirmDeleteTodo
TodoNext == TodoAnswers \/ TodoUse

(***************************************************************************)
(* Properties                                                              *)
(***************************************************************************)

TodoTypeOK ==
  /\ {cal.first, cal.last, cal.visible, cal.requested, cal.top} \subseteq Months
  /\ load \in {"loading", "error", "ready"} /\ Cardinality(fetch) <= 1
  /\ todos \in Seq(Todo) /\ writes \subseteq Write /\ stored \subseteq Todo
  /\ {forms.create, forms.edit} \subseteq FormStates

\* What is shown ends up as what is stored: when nothing is in flight, every
\* toggle, edit, creation and deletion, whether it succeeded or was rolled
\* back, has left the row of its todo as the server has it, once. Left out are
\* the todos that were written while the list shown was on its way, or whose
\* answer was lost since, and those only until the list is read again.
Row(s, id) == {t \in s : t.id = id}
OptimismSettles ==
  writes = {} /\ load = "ready" =>
    \A id \in TodoIDs \ doubt :
      /\ Row(ToSet(todos), id) = Row(stored, id)
      /\ \A i, j \in DOMAIN todos : todos[i].id = id /\ todos[j].id = id => i = j

\* docs/008:74: an old answer must not cover what the user did last. The list
\* that months are loaded with is applied over a change made since it was read.
NoOldListShown == writes = {} /\ load = "ready" => ToSet(todos) = stored

\* A form keeps what was typed until its own request has succeeded: while a
\* creation, an edit or a deletion is in flight its dialog is there, busy.
FormSurvives ==
  \A w \in writes :
    /\ w.kind = "create" => forms.create = "sending"
    /\ w.kind = "edit" => forms.edit = "sending" /\ forms.editing = w.id
    /\ w.kind = "delete" => forms.deleting /\ forms.target = w.id
==============================================================================
