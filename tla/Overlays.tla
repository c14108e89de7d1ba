------------------------------- MODULE Overlays -------------------------------
(***************************************************************************)
(* What every page of the web client puts over itself: dialogs with their  *)
(* stack, scroll lock and focus (components/ui/dialog.tsx and              *)
(* dialog-stack.ts), toasts with their timers (toast.tsx), and menus, of   *)
(* which one is open at a time (menu.tsx).  Three state machines that      *)
(* share nothing.                                                          *)
(*                                                                         *)
(* The focus is on an element of the page, in a dialog, or on the body     *)
(* ("body": nowhere).  Effects run with the event that causes them.        *)
(***************************************************************************)
EXTENDS Integers, Sequences, FiniteSets, SequencesExt, Subsequences

CONSTANTS Dialogs,      \* dialogs that may be open together
          Policy,       \* Policy[d]: "always", "when-idle" or "explicit"
          Triggers,     \* elements of the page
          ReturnTo,     \* ReturnTo[d]: {returnFocusRef} or {}
          Messages,     \* toasts with different texts
          MaxToasts,    \* MAX_TOASTS
          Menus,        \* menus of a page
          Entries       \* Entries[m]: a sequence of [enabled, children]

VARIABLES stack,     \* overlayStack: the open dialogs, the topmost last
          busy,      \* dialogs with a request under way
          restoreFocus,  \* restoreFocusRef of each open dialog
          timers,    \* dialogs whose 16 ms focus timer runs, in order
          order,     \* the Escape listeners, in order of registration
          focus,     \* document.activeElement
          lock,      \* scrollLockCount, previousBodyOverflow, body overflow
          origin,    \* history: where the focus belongs when all is closed
          strayed    \* history: the focus was taken elsewhere
dialogVars == <<stack, busy, restoreFocus, timers, order, focus, lock, origin, strayed>>

VARIABLES toasts,    \* [id, msg, fresh]: fresh within DEDUPE_WINDOW_MS
          clocks,    \* timers.current: clocks[id] = "runs", "paused" or "none"
          hovered,   \* toasts under the pointer
          focused    \* toasts with the focus
toastVars == <<toasts, clocks, hovered, focused>>

VARIABLES shown,     \* open menus
          openMenu,  \* the module's openMenu: {owner} or {}
          submenu,   \* submenuIndex, 0 for none
          item       \* the item that has the focus, 0 for none
menuVars == <<shown, openMenu, submenu, item>>

ToastIDs == 1..(MaxToasts + 1)

(***************************************************************************)
(* Dialogs                                                                 *)
(***************************************************************************)

isTopDialog(d)  == stack # <<>> /\ Last(stack) = d
getDismissDisabled(d) == Policy[d] = "explicit" \/ (Policy[d] = "when-idle" /\ d \in busy)

registerDialog(l) == IF l.count = 0 THEN [count |-> 1, prev |-> l.body, body |-> "hidden"]
                     ELSE [l EXCEPT !.count = @ + 1]
\* Mutant: the first dialog to close gives the page back.
unregisterAtOnce(l) == [l EXCEPT !.count = @ - 1, !.body = l.prev]
unregister(l)     == IF l.count = 1 THEN [count |-> 0, prev |-> "", body |-> l.prev]
                     ELSE [l EXCEPT !.count = @ - 1]

\* Focusing an element that is gone, or the body, leaves the focus nowhere.
Focusable(e, s) == IF e \in Triggers \cup ToSet(s) THEN e ELSE "body"

\* A dialog opens, on a click or when an answer comes: the open effects.  Those
\* with a returnFocusRef open from the page, never over another dialog.
OpenDialog(d) ==
  /\ d \notin ToSet(stack) /\ (ReturnTo[d] # {} => stack = <<>>)
  /\ restoreFocus' = [restoreFocus EXCEPT ![d] = focus]
  /\ stack' = Append(stack, d)
  /\ lock' = registerDialog(lock)
  /\ focus' = d
  /\ timers' = Append(timers, d)
  /\ order' = Append(order, d)
  /\ origin' = IF stack = <<>> THEN IF ReturnTo[d] = {} THEN focus ELSE CHOOSE t \in ReturnTo[d] : TRUE
               ELSE origin
  /\ strayed' = (stack # <<>> /\ (strayed \/ ~isTopDialog(focus)))
  /\ UNCHANGED busy

\* The cleanup of the effects of the dialogs of ds, topmost first.
Cleanup(ds) ==
  LET left == Within(stack, Dialogs \ ds)
      low  == CHOOSE d \in ds : \A e \in ds : \E i, j \in DOMAIN stack :
                stack[i] = d /\ stack[j] = e /\ i <= j
      back == IF ReturnTo[low] = {} THEN restoreFocus[low] ELSE CHOOSE t \in ReturnTo[low] : TRUE
      given[n \in 0..Cardinality(ds)] == IF n = 0 THEN lock ELSE unregister(given[n - 1])
  IN  /\ stack' = left
      /\ timers' = Within(timers, Dialogs \ ds)
      /\ order' = Within(order, Dialogs \ ds)
      /\ lock' = given[Cardinality(ds)]
      /\ focus' = Focusable(back, left)
      /\ busy' = busy \ ds

canRequestClose(d) == ~getDismissDisabled(d)
requestClose(d) ==
  /\ isTopDialog(d) /\ canRequestClose(d)
  /\ Cleanup({d})
  /\ UNCHANGED <<restoreFocus, origin, strayed>>
DialogCloseButton(d) == canRequestClose(d) /\ requestClose(d)
\* A press on a backdrop that does not close takes the focus away.
DialogLayer(d) ==
  \/ requestClose(d)
  \/ /\ isTopDialog(d) /\ ~canRequestClose(d)
     /\ focus' = "body" /\ strayed' = TRUE
     /\ UNCHANGED <<stack, busy, restoreFocus, timers, order, lock, origin>>

\* Escape reaches every listener on the document in order of registration;
\* React commits a close before the next one runs, which may then be the
\* topmost dialog's.
Closes(k) ==
  /\ k <= Len(stack)
  /\ \A i \in 0..(k - 1) :
       /\ ~getDismissDisabled(stack[Len(stack) - i])
       /\ i > 0 => \E p, q \in DOMAIN order :
                     order[p] = stack[Len(stack) - i + 1] /\ order[q] = stack[Len(stack) - i] /\ p < q
Escape ==
  \E k \in 1..Len(stack) :
    /\ Closes(k) /\ ~Closes(k + 1)
    /\ Cleanup({stack[i] : i \in (Len(stack) - k + 1)..Len(stack)})
    /\ UNCHANGED <<restoreFocus, origin, strayed>>

\* The page closes a dialog of its own accord: an answer came.
PageCloses(d) ==
  /\ d \in ToSet(stack)
  /\ Cleanup({d})
  /\ strayed' = (strayed \/ ~isTopDialog(d))
  /\ UNCHANGED <<restoreFocus, origin>>
\* A request starts or ends: dismissDisabled changes, the listener is renewed.
SetBusy(d) ==
  /\ d \in ToSet(stack)
  /\ busy' = IF d \in busy THEN busy \ {d} ELSE busy \cup {d}
  /\ order' = IF Policy[d] = "when-idle" THEN Append(WithoutValue(order, d), d) ELSE order
  /\ UNCHANGED <<stack, restoreFocus, timers, focus, lock, origin, strayed>>

FocusTimer ==
  /\ timers # <<>>
  /\ focus' = Head(timers) /\ timers' = Tail(timers)
  /\ UNCHANGED <<stack, busy, restoreFocus, order, lock, origin, strayed>>
\* Tab: trapped in the topmost dialog only.
moveTrappedFocus(t) ==
  /\ stack # <<>> /\ ~isTopDialog(focus) /\ focus \notin Triggers
  /\ focus' = t
  /\ UNCHANGED <<stack, busy, restoreFocus, timers, order, lock, origin, strayed>>
FocusPage(t) ==
  /\ stack = <<>>
  /\ focus' = t
  /\ UNCHANGED <<stack, busy, restoreFocus, timers, order, lock, origin>>
  /\ strayed' = TRUE

DialogInit ==
  /\ stack = <<>> /\ busy = {} /\ restoreFocus = [d \in Dialogs |-> "body"]
  /\ timers = <<>> /\ order = <<>> /\ focus = "body"
  /\ lock = [count |-> 0, prev |-> "", body |-> "page"]
  /\ origin = "body" /\ strayed = FALSE
DialogNext ==
  \/ \E d \in Dialogs : OpenDialog(d) \/ DialogCloseButton(d) \/ DialogLayer(d)
                        \/ PageCloses(d) \/ SetBusy(d)
  \/ Escape \/ FocusTimer
  \/ \E t \in Triggers : moveTrappedFocus(t) \/ FocusPage(t)

(***************************************************************************)
(* Toasts                                                                  *)
(***************************************************************************)

ToastOf(s, id) == {i \in DOMAIN s : s[i].id = id}
schedule(id)   == [clocks EXCEPT ![id] = "runs"]
Unseen == CHOOSE id \in ToastIDs : ToastOf(toasts, id) = {}

toast ==
  \E m \in Messages :
    LET same == {i \in DOMAIN toasts : toasts[i].msg = m /\ toasts[i].fresh}
        kept == IF Len(toasts) < MaxToasts THEN toasts ELSE Tail(toasts)
        dropped == {toasts[i].id : i \in DOMAIN toasts} \ {kept[i].id : i \in DOMAIN kept}
    IN  IF same # {}
        THEN /\ clocks' = schedule(toasts[CHOOSE i \in same : \A j \in same : i <= j].id)
             /\ UNCHANGED <<toasts, hovered, focused>>
        ELSE /\ toasts' = Append(kept, [id |-> Unseen, msg |-> m, fresh |-> TRUE])
             /\ clocks' = [id \in ToastIDs |-> IF id = Unseen THEN "runs"
                                               ELSE IF id \in dropped THEN "none" ELSE clocks[id]]
             /\ hovered' = hovered \ dropped /\ focused' = focused \ dropped
removeToast(id) ==
  /\ toasts' = Within(toasts, {x \in ToSet(toasts) : x.id # id})
  /\ clocks' = [clocks EXCEPT ![id] = "none"]
  /\ hovered' = hovered \ {id} /\ focused' = focused \ {id}
ToastTimer(id)   == clocks[id] = "runs" /\ removeToast(id)
DismissToast(id) == ToastOf(toasts, id) # {} /\ removeToast(id)
WindowPasses(id) ==
  \E i \in ToastOf(toasts, id) :
    /\ toasts[i].fresh
    /\ toasts' = [toasts EXCEPT ![i].fresh = FALSE]
    /\ UNCHANGED <<clocks, hovered, focused>>

pause(id)  == clocks' = [clocks EXCEPT ![id] = IF @ = "none" THEN @ ELSE "paused"]
resume(id) == clocks' = [clocks EXCEPT ![id] = IF @ = "none" THEN @ ELSE "runs"]
MouseEnter(id) == /\ ToastOf(toasts, id) # {} /\ hovered = {}
                  /\ hovered' = {id} /\ pause(id) /\ UNCHANGED <<toasts, focused>>
MouseLeave(id) == /\ id \in hovered /\ hovered' = hovered \ {id}
                  /\ resume(id) /\ UNCHANGED <<toasts, focused>>
FocusToast(id) == /\ ToastOf(toasts, id) # {} /\ focused = {}
                  /\ focused' = {id} /\ pause(id) /\ UNCHANGED <<toasts, hovered>>
BlurToast(id)  == /\ id \in focused /\ focused' = focused \ {id}
                  /\ resume(id) /\ UNCHANGED <<toasts, hovered>>

ToastInit == toasts = <<>> /\ clocks = [id \in ToastIDs |-> "none"] /\ hovered = {} /\ focused = {}
ToastNext ==
  \/ toast
  \/ \E id \in ToastIDs : \/ ToastTimer(id) \/ DismissToast(id) \/ WindowPasses(id)
                          \/ MouseEnter(id) \/ MouseLeave(id) \/ FocusToast(id) \/ BlurToast(id)

(***************************************************************************)
(* Menus                                                                   *)
(***************************************************************************)

Enabled(es) == {i \in DOMAIN es : es[i].enabled}
First(s) == IF s = {} THEN 0 ELSE CHOOSE i \in s : \A j \in s : i <= j
LastOf(s) == IF s = {} THEN 0 ELSE CHOOSE i \in s : \A j \in s : i >= j
\* nextEnabled: the next enabled entry below or above, around the ends.
Below(es, i) == IF \E j \in Enabled(es) : j > i THEN First({j \in Enabled(es) : j > i})
                ELSE First(Enabled(es))
Above(es, i) == IF \E j \in Enabled(es) : j < i THEN LastOf({j \in Enabled(es) : j < i})
                ELSE LastOf(Enabled(es))

\* Opening a menu closes the one that is open, whichever it is.
showMenu(m, i) ==
  /\ shown' = (shown \ openMenu) \cup {m}
  /\ openMenu' = {m}
  /\ submenu' = 0
  /\ item' = IF m \in shown THEN item ELSE i
closeMenu(m) ==
  /\ shown' = shown \ {m} /\ openMenu' = openMenu \ {m}
  /\ submenu' = 0 /\ item' = 0
TriggerMenu(m) == IF m \in shown THEN closeMenu(m) ELSE showMenu(m, First(Enabled(Entries[m])))
ArrowOnTrigger(m) == \/ showMenu(m, First(Enabled(Entries[m])))
                     \/ showMenu(m, LastOf(Enabled(Entries[m])))
MoveInMenu(m) ==
  /\ m \in shown /\ submenu = 0
  /\ item' \in {Below(Entries[m], item), Above(Entries[m], item),
                First(Enabled(Entries[m])), LastOf(Enabled(Entries[m]))}
  /\ UNCHANGED <<shown, openMenu, submenu>>
showSubmenu(m) ==
  /\ m \in shown /\ item # 0 /\ Entries[m][item].children
  /\ submenu' = item
  /\ UNCHANGED <<shown, openMenu, item>>
LeaveSubmenu ==
  /\ submenu # 0 /\ submenu' = 0
  /\ UNCHANGED <<shown, openMenu, item>>
\* Choosing an entry, Escape, a press outside, the page that goes away.
selectEntry(m) == m \in shown /\ item # 0 /\ ~Entries[m][item].children /\ closeMenu(m)
LeaveMenu(m)   == m \in shown /\ closeMenu(m)

MenuInit == shown = {} /\ openMenu = {} /\ submenu = 0 /\ item = 0
MenuNext == \/ \E m \in Menus : \/ TriggerMenu(m) \/ ArrowOnTrigger(m) \/ MoveInMenu(m)
                                \/ showSubmenu(m) \/ selectEntry(m) \/ LeaveMenu(m)
            \/ LeaveSubmenu

(***************************************************************************)
(* Properties                                                              *)
(***************************************************************************)

OverlaysTypeOK ==
  /\ ToSet(stack) \subseteq Dialogs /\ busy \subseteq ToSet(stack)
  /\ focus \in Dialogs \cup Triggers \cup {"body"}
  /\ lock.count \in Nat /\ Len(toasts) <= MaxToasts
  /\ clocks \in [ToastIDs -> {"runs", "paused", "none"}]
  /\ shown \subseteq Menus /\ item \in Nat

\* The page behind cannot scroll while any dialog is open, in whatever order
\* they close, and scrolls again as before when the last one has closed.
PageLockedWhileOpen == lock.body = IF stack = <<>> THEN "page" ELSE "hidden"

\* Dialogs that close from the top hand the focus back: once the timers have
\* run, it is in the topmost dialog, and where it was before the first one
\* opened when none is left, unless a press on a backdrop took it away or a
\* dialog was opened while a timer had moved it below the topmost.
FocusHandedBack ==
  ~strayed /\ timers = <<>> =>
    focus = IF stack = <<>> THEN origin ELSE Last(stack)

\* Every toast has a timer that runs, except under the pointer or with the
\* focus, and no timer outlives its toast: notices go away by themselves.
ToastsGoAway ==
  \A id \in ToastIDs :
    /\ clocks[id] = "none" <=> ToastOf(toasts, id) = {}
    /\ clocks[id] = "paused" => id \in hovered \cup focused

\* One menu at a time, and it is the one the module would close.
OneMenu == shown = openMenu /\ Cardinality(shown) <= 1
==============================================================================
