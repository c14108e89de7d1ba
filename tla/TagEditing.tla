------------------------------ MODULE TagEditing -------------------------------
(***************************************************************************)
(* The tags of the document in the editor (app/docs/[id]): the selection   *)
(* and its saves (hooks/useTagState.ts), the inline tag field              *)
(* (hooks/useInlineTag.ts, components/InlineTagBar.tsx) and the other tag  *)
(* field (hooks/useTagInput.ts), with the server's rows.  A tag's id is    *)
(* its name.                                                               *)
(***************************************************************************)
EXTENDS Integers, FiniteSets

CONSTANTS TagNames,   \* valid names somebody may type
          Matches,    \* name LIKE %query%: the names a query finds
          MAX_TAGS,
          MaxTagSaves, \* bound: PUTs of one session
          MaxAdding    \* bound: names that wait to be looked up or created at a time

VARIABLES field,    \* which of the two fields, and its state
          lookups,  \* searches under way
          adding,   \* handlers that wait before they save: what they captured
          picked,   \* selectedTagIDs
          known,    \* allTags
          puts,     \* saves under way: ids, what to go back to, whether the field waits to clear
          tagRows, docTags,  \* server: tags of the user, tags of the document
          asked,             \* saves so far
          newest, unsure     \* history: one past the newest save the server applied, and
                             \* what has happened that parts the page from the server
tagVars == <<field, lookups, adding, picked, known, puts, tagRows, docTags, asked, newest, unsure>>

ClosedField(kind) == [kind |-> kind, open |-> kind = "input", value |-> "", timer |-> FALSE,
                      results |-> {}, loading |-> FALSE, last |-> ""]
Inline == field.kind = "inline"
Found(q) == IF q = "" THEN {} ELSE Matches[q] \cap tagRows
Server == <<tagRows, docTags>>
Saving == <<puts, asked, newest, unsure>>

\* What the bar shows: a cross on every tag, and the field or its button while
\* there is room for another tag.
InlineTagBar ==
  [crosses |-> picked,
   rest |-> IF Cardinality(picked) >= MAX_TAGS THEN "full" ELSE IF field.open THEN "field" ELSE "add tag"]
TagInputShown == ~Inline \/ InlineTagBar.rest = "field"
\* clearTagQuery; Escape, the blur of the inline field, an empty query.
Cleared == [field EXCEPT !.open = ~Inline, !.value = "", !.timer = FALSE, !.results = {},
                         !.loading = FALSE]

(***************************************************************************)
(* useTagState                                                             *)
(***************************************************************************)

\* saveTagIDs shows the new set at once; previous is the selection of the render
\* the handler belongs to. Nothing keeps a save from starting beside another: alone
\* says (history) that none did, and that previous was still shown when it started.
saveTagIDs(next, previous, clears) ==
  /\ asked < MaxTagSaves
  /\ asked' = asked + 1 /\ picked' = next
  /\ puts' = {[p EXCEPT !.alone = FALSE] : p \in puts} \cup
             {[n |-> asked, ids |-> next, previous |-> previous, applied |-> FALSE,
               clears |-> clears, alone |-> puts = {} /\ previous = picked]}
  /\ UNCHANGED <<newest, unsure>>
toggleTag(id) ==
  /\ \/ id \in InlineTagBar.crosses /\ saveTagIDs(picked \ {id}, picked, FALSE)
     \/ id \notin picked /\ id \in known /\ Cardinality(picked) < MAX_TAGS
        /\ saveTagIDs(picked \cup {id}, picked, FALSE)
  /\ UNCHANGED <<field, lookups, adding, known>> /\ UNCHANGED Server
\* DocumentService.UpdateTags replaces the rows.
UpdateTags ==
  \E p \in puts :
    /\ ~p.applied /\ docTags' = p.ids
    /\ puts' = (puts \ {p}) \cup {[p EXCEPT !.applied = TRUE]}
    /\ newest' = IF p.n < newest THEN newest ELSE p.n + 1
    /\ unsure' = IF p.n < newest THEN unsure \cup {"applied out of order"} ELSE unsure
    /\ UNCHANGED <<field, lookups, adding, picked, known, tagRows, asked>>
\* A save that failed goes back to its previous selection.
SaveTagsAnswer ==
  \E p \in puts :
    /\ puts' = puts \ {p}
    /\ \/ p.applied /\ UNCHANGED <<picked, unsure>>
       \/ /\ picked' = p.previous
          /\ unsure' = unsure \cup (IF p.applied THEN {"answer lost"}
                                   ELSE IF p.alone THEN {} ELSE {"failed beside another"})
    /\ field' = IF p.clears THEN Cleared ELSE field     \* the handler that saved goes on
    /\ UNCHANGED <<lookups, adding, known, asked, newest>> /\ UNCHANGED Server

(***************************************************************************)
(* The fields                                                              *)
(***************************************************************************)

\* The inline field opens while there is room; leaving it clears it, and what
\* hides in it, but a search under way goes on.
openInline ==
  /\ Inline /\ InlineTagBar.rest = "add tag" /\ field' = [field EXCEPT !.open = TRUE]
  /\ UNCHANGED <<lookups, adding, picked, known>> /\ UNCHANGED <<Server, Saving>>
clearTagQuery == /\ field.open /\ field # Cleared /\ field' = Cleared
                 /\ UNCHANGED <<lookups, adding, picked, known>> /\ UNCHANGED <<Server, Saving>>
typeTag(q) ==
  /\ TagInputShown /\ q # field.value
  /\ field' = IF q = "" THEN [Cleared EXCEPT !.open = TRUE] ELSE [field EXCEPT !.value = q, !.timer = TRUE]
  /\ UNCHANGED <<lookups, adding, picked, known>> /\ UNCHANGED <<Server, Saving>>
\* runSearchTags after 200 ms, the inline search after 180 ms.
runSearchTags ==
  /\ field.timer
  /\ field' = [field EXCEPT !.timer = FALSE, !.loading = TRUE, !.last = field.value]
  /\ lookups' = lookups \cup {field.value}
  /\ UNCHANGED <<adding, picked, known>> /\ UNCHANGED <<Server, Saving>>
\* Only useTagInput compares the answer's query with the last one.
accepted(q) == Inline \/ field.last = q
TagSearchAnswer ==
  \E q \in lookups : \E results \in {Found(q), {}} :    \* a failure shows nothing found
    /\ lookups' = lookups \ {q}
    /\ IF accepted(q)
       THEN field' = [field EXCEPT !.results = results, !.loading = FALSE] /\ known' = known \cup results
       ELSE UNCHANGED <<field, known>>
    /\ UNCHANGED <<adding, picked>> /\ UNCHANGED <<Server, Saving>>

\* tagDropdownItems: the exact tag or the offer to create it, then the rest.
Exact == field.value \in (field.results \ picked) \cup known
DropdownItems ==
  IF field.value = "" \/ field.loading THEN {}
  ELSE {[type |-> IF Exact THEN "use" ELSE "create", tag |-> field.value]}
       \cup {[type |-> "suggestion", tag |-> t] : t \in (field.results \ picked) \ {field.value}}
\* An existing tag of the list is selected.
handleSelect(t) ==
  /\ \E i \in DropdownItems : i.type # "create" /\ i.tag = t
  /\ IF t \in picked THEN field' = Cleared /\ UNCHANGED <<picked, Saving>>
     ELSE Cardinality(picked) < MAX_TAGS /\ saveTagIDs(picked \cup {t}, picked, TRUE) /\ UNCHANGED field
  /\ UNCHANGED <<lookups, adding, known>> /\ UNCHANGED Server
\* A name is added: a tag the page knows, or one it has to look for first.  The
\* handler keeps the selection it began with, and another may start beside it.  A
\* known name that is selected, or for which there is no room, is cleared.
handleAddTag ==
  LET name == field.value
      room == Cardinality(picked) < MAX_TAGS
  IN
  /\ TagInputShown /\ name # "" /\ (Inline => room)
  /\ IF name \in known
     THEN /\ \/ name \notin picked /\ room /\ saveTagIDs(picked \cup {name}, picked, TRUE)
                /\ UNCHANGED field
             \/ (name \in picked \/ ~room) /\ field' = Cleared /\ UNCHANGED <<picked, Saving>>
          /\ UNCHANGED adding
     ELSE /\ \E slot \in 1..MaxAdding :
               /\ \A a \in adding : a.slot # slot
               /\ adding' = adding \cup {[slot |-> slot, name |-> name, stage |-> "find", captured |-> picked]}
          /\ UNCHANGED <<field, picked, Saving>>
  /\ UNCHANGED <<lookups, known>> /\ UNCHANGED Server
\* addTagByName after findExisting: use the tag, or create it.
Room(a) == Cardinality(a.captured) < MAX_TAGS
findExistingTagByName ==
  \E a \in adding :
    /\ a.stage = "find"
    /\ \/ /\ a.name \in tagRows /\ known' = known \cup {a.name} /\ adding' = adding \ {a}
          /\ \/ a.name \notin a.captured /\ Room(a) /\ UNCHANGED field
                /\ saveTagIDs(a.captured \cup {a.name}, a.captured, TRUE)
             \/ (a.name \in a.captured \/ ~Room(a)) /\ field' = Cleared /\ UNCHANGED <<picked, Saving>>
       \/ /\ adding' = (adding \ {a}) \cup (IF Room(a) THEN {[a EXCEPT !.stage = "create"]} ELSE {})
          /\ field' = IF Room(a) THEN field ELSE Cleared
          /\ UNCHANGED <<known, picked, Saving>>
    /\ UNCHANGED lookups /\ UNCHANGED Server
\* POST /tags: the name is unique, so an existing one is a conflict.
createTag ==
  \E a \in adding :
    /\ a.stage = "create" /\ adding' = adding \ {a}
    /\ \/ /\ a.name \notin tagRows /\ tagRows' = tagRows \cup {a.name} /\ known' = known \cup {a.name}
          /\ saveTagIDs(a.captured \cup {a.name}, a.captured, TRUE)
       \/ tagRows' = tagRows /\ UNCHANGED <<known, picked, Saving>>
    /\ UNCHANGED <<field, lookups, docTags>>

TagInit ==
  /\ field \in {ClosedField("inline"), ClosedField("input")} /\ lookups = {} /\ adding = {} /\ puts = {}
  /\ docTags \in {S \in SUBSET TagNames : Cardinality(S) <= 1} /\ picked = docTags /\ known = docTags
  /\ tagRows \in {S \in SUBSET TagNames : docTags \subseteq S} /\ asked = 0 /\ newest = 0 /\ unsure = {}
TagNext ==
  \/ UpdateTags \/ SaveTagsAnswer \/ openInline \/ clearTagQuery \/ runSearchTags \/ TagSearchAnswer
  \/ handleAddTag \/ findExistingTagByName \/ createTag
  \/ \E t \in TagNames : toggleTag(t) \/ handleSelect(t)
  \/ \E q \in TagNames \cup {""} : typeTag(q)

(***************************************************************************)
(* Properties                                                              *)
(***************************************************************************)

TagTypeOK ==
  /\ picked \cup docTags \cup known \cup tagRows \subseteq TagNames /\ lookups \subseteq TagNames
  /\ Cardinality(adding) <= MaxAdding /\ \A a \in adding : a.stage \in {"find", "create"}
  /\ newest \in 0..asked /\ unsure \subseteq {"answer lost", "failed beside another", "applied out of order"}

\* docs/007: the number of tags is limited, whichever way they come, also when
\* the handler waited for the server in between; and every tag on the page is
\* one the page can show, from the user's rows.
TagCap == /\ Cardinality(picked) <= MAX_TAGS /\ Cardinality(docTags) <= MAX_TAGS
          /\ picked \cup docTags \subseteq known /\ known \subseteq tagRows

\* docs/007: after adding and removing tags a reload shows the same ones, also when
\* saves overlap or fail: unless the answer of one was lost, one failed that had
\* another beside it, or the server took them in another order than they were sent.
TagsSettle == puts = {} /\ unsure = {} => docTags = picked

\* docs/007 as it stands: a reload shows what the editor shows, whichever tags were
\* added and removed, as long as the page heard of every save that was made.
TagsSurviveReload == puts = {} /\ "answer lost" \notin unsure => docTags = picked
==============================================================================
