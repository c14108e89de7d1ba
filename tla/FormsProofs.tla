----------------------------- MODULE FormsProofs -----------------------------
(***************************************************************************)
(* Forms and panels that wait for the server: the tags of a document, the  *)
(* share tab, the restore of a version and the menus of the editor, for    *)
(* any number of tags, shares, calls and queries; then what gives back     *)
(* what it took from the page: dialogs, toasts, menus and the locks of     *)
(* scroll synchronisation, in whatever order their steps come.             *)
(***************************************************************************)
EXTENDS TagEditing, ShareSettings, Revert, EditorMenus, Overlays, ScrollSync, SubsequencesProofs, TLAPS

-----------------------------------------------------------------------------
(* Tags. Saves overlap and are applied in any order; what is shown is that  *)
(* of the last one started, and the server has it once that one is applied, *)
(* unless the history (unsure) names what has parted the two.               *)

TagSpec == TagInit /\ [][TagNext]_tagVars
TagsBounded == IsFiniteSet(TagNames) /\ MAX_TAGS \in Nat \ {0}

FieldStates == [kind : {"inline", "input"}, open : BOOLEAN, value : TagNames \cup {""}, timer : BOOLEAN,
                results : SUBSET TagNames, loading : BOOLEAN, last : TagNames \cup {""}]
TagFields == {f \in FieldStates : f.timer => f.value # ""}
TagSaves  == [n : Nat, ids : SUBSET TagNames, previous : SUBSET TagNames, applied : BOOLEAN, clears : BOOLEAN,
              alone : BOOLEAN]
Handlers  == [slot : 1..MaxAdding, name : TagNames, stage : {"find", "create"}, captured : SUBSET TagNames]

\* A set of tags that the document may have.
Fits(S) == S \subseteq known /\ Cardinality(S) <= MAX_TAGS
HandlerSound(a) == a.captured \subseteq known /\ (a.stage = "create" => Room(a))
PutSound(p) == Fits(p.ids) /\ Fits(p.previous)
SavesOrdered ==
  /\ asked \in Nat /\ newest \in Nat /\ newest <= asked
  /\ \A p \in puts : p.n < asked /\ (p.applied => p.n < newest)
  /\ \A p, q \in puts : p.n = q.n => p = q
  /\ \A p, q \in puts : p.alone => p = q
IsLast(p) == p.n + 1 = asked
SavesTold ==
  unsure = {} =>
    /\ \A p \in puts : p.alone /\ ~p.applied => docTags = p.previous
    /\ \A p \in puts : IsLast(p) => p.ids = picked /\ (p.applied => docTags = picked)
    /\ (\A p \in puts : ~IsLast(p)) => docTags = picked /\ (puts # {} => newest = asked)
TagsIInv ==
  /\ field \in TagFields /\ field.results \subseteq known /\ lookups \subseteq TagNames
  /\ puts \subseteq TagSaves /\ adding \subseteq Handlers
  /\ known \subseteq tagRows /\ tagRows \subseteq TagNames
  /\ Fits(picked) /\ Fits(docTags)
  /\ \A a \in adding : HandlerSound(a)
  /\ \A p \in puts : PutSound(p)
  /\ SavesOrdered /\ SavesTold

LEMMA Subsets ==
  ASSUME TagsBounded, NEW S \in SUBSET TagNames
  PROVE  /\ IsFiniteSet(S) /\ Cardinality(S) \in Nat
         /\ \A x \in TagNames : /\ Cardinality(S) < MAX_TAGS => Cardinality(S \cup {x}) <= MAX_TAGS
                                /\ Cardinality(S) <= MAX_TAGS => Cardinality(S \ {x}) <= MAX_TAGS
  <1>1. IsFiniteSet(S) /\ Cardinality(S) \in Nat
    BY FS_Subset, FS_CardinalityType DEF TagsBounded
  <1>2. ASSUME NEW x \in TagNames
        PROVE  /\ Cardinality(S \cup {x}) <= Cardinality(S) + 1 /\ Cardinality(S \cup {x}) \in Nat
               /\ Cardinality(S \ {x}) <= Cardinality(S) /\ Cardinality(S \ {x}) \in Nat
    <2>1. PICK k \in Nat : k = Cardinality(S)
      BY <1>1
    <2>2. Cardinality(S \cup {x}) \in {k, k + 1}
      BY <1>1, <2>1, FS_AddElement
    <2>3. Cardinality(S \ {x}) \in {k, k - 1}
      BY <1>1, <2>1, FS_RemoveElement
    <2>4. IsFiniteSet(S \ {x})
      BY Zenon, <1>1, FS_RemoveElement
    <2>5. Cardinality(S \ {x}) \in Nat
      BY Zenon, <2>4, FS_CardinalityType
    <2> QED
      BY <2>1, <2>2, <2>3, <2>5
  <1>3. PICK m \in Nat, n \in Nat : m = MAX_TAGS /\ n = Cardinality(S)
    BY <1>1 DEF TagsBounded
  <1>4. ASSUME NEW x \in TagNames
        PROVE  (n < m => Cardinality(S \cup {x}) <= m) /\ (n <= m => Cardinality(S \ {x}) <= m)
    <2>1. PICK a \in Nat, b \in Nat : a = Cardinality(S \cup {x}) /\ b = Cardinality(S \ {x}) /\ a <= n + 1 /\ b <= n
      BY <1>2, <1>3
    <2> QED
      BY <2>1
  <1> QED
    BY Zenon, <1>1, <1>3, <1>4

LEMMA TagsStart == ASSUME TagsBounded, TagInit PROVE TagsIInv
  <1>1. field \in TagFields /\ field.results = {}
    <2>1. PICK kind \in {"inline", "input"} : field = ClosedField(kind)
      BY DEF TagInit
    <2> QED
      BY <2>1 DEF ClosedField, TagFields, FieldStates
  <1>2. Fits(docTags) /\ Fits(picked)
    <2>1. Cardinality(docTags) \in Nat
      BY Subsets DEF TagInit
    <2> QED
      BY <2>1 DEF TagInit, Fits, TagsBounded
  <1> QED
    BY <1>1, <1>2 DEF TagInit, TagsIInv, PutSound, SavesOrdered, SavesTold

LEMMA ClearedType == ASSUME field \in TagFields PROVE Cleared \in TagFields /\ Cleared.results = {}
  BY DEF TagFields, FieldStates, Cleared, Inline

\* A save starts beside those under way, of a selection that fits.
LEMMA SaveStep ==
  ASSUME TagsBounded, TagsIInv,
         NEW next, NEW previous, NEW clears \in BOOLEAN, saveTagIDs(next, previous, clears),
         field' \in TagFields, field'.results \subseteq known', lookups' \subseteq TagNames, adding' \subseteq adding, docTags' = docTags,
         known \subseteq known', known' \subseteq tagRows', tagRows' \subseteq TagNames,
         Fits(next)', Fits(previous)'
  PROVE  TagsIInv'
  <1> DEFINE Beside(q) == [q EXCEPT !.alone = FALSE]
  <1>1. PICK p : p = [n |-> asked, ids |-> next, previous |-> previous, applied |-> FALSE, clears |-> clears,
                      alone |-> puts = {} /\ previous = picked]
    OBVIOUS
  <1>2. /\ puts' = {Beside(q) : q \in puts} \cup {p} /\ picked' = next /\ asked' = asked + 1
        /\ unsure' = unsure /\ newest' = newest
    BY <1>1 DEF saveTagIDs
  <1>3. p \in TagSaves /\ p.n = asked /\ p.ids = next /\ p.previous = previous /\ ~p.applied
        /\ (p.alone => puts = {} /\ previous = picked)
    BY <1>1 DEF TagsIInv, SavesOrdered, TagSaves, Fits
  <1>4. \A q \in puts : /\ Beside(q) \in TagSaves /\ Beside(q).n = q.n /\ Beside(q).ids = q.ids
                        /\ Beside(q).previous = q.previous /\ Beside(q).applied = q.applied /\ ~Beside(q).alone
    BY DEF TagsIInv, TagSaves
  <1> HIDE DEF Beside
  <1>5. \A o \in puts' : o = p \/ \E q \in puts : o = Beside(q)
    BY <1>2
  <1>6. puts' \subseteq TagSaves
    BY <1>3, <1>4, <1>5
  <1>7. Fits(docTags)' /\ Fits(picked)' /\ \A o \in puts' : PutSound(o)'
    <2>1. PutSound(p)'
      BY <1>2, <1>3 DEF PutSound, Fits
    <2>2. \A q \in puts : PutSound(Beside(q))'
      BY <1>4 DEF TagsIInv, PutSound, Fits
    <2>3. \A o \in puts' : PutSound(o)'
      BY <1>5, <2>1, <2>2
    <2> QED
      BY <1>2, <2>3 DEF TagsIInv, Fits
  <1>8. \A a \in adding' : HandlerSound(a)'
    BY DEF TagsIInv, HandlerSound, Room
  <1>9. \A q \in puts : q.n \in Nat /\ q.n < asked
    BY DEF TagsIInv, SavesOrdered, TagSaves
  <1>10. SavesOrdered'
    <2>1. \A o \in puts' : o.n < asked' /\ (o.applied => o.n < newest')
      BY <1>2, <1>3, <1>4, <1>5, <1>9 DEF TagsIInv, SavesOrdered
    <2>2. \A o, r \in puts' : o.n = r.n => o = r
      BY <1>3, <1>4, <1>5, <1>9 DEF TagsIInv, SavesOrdered
    <2>3. \A o, r \in puts' : o.alone => o = r
      BY <1>3, <1>4, <1>5
    <2> QED
      BY <1>2, <2>1, <2>2, <2>3 DEF TagsIInv, SavesOrdered
  <1>11. SavesTold'
    <2>1. ASSUME unsure = {}, p.alone PROVE docTags = p.previous
      BY <1>3, <2>1 DEF TagsIInv, SavesTold
    <2>2. p \in puts' /\ \A o \in puts' : IsLast(o)' => o = p
      BY <1>2, <1>3, <1>4, <1>5, <1>9 DEF IsLast, TagsIInv, SavesOrdered
    <2>3. IsLast(p)'
      BY <1>2, <1>3 DEF IsLast
    <2> QED
      BY <1>2, <1>3, <1>4, <1>5, <2>1, <2>2, <2>3 DEF SavesTold
  <1> QED
    BY <1>2, <1>6, <1>7, <1>8, <1>10, <1>11 DEF TagsIInv

\* A step that neither saves nor hears of a save.
LEMMA QuietTags ==
  ASSUME TagsIInv, UNCHANGED <<picked, puts, docTags, asked, newest, unsure>>,
         field' \in TagFields, field'.results \subseteq known', lookups' \subseteq TagNames, adding' \subseteq Handlers,
         \A a \in adding' : HandlerSound(a)',
         known \subseteq known', known' \subseteq tagRows', tagRows' \subseteq TagNames
  PROVE  TagsIInv'
  <1>1. Fits(picked)' /\ Fits(docTags)' /\ \A p \in puts' : PutSound(p)'
    BY DEF TagsIInv, Fits, PutSound
  <1>2. SavesOrdered' /\ SavesTold'
    BY DEF TagsIInv, SavesOrdered, SavesTold, IsLast
  <1> QED
    BY <1>1, <1>2 DEF TagsIInv

LEMMA SelectionSteps ==
  ASSUME TagsBounded, TagsIInv, NEW t \in TagNames, toggleTag(t) \/ handleSelect(t)
  PROVE  TagsIInv'
  <1>1. picked \in SUBSET TagNames /\ field \in TagFields /\ Cleared \in TagFields /\ Cleared.results = {}
    BY ClearedType DEF TagsIInv, Fits
  <1>2. \A x \in TagNames : /\ x \in known /\ Cardinality(picked) < MAX_TAGS => Fits(picked \cup {x})
                            /\ Fits(picked \ {x})
    BY <1>1, Subsets DEF TagsIInv, Fits
  <1>3. CASE toggleTag(t)
    <2>1. PICK next \in {picked \ {t}, picked \cup {t}} : saveTagIDs(next, picked, FALSE) /\ Fits(next)
      BY <1>2, <1>3 DEF toggleTag, InlineTagBar
    <2> QED
      BY <1>3, <2>1, SaveStep DEF toggleTag, Server, TagsIInv, Fits
  <1>4. CASE handleSelect(t)
    <2>1. CASE t \in picked
      BY <1>1, <1>4, <2>1, QuietTags DEF handleSelect, Server, Saving, TagsIInv, HandlerSound, Room
    <2>2. CASE t \notin picked
      <3>1. PICK i \in DropdownItems : i.type # "create" /\ i.tag = t
        BY <1>4 DEF handleSelect
      <3>2. t \in known
        <4>1. CASE \E s \in field.results : i = [type |-> "suggestion", tag |-> s]
          BY <3>1, <4>1 DEF TagsIInv
        <4>2. CASE i = [type |-> IF Exact THEN "use" ELSE "create", tag |-> field.value]
          BY <3>1, <4>2 DEF Exact, TagsIInv
        <4> QED
          BY <3>1, <4>1, <4>2 DEF DropdownItems
      <3> QED
        BY <1>1, <1>2, <1>4, <2>2, <3>2, SaveStep DEF handleSelect, Server, TagsIInv, Fits
    <2> QED
      BY <2>1, <2>2
  <1> QED
    BY <1>3, <1>4

LEMMA ServerSteps == ASSUME TagsBounded, TagsIInv, UpdateTags \/ SaveTagsAnswer PROVE TagsIInv'
  <1>1. field \in TagFields /\ Cleared \in TagFields /\ Cleared.results = {} /\ puts \subseteq TagSaves
    BY ClearedType DEF TagsIInv
  <1>2. \A p \in puts : p.n \in Nat /\ p.n < asked /\ PutSound(p)
    BY DEF TagsIInv, SavesOrdered, TagSaves
  <1>3. CASE UpdateTags
    <2>1. PICK p \in puts : /\ ~p.applied /\ docTags' = p.ids /\ puts' = (puts \ {p}) \cup {[p EXCEPT !.applied = TRUE]}
                            /\ newest' = IF p.n < newest THEN newest ELSE p.n + 1
                            /\ unsure' = IF p.n < newest THEN unsure \cup {"applied out of order"} ELSE unsure
                            /\ UNCHANGED <<field, lookups, adding, picked, known, tagRows, asked>>
      BY <1>3 DEF UpdateTags
    <2>9. /\ newest' = IF p.n < newest THEN newest ELSE p.n + 1
          /\ asked' = asked
      BY <2>1
    <2>0. PICK q : q = [p EXCEPT !.applied = TRUE]
      OBVIOUS
    <2>2. /\ q \in TagSaves /\ q.n = p.n /\ q.ids = p.ids /\ q.previous = p.previous
          /\ q.alone = p.alone /\ q.applied
      BY <1>1, <2>0 DEF TagSaves
    <2>3. \A o \in puts' : o = q \/ (o \in puts /\ o # p)
      BY <2>0, <2>1
    <2>4. puts' \subseteq TagSaves /\ (\A a \in adding' : HandlerSound(a)') /\ Fits(picked)' /\ Fits(docTags)'
          /\ \A o \in puts' : PutSound(o)'
      BY <1>1, <1>2, <2>1, <2>2, <2>3 DEF TagsIInv, HandlerSound, Room, Fits, PutSound
    <2>5. PICK a \in Nat, m \in Nat : a = asked /\ m = newest /\ m <= a /\ p.n < a
      BY <1>2 DEF TagsIInv, SavesOrdered
    <2>6. SavesOrdered'
      <3>1. newest' \in Nat /\ newest' <= asked' /\ newest <= newest' /\ p.n < newest'
        BY <1>2, <2>5, <2>9
      <3>2. \A o \in puts' : o.n < asked' /\ (o.applied => o.n < newest')
        <4>1. \A o \in puts : o.applied => o.n \in Nat /\ o.n < newest
          BY <1>2 DEF TagsIInv, SavesOrdered
        <4>2. \A o \in puts : o.applied => o.n < newest'
          BY <2>5, <3>1, <4>1
        <4> QED
          BY <1>2, <2>2, <2>3, <2>9, <3>1, <4>2
      <3>3. \A o, r \in puts' : o.n = r.n => o = r
        BY <2>2, <2>3 DEF TagsIInv, SavesOrdered
      <3>4. \A o, r \in puts' : o.alone => o = r
        BY <2>2, <2>3 DEF TagsIInv, SavesOrdered
      <3> QED
        BY <2>1, <2>5, <3>1, <3>2, <3>3, <3>4 DEF SavesOrdered
    <2>7. SavesTold'
      <3>1. SUFFICES ASSUME unsure' = {} PROVE SavesTold'
        BY DEF SavesTold
      <3>2. ~(p.n < newest) /\ unsure = {} /\ newest' = p.n + 1
        BY <2>1, <3>1
      <3>3. puts # {} /\ (newest # asked)
        BY <1>2, <2>1, <2>5, <3>2
      <3>4. ~(\A o \in puts : ~IsLast(o))
        BY <3>2, <3>3 DEF TagsIInv, SavesTold
      <3>5. PICK l \in puts : IsLast(l)
        BY <3>4
      <3>6. l.ids = picked /\ (p # l => ~l.applied)
        BY <1>2, <2>5, <3>2, <3>5 DEF TagsIInv, SavesTold, SavesOrdered, IsLast
      <3>7. \A o \in puts' : o.alone => o = q
        BY <2>1, <2>3 DEF TagsIInv, SavesOrdered
      <3>8. q \in puts' /\ (p # l => l \in puts')
        BY <2>0, <2>1
      <3>9. IsLast(q)' <=> p = l
        <4>1. p = l <=> p.n = l.n
          BY <2>1, <3>5 DEF TagsIInv, SavesOrdered
        <4>2. PICK m1 \in Nat, m2 \in Nat : m1 = p.n /\ m2 = l.n /\ m2 + 1 = asked
          BY <1>2, <3>5 DEF IsLast
        <4> QED
          BY <2>2, <2>9, <4>1, <4>2 DEF IsLast
      <3>10. p # l => IsLast(l)'
        BY <2>1, <3>5 DEF IsLast
      <3>11. \A o \in puts' : IsLast(o)' => (o = q /\ p = l) \/ (o = l /\ p # l)
        <4>1. \A o \in puts : o.n = l.n => o = l
          BY <3>5 DEF TagsIInv, SavesOrdered
        <4>2. \A o \in puts : IsLast(o)' => o.n = l.n
          <5> TAKE o \in puts
          <5>1. PICK m1 \in Nat, m2 \in Nat : m1 = o.n /\ m2 = l.n /\ m2 + 1 = asked
            BY <1>2, <3>5 DEF IsLast
          <5> QED
            BY <2>9, <5>1 DEF IsLast
        <4> QED
          BY <2>3, <3>9, <4>1, <4>2
      <3>12. \A o \in puts' : IsLast(o)' => o.ids = picked' /\ (o.applied => docTags' = picked')
        BY <2>1, <2>2, <3>6, <3>11
      <3> QED
        BY <2>2, <3>7, <3>8, <3>9, <3>10, <3>12 DEF SavesTold
    <2> QED
      BY <1>1, <2>1, <2>4, <2>6, <2>7 DEF TagsIInv
  <1>4. CASE SaveTagsAnswer
    <2>1. PICK p \in puts :
            /\ puts' = puts \ {p} /\ UNCHANGED <<lookups, adding, known, asked, newest, tagRows, docTags>>
            /\ \/ p.applied /\ UNCHANGED <<picked, unsure>>
               \/ /\ picked' = p.previous
                  /\ unsure' = unsure \cup (IF p.applied THEN {"answer lost"}
                                           ELSE IF p.alone THEN {} ELSE {"failed beside another"})
            /\ field' = IF p.clears THEN Cleared ELSE field
      BY <1>4 DEF SaveTagsAnswer, Server
    <2>2. field' \in TagFields /\ field'.results \subseteq known'
      BY <1>1, <2>1 DEF TagsIInv
    <2>3. Fits(picked)' /\ Fits(docTags)'
      BY <1>2, <2>1 DEF TagsIInv, PutSound, Fits
    <2>4. (\A o \in puts' : PutSound(o)') /\ (\A a \in adding' : HandlerSound(a)')
      BY <2>1 DEF TagsIInv, PutSound, Fits, HandlerSound, Room
    <2>5. SavesOrdered'
      BY <2>1 DEF TagsIInv, SavesOrdered
    <2>6. ASSUME p.applied, UNCHANGED <<picked, unsure>> PROVE SavesTold'
      <3>0. unsure' = unsure /\ picked' = picked /\ docTags' = docTags /\ asked' = asked /\ newest' = newest
        BY <2>1, <2>6
      <3>1. SUFFICES ASSUME unsure = {} PROVE SavesTold'
        BY <3>0 DEF SavesTold
      <3>2. IsLast(p) => docTags = picked /\ newest = asked
        <4>1. PICK a \in Nat, m \in Nat : a = asked /\ m = newest /\ m <= a /\ p.n < m
          BY <2>6 DEF TagsIInv, SavesOrdered
        <4> QED
          BY <1>2, <2>6, <3>1, <4>1 DEF TagsIInv, SavesTold, IsLast
      <3>3. (\A o \in puts' : ~IsLast(o)) => docTags = picked /\ newest = asked
        BY <2>1, <3>1, <3>2 DEF TagsIInv, SavesTold
      <3>4. \A o : IsLast(o)' <=> IsLast(o)
        BY <3>0 DEF IsLast
      <3> QED
        BY <2>1, <3>0, <3>1, <3>3, <3>4 DEF TagsIInv, SavesTold
    <2>7. ASSUME picked' = p.previous,
                 unsure' = unsure \cup (IF p.applied THEN {"answer lost"}
                                        ELSE IF p.alone THEN {} ELSE {"failed beside another"})
          PROVE  SavesTold'
      <3>1. SUFFICES ASSUME unsure' = {} PROVE SavesTold'
        BY DEF SavesTold
      <3>2. p.alone /\ ~p.applied /\ unsure = {}
        BY <2>7, <3>1
      <3>3. docTags = p.previous /\ puts' = {}
        BY <2>1, <3>2 DEF TagsIInv, SavesTold, SavesOrdered
      <3> QED
        BY <2>1, <2>7, <3>3 DEF SavesTold
    <2>8. SavesTold'
      BY <2>1, <2>6, <2>7
    <2> QED
      BY <1>1, <2>1, <2>2, <2>3, <2>4, <2>5, <2>8 DEF TagsIInv
  <1> QED
    BY <1>3, <1>4

LEMMA FieldSteps ==
  ASSUME TagsIInv, openInline \/ clearTagQuery \/ runSearchTags \/ TagSearchAnswer \/ \E q \in TagNames \cup {""} : typeTag(q)
  PROVE  TagsIInv'
  <1>1. field \in TagFields /\ Cleared \in TagFields /\ Cleared.results = {} /\ field.results \subseteq known
    BY ClearedType DEF TagsIInv
  <1>2. CASE openInline \/ clearTagQuery \/ runSearchTags \/ \E q \in TagNames \cup {""} : typeTag(q)
    <2>1. field' \in TagFields /\ field'.results \subseteq known
      <3>1. CASE openInline
        BY <1>1, <3>1 DEF openInline, TagFields, FieldStates
      <3>2. CASE clearTagQuery
        BY <1>1, <3>2 DEF clearTagQuery
      <3>3. CASE runSearchTags
        BY <1>1, <3>3 DEF runSearchTags, TagFields, FieldStates
      <3>4. CASE \E q \in TagNames \cup {""} : typeTag(q)
        <4>1. PICK q \in TagNames \cup {""} : typeTag(q)
          BY <3>4
        <4>2. Cleared.timer = FALSE
          BY <1>1 DEF Cleared, TagFields, FieldStates
        <4>3. [Cleared EXCEPT !.open = TRUE] \in TagFields /\ [Cleared EXCEPT !.open = TRUE].results = {}
          BY <1>1, <4>2 DEF TagFields, FieldStates
        <4>4. q # "" => /\ [field EXCEPT !.value = q, !.timer = TRUE] \in TagFields
                        /\ [field EXCEPT !.value = q, !.timer = TRUE].results = field.results
          BY <1>1 DEF TagFields, FieldStates
        <4> QED
          BY <1>1, <4>1, <4>3, <4>4 DEF typeTag
      <3> QED
        BY <1>2, <3>1, <3>2, <3>3, <3>4
    <2>2. UNCHANGED <<adding, picked, known, tagRows, docTags, puts, asked, newest, unsure>> /\ lookups' \subseteq TagNames \cup {""}
      BY <1>1, <1>2 DEF openInline, clearTagQuery, runSearchTags, typeTag, Server, Saving, TagsIInv, TagFields, FieldStates
    <2>3. lookups' \subseteq TagNames
      BY <1>1, <1>2 DEF openInline, clearTagQuery, runSearchTags, typeTag, TagsIInv, TagFields, FieldStates
    <2> QED
      BY <2>1, <2>2, <2>3, QuietTags DEF TagsIInv, HandlerSound, Room
  <1>3. CASE TagSearchAnswer
    <2>1. PICK results :
            /\ \E q \in lookups : results \in {Found(q), {}} /\ lookups' = lookups \ {q}
            /\ UNCHANGED <<adding, picked, tagRows, docTags, puts, asked, newest, unsure>>
            /\ \/ field' = [field EXCEPT !.results = results, !.loading = FALSE] /\ known' = known \cup results
               \/ UNCHANGED <<field, known>>
      BY <1>3 DEF TagSearchAnswer, Server, Saving
    <2>2. results \subseteq tagRows /\ results \in SUBSET TagNames
      BY <2>1 DEF Found, TagsIInv
    <2>3. /\ [field EXCEPT !.results = results, !.loading = FALSE] \in TagFields
          /\ [field EXCEPT !.results = results, !.loading = FALSE].results = results
      BY <1>1, <2>2 DEF TagFields, FieldStates
    <2> QED
      BY <1>1, <2>1, <2>2, <2>3, QuietTags DEF TagsIInv, HandlerSound, Room
  <1> QED
    BY <1>2, <1>3

\* The handler keeps the selection of its render: everything in it is known, whatever
\* is known in addition when it goes on.
LEMMA AddTagSteps ==
  ASSUME TagsBounded, TagsIInv, handleAddTag \/ findExistingTagByName \/ createTag
  PROVE  TagsIInv'
  <1>1. field \in TagFields /\ Cleared \in TagFields /\ Cleared.results = {} /\ field.results \subseteq known
    BY ClearedType DEF TagsIInv
  <1>2. picked \in SUBSET TagNames /\ \A a \in adding : a \in Handlers /\ a.captured \subseteq known /\ (a.stage = "create" => Room(a))
    BY DEF TagsIInv, Fits, HandlerSound
  <1>3. \A S \in SUBSET known, x \in TagNames :
          Cardinality(S) < MAX_TAGS => Cardinality(S) <= MAX_TAGS /\ Cardinality(S \cup {x}) <= MAX_TAGS
    <2> TAKE S \in SUBSET known, x \in TagNames
    <2>1. Cardinality(S) \in Nat /\ S \in SUBSET TagNames
      BY Subsets DEF TagsIInv
    <2>2. Cardinality(S) < MAX_TAGS => Cardinality(S \cup {x}) <= MAX_TAGS
      BY <2>1, Subsets
    <2> QED
      BY <2>1, <2>2 DEF TagsBounded
  <1>4. CASE handleAddTag
    <2>1. field.value \in TagNames /\ field.value # "" /\ UNCHANGED <<lookups, known, tagRows, docTags>>
      BY <1>1, <1>4 DEF handleAddTag, TagFields, FieldStates, Server
    <2>2. CASE /\ field.value \in known /\ field.value \notin picked /\ Cardinality(picked) < MAX_TAGS
               /\ saveTagIDs(picked \cup {field.value}, picked, TRUE) /\ UNCHANGED <<field, adding>>
      <3>1. Cardinality(picked \cup {field.value}) <= MAX_TAGS
        BY <1>2, <1>3, <2>1, <2>2 DEF TagsIInv, Fits
      <3> QED
        BY <1>1, <2>1, <2>2, <3>1, SaveStep DEF TagsIInv, Fits
    <2>3. CASE field' = Cleared /\ UNCHANGED <<adding, picked, puts, asked, newest, unsure>>
      BY <1>1, <1>2, <2>1, <2>3, QuietTags DEF TagsIInv, HandlerSound, Room
    <2>4. CASE field.value \notin known
      <3>0. PICK slot \in 1..MaxAdding :
              /\ adding' = adding \cup {[slot |-> slot, name |-> field.value, stage |-> "find", captured |-> picked]}
              /\ UNCHANGED <<field, picked, puts, asked, newest, unsure>>
        BY <1>4, <2>4 DEF handleAddTag, Saving
      <3>1. PICK a :
              /\ a = [slot |-> slot, name |-> field.value, stage |-> "find", captured |-> picked]
              /\ adding' = adding \cup {a} /\ UNCHANGED <<field, picked, puts, asked, newest, unsure>>
        BY <3>0
      <3>2. a \in Handlers /\ HandlerSound(a)'
        BY <1>2, <2>1, <3>1 DEF Handlers, TagsIInv, Fits, HandlerSound
      <3>3. \A b \in adding' : b \in Handlers /\ HandlerSound(b)'
        BY <1>2, <2>1, <3>1, <3>2 DEF HandlerSound, Room
      <3> QED
        BY <1>1, <2>1, <3>1, <3>3, QuietTags DEF TagsIInv
    <2> QED
      BY <1>4, <2>2, <2>3, <2>4 DEF handleAddTag, Saving
  <1>5. CASE findExistingTagByName
    <2>1. PICK a \in adding :
            /\ a.stage = "find" /\ UNCHANGED <<lookups, tagRows, docTags>>
            /\ \/ /\ a.name \in tagRows /\ known' = known \cup {a.name} /\ adding' = adding \ {a}
                  /\ \/ a.name \notin a.captured /\ Room(a) /\ UNCHANGED field
                        /\ saveTagIDs(a.captured \cup {a.name}, a.captured, TRUE)
                     \/ field' = Cleared /\ UNCHANGED <<picked, puts, asked, newest, unsure>>
               \/ /\ adding' = (adding \ {a}) \cup (IF Room(a) THEN {[a EXCEPT !.stage = "create"]} ELSE {})
                  /\ field' = IF Room(a) THEN field ELSE Cleared
                  /\ UNCHANGED <<known, picked, puts, asked, newest, unsure>>
      BY <1>5 DEF findExistingTagByName, Server, Saving
    <2>2. a \in Handlers /\ a.name \in TagNames /\ a.captured \in SUBSET known
      BY <1>2 DEF Handlers
    <2>3. CASE Room(a) /\ UNCHANGED field /\ saveTagIDs(a.captured \cup {a.name}, a.captured, TRUE)
               /\ a.name \in tagRows /\ known' = known \cup {a.name} /\ adding' = adding \ {a}
      <3>1. Cardinality(a.captured) <= MAX_TAGS /\ Cardinality(a.captured \cup {a.name}) <= MAX_TAGS
        BY <1>3, <2>2, <2>3 DEF Room
      <3>2. PICK next, previous : next = a.captured \cup {a.name} /\ previous = a.captured
        OBVIOUS
      <3>3. Fits(next)' /\ Fits(previous)'
        BY <2>2, <2>3, <3>1, <3>2 DEF Fits
      <3> QED
        BY <1>1, <2>1, <2>3, <3>2, <3>3, SaveStep DEF TagsIInv
    <2>4. CASE field' = Cleared /\ UNCHANGED <<picked, puts, asked, newest, unsure>> /\ known' = known \cup {a.name}
               /\ a.name \in tagRows /\ adding' = adding \ {a}
      BY <1>1, <1>2, <2>1, <2>2, <2>4, QuietTags DEF TagsIInv, HandlerSound, Room
    <2>5. CASE /\ adding' = (adding \ {a}) \cup (IF Room(a) THEN {[a EXCEPT !.stage = "create"]} ELSE {})
               /\ field' = IF Room(a) THEN field ELSE Cleared
               /\ UNCHANGED <<known, picked, puts, asked, newest, unsure>>
      <3>1. [a EXCEPT !.stage = "create"] \in Handlers /\ [a EXCEPT !.stage = "create"].captured = a.captured
        BY <2>2 DEF Handlers
      <3>2. adding' \subseteq Handlers /\ \A b \in adding' : HandlerSound(b)'
        BY <1>2, <2>2, <2>5, <3>1 DEF HandlerSound, Room
      <3> QED
        BY <1>1, <2>1, <2>5, <3>2, QuietTags DEF TagsIInv
    <2> QED
      BY <2>1, <2>3, <2>4, <2>5
  <1>6. CASE createTag
    <2>1. PICK a \in adding :
            /\ a.stage = "create" /\ adding' = adding \ {a} /\ UNCHANGED <<field, lookups, docTags>>
            /\ \/ /\ tagRows' = tagRows \cup {a.name} /\ known' = known \cup {a.name}
                  /\ saveTagIDs(a.captured \cup {a.name}, a.captured, TRUE)
               \/ tagRows' = tagRows /\ UNCHANGED <<known, picked, puts, asked, newest, unsure>>
      BY <1>6 DEF createTag, Saving
    <2>2. a \in Handlers /\ a.name \in TagNames /\ a.captured \in SUBSET known /\ Room(a)
      BY <1>2, <1>6, <2>1 DEF Handlers
    <2>3. CASE /\ tagRows' = tagRows \cup {a.name} /\ known' = known \cup {a.name}
               /\ saveTagIDs(a.captured \cup {a.name}, a.captured, TRUE)
      <3>1. Cardinality(a.captured) <= MAX_TAGS /\ Cardinality(a.captured \cup {a.name}) <= MAX_TAGS
        BY <1>3, <2>2 DEF Room
      <3>2. PICK next, previous : next = a.captured \cup {a.name} /\ previous = a.captured
        OBVIOUS
      <3>3. Fits(next)' /\ Fits(previous)'
        BY <2>2, <2>3, <3>1, <3>2 DEF Fits
      <3> QED
        BY <1>1, <2>1, <2>2, <2>3, <3>2, <3>3, SaveStep DEF TagsIInv
    <2>4. CASE tagRows' = tagRows /\ UNCHANGED <<known, picked, puts, asked, newest, unsure>>
      BY <1>1, <1>2, <2>1, <2>2, <2>4, QuietTags DEF TagsIInv, HandlerSound, Room
    <2> QED
      BY <2>1, <2>3, <2>4
  <1> QED
    BY <1>4, <1>5, <1>6

LEMMA TagsStep ==
  ASSUME TagsBounded, TagsIInv, [TagNext]_tagVars
  PROVE  TagsIInv'
  <1>1. CASE UNCHANGED tagVars
    BY <1>1, QuietTags DEF tagVars, TagsIInv, HandlerSound, Room
  <1> QED
    BY <1>1, SelectionSteps, ServerSteps, FieldSteps, AddTagSteps DEF TagNext

LEMMA TagsSound == ASSUME TagsIInv PROVE TagCap /\ TagsSettle
  BY DEF TagsIInv, TagCap, TagsSettle, Fits, SavesTold

\* useTagState and the two tag fields never select or save more tags than allowed, nor one
\* the page cannot show, although a handler that looks a tag up goes on with the selection
\* of an older render, and saves overlap.
THEOREM TagsKeepTheCap == ASSUME TagsBounded PROVE TagSpec => []TagCap
  <1>1. TagInit => TagsIInv
    BY TagsStart
  <1>2. TagsIInv /\ [TagNext]_tagVars => TagsIInv'
    BY TagsStep
  <1>3. TagsIInv => TagCap
    BY TagsSound
  <1> QED
    BY <1>1, <1>2, <1>3, PTL DEF TagSpec

\* Once no save is under way the document has the tags that the page shows, although
\* saves overlap and fail: a save that fails alone is taken back to what the server has,
\* and the last one counts. Only what unsure names parts them: a lost answer, a failure
\* beside another save, and saves that the server took in another order.
THEOREM TagsSettleInOrder == ASSUME TagsBounded PROVE TagSpec => []TagsSettle
  <1>1. TagInit => TagsIInv
    BY TagsStart
  <1>2. TagsIInv /\ [TagNext]_tagVars => TagsIInv'
    BY TagsStep
  <1>3. TagsIInv => TagsSettle
    BY TagsSound
  <1> QED
    BY <1>1, <1>2, <1>3, PTL DEF TagSpec

-----------------------------------------------------------------------------
(* The share tab. A call that the server has answered, and no other call   *)
(* since, carries what visitors meet; and the password of a call that still *)
(* stands is asked for, unless an update has written back what it read.     *)

ShareTabSpec == ShareTabInit /\ [][ShareTabNext]_shareTabVars

ShareViews == {view \in [token : Nat, expires : 0..1] : view.token = 0 => view.expires = 0}
ShareForms == [expires : 0..1, password : BOOLEAN]
ShareRows  == [active : BOOLEAN, expires : 0..1, hash : BOOLEAN]
Payloads   == [expires : 0..1, password : {"kept", "set", "cleared"}]
ShareCalls == [kind : {"load", "create", "revoke", "update"}, payload : Payloads,
               at : {"sent", "locked", "read", "written", "done", "answered"}, hash : BOOLEAN,
               answer : ShareViews, ok : BOOLEAN, late : BOOLEAN, stands : BOOLEAN]
ShareCallsMap == [1..MaxCalls -> ShareCalls]

CallSound(call) ==
  /\ call.at = "done" /\ call.ok /\ ~call.late => IF call.kind = "revoke" THEN Active = {} ELSE call.answer = Response
  /\ call.stands => call.kind = "update" /\ (takenBack \/ Hashed)
  /\ call.at = "read" /\ call.payload.password = "set" => call.hash
ShareTabTypes ==
  /\ shares \in Seq(ShareRows) /\ calls \in ShareCallsMap /\ activeShare \in ShareViews /\ form \in ShareForms
  /\ loaded \in BOOLEAN /\ secured \in BOOLEAN /\ takenBack \in BOOLEAN
ShareTabIInv ==
  /\ ShareTabTypes
  /\ \A c \in DOMAIN calls : CallSound(calls[c])
  /\ activeShare.token = 0 => form.expires = 0
  /\ SettingsShowShare /\ PasswordHolds

LEMMA ShareTypes ==
  /\ NoShare \in ShareViews /\ NoShare.token = 0 /\ NoShare.expires = 0
  /\ \A view \in ShareViews : view.token = 0 => view = NoShare
  /\ NoPayload \in Payloads /\ NoPayload.password = "kept"
  /\ RevokedShare \in ShareRows /\ ~RevokedShare.active
  BY DEF NoShare, ShareViews, NoPayload, Payloads, RevokedShare, ShareRows

LEMMA NewCall ==
  ASSUME NEW kind \in {"load", "create", "revoke", "update"}, NEW payload \in Payloads, NEW at \in {"sent", "answered"}
  PROVE  /\ CallOf(kind, payload, at) \in ShareCalls /\ CallOf(kind, payload, at).at = at
         /\ ~CallOf(kind, payload, at).stands
  BY ShareTypes DEF CallOf, ShareCalls

LEMMA NoCallTyped == NoCall \in ShareCalls /\ NoCall.at = "answered" /\ ~NoCall.stands
  BY NewCall, ShareTypes DEF NoCall

LEMMA ShareTabStarts == ASSUME ShareTabInit PROVE ShareTabIInv
  <1>1. ClosedForm \in ShareForms /\ ClosedForm.expires = 0
    BY DEF ClosedForm, ShareForms
  <1>2. shares \in Seq(ShareRows)
    <2>1. [active |-> TRUE, expires |-> 0, hash |-> FALSE] \in ShareRows
      BY DEF ShareRows
    <2>2. \A row \in ShareRows : <<row>> \in Seq(ShareRows) /\ <<>> \in Seq(ShareRows)
      OBVIOUS
    <2> QED
      BY <2>1, <2>2 DEF ShareTabInit
  <1>3. calls \in ShareCallsMap /\ \A c \in DOMAIN calls : calls[c] = NoCall
    BY NoCallTyped DEF ShareTabInit, ShareCallsMap
  <1>4. \A c \in DOMAIN calls : CallSound(calls[c])
    BY <1>3, NoCallTyped DEF CallSound
  <1> QED
    BY <1>1, <1>2, <1>3, <1>4, ShareTypes
    DEF ShareTabInit, ShareTabIInv, ShareTabTypes, SettingsShowShare, PasswordHolds

LEMMA ResponseType == ASSUME shares \in Seq(ShareRows) PROVE Response \in ShareViews
  <1>1. CASE Active = {}
    BY <1>1, ShareTypes DEF Response
  <1>2. CASE Active # {}
    <2>1. PICK t : t = CHOOSE a \in Active : TRUE
      OBVIOUS
    <2>2. t \in 1..Len(shares) /\ shares[t] \in ShareRows
      BY <1>2, <2>1 DEF Active
    <2>3. Response = [token |-> t, expires |-> shares[t].expires]
      BY <1>2, <2>1 DEF Response
    <2> QED
      BY <2>2, <2>3 DEF ShareRows, ShareViews
  <1> QED
    BY <1>1, <1>2

LEMMA RowsOf ==
  ASSUME NEW n \in Nat, NEW all \in [1..n -> ShareRows]
  PROVE  all \in Seq(ShareRows) /\ Len(all) = n /\ DOMAIN all = 1..n
  OBVIOUS

\* One call becomes another; the shares, the histories and the others stay.
LEMMA OneCall ==
  ASSUME ShareTabIInv, NEW c \in DOMAIN calls, NEW me \in ShareCalls, calls' = [calls EXCEPT ![c] = me],
         UNCHANGED <<shares, takenBack>>, CallSound(me)
  PROVE  /\ calls' \in ShareCallsMap /\ DOMAIN calls' = DOMAIN calls /\ calls'[c] = me
         /\ \A d \in DOMAIN calls' : CallSound(calls[d])'
         /\ Response' = Response /\ (Hashed => Hashed') /\ Active' = Active
  <1>1. calls \in ShareCallsMap /\ \A d \in DOMAIN calls : CallSound(calls[d])
    BY DEF ShareTabIInv, ShareTabTypes
  <1>2. /\ calls' \in ShareCallsMap /\ DOMAIN calls' = DOMAIN calls /\ calls'[c] = me
        /\ \A d \in DOMAIN calls : d # c => calls'[d] = calls[d]
    BY <1>1 DEF ShareCallsMap
  <1>3. Response' = Response /\ (Hashed => Hashed') /\ Active' = Active
    BY DEF Response, Hashed, Active
  <1>4. ASSUME NEW d \in DOMAIN calls' PROVE CallSound(calls[d])'
    <2>1. CASE d = c
      BY <1>2, <1>3, <2>1 DEF CallSound
    <2>2. CASE d # c
      BY <1>1, <1>2, <1>3, <2>2 DEF CallSound
    <2> QED
      BY <2>1, <2>2
  <1> QED
    BY <1>2, <1>3, <1>4

\* The page asks; a call is under way, so nothing is said of what is shown.
LEMMA PageCalls ==
  ASSUME ShareTabIInv, NEW kind \in {"load", "create", "revoke", "update"}, NEW payload \in Payloads,
         Call(kind, payload), UNCHANGED <<shares, activeShare, secured, takenBack>>, form' \in ShareForms,
         loaded' \in BOOLEAN, activeShare.token # 0 \/ UNCHANGED form
  PROVE  ShareTabIInv'
  <1>1. PICK c \in DOMAIN calls : calls' = [calls EXCEPT ![c] = CallOf(kind, payload, "sent")]
    BY DEF Call, Waiting
  <1>2. PICK me : me = CallOf(kind, payload, "sent")
    OBVIOUS
  <1>3. me \in ShareCalls /\ me.at = "sent" /\ ~me.stands
    BY <1>2, NewCall
  <1>4. CallSound(me)
    BY <1>3 DEF CallSound
  <1>5. /\ calls' \in ShareCallsMap /\ DOMAIN calls' = DOMAIN calls /\ calls'[c] = me
        /\ \A d \in DOMAIN calls' : CallSound(calls[d])'
        /\ (Hashed => Hashed')
    BY <1>1, <1>2, <1>3, <1>4, OneCall
  <1>6. Waiting' # {} /\ PasswordHolds'
    BY <1>3, <1>5 DEF Waiting, ShareTabIInv, PasswordHolds
  <1>7. ShareTabTypes'
    BY <1>5 DEF ShareTabIInv, ShareTabTypes
  <1> QED
    BY <1>5, <1>6, <1>7 DEF ShareTabIInv, SettingsShowShare

LEMMA PageSteps ==
  ASSUME ShareTabIInv,
         loadShare \/ handleShare \/ handleRevokeShare \/ changeExpiresAt \/ savePassword \/ clearPassword
  PROVE  ShareTabIInv'
  <1>1. form \in ShareForms /\ form.expires \in 0..1 /\ 1 - form.expires \in 0..1 /\ loaded \in BOOLEAN
    BY DEF ShareTabIInv, ShareTabTypes, ShareForms
  <1>2. \A e \in 0..1, w \in {"kept", "set", "cleared"} :
          LET payload == [expires |-> e, password |-> w] IN payload \in Payloads
    BY DEF Payloads
  <1>4. CASE loadShare
    BY <1>1, <1>4, PageCalls, ShareTypes DEF loadShare
  <1>5. CASE handleShare
    BY <1>1, <1>5, PageCalls, ShareTypes DEF handleShare
  <1>6. CASE handleRevokeShare
    BY <1>1, <1>6, PageCalls, ShareTypes DEF handleRevokeShare
  <1>7. CASE changeExpiresAt
    <2>1. PICK payload : payload = [expires |-> 1 - form.expires, password |-> "kept"]
      OBVIOUS
    <2>2. payload \in Payloads
      BY <1>1, <1>2, <2>1
    <2>3. form' \in ShareForms
      BY <1>1, <1>7 DEF changeExpiresAt, ShareForms
    <2> QED
      BY <1>1, <1>7, <2>1, <2>2, <2>3, PageCalls DEF changeExpiresAt, save
  <1>9. CASE savePassword
    <2>1. PICK payload : payload = [expires |-> form.expires, password |-> "set"]
      OBVIOUS
    <2>2. payload \in Payloads
      BY <1>1, <1>2, <2>1
    <2> QED
      BY <1>1, <1>9, <2>1, <2>2, PageCalls DEF savePassword, save
  <1>10. CASE clearPassword
    <2>1. PICK payload : payload = [expires |-> form.expires, password |-> "cleared"]
      OBVIOUS
    <2>2. payload \in Payloads
      BY <1>1, <1>2, <2>1
    <2>3. form' \in ShareForms
      BY <1>1, <1>10 DEF clearPassword, ShareForms
    <2> QED
      BY <1>1, <1>10, <2>1, <2>2, <2>3, PageCalls DEF clearPassword, save
  <1> QED
    BY <1>4, <1>5, <1>6, <1>7, <1>9, <1>10

LEMMA PasswordTyped == ASSUME ShareTabIInv, setPasswordInput PROVE ShareTabIInv'
  <1>1. /\ form' \in ShareForms /\ form'.expires = form.expires
        /\ UNCHANGED <<shares, calls, docLock, activeShare, loaded, last, secured, takenBack>>
    BY DEF setPasswordInput, ShareTabIInv, ShareTabTypes, ShareForms
  <1>2. Response' = Response /\ Waiting' = Waiting /\ Active' = Active /\ (Hashed => Hashed')
    BY <1>1 DEF Response, Waiting, Active, Hashed
  <1>3. \A c \in DOMAIN calls : CallSound(calls[c]) => CallSound(calls[c])'
    BY <1>1, <1>2 DEF CallSound
  <1>4. ShareTabTypes'
    BY <1>1 DEF ShareTabIInv, ShareTabTypes
  <1>5. SettingsShowShare' /\ PasswordHolds'
    BY <1>1, <1>2 DEF ShareTabIInv, SettingsShowShare, PasswordHolds
  <1> QED
    BY <1>1, <1>3, <1>4, <1>5 DEF ShareTabIInv

\* A statement of the server leaves a call under way.
LEMMA ServerWorks ==
  ASSUME ShareTabIInv, NEW c \in DOMAIN calls', calls'[c].at # "answered", calls' \in ShareCallsMap, UNCHANGED Page,
         shares' \in Seq(ShareRows), secured' \in BOOLEAN, takenBack' \in BOOLEAN,
         \A d \in DOMAIN calls' : CallSound(calls[d])', secured' /\ ~takenBack' => Hashed'
  PROVE  ShareTabIInv'
  <1>1. Waiting' # {} /\ PasswordHolds' /\ UNCHANGED <<activeShare, form, loaded, last>>
    BY DEF Waiting, PasswordHolds, Page
  <1>2. ShareTabTypes'
    BY <1>1 DEF ShareTabIInv, ShareTabTypes
  <1> QED
    BY <1>1, <1>2 DEF ShareTabIInv, SettingsShowShare

LEMMA CallParts ==
  ASSUME ShareTabIInv, NEW c \in DOMAIN calls
  PROVE  /\ calls[c] \in ShareCalls /\ CallSound(calls[c]) /\ shares \in Seq(ShareRows) /\ calls[c].payload \in Payloads
         /\ \A t \in DOMAIN shares : shares[t] \in ShareRows
         /\ secured /\ ~takenBack => Hashed
  <1>1. shares \in Seq(ShareRows) /\ calls \in ShareCallsMap
    BY DEF ShareTabIInv, ShareTabTypes
  <1>2. calls[c] \in ShareCalls /\ \A t \in DOMAIN shares : shares[t] \in ShareRows
    BY <1>1 DEF ShareCallsMap
  <1>3. calls[c].payload \in Payloads
    BY <1>2 DEF ShareCalls
  <1> QED
    BY <1>1, <1>2, <1>3 DEF ShareTabIInv, PasswordHolds

\* A statement that only reads.
LEMMA ServerReads ==
  ASSUME ShareTabIInv, NEW c \in DOMAIN calls, NEW me \in ShareCalls, calls' = [calls EXCEPT ![c] = me],
         UNCHANGED <<shares, secured, takenBack, Page>>, CallSound(me), me.at # "answered"
  PROVE  ShareTabIInv'
  <1>1. /\ calls' \in ShareCallsMap /\ c \in DOMAIN calls' /\ calls'[c] = me
        /\ \A d \in DOMAIN calls' : CallSound(calls[d])'
        /\ (Hashed => Hashed')
    BY OneCall
  <1>2. shares' \in Seq(ShareRows) /\ secured' \in BOOLEAN /\ takenBack' \in BOOLEAN
    BY DEF ShareTabIInv, ShareTabTypes
  <1>3. secured' /\ ~takenBack' => Hashed'
    BY <1>1, CallParts
  <1> QED
    BY <1>1, <1>2, <1>3, ServerWorks

LEMMA DoneWith ==
  ASSUME ShareTabIInv, NEW c \in DOMAIN calls, NEW ok \in BOOLEAN, NEW answer \in ShareViews, Done(c, ok, answer)
  PROVE  \E me \in ShareCalls : /\ calls' = [calls EXCEPT ![c] = me] /\ me.at = "done" /\ me.ok = ok /\ me.answer = answer
                                /\ me.kind = calls[c].kind /\ me.stands = calls[c].stands
  <1>1. calls[c] \in ShareCalls
    BY CallParts
  <1>2. PICK me : me = [calls[c] EXCEPT !.at = "done", !.ok = ok, !.answer = answer]
    OBVIOUS
  <1>3. /\ me \in ShareCalls /\ me.at = "done" /\ me.ok = ok /\ me.answer = answer /\ me.kind = calls[c].kind
        /\ me.stands = calls[c].stands
    BY <1>1, <1>2 DEF ShareCalls
  <1>4. calls' = [calls EXCEPT ![c] = me]
    BY <1>2 DEF Done
  <1> QED
    BY <1>3, <1>4

LEMMA ReadingSteps ==
  ASSUME ShareTabIInv, NEW c \in DOMAIN calls,
         GetActiveShare(c) \/ CreateShareLocks(c) \/ UpdateReads(c) \/ UpdateMisses(c) \/ UpdateReadsAgain(c)
  PROVE  ShareTabIInv'
  <1>1. /\ calls[c] \in ShareCalls /\ CallSound(calls[c]) /\ shares \in Seq(ShareRows)
        /\ Response \in ShareViews /\ NoShare \in ShareViews /\ \A t \in DOMAIN shares : shares[t] \in ShareRows
    BY CallParts, ResponseType, ShareTypes
  <1>2. ASSUME NEW ok \in BOOLEAN, NEW answer \in ShareViews, Done(c, ok, answer),
               UNCHANGED <<shares, secured, takenBack, Page>>, calls[c].kind # "revoke", ok => answer = Response
        PROVE  ShareTabIInv'
    <2>1. PICK me \in ShareCalls : /\ calls' = [calls EXCEPT ![c] = me] /\ me.at = "done" /\ me.ok = ok
                                   /\ me.answer = answer /\ me.kind = calls[c].kind /\ me.stands = calls[c].stands
      BY <1>2, DoneWith
    <2>2. CallSound(me)
      BY <1>1, <1>2, <2>1 DEF CallSound
    <2> QED
      BY <1>2, <2>1, <2>2, ServerReads
  <1>3. CASE GetActiveShare(c)
    BY <1>1, <1>2, <1>3 DEF GetActiveShare, At
  <1>4. CASE UpdateReadsAgain(c)
    BY <1>1, <1>2, <1>4 DEF UpdateReadsAgain, At
  <1>5. CASE UpdateMisses(c)
    BY <1>1, <1>2, <1>5 DEF UpdateMisses, At
  <1>6. CASE CreateShareLocks(c)
    <2>1. PICK me : me = [calls[c] EXCEPT !.at = "locked"]
      OBVIOUS
    <2>2. me \in ShareCalls /\ me.at = "locked" /\ me.stands = calls[c].stands /\ me.kind = calls[c].kind
      BY <1>1, <2>1 DEF ShareCalls
    <2>3. calls' = [calls EXCEPT ![c] = me] /\ UNCHANGED <<shares, secured, takenBack, Page>>
      BY <1>6, <2>1 DEF CreateShareLocks, Goes
    <2>4. CallSound(me)
      BY <1>1, <2>2 DEF CallSound
    <2> QED
      BY <2>2, <2>3, <2>4, ServerReads
  <1>7. CASE UpdateReads(c)
    <2>1. calls[c].kind = "update" /\ UNCHANGED <<shares, secured, takenBack, Page>>
      BY <1>7 DEF UpdateReads, At
    <2>2. CASE Active = {}
      BY <1>1, <1>2, <1>7, <2>1, <2>2 DEF UpdateReads
    <2>3. CASE Active # {}
      <3>1. PICK t : t = CHOOSE a \in Active : TRUE
        OBVIOUS
      <3>2. shares[t] \in ShareRows
        BY <1>1, <2>3, <3>1 DEF Active
      <3>3. PICK hash : hash = CASE calls[c].payload.password = "set" -> TRUE
                                  [] calls[c].payload.password = "cleared" -> FALSE
                                  [] OTHER -> shares[t].hash
        OBVIOUS
      <3>4. hash \in BOOLEAN
        BY <3>2, <3>3 DEF ShareRows
      <3>7. PICK me : me = [calls[c] EXCEPT !.at = "read", !.hash = hash]
        OBVIOUS
      <3>8. /\ me \in ShareCalls /\ me.at = "read" /\ me.stands = calls[c].stands /\ me.kind = calls[c].kind
            /\ me.payload = calls[c].payload /\ me.hash = hash
        BY <1>1, <3>4, <3>7 DEF ShareCalls
      <3>9. calls' = [calls EXCEPT ![c] = me]
        BY <1>7, <2>3, <3>1, <3>3, <3>7 DEF UpdateReads
      <3>11. CallSound(me)
        BY <1>1, <3>3, <3>8 DEF CallSound
      <3> QED
        BY <2>1, <3>8, <3>9, <3>11, ServerReads
    <2> QED
      BY <2>2, <2>3
  <1> QED
    BY <1>3, <1>4, <1>5, <1>6, <1>7

\* A statement that changes the shares: the answers given before are late.
LEMMA ServerTakes ==
  ASSUME ShareTabIInv, NEW c \in DOMAIN calls, NEW me \in ShareCalls, NEW kept \in BOOLEAN, Takes(c, me, kept),
         me.at # "answered", CallSound(me)', UNCHANGED Page, shares' \in Seq(ShareRows),
         secured' \in BOOLEAN, takenBack' \in BOOLEAN, secured' => secured /\ kept,
         ~kept \/ takenBack' \/ Hashed' \/ (~takenBack /\ ~Hashed)
  PROVE  ShareTabIInv'
  <1>1. calls \in ShareCallsMap /\ \A d \in DOMAIN calls : calls[d] \in ShareCalls /\ CallSound(calls[d])
    BY CallParts DEF ShareTabIInv, ShareTabTypes
  <1>2. ASSUME NEW d \in DOMAIN calls, d # c
        PROVE  calls'[d] \in ShareCalls /\ CallSound(calls[d])'
    <2>1. PICK other : other = [calls[d] EXCEPT !.late = @ \/ calls[d].at = "done", !.stands = @ /\ kept]
      OBVIOUS
    <2>2. /\ other \in ShareCalls /\ other.at = calls[d].at /\ other.kind = calls[d].kind
          /\ other.payload = calls[d].payload /\ other.hash = calls[d].hash /\ (other.at = "done" => other.late)
          /\ (other.stands => calls[d].stands /\ kept)
      BY <1>1, <2>1 DEF ShareCalls
    <2>3. calls'[d] = other
      BY <1>2, <2>1 DEF Takes
    <2>4. other.stands => other.kind = "update" /\ (takenBack' \/ Hashed')
      BY <1>1, <2>2 DEF CallSound
    <2> QED
      BY <1>1, <2>2, <2>3, <2>4 DEF CallSound
  <1>3. calls'[c] = me /\ DOMAIN calls' = DOMAIN calls
    BY DEF Takes
  <1>4. \A d \in DOMAIN calls : calls'[d] \in ShareCalls
    BY <1>2, <1>3
  <1>5. calls' \in ShareCallsMap
    <2>1. PICK F : F = [d \in DOMAIN calls |-> calls'[d]]
      OBVIOUS
    <2>2. calls' = F
      BY <2>1 DEF Takes
    <2>3. DOMAIN calls = 1..MaxCalls
      BY <1>1 DEF ShareCallsMap
    <2> QED
      BY <1>4, <2>1, <2>2, <2>3 DEF ShareCallsMap
  <1>6. \A d \in DOMAIN calls' : CallSound(calls[d])'
    BY <1>2, <1>3 DEF CallSound
  <1>7. secured' /\ ~takenBack' => Hashed'
    BY CallParts
  <1> QED
    BY <1>3, <1>5, <1>6, <1>7, ServerWorks

LEMMA RevokedTyped ==
  ASSUME shares \in Seq(ShareRows)
  PROVE  /\ Revoked \in Seq(ShareRows) /\ Len(Revoked) = Len(shares) /\ DOMAIN Revoked = DOMAIN shares
         /\ \A t \in DOMAIN Revoked : ~Revoked[t].active
  <1>1. DOMAIN shares = 1..Len(shares) /\ Len(shares) \in Nat
    OBVIOUS
  <1>2. Revoked \in [1..Len(shares) -> ShareRows] /\ \A t \in 1..Len(shares) : ~Revoked[t].active
    BY <1>1, ShareTypes DEF Revoked
  <1> QED
    BY <1>1, <1>2, RowsOf

LEMMA OverTyped ==
  ASSUME ShareTabIInv, NEW c \in DOMAIN calls, NEW answer \in ShareViews
  PROVE  /\ Over(c, answer) \in ShareCalls /\ Over(c, answer).at = "done" /\ Over(c, answer).answer = answer
         /\ Over(c, answer).kind = calls[c].kind /\ Over(c, answer).stands = calls[c].stands
  <1>1. calls[c] \in ShareCalls
    BY CallParts
  <1> QED
    BY <1>1 DEF Over, ShareCalls

\* A new share and a revoked one: no password is left to stand.
LEMMA SharesMade ==
  ASSUME ShareTabIInv, NEW c \in DOMAIN calls, CreateShareCommits(c) \/ RevokeShare(c)
  PROVE  ShareTabIInv'
  <1>1. /\ calls[c] \in ShareCalls /\ CallSound(calls[c]) /\ shares \in Seq(ShareRows) /\ NoShare \in ShareViews
        /\ Revoked \in Seq(ShareRows) /\ Len(Revoked) = Len(shares) /\ DOMAIN Revoked = DOMAIN shares
        /\ \A t \in DOMAIN Revoked : ~Revoked[t].active
    BY CallParts, ShareTypes, RevokedTyped
  <1>2. CASE CreateShareCommits(c)
    <2>1. PICK new, view : /\ new = [active |-> TRUE, expires |-> 0, hash |-> FALSE]
                           /\ view = [token |-> Len(shares) + 1, expires |-> 0]
      OBVIOUS
    <2>2. new \in ShareRows /\ view \in ShareViews /\ new.active
      BY <1>1, <2>1 DEF ShareRows, ShareViews
    <2>3. PICK me : me = Over(c, view)
      OBVIOUS
    <2>4. /\ me \in ShareCalls /\ me.at = "done" /\ me.answer = view /\ me.kind = "create"
          /\ Takes(c, me, FALSE) /\ shares' = Append(Revoked, new) /\ UNCHANGED Page
          /\ secured' = FALSE /\ takenBack' = FALSE
      BY <1>2, <2>1, <2>2, <2>3, OverTyped DEF CreateShareCommits, At
    <2>5. PICK m \in Nat : m = Len(Revoked)
      BY <1>1
    <2>6. /\ shares' \in Seq(ShareRows) /\ DOMAIN shares' = DOMAIN Revoked \cup {m + 1} /\ shares'[m + 1] = new
          /\ \A t \in DOMAIN Revoked : shares'[t] = Revoked[t]
      BY <1>1, <2>2, <2>4, <2>5
    <2>7. Active' = {m + 1}
      BY <1>1, <2>2, <2>6 DEF Active
    <2>8. Response' = view
      BY <1>1, <2>1, <2>5, <2>6, <2>7 DEF Response
    <2>9. CallSound(me)'
      <3>1. me.stands = calls[c].stands
        BY <2>2, <2>3, OverTyped
      <3>2. ~calls[c].stands
        BY <1>1, <1>2 DEF CreateShareCommits, At, CallSound
      <3> QED
        BY <2>4, <2>8, <3>1, <3>2 DEF CallSound
    <2> QED
      BY <2>4, <2>6, <2>9, ServerTakes
  <1>3. CASE RevokeShare(c)
    <2>1. PICK me : me = Over(c, NoShare)
      OBVIOUS
    <2>2. /\ me \in ShareCalls /\ me.at = "done" /\ me.kind = "revoke"
          /\ Takes(c, me, FALSE) /\ shares' = Revoked /\ UNCHANGED Page
          /\ secured' = FALSE /\ takenBack' = FALSE
      BY <1>1, <1>3, <2>1, OverTyped DEF RevokeShare, At
    <2>3. Active' = {} /\ Hashed'
      BY <1>1, <2>2 DEF Active, Hashed
    <2>5. me.stands = calls[c].stands
      BY <1>1, <2>1, OverTyped
    <2>4. CallSound(me)'
      BY <1>1, <1>3, <2>2, <2>3, <2>5 DEF CallSound, RevokeShare, At
    <2> QED
      BY <1>1, <2>2, <2>4, ServerTakes
  <1> QED
    BY <1>2, <1>3

\* An update writes the hash it has computed: with a password set or read as set every
\* share has one; otherwise the password was cleared, or none stood before, or it is
\* marked as taken back.
LEMMA UpdateWritten == ASSUME ShareTabIInv, NEW c \in DOMAIN calls, UpdateWrites(c) PROVE ShareTabIInv'
  <1>1. /\ calls[c] \in ShareCalls /\ shares \in Seq(ShareRows) /\ calls[c].payload \in Payloads
        /\ \A t \in DOMAIN shares : shares[t] \in ShareRows
    BY CallParts
  <1>2. PICK password : password = calls[c].payload.password
    OBVIOUS
  <1>3. PICK me : me = [calls[c] EXCEPT !.at = "written", !.stands = (password = "set")]
    OBVIOUS
  <1>4. /\ me \in ShareCalls /\ me.at = "written" /\ me.kind = calls[c].kind /\ me.stands = (password = "set")
        /\ calls[c].kind = "update" /\ Takes(c, me, password # "cleared") /\ shares' = Updated(c) /\ UNCHANGED Page
        /\ secured' = (secured /\ password # "cleared")
        /\ takenBack' = (password = "kept" /\ ~calls[c].hash /\ (takenBack \/ Hashed))
        /\ password \in {"kept", "set", "cleared"} /\ calls[c].hash \in BOOLEAN /\ secured \in BOOLEAN
    BY <1>1, <1>2, <1>3 DEF UpdateWrites, At, ShareCalls, Payloads, ShareTabIInv, ShareTabTypes
  <1>5. PICK written : written = [t \in DOMAIN shares |-> [shares[t] EXCEPT !.expires = calls[c].payload.expires, !.hash = calls[c].hash]]
    OBVIOUS
  <1>6. \A t \in DOMAIN shares : written[t] \in ShareRows /\ written[t].hash = calls[c].hash /\ written[t].active = shares[t].active
    BY <1>1, <1>5 DEF ShareRows, ShareCalls, Payloads
  <1>7. shares' = [t \in DOMAIN shares |-> IF t \notin Active THEN shares[t] ELSE written[t]]
    BY <1>4, <1>5 DEF Updated, Active
  <1>8. shares' \in Seq(ShareRows) /\ DOMAIN shares' = DOMAIN shares
    <2>1. DOMAIN shares = 1..Len(shares) /\ Len(shares) \in Nat
      BY <1>1
    <2>2. shares' \in [1..Len(shares) -> ShareRows]
      BY <1>1, <1>6, <1>7, <2>1
    <2> QED
      BY <2>1, <2>2, RowsOf
  <1>9. Active' = Active /\ \A t \in Active : shares'[t].hash = calls[c].hash
    BY <1>6, <1>7, <1>8 DEF Active
  <1>10. calls[c].hash => Hashed'
    BY <1>9 DEF Hashed
  <1>11. password = "set" => calls[c].hash
    BY <1>2, CallParts DEF UpdateWrites, At, CallSound
  <1>12. CallSound(me)'
    BY <1>4, <1>10, <1>11 DEF CallSound
  <1>13. password = "cleared" \/ takenBack' \/ Hashed' \/ (~takenBack /\ ~Hashed)
    BY <1>4, <1>10, <1>11
  <1>14. secured' \in BOOLEAN /\ takenBack' \in BOOLEAN /\ (secured' => secured /\ password # "cleared")
    BY <1>4
  <1> QED
    BY <1>4, <1>8, <1>12, <1>13, <1>14, ServerTakes

\* What is shown is as the form has it.
LEMMA ShowsIt ==
  ASSUME ShareTabIInv, NEW share \in ShareViews, Show(share)
  PROVE  activeShare' = share /\ form' \in ShareForms /\ form'.expires = share.expires
  <1>1. FormOf(share) \in ShareForms /\ FormOf(share).expires = share.expires
    BY DEF FormOf, ShareForms, ShareViews
  <1>2. activeShare = NoShare => form.expires = 0
    BY ShareTypes DEF ShareTabIInv
  <1> QED
    BY <1>1, <1>2, ShareTypes DEF Show, ShareTabIInv, ShareTabTypes

LEMMA AnswerSteps == ASSUME ShareTabIInv, NEW c \in DOMAIN calls, Answer(c) \/ AnswerFails(c) PROVE ShareTabIInv'
  <1>1. PICK call : call = calls[c]
    OBVIOUS
  <1>2. /\ call \in ShareCalls /\ CallSound(call) /\ shares \in Seq(ShareRows) /\ (secured /\ ~takenBack => Hashed)
        /\ form \in ShareForms /\ activeShare \in ShareViews /\ call.answer \in ShareViews /\ NoShare \in ShareViews
        /\ loaded \in BOOLEAN /\ secured \in BOOLEAN /\ takenBack \in BOOLEAN /\ call.stands \in BOOLEAN
    BY <1>1, CallParts, ShareTypes DEF ShareTabIInv, ShareTabTypes, ShareCalls
  <1>3. calls' = [calls EXCEPT ![c] = NoCall] /\ UNCHANGED <<shares, takenBack>> /\ loaded' = loaded
    BY DEF Answer, AnswerFails
  <1>4. NoCall \in ShareCalls /\ CallSound(NoCall)
    BY NoCallTyped DEF CallSound
  <1>5. /\ calls' \in ShareCallsMap /\ DOMAIN calls' = DOMAIN calls
        /\ \A d \in DOMAIN calls' : CallSound(calls[d])'
        /\ Response' = Response /\ (Hashed => Hashed') /\ Active' = Active
    BY <1>3, <1>4, OneCall
  <1>6. ASSUME NEW share \in ShareViews, activeShare' = share, form' \in ShareForms, share.token = 0 => form'.expires = 0,
               secured' = secured \/ (call.stands /\ secured' = TRUE), SettingsShowShare'
        PROVE  ShareTabIInv'
    <2>1. ShareTabTypes'
      BY <1>2, <1>3, <1>5, <1>6 DEF ShareTabTypes
    <2>2. PasswordHolds'
      BY <1>2, <1>3, <1>5, <1>6 DEF PasswordHolds, CallSound
    <2> QED
      BY <1>5, <1>6, <2>1, <2>2 DEF ShareTabIInv
  <1>7. CASE Answer(c)
    <2>1. PICK share : share = IF call.kind = "revoke" THEN NoShare ELSE call.answer
      OBVIOUS
    <2>2. /\ share \in ShareViews /\ Show(share) /\ call.at = "done" /\ call.ok
          /\ last' = IF call.late THEN "overtaken" ELSE "good"
          /\ secured' = (secured \/ call.stands)
      BY <1>1, <1>2, <1>7, <2>1 DEF Answer
    <2>3. activeShare' = share /\ form' \in ShareForms /\ form'.expires = share.expires
      BY <2>2, ShowsIt
    <2>4. ~call.late => share = Response
      BY <1>2, <2>1, <2>2 DEF CallSound, Response
    <2>5. SettingsShowShare'
      BY <1>5, <2>2, <2>3, <2>4 DEF SettingsShowShare
    <2>6. share.token = 0 => form'.expires = 0
      BY <2>2, <2>3 DEF ShareViews
    <2>7. secured' = secured \/ (call.stands /\ secured' = TRUE)
      BY <1>2, <2>2
    <2> QED
      BY <1>6, <2>2, <2>3, <2>5, <2>6, <2>7
  <1>8. CASE AnswerFails(c)
    <2>1. last' = "error" /\ secured' = secured
      BY <1>8 DEF AnswerFails
    <2>2. SettingsShowShare'
      BY <2>1 DEF SettingsShowShare
    <2>3. CASE call.kind = "load"
      <3>1. Show(NoShare)
        BY <1>1, <1>8, <2>3 DEF AnswerFails
      <3>2. activeShare' = NoShare /\ form' \in ShareForms /\ form'.expires = NoShare.expires
        BY <1>2, <3>1, ShowsIt
      <3> QED
        BY <1>2, <1>6, <2>1, <2>2, <3>2, ShareTypes
    <2>4. CASE call.kind # "load"
      <3>1. activeShare' = activeShare /\ form' = [form EXCEPT !.password = @ /\ call.payload.password # "cleared"]
        BY <1>1, <1>8, <2>4 DEF AnswerFails
      <3>2. form' \in ShareForms /\ form'.expires = form.expires
        BY <1>2, <3>1 DEF ShareForms
      <3>3. activeShare.token = 0 => form'.expires = 0
        BY <3>2 DEF ShareTabIInv
      <3> QED
        BY <1>2, <1>6, <2>1, <2>2, <3>1, <3>2, <3>3
    <2> QED
      BY <2>3, <2>4
  <1> QED
    BY <1>7, <1>8

LEMMA ShareTabStep == ASSUME ShareTabIInv, [ShareTabNext]_shareTabVars PROVE ShareTabIInv'
  <1>1. CASE UNCHANGED shareTabVars
    <2>1. Response' = Response /\ Waiting' = Waiting /\ Active' = Active /\ (Hashed => Hashed')
      BY <1>1 DEF shareTabVars, Response, Waiting, Active, Hashed
    <2>2. \A c \in DOMAIN calls : CallSound(calls[c]) => CallSound(calls[c])'
      BY <1>1, <2>1 DEF shareTabVars, CallSound
    <2> QED
      BY <1>1, <2>1, <2>2 DEF shareTabVars, ShareTabIInv, ShareTabTypes, SettingsShowShare, PasswordHolds
  <1> QED
    BY <1>1, PageSteps, PasswordTyped, ReadingSteps, SharesMade, UpdateWritten, AnswerSteps DEF ShareTabNext

\* DetailsShareContent shows the share that visitors meet once every answer came, however
\* the owner's calls met at the server (UpdateShareConfig reads, hashes and writes in
\* separate statements), unless the last answer was an error or had been overtaken there;
\* and a password the owner was told of is asked for, unless an update that had read the
\* share before wrote back what it read.
THEOREM ShareTabIsTruthful == ShareTabSpec => [](SettingsShowShare /\ PasswordHolds)
  <1>1. ShareTabInit => ShareTabIInv
    BY ShareTabStarts
  <1>2. ShareTabIInv /\ [ShareTabNext]_shareTabVars => ShareTabIInv'
    BY ShareTabStep
  <1>3. ShareTabIInv => SettingsShowShare /\ PasswordHolds
    BY DEF ShareTabIInv
  <1> QED
    BY <1>1, <1>2, <1>3, PTL DEF ShareTabSpec

-----------------------------------------------------------------------------
(* The restore. What the page has read of the document is the document or   *)
(* an older revision of it, and while a restore is on its way the page      *)
(* stands still.                                                            *)

RevertSpec == RevertInit /\ [][RevertNext]_revertVars

Sides      == [doc : BOOLEAN, text : Contents \cup {<<>>}, revision : Nat]
ReadStates == [running : BOOLEAN, listed : BOOLEAN, doc : Sides, version : {"asked", "read"}]
\* The pages with the rows and the cursor of p.
Pages(p) == [doc : Sides, version : BOOLEAN, rows : {p.rows}, loading : BOOLEAN, error : BOOLEAN, cursor : {p.cursor}, left : BOOLEAN]

Seen(side) == side.doc => side.revision <= note.revision /\ (side.revision = note.revision => side.text = note.text)
Complete == ~compared.loading /\ ~compared.error /\ compared.doc.doc /\ compared.version
RevertIInv ==
  /\ note \in [text : Contents, revision : Nat] /\ version \in [text : Contents, kept : BOOLEAN]
  /\ compared \in Pages(compared) /\ reads \in ReadStates
  /\ restore \in [phase : {"none", "sent", "accepted", "rejected"}, base : Nat]
  /\ Seen(reads.doc) /\ Seen(compared.doc)
  /\ reads.running = compared.loading
  /\ restore.phase = "sent" => Complete /\ restore.base = compared.doc.revision

LEMMA FreshReads ==
  /\ Nothing \in Sides /\ ~Nothing.doc /\ NotReading \in ReadStates /\ NotReading.doc = Nothing /\ NotReading.running = FALSE
  /\ [NotReading EXCEPT !.running = TRUE, !.listed = ~ByVersionID] \in ReadStates
  /\ [NotReading EXCEPT !.running = TRUE, !.listed = ~ByVersionID].doc = Nothing
  /\ [NotReading EXCEPT !.running = TRUE, !.listed = ~ByVersionID].running = TRUE
  <1>1. Nothing \in Sides /\ ~Nothing.doc
    BY DEF Nothing, Sides
  <1>2. NotReading \in ReadStates /\ NotReading.doc = Nothing /\ NotReading.running = FALSE
    BY <1>1 DEF NotReading, ReadStates
  <1> QED
    BY <1>1, <1>2 DEF ReadStates

LEMMA RevertStarts == ASSUME RevertInit PROVE RevertIInv
  <1>1. compared \in Pages(compared) /\ compared.doc = Nothing /\ compared.loading = TRUE
    BY FreshReads DEF RevertInit, NewPage, Pages
  <1>2. reads \in ReadStates /\ reads.doc = Nothing /\ reads.running = TRUE
    BY FreshReads DEF RevertInit
  <1>3. note \in [text : Contents, revision : Nat] /\ version \in [text : Contents, kept : BOOLEAN]
    <2>1. PICK text \in Contents : note = [text |-> text, revision |-> 1]
      BY DEF RevertInit
    <2>2. PICK old \in Contents, kept \in BOOLEAN : version = [text |-> old, kept |-> kept]
      BY DEF RevertInit
    <2> QED
      BY <2>1, <2>2
  <1> QED
    BY <1>1, <1>2, <1>3, FreshReads DEF RevertInit, RevertIInv, NotSaving, Seen

\* The load goes on, ends or starts: no restore is on its way.
LEMMA LoadSteps ==
  ASSUME RevertIInv, ReadDocument \/ ReadSummaries \/ VersionUnknown \/ ReadVersion \/ Compared \/ ReadFails \/ reload
  PROVE  RevertIInv'
  <1>1. /\ UNCHANGED <<note, version, restore>> /\ compared \in Pages(compared) /\ reads \in ReadStates
        /\ Seen(reads.doc) /\ Seen(compared.doc) /\ reads.doc \in Sides /\ reads.running = compared.loading
    BY DEF ReadDocument, ReadSummaries, VersionUnknown, ReadVersion, Compared, ReadFails, reload, Read, RevertIInv, ReadStates
  <1>2. restore.phase # "sent"
    BY DEF ReadDocument, ReadSummaries, VersionUnknown, ReadVersion, Compared, ReadFails, reload, RevertPage, RevertIInv, Complete
  <1>3. ASSUME compared' \in Pages(compared'), reads' \in ReadStates, reads'.running = compared'.loading,
               Seen(reads.doc)', Seen(compared.doc)'
        PROVE  RevertIInv'
    BY <1>1, <1>2, <1>3 DEF RevertIInv
  <1>4. Seen(compared.doc) /\ compared'.doc = compared.doc => Seen(compared.doc)'
    BY <1>1 DEF Seen
  <1>5. Seen(reads.doc) /\ reads'.doc = reads.doc => Seen(reads.doc)'
    BY <1>1 DEF Seen
  <1>6. reads'.doc = Nothing => Seen(reads.doc)'
    BY FreshReads DEF Seen
  <1>7. CASE ReadDocument
    <2>1. PICK side : side = [doc |-> TRUE, text |-> note.text, revision |-> note.revision]
      OBVIOUS
    <2>2. side \in Sides
      BY <2>1 DEF RevertIInv, Sides
    <2>3. reads' = [reads EXCEPT !.doc = side]
      BY <1>7, <2>1 DEF ReadDocument
    <2>4. reads' \in ReadStates /\ reads'.doc = side /\ reads'.running = reads.running
      BY <1>1, <2>2, <2>3 DEF ReadStates
    <2>5. Seen(reads.doc)'
      BY <1>1, <2>1, <2>4 DEF Seen, RevertIInv
    <2>6. compared' = compared
      BY <1>7 DEF ReadDocument
    <2> QED
      BY <1>1, <1>3, <1>4, <2>4, <2>5, <2>6
  <1>8. CASE ReadSummaries \/ ReadVersion
    <2>1. reads' \in ReadStates /\ reads'.doc = reads.doc /\ reads'.running = reads.running
      BY <1>1, <1>8 DEF ReadSummaries, ReadVersion, ReadStates
    <2>2. compared' = compared
      BY <1>8 DEF ReadSummaries, ReadVersion
    <2> QED
      BY <1>1, <1>3, <1>4, <1>5, <2>1, <2>2
  <1>9. CASE VersionUnknown
    <2>1. PICK page : page = [compared EXCEPT !.left = TRUE, !.loading = FALSE]
      OBVIOUS
    <2>2. page \in Pages(page) /\ page.doc = compared.doc /\ page.loading = FALSE
      BY <1>1, <2>1 DEF Pages
    <2>3. compared' = page /\ reads' = NotReading
      BY <1>9, <2>1 DEF VersionUnknown
    <2> QED
      BY <1>1, <1>3, <1>4, <1>6, <2>2, <2>3, FreshReads
  <1>10. CASE ReadFails
    <2>1. PICK page : page = [compared EXCEPT !.error = TRUE, !.loading = FALSE]
      OBVIOUS
    <2>2. page \in Pages(page) /\ page.doc = compared.doc /\ page.loading = FALSE
      BY <1>1, <2>1 DEF Pages
    <2>3. compared' = page /\ reads' = NotReading
      BY <1>10, <2>1 DEF ReadFails
    <2> QED
      BY <1>1, <1>3, <1>4, <1>6, <2>2, <2>3, FreshReads
  <1>11. CASE Compared
    <2>1. PICK rows : rows = computeDiff(reads.doc.text, version.text)
      OBVIOUS
    <2>2. PICK page : page = [compared EXCEPT !.doc = reads.doc, !.version = TRUE, !.loading = FALSE, !.rows = rows]
      OBVIOUS
    <2>3. page \in Pages(page) /\ page.doc = reads.doc /\ page.loading = FALSE
      BY <1>1, <2>2 DEF Pages
    <2>4. compared' = page /\ reads' = NotReading
      BY <1>11, <2>1, <2>2 DEF Compared
    <2>5. Seen(compared.doc)'
      BY <1>1, <2>3, <2>4 DEF Seen
    <2> QED
      BY <1>1, <1>3, <1>6, <2>3, <2>4, <2>5, FreshReads
  <1>12. CASE reload
    <2>1. PICK page : page = [compared EXCEPT !.loading = TRUE, !.error = FALSE]
      OBVIOUS
    <2>2. page \in Pages(page) /\ page.doc = compared.doc /\ page.loading = TRUE
      BY <1>1, <2>1 DEF Pages
    <2>3. compared' = page /\ reads' = [NotReading EXCEPT !.running = TRUE, !.listed = ~ByVersionID]
      BY <1>12, <2>1 DEF reload, Read
    <2> QED
      BY <1>1, <1>3, <1>4, <1>6, <2>2, <2>3, FreshReads
  <1> QED
    BY <1>7, <1>8, <1>9, <1>10, <1>11, <1>12

LEMMA ReaderSteps ==
  ASSUME RevertIInv, previousChange \/ nextChange \/ confirmRevert \/ back
  PROVE  RevertIInv'
  <1>1. /\ UNCHANGED <<note, version, reads>> /\ compared \in Pages(compared)
        /\ Seen(reads.doc) /\ Seen(compared.doc) /\ reads.running = compared.loading
    BY DEF previousChange, nextChange, confirmRevert, back, RevertIInv
  <1>2. CASE confirmRevert
    <2>1. compared' = compared /\ restore' = [phase |-> "sent", base |-> compared.doc.revision] /\ Complete
      BY <1>1, <1>2 DEF confirmRevert, RevertPage, Complete, Pages
    <2>2. compared.doc.revision \in Nat
      BY <1>1 DEF Pages, Sides
    <2> QED
      BY <1>1, <2>1, <2>2 DEF RevertIInv, Seen, Complete
  <1>3. ASSUME compared' \in Pages(compared'), compared'.doc = compared.doc, compared'.loading = compared.loading,
               compared'.error = compared.error, compared'.version = compared.version, restore' = restore
        PROVE  RevertIInv'
    BY <1>1, <1>3 DEF RevertIInv, Seen, Complete
  <1>4. CASE previousChange \/ nextChange
    <2>1. PICK cursor : compared' = compared \/ compared' = [compared EXCEPT !.cursor = cursor]
      BY <1>4 DEF previousChange, nextChange, scrollToDiff
    <2>2. PICK page : page = [compared EXCEPT !.cursor = cursor]
      OBVIOUS
    <2>3. /\ page \in Pages(page) /\ page.doc = compared.doc /\ page.loading = compared.loading
          /\ page.error = compared.error /\ page.version = compared.version
      BY <1>1, <2>2 DEF Pages
    <2>4. restore' = restore
      BY <1>4 DEF previousChange, nextChange
    <2> QED
      BY <1>1, <1>3, <2>1, <2>2, <2>3, <2>4
  <1>5. CASE back
    <2>1. PICK page : page = [compared EXCEPT !.left = TRUE]
      OBVIOUS
    <2>2. /\ page \in Pages(page) /\ page.doc = compared.doc /\ page.loading = compared.loading
          /\ page.error = compared.error /\ page.version = compared.version
      BY <1>1, <2>1 DEF Pages
    <2>3. compared' = page /\ restore' = restore
      BY <1>5, <2>1 DEF back
    <2> QED
      BY <1>3, <2>2, <2>3
  <1> QED
    BY <1>2, <1>4, <1>5

LEMMA RestoreSteps ==
  ASSUME RevertIInv, saveImpl \/ RestoreAnswer \/ RestoreFails \/ SaveElsewhere
  PROVE  RevertIInv'
  <1>1. /\ compared \in Pages(compared) /\ Seen(reads.doc) /\ Seen(compared.doc) /\ reads.running = compared.loading
        /\ note \in [text : Contents, revision : Nat] /\ version \in [text : Contents, kept : BOOLEAN]
        /\ reads.doc \in Sides /\ compared.doc \in Sides
        /\ restore \in [phase : {"none", "sent", "accepted", "rejected"}, base : Nat]
    BY DEF RevertIInv, Pages, ReadStates
  <1>3. ASSUME NEW n \in [text : Contents, revision : Nat], note' = n, note = n \/ n.revision = note.revision + 1,
               UNCHANGED <<compared, reads>>
        PROVE  Seen(reads.doc)' /\ Seen(compared.doc)'
    BY <1>1, <1>3 DEF Seen, Sides
  <1>4. CASE saveImpl
    <2>1. PICK p \in {"accepted", "rejected"} : restore' = [restore EXCEPT !.phase = p]
      BY <1>4 DEF saveImpl
    <2>2. restore' \in [phase : {"none", "sent", "accepted", "rejected"}, base : Nat] /\ restore'.phase # "sent"
      BY <1>1, <2>1
    <2>3. UNCHANGED <<version, compared, reads>>
      BY <1>4 DEF saveImpl
    <2>4. note' \in [text : Contents, revision : Nat] /\ (note' = note \/ note'.revision = note.revision + 1)
      BY <1>1, <1>4 DEF saveImpl
    <2> QED
      BY <1>1, <1>3, <2>2, <2>3, <2>4 DEF RevertIInv
  <1>5. CASE RestoreAnswer
    <2>1. restore' = NotSaving /\ UNCHANGED <<note, version>> /\ NotSaving.phase = "none"
          /\ NotSaving \in [phase : {"none", "sent", "accepted", "rejected"}, base : Nat]
      BY <1>5 DEF RestoreAnswer, NotSaving
    <2>2. PICK again, page : again = [compared EXCEPT !.loading = TRUE, !.error = FALSE] /\ page = [compared EXCEPT !.left = TRUE]
      OBVIOUS
    <2>3. /\ again \in Pages(again) /\ again.doc = compared.doc /\ again.loading = TRUE
          /\ page \in Pages(page) /\ page.doc = compared.doc /\ page.loading = compared.loading
      BY <1>1, <2>2 DEF Pages
    <2>4. \/ compared' = again /\ reads' = [NotReading EXCEPT !.running = TRUE, !.listed = ~ByVersionID]
          \/ compared' = page /\ reads' = reads
      BY <1>5, <2>2 DEF RestoreAnswer, Read
    <2>5. reads' \in ReadStates /\ Seen(reads.doc)' /\ reads'.running = compared'.loading
      <3>1. CASE compared' = again /\ reads' = [NotReading EXCEPT !.running = TRUE, !.listed = ~ByVersionID]
        <4>1. reads' \in ReadStates /\ reads'.doc = Nothing /\ reads'.running = TRUE /\ compared'.loading = TRUE /\ ~Nothing.doc
          BY Zenon, <2>3, <3>1, FreshReads
        <4> QED
          BY <4>1 DEF Seen
      <3>2. CASE compared' = page /\ reads' = reads
        BY Zenon, <1>1, <2>1, <2>3, <3>2 DEF Seen, RevertIInv
      <3> QED
        BY Zenon, <2>4, <3>1, <3>2
    <2>6. compared' \in Pages(compared') /\ Seen(compared.doc)'
      BY <1>1, <2>1, <2>3, <2>4 DEF Seen
    <2> QED
      BY <1>1, <2>1, <2>5, <2>6 DEF RevertIInv
  <1>6. CASE RestoreFails
    <2>1. restore' = NotSaving /\ UNCHANGED <<note, version, compared, reads>> /\ NotSaving.phase = "none"
          /\ NotSaving \in [phase : {"none", "sent", "accepted", "rejected"}, base : Nat]
      BY <1>6 DEF RestoreFails, NotSaving
    <2> QED
      BY <2>1 DEF RevertIInv, Seen
  <1>7. CASE SaveElsewhere
    <2>1. /\ note' \in [text : Contents, revision : Nat] /\ note'.revision = note.revision + 1
          /\ version' \in [text : Contents, kept : BOOLEAN] /\ UNCHANGED <<compared, reads, restore>>
      BY <1>1, <1>7 DEF SaveElsewhere
    <2> QED
      BY <1>1, <1>3, <2>1 DEF RevertIInv, Complete
  <1> QED
    BY <1>4, <1>5, <1>6, <1>7

LEMMA RevertStep == ASSUME RevertIInv, [RevertNext]_revertVars PROVE RevertIInv'
  <1>1. CASE UNCHANGED revertVars
    BY <1>1 DEF revertVars, RevertIInv, Seen, Complete
  <1> QED
    BY <1>1, LoadSteps, ReaderSteps, RestoreSteps DEF RevertNext

LEMMA RevertSound == ASSUME RevertIInv PROVE RestoresWhatWasCompared
  BY DEF RevertIInv, RestoresWhatWasCompared, saveImpl, Seen, Complete, RevertPage

\* A restore that changes the document replaces the text its reader was shown (page.tsx
\* and its savingRef, DocumentService.Save), whoever saves meanwhile.
THEOREM RestoreIsFaithful == RevertSpec => [][RestoresWhatWasCompared]_revertVars
  <1>1. RevertInit => RevertIInv
    BY RevertStarts
  <1>2. RevertIInv /\ [RevertNext]_revertVars => RevertIInv'
    BY RevertStep
  <1>3. RevertIInv => [RestoresWhatWasCompared]_revertVars
    BY RevertSound
  <1> QED
    BY <1>1, <1>2, <1>3, PTL DEF RevertSpec

-----------------------------------------------------------------------------
(* The menus of the editor. A search that was not aborted is the newest one *)
(* and carries the query of the field until the field changes.              *)

Quicks(q) == [show : BOOLEAN, query : {q.query}, results : {q.results}, recent : {q.recent},
              loading : BOOLEAN, timer : BOOLEAN, failed : BOOLEAN, asked : Nat]
SearchStates == [query : Queries, aborted : BOOLEAN, n : Nat]
Answered(q) == q.results = q.query \/ (q.failed /\ q.results = NoNotes)
QuickTyped == quick \in Quicks(quick) /\ searches \subseteq SearchStates /\ quick.query \in Queries
NewestSearch ==
  /\ \A s \in searches : s.n < quick.asked
  /\ \A s, o \in searches : ~s.aborted /\ o # s => o.n < s.n
QuickSettles ==
  /\ quick.loading => searches # {}
  /\ quick.show /\ quick.query # "" /\ ~quick.timer
       => \/ ~quick.loading /\ Answered(quick) /\ \A s \in searches : s.aborted
          \/ quick.loading /\ \E s \in searches : ~s.aborted /\ s.query = quick.query
QuickIInv == QuickTyped /\ NewestSearch /\ QuickSettles

\* What aborting leaves of the searches.
LEMMA Aborting ==
  ASSUME QuickTyped
  PROVE  /\ Aborted \subseteq SearchStates /\ \A s \in Aborted : s.aborted
         /\ \A s \in Aborted : \E o \in searches : s.n = o.n
         /\ searches # {} => Aborted # {}
  <1>1. ASSUME NEW s \in Aborted PROVE s \in SearchStates /\ s.aborted /\ \E o \in searches : s.n = o.n
    <2>1. PICK o \in searches : s = [o EXCEPT !.aborted = TRUE]
      BY <1>1 DEF Aborted
    <2>2. o \in SearchStates
      BY <2>1 DEF QuickTyped
    <2> QED
      BY <2>1, <2>2 DEF SearchStates
  <1>2. searches # {} => Aborted # {}
    BY DEF Aborted
  <1> QED
    BY <1>1, <1>2

\* The effect of a new query, of opening and of closing.
LEMMA Effects ==
  ASSUME QuickIInv, NEW q, q \in Quicks(q), QuickEffect(q), q.query \in Queries, q.asked = quick.asked,
         q.loading = quick.loading
  PROVE  QuickIInv'
  <1>1. PICK t : t = quick'
    OBVIOUS
  <1>2. /\ t \in Quicks(t) /\ t.query = q.query /\ t.show = q.show /\ t.loading = q.loading /\ t.asked = q.asked
        /\ t.show /\ t.query # "" => t.timer
    BY <1>1 DEF QuickEffect, Quicks
  <1>3. searches' = searches \/ searches' = Aborted
    BY DEF QuickEffect
  <1>4. searches' \subseteq SearchStates /\ (searches # {} => searches' # {})
    BY <1>3, Aborting DEF QuickIInv, QuickTyped
  <1>5. QuickTyped'
    BY <1>1, <1>2, <1>4 DEF QuickTyped
  <1>6. NewestSearch'
    <2>1. CASE searches' = searches
      BY <1>1, <1>2, <2>1 DEF QuickIInv, NewestSearch
    <2>2. CASE searches' = Aborted
      <3>1. \A s \in searches' : s.aborted
        BY <2>2, Aborting DEF QuickIInv
      <3>2. ASSUME NEW s \in searches' PROVE s.n < quick'.asked
        <4>1. PICK o \in searches : s.n = o.n
          BY <2>2, Aborting DEF QuickIInv
        <4> QED
          BY <1>1, <1>2, <4>1 DEF QuickIInv, NewestSearch
      <3> QED
        BY <3>1, <3>2 DEF NewestSearch
    <2> QED
      BY <1>3, <2>1, <2>2
  <1>7. QuickSettles'
    BY <1>1, <1>2, <1>4 DEF QuickIInv, QuickSettles
  <1> QED
    BY <1>5, <1>6, <1>7 DEF QuickIInv

LEMMA QuickFields ==
  ASSUME QuickIInv, \/ handleOpenQuickOpen \/ handleCloseQuickOpen \/ setQuickOpenQuery \/ handleQuickOpenSelect
  PROVE  QuickIInv'
  <1>1. PICK shows \in BOOLEAN, query \in Queries : QuickEffect([quick EXCEPT !.show = shows, !.query = query])
    <2>1. CASE handleOpenQuickOpen
      BY <2>1 DEF handleOpenQuickOpen, Queries
    <2>2. CASE handleCloseQuickOpen \/ handleQuickOpenSelect
      BY <2>2 DEF handleCloseQuickOpen, handleQuickOpenSelect, Queries
    <2>3. CASE setQuickOpenQuery
      <3>1. PICK query \in Queries : QuickEffect([quick EXCEPT !.query = query])
        BY <2>3 DEF setQuickOpenQuery
      <3>2. [quick EXCEPT !.query = query] = [quick EXCEPT !.show = quick.show, !.query = query]
        BY DEF QuickIInv, QuickTyped, Quicks
      <3>3. quick.show \in BOOLEAN
        BY DEF QuickIInv, QuickTyped, Quicks
      <3> QED
        BY <3>1, <3>2, <3>3
    <2> QED
      BY <2>1, <2>2, <2>3
  <1>2. PICK q : q = [quick EXCEPT !.show = shows, !.query = query]
    OBVIOUS
  <1>3. q \in Quicks(q) /\ q.query = query /\ q.asked = quick.asked /\ q.loading = quick.loading
    BY <1>2 DEF QuickIInv, QuickTyped, Quicks
  <1> QED
    BY <1>1, <1>2, <1>3, Effects

LEMMA QuickFetch == ASSUME QuickIInv, fetchQuickOpenSearch PROVE QuickIInv'
  <1>1. PICK n : n = [query |-> quick.query, aborted |-> FALSE, n |-> quick.asked]
    OBVIOUS
  <1>2. n \in SearchStates /\ ~n.aborted /\ n.n = quick.asked /\ n.query = quick.query
    BY <1>1 DEF QuickIInv, QuickTyped, Quicks, SearchStates
  <1>9. quick.asked \in Nat
    BY DEF QuickIInv, QuickTyped, Quicks
  <1>10. PICK m \in Nat : m = quick.asked + 1
    BY <1>9
  <1>3. PICK t : t = [quick EXCEPT !.timer = FALSE, !.loading = TRUE, !.asked = m]
    OBVIOUS
  <1>4. /\ t \in Quicks(t) /\ t.query = quick.query /\ t.show = quick.show /\ t.loading
        /\ quick.asked \in Nat /\ t.asked = quick.asked + 1
    <2>1. t.query = quick.query /\ t.show = quick.show /\ t.loading
      BY <1>3 DEF QuickIInv, QuickTyped, Quicks
    <2>2. t \in Quicks(t)
      BY <1>3 DEF QuickIInv, QuickTyped, Quicks
    <2>3. quick.asked \in Nat /\ t.asked = m
      BY <1>3 DEF QuickIInv, QuickTyped, Quicks
    <2> QED
      BY <1>10, <2>1, <2>2, <2>3
  <1>0. quick' = t
    BY <1>3, <1>10 DEF fetchQuickOpenSearch
  <1>5. searches' = Aborted \cup {n}
    BY <1>1 DEF fetchQuickOpenSearch
  <1>6. QuickTyped'
    BY <1>0, <1>2, <1>4, <1>5, Aborting DEF QuickIInv, QuickTyped
  <1>7. NewestSearch'
    <2>1. \A s \in Aborted : s.aborted /\ s.n \in Nat /\ s.n < quick.asked
      <3>1. ASSUME NEW s \in Aborted PROVE s.aborted /\ s.n \in Nat /\ s.n < quick.asked
        <4>1. PICK o \in searches : s.n = o.n
          BY <3>1, Aborting DEF QuickIInv
        <4>2. s.aborted /\ s \in SearchStates
          BY <3>1, Aborting DEF QuickIInv
        <4> QED
          BY <4>1, <4>2 DEF QuickIInv, NewestSearch, SearchStates
      <3> QED
        BY <3>1
    <2>2. \A s \in searches' : s.n < t.asked
      BY <1>2, <1>4, <1>5, <2>1
    <2>3. \A s, o \in searches' : ~s.aborted /\ o # s => o.n < s.n
      BY <1>2, <1>5, <2>1
    <2> QED
      BY <1>0, <2>2, <2>3 DEF NewestSearch
  <1>8. QuickSettles'
    BY <1>0, <1>2, <1>4, <1>5 DEF QuickSettles
  <1> QED
    BY <1>6, <1>7, <1>8 DEF QuickIInv

LEMMA QuickAnswers == ASSUME QuickIInv, NEW s \in searches, SearchAnswered(s) PROVE QuickIInv'
  <1>1. PICK t : t = quick'
    OBVIOUS
  <1>2. /\ t \in Quicks(t) /\ t.query = quick.query /\ t.show = quick.show /\ t.asked = quick.asked
        /\ t.timer = quick.timer
        /\ \/ ~s.aborted /\ ~t.loading /\ t.results = (IF t.failed THEN NoNotes ELSE s.query)
           \/ /\ s.aborted /\ t.results = quick.results /\ t.failed = quick.failed
              /\ t.loading <=> quick.loading /\ \E o \in searches \ {s} : o.n > s.n
    BY <1>1 DEF QuickIInv, QuickTyped, Quicks, SearchAnswered
  <1>3. searches' = searches \ {s}
    BY DEF SearchAnswered
  <1>4. QuickTyped'
    BY <1>1, <1>2, <1>3 DEF QuickIInv, QuickTyped
  <1>5. NewestSearch'
    BY <1>1, <1>2, <1>3 DEF QuickIInv, NewestSearch
  <1>6. t.loading => searches' # {}
    BY <1>2, <1>3
  <1>7. ASSUME t.show, t.query # "", ~t.timer
        PROVE  \/ ~t.loading /\ Answered(t) /\ \A o \in searches' : o.aborted
               \/ t.loading /\ \E o \in searches' : ~o.aborted /\ o.query = t.query
    <2>1. CASE ~quick.loading /\ Answered(quick) /\ \A o \in searches : o.aborted
      BY <1>2, <1>3, <2>1 DEF Answered
    <2>2. ASSUME quick.loading, NEW o \in searches, ~o.aborted, o.query = quick.query
          PROVE  \/ ~t.loading /\ Answered(t) /\ \A p \in searches' : p.aborted
                 \/ t.loading /\ \E p \in searches' : ~p.aborted /\ p.query = t.query
      <3>1. CASE o = s
        <4>1. ~t.loading /\ Answered(t)
          BY <1>2, <2>2, <3>1 DEF Answered
        <4>2. ASSUME NEW p \in searches', ~p.aborted PROVE FALSE
          <5>1. p.n < s.n /\ s.n < p.n /\ p.n \in Nat /\ s.n \in Nat
            BY <1>3, <2>2, <3>1, <4>2 DEF QuickIInv, NewestSearch, QuickTyped, SearchStates
          <5> QED
            BY <5>1
        <4> QED
          BY <4>1, <4>2
      <3>2. CASE o # s
        <4>1. s.n < o.n /\ s.n \in Nat /\ o.n \in Nat
          BY <2>2, <3>2 DEF QuickIInv, NewestSearch, QuickTyped, SearchStates
        <4>2. CASE s.aborted
          BY <1>2, <1>3, <2>2, <3>2, <4>1, <4>2
        <4>3. CASE ~s.aborted
          <5>1. o.n < s.n
            BY <3>2, <4>3 DEF QuickIInv, NewestSearch
          <5> QED
            BY <4>1, <5>1
        <4> QED
          BY <4>2, <4>3
      <3> QED
        BY <3>1, <3>2
    <2> QED
      BY <1>2, <1>7, <2>1, <2>2 DEF QuickIInv, QuickSettles
  <1>8. QuickSettles'
    BY <1>1, <1>6, <1>7 DEF QuickSettles, Answered
  <1> QED
    BY <1>4, <1>5, <1>8 DEF QuickIInv

LEMMA QuickSound == ASSUME QuickIInv, [QuickNext]_quickVars PROVE QuickIInv'
  <1>1. CASE UNCHANGED quickVars
    BY <1>1 DEF quickVars, QuickIInv, QuickTyped, NewestSearch, QuickSettles, Answered, Quicks
  <1>2. CASE fetchRecentDocs
    <2>1. PICK t : t = quick'
      OBVIOUS
    <2>2. /\ t \in Quicks(t) /\ t.query = quick.query /\ t.show = quick.show /\ t.asked = quick.asked
          /\ t.timer = quick.timer /\ t.loading = quick.loading /\ t.failed = quick.failed
          /\ t.results = quick.results /\ searches' = searches
      BY <1>2, <2>1 DEF QuickIInv, QuickTyped, Quicks, fetchRecentDocs
    <2>3. QuickTyped' /\ NewestSearch'
      BY <2>1, <2>2 DEF QuickIInv, QuickTyped, NewestSearch
    <2>4. QuickSettles'
      BY <2>1, <2>2 DEF QuickIInv, QuickSettles, Answered
    <2> QED
      BY <2>3, <2>4 DEF QuickIInv
  <1> QED
    BY <1>1, <1>2, QuickFields, QuickFetch, QuickAnswers DEF QuickNext

LEMMA QuickStarts == ASSUME QuickInit PROVE QuickIInv
  BY DEF QuickInit, QuickIInv, QuickTyped, NewestSearch, QuickSettles, Quicks, QuickClosed, Queries

-----------------------------------------------------------------------------
(* The preview of a note and the similar notes. A request that counts asks *)
(* for the note the reader last asked for, or for the notes of the open    *)
(* document.                                                               *)

Peeks == [doc : Documents \cup {"none"}, loading : BOOLEAN, active : Nat, last : Nat]
Similars == [doc : Documents, collapsed : BOOLEAN, icon : BOOLEAN,
             status : {"ready", "pending", "building", "disabled", "unavailable"}, loading : BOOLEAN,
             of : Documents \cup {"none"}, active : Nat, last : Nat]
Requests(n) == [n : 1..n, doc : Documents]
PeekSettles ==
  /\ peek \in Peeks /\ peek.active <= peek.last /\ peeks \subseteq Requests(peek.last)
  /\ \A p \in peeks : p.n = peek.active => p.doc = wanted
  /\ peek.loading => \E p \in peeks : p.n = peek.active
  /\ ~peek.loading => peek.doc = wanted
SimilarSettles ==
  /\ similar \in Similars /\ similar.active <= similar.last /\ asks \subseteq Requests(similar.last)
  /\ similar.doc \in Documents /\ similar.of \in {"none", similar.doc}
  /\ \A a \in asks : a.n = similar.active => a.doc = similar.doc
  /\ similar.loading => \E a \in asks : a.n = similar.active
PeekIInv == PeekSettles /\ SimilarSettles

\* A new request has a number of its own.
LEMMA AskingAgain ==
  ASSUME NEW n \in Nat, NEW S \in SUBSET Requests(n), NEW d \in Documents, NEW r, r = [n |-> n + 1, doc |-> d]
  PROVE  /\ S \cup {r} \subseteq Requests(n + 1) /\ r.n = n + 1 /\ r.doc = d
         /\ \A p \in S \cup {r} : p.n = n + 1 => p.doc = d
  BY DEF Requests

LEMMA Previews ==
  ASSUME PeekIInv, handleOpenPreview \/ updatePreviewDoc \/ \E p \in peeks : PeekAnswered(p) PROVE PeekIInv'
  <1>0. PICK t : t = peek'
    OBVIOUS
  <1>1. SimilarSettles'
    BY DEF PeekIInv, SimilarSettles, Similars, Requests, handleOpenPreview, updatePreviewDoc, PeekAnswered
  <1>2. CASE handleOpenPreview
    <2>1. PICK d, r :
              /\ d \in Documents /\ r = [n |-> peek.last + 1, doc |-> d]
              /\ peeks' = peeks \cup {r} /\ wanted' = d
      BY <1>2 DEF handleOpenPreview
    <2>7. peek.last \in Nat
      BY DEF PeekIInv, PeekSettles, Peeks
    <2>8. PICK m \in Nat : m = peek.last + 1
      BY <2>7
    <2>2. PICK q : q = [peek EXCEPT !.active = m, !.last = m, !.loading = TRUE]
      OBVIOUS
    <2>4. q \in Peeks /\ q.last = peek.last + 1 /\ q.active = peek.last + 1 /\ q.loading /\ peek.last \in Nat
      <3>1. q.last = m /\ q.active = m
        BY <2>2 DEF PeekIInv, PeekSettles, Peeks
      <3>2. q.loading /\ q \in Peeks
        BY <2>2 DEF PeekIInv, PeekSettles, Peeks
      <3> QED
        BY <2>7, <2>8, <3>1, <3>2
    <2>5. peek' = q
      BY <1>2, <2>2, <2>8 DEF handleOpenPreview
    <2>3. /\ peeks' \subseteq Requests(peek.last + 1) /\ r.n = peek.last + 1
          /\ \A p \in peeks' : p.n = peek.last + 1 => p.doc = d
      BY <2>1, <2>4, AskingAgain DEF PeekIInv, PeekSettles
    <2>6. PeekSettles'
      BY <2>1, <2>3, <2>4, <2>5 DEF PeekSettles
    <2> QED
      BY <1>1, <2>6 DEF PeekIInv
  <1>3. CASE updatePreviewDoc
    <2>1. /\ t \in Peeks /\ t.last = peek.last /\ t.active = 0 /\ ~t.loading /\ t.doc = "none" /\ peek.last \in Nat
          /\ peeks' = peeks /\ wanted' = "none"
      BY <1>0, <1>3 DEF PeekIInv, PeekSettles, Peeks, updatePreviewDoc
    <2>2. \A p \in peeks : p.n # 0
      BY DEF PeekIInv, PeekSettles, Requests
    <2>3. PeekSettles'
      BY <1>0, <2>1, <2>2 DEF PeekIInv, PeekSettles
    <2> QED
      BY <1>1, <2>3 DEF PeekIInv
  <1>4. ASSUME NEW p \in peeks, PeekAnswered(p) PROVE PeekIInv'
    <2>1. CASE p.n # peek.active
      <3>1. peek' = peek /\ wanted' = wanted /\ peeks' = peeks \ {p}
        BY <1>4, <2>1 DEF PeekAnswered
      <3>2. PeekSettles'
        BY <2>1, <3>1 DEF PeekIInv, PeekSettles
      <3> QED
        BY <1>1, <3>2 DEF PeekIInv
    <2>2. CASE p.n = peek.active
      <3>0. PICK d, q :
              /\ d \in {p.doc, peek.doc} /\ q = [peek EXCEPT !.doc = d, !.active = 0, !.loading = FALSE]
              /\ peek' = q /\ d = wanted'
        <4>1. p.doc = wanted
          BY <2>2 DEF PeekIInv, PeekSettles
        <4>2. CASE peek' = [peek EXCEPT !.doc = p.doc, !.active = 0, !.loading = FALSE] /\ UNCHANGED wanted
          BY <4>1, <4>2
        <4>3. CASE peek' = [peek EXCEPT !.active = 0, !.loading = FALSE] /\ wanted' = peek.doc
          <5>1. [peek EXCEPT !.active = 0, !.loading = FALSE] = [peek EXCEPT !.doc = peek.doc, !.active = 0, !.loading = FALSE]
            BY DEF PeekIInv, PeekSettles, Peeks
          <5> QED
            BY <4>3, <5>1
        <4> QED
          BY <1>4, <2>2, <4>2, <4>3 DEF PeekAnswered
      <3>4. p.doc \in Documents
        BY DEF PeekIInv, PeekSettles, Requests
      <3>5. q.last = peek.last /\ q.active = 0 /\ q.doc = d
        BY <3>0 DEF PeekIInv, PeekSettles, Peeks
      <3>6. q \in Peeks /\ ~q.loading
        BY <3>0, <3>4 DEF PeekIInv, PeekSettles, Peeks
      <3>1. /\ t \in Peeks /\ t.last = peek.last /\ t.active = 0 /\ ~t.loading /\ peek.last \in Nat
            /\ t.doc = wanted' /\ peeks' = peeks \ {p}
        BY <1>0, <1>4, <3>0, <3>5, <3>6 DEF PeekIInv, PeekSettles, Peeks, PeekAnswered
      <3>2. \A o \in peeks : o.n # 0
        BY DEF PeekIInv, PeekSettles, Requests
      <3>3. PeekSettles'
        BY <1>0, <3>1, <3>2 DEF PeekIInv, PeekSettles
      <3> QED
        BY <1>1, <3>3 DEF PeekIInv
    <2> QED
      BY <2>1, <2>2
  <1> QED
    BY <1>2, <1>3, <1>4

LEMMA Similarities ==
  ASSUME PeekIInv,
         handleToggleSimilar \/ handleCloseSimilar \/ DocumentChanges \/ \E a \in asks : SimilarAnswered(a)
  PROVE  PeekIInv'
  <1>0. PICK t : t = similar'
    OBVIOUS
  <1>1. PeekSettles'
    BY DEF PeekIInv, PeekSettles, Peeks, Requests, handleToggleSimilar, handleCloseSimilar, DocumentChanges,
           SimilarAnswered
  <1>2. similar \in Similars /\ similar.last \in Nat /\ similar.active \in Nat /\ \A a \in asks : a.n # 0
    BY DEF PeekIInv, SimilarSettles, Similars, Requests
  <1>3. CASE (handleToggleSimilar /\ ~similar.collapsed) \/ handleCloseSimilar
    <2>1. /\ t \in Similars /\ t.last = similar.last /\ t.active = similar.active /\ t.loading = similar.loading
          /\ t.doc = similar.doc /\ t.of \in {"none", similar.of} /\ asks' = asks
      BY <1>0, <1>2, <1>3 DEF Similars, handleToggleSimilar, handleCloseSimilar
    <2>2. SimilarSettles'
      BY <1>0, <2>1 DEF PeekIInv, SimilarSettles
    <2> QED
      BY <1>1, <2>2 DEF PeekIInv
  <1>4. CASE handleToggleSimilar /\ similar.collapsed
    <2>1. PICK s : s = [similar EXCEPT !.collapsed = FALSE] /\ fetchSimilar(s)
      BY <1>4 DEF handleToggleSimilar
    <2>2. s \in Similars /\ s.last = similar.last /\ s.doc = similar.doc /\ s.of = similar.of
      BY <1>2, <2>1 DEF Similars
    <2>3. PICK r : r = [n |-> similar.last + 1, doc |-> similar.doc] /\ asks' = asks \cup {r}
      BY <2>1, <2>2 DEF fetchSimilar
    <2>9. PICK m \in Nat : m = similar.last + 1
      BY <1>2
    <2>7. PICK q : q = [s EXCEPT !.active = m, !.last = m, !.loading = TRUE]
      OBVIOUS
    <2>8. t = q
      BY <1>0, <2>1, <2>2, <2>7, <2>9 DEF fetchSimilar
    <2>4. /\ t \in Similars /\ t.last = similar.last + 1 /\ t.active = similar.last + 1
          /\ t.doc = similar.doc /\ t.of = similar.of
      <3>1. q.last = m /\ q.active = m
        BY <2>2, <2>7 DEF Similars
      <3>2. q.doc = s.doc /\ q.of = s.of
        BY <2>2, <2>7 DEF Similars
      <3>3. q \in Similars
        BY <2>2, <2>7 DEF Similars
      <3> QED
        BY <2>2, <2>8, <2>9, <3>1, <3>2, <3>3
    <2>5. /\ asks' \subseteq Requests(similar.last + 1) /\ r.n = similar.last + 1
          /\ \A a \in asks' : a.n = similar.last + 1 => a.doc = similar.doc
      BY <1>2, <2>3, AskingAgain DEF PeekIInv, SimilarSettles
    <2>6. SimilarSettles'
      BY <1>0, <1>2, <2>3, <2>4, <2>5 DEF PeekIInv, SimilarSettles
    <2> QED
      BY <1>1, <2>6 DEF PeekIInv
  <1>5. CASE DocumentChanges
    <2>3. PICK d, q :
            /\ d \in Documents /\ similar' = q /\ asks' = asks
            /\ q = [similar EXCEPT !.doc = d, !.active = 0, !.of = "none", !.loading = FALSE,
                                   !.collapsed = TRUE, !.status = "pending", !.icon = TRUE]
      BY <1>5 DEF DocumentChanges
    <2>1. /\ t \in Similars /\ t.last = similar.last /\ t.active = 0 /\ ~t.loading
          /\ t.doc \in Documents /\ t.of = "none" /\ asks' = asks
      <3>1. q.last = similar.last /\ q.active = 0
        BY <1>2, <2>3 DEF Similars
      <3>2. ~q.loading /\ q.doc = d /\ q.of = "none"
        BY <1>2, <2>3 DEF Similars
      <3>3. q \in Similars
        BY <1>2, <2>3 DEF Similars
      <3> QED
        BY <1>0, <2>3, <3>1, <3>2, <3>3
    <2>2. SimilarSettles'
      BY <1>0, <1>2, <2>1 DEF PeekIInv, SimilarSettles
    <2> QED
      BY <1>1, <2>2 DEF PeekIInv
  <1>6. ASSUME NEW a \in asks, SimilarAnswered(a) PROVE PeekIInv'
    <2>1. CASE a.n # similar.active
      <3>1. similar' = similar /\ asks' = asks \ {a}
        BY <1>6, <2>1 DEF SimilarAnswered
      <3>2. SimilarSettles'
        BY <2>1, <3>1 DEF PeekIInv, SimilarSettles
      <3> QED
        BY <1>1, <3>2 DEF PeekIInv
    <2>2. CASE a.n = similar.active
      <3>1. a.doc = similar.doc
        BY <2>2 DEF PeekIInv, SimilarSettles
      <3>0. PICK status, of, q :
              /\ status \in {"ready", "pending", "building", "disabled", "unavailable"} /\ of \in {"none", a.doc}
              /\ similar' = q /\ asks' = asks \ {a}
              /\ q = [similar EXCEPT !.active = 0, !.loading = FALSE, !.status = status, !.of = of]
        BY <1>6, <2>2 DEF SimilarAnswered
      <3>2. /\ t \in Similars /\ t.last = similar.last /\ t.active = 0 /\ ~t.loading /\ t.doc = similar.doc
            /\ t.of \in {"none", a.doc} /\ asks' = asks \ {a}
        <4>1. q.last = similar.last /\ q.active = 0
          BY <1>2, <3>0 DEF Similars
        <4>2. ~q.loading /\ q.doc = similar.doc /\ q.of = of
          BY <1>2, <3>0 DEF Similars
        <4>3. a.doc \in Documents
          BY DEF PeekIInv, SimilarSettles, Requests
        <4>4. q \in Similars
          BY <1>2, <3>0, <4>3 DEF Similars
        <4> QED
          BY <1>0, <3>0, <4>1, <4>2, <4>4
      <3>3. SimilarSettles'
        BY <1>0, <1>2, <3>1, <3>2 DEF PeekIInv, SimilarSettles
      <3> QED
        BY <1>1, <3>3 DEF PeekIInv
    <2> QED
      BY <2>1, <2>2
  <1> QED
    BY <1>3, <1>4, <1>5, <1>6

LEMMA PeekSound == ASSUME PeekIInv, [PeekNext]_peekVars PROVE PeekIInv'
  <1>1. CASE UNCHANGED peekVars
    BY <1>1 DEF peekVars, PeekIInv, PeekSettles, SimilarSettles, Peeks, Similars
  <1> QED
    BY <1>1, Previews, Similarities DEF PeekNext, OpenSimilar

LEMMA PeekStarts == ASSUME PeekInit PROVE PeekIInv
  <1>1. PeekSettles
    BY DEF PeekInit, PeekSettles, Peeks
  <1>2. SimilarSettles
    <2>1. PICK d, s :
            /\ d \in Documents /\ s = similar /\ asks = {}
            /\ s = [doc |-> d, collapsed |-> TRUE, icon |-> TRUE, status |-> "pending", loading |-> FALSE,
                    of |-> "none", active |-> 0, last |-> 0]
      BY DEF PeekInit
    <2>2. s \in Similars /\ s.active = 0 /\ s.last = 0 /\ ~s.loading /\ s.of = "none" /\ s.doc = d
      BY <2>1 DEF Similars
    <2> QED
      BY <2>1, <2>2 DEF SimilarSettles
  <1> QED
    BY <1>1, <1>2 DEF PeekIInv

LEMMA MenusSettle ==
  ASSUME QuickIInv, PeekIInv PROVE MenusNeverStuck /\ PreviewIsLastAsked /\ QuickOpenAnswersQuery
  BY DEF QuickIInv, QuickSettles, Answered, PeekIInv, PeekSettles, SimilarSettles, MenusNeverStuck,
         PreviewIsLastAsked, QuickOpenAnswersQuery

MenusSpec == /\ QuickInit /\ PeekInit
             /\ [][QuickNext \/ UNCHANGED quickVars]_<<quickVars, peekVars>>
             /\ [][PeekNext \/ UNCHANGED peekVars]_<<quickVars, peekVars>>

\* The menus of the editor (hooks/useQuickOpen.ts, usePreviewDoc.ts, useSimilarDocs.ts): the notes
\* under the field answer the query in it, the preview shows the note that was last asked for,
\* and each spinner has its request; for any queries, documents and order of answers.
THEOREM MenusAnswerTheLastQuestion ==
  MenusSpec => [](MenusNeverStuck /\ PreviewIsLastAsked /\ QuickOpenAnswersQuery)
  <1>1. QuickInit /\ PeekInit => QuickIInv /\ PeekIInv
    BY QuickStarts, PeekStarts
  <1>2. QuickIInv /\ [QuickNext \/ UNCHANGED quickVars]_<<quickVars, peekVars>> => QuickIInv'
    BY QuickSound DEF quickVars, peekVars
  <1>3. PeekIInv /\ [PeekNext \/ UNCHANGED peekVars]_<<quickVars, peekVars>> => PeekIInv'
    BY PeekSound DEF quickVars, peekVars
  <1>4. QuickIInv /\ PeekIInv => MenusNeverStuck /\ PreviewIsLastAsked /\ QuickOpenAnswersQuery
    BY MenusSettle
  <1> QED
    BY <1>1, <1>2, <1>3, <1>4, PTL DEF MenusSpec

-----------------------------------------------------------------------------
(* Dialogs, toasts and dropdown menus.                                      *)

DialogSpec == DialogInit /\ [][DialogNext]_dialogVars
ToastSpec  == ToastInit /\ [][ToastNext]_toastVars
MenuSpec   == MenuInit /\ [][MenuNext]_menuVars

\* A dialog hands the focus back to elements of the page.
FocusReturns == \A d \in Dialogs : ReturnTo[d] \subseteq Triggers

OnPage   == Triggers \cup {"body"}
LockIs(n) == IF n = 0 THEN [count |-> 0, prev |-> "", body |-> "page"]
             ELSE [count |-> n, prev |-> "page", body |-> "hidden"]
\* Where a dialog that was opened on the page hands the focus back to.
Home(d)  == IF ReturnTo[d] = {} THEN restoreFocus[d] ELSE CHOOSE t \in ReturnTo[d] : TRUE
\* Each dialog hands it back to the one below, the first one to where it was; the
\* timers that still run are those of the topmost dialogs.
Handed ==
  /\ \A i \in 2..Len(stack) : ReturnTo[stack[i]] = {} /\ restoreFocus[stack[i]] = stack[i - 1]
  /\ stack # <<>> => origin = Home(stack[1]) /\ origin \in OnPage
  /\ Len(timers) <= Len(stack)
  /\ \A i \in 1..Len(timers) : timers[i] = stack[Len(stack) - Len(timers) + i]
  /\ timers = <<>> => focus = IF stack = <<>> THEN origin ELSE Last(stack)
StackSound ==
  /\ stack \in Seq(Dialogs) /\ IsInjective(stack) /\ lock = LockIs(Len(stack))
  /\ timers \in Seq(Dialogs) /\ ToSet(timers) \subseteq ToSet(stack)
  /\ restoreFocus \in [Dialogs -> Dialogs \cup OnPage] /\ focus \in Dialogs \cup OnPage
  /\ stack = <<>> => focus \in OnPage
DialogsIInv == StackSound /\ (~strayed => Handed)

LEMMA DialogsBegin == ASSUME DialogInit PROVE DialogsIInv
  <1>1. stack = <<>> /\ timers = <<>> /\ Len(stack) = 0 /\ Len(timers) = 0
    BY DEF DialogInit
  <1>5. <<>> \in Seq(Dialogs)
    OBVIOUS
  <1>2. IsInjective(stack) /\ ToSet(timers) \subseteq ToSet(stack)
    BY <1>1 DEF IsInjective, ToSet
  <1>3. StackSound
    BY <1>1, <1>2, <1>5 DEF DialogInit, StackSound, LockIs, OnPage
  <1>4. Handed
    <2>1. (\A i \in 2..Len(stack) : FALSE) /\ (\A i \in 1..Len(timers) : FALSE) /\ Len(timers) <= Len(stack)
      BY <1>1
    <2>2. stack = <<>> /\ focus = origin
      BY DEF DialogInit
    <2> QED
      BY <2>1, <2>2 DEF Handed
  <1> QED
    BY <1>3, <1>4 DEF DialogsIInv

LEMMA Unregistered == ASSUME NEW n \in Nat PROVE unregister(LockIs(n + 1)) = LockIs(n)
  <1>1. CASE n = 0
    BY <1>1 DEF unregister, LockIs
  <1>2. CASE n # 0
    <2>1. PICK l : l = [count |-> n + 1, prev |-> "page", body |-> "hidden"]
      OBVIOUS
    <2>2. n + 1 # 0 /\ n + 1 # 1 /\ (n + 1) - 1 = n
      BY <1>2
    <2>3. LockIs(n + 1) = l /\ l.count # 1
      BY <2>1, <2>2 DEF LockIs
    <2>4. [l EXCEPT !.count = l.count - 1] = [count |-> n, prev |-> "page", body |-> "hidden"]
      BY <2>1, <2>2
    <2> QED
      BY <1>2, <2>3, <2>4 DEF unregister, LockIs
  <1> QED
    BY <1>1, <1>2

\* Closing k dialogs of n gives k registrations back.
LEMMA GivenBack ==
  ASSUME NEW n \in Nat, NEW k \in 0..n, lock = LockIs(n)
  PROVE  LET given[i \in 0..k] == IF i = 0 THEN lock ELSE unregister(given[i - 1])
         IN  given[k] = LockIs(n - k)
  <1> DEFINE Locks == {LockIs(i) : i \in 0..n} \cup {unregister(LockIs(0))}
             given == CHOOSE f : f = [i \in 0..k |-> IF i = 0 THEN lock ELSE unregister(f[i - 1])]
  <1>1. PICK g : g = [i \in 0..k |-> LockIs(n - i)]
    OBVIOUS
  <1>2. ASSUME NEW i \in 0..k PROVE g[i] = IF i = 0 THEN lock ELSE unregister(g[i - 1])
    <2>1. CASE i = 0
      BY <1>1, <2>1
    <2>2. CASE i # 0
      <3>1. n - i \in Nat /\ i - 1 \in 0..k /\ n - (i - 1) = (n - i) + 1
        BY <2>2
      <3>2. g[i] = LockIs(n - i) /\ g[i - 1] = LockIs((n - i) + 1)
        BY <1>1, <3>1
      <3> QED
        BY <2>2, <3>1, <3>2, Unregistered
    <2> QED
      BY <2>1, <2>2
  <1>3. g = [i \in 0..k |-> IF i = 0 THEN lock ELSE unregister(g[i - 1])]
    BY <1>1, <1>2
  <1>4. given = [i \in 0..k |-> IF i = 0 THEN lock ELSE unregister(given[i - 1])]
    BY <1>3
  <1> HIDE DEF given
  <1> DEFINE Good == {i \in Nat : i <= k => given[i] = LockIs(n - i)}
  <1>5. 0 \in Good
    BY <1>4
  <1>6. ASSUME NEW i \in Nat, i \in Good PROVE i + 1 \in Good
    <2> SUFFICES ASSUME i + 1 <= k PROVE given[i + 1] = LockIs(n - (i + 1))
      OBVIOUS
    <2>1. given[i] = LockIs(n - i) /\ n - (i + 1) \in Nat /\ n - i = (n - (i + 1)) + 1
      BY <1>6
    <2>2. i + 1 \in 0..k /\ i + 1 # 0 /\ (i + 1) - 1 = i
      OBVIOUS
    <2>3. given[i + 1] = unregister(given[i])
      BY <1>4, <2>2
    <2> QED
      BY <2>1, <2>3, Unregistered
  <1>7. k \in Good
    <2> HIDE DEF Good
    <2> QED
      BY <1>5, <1>6, Induct
  <1> QED
    BY <1>7 DEF given

\* What is left when the dialogs of ds are gone.
LEMMA Closing ==
  ASSUME DialogsIInv, NEW ds, ds \subseteq ToSet(stack), Cleanup(ds), UNCHANGED restoreFocus
  PROVE  StackSound' /\ stack' = Within(stack, Dialogs \ ds) /\ timers' = Within(timers, Dialogs \ ds)
  <1>1. /\ stack \in Seq(Dialogs) /\ IsInjective(stack) /\ lock = LockIs(Len(stack)) /\ Len(stack) \in Nat
        /\ timers \in Seq(Dialogs) /\ ToSet(timers) \subseteq ToSet(stack) /\ ToSet(stack) \subseteq Dialogs
    <2>1. /\ stack \in Seq(Dialogs) /\ IsInjective(stack) /\ lock = LockIs(Len(stack))
          /\ timers \in Seq(Dialogs) /\ ToSet(timers) \subseteq ToSet(stack)
      BY DEF DialogsIInv, StackSound
    <2>2. ToSet(stack) \subseteq Dialogs /\ Len(stack) \in Nat
      BY <2>1 DEF ToSet
    <2> QED
      BY <2>1, <2>2
  <1>2. /\ stack' = Within(stack, Dialogs \ ds) /\ timers' = Within(timers, Dialogs \ ds)
    BY Zenon DEF Cleanup
  <1>3. /\ stack' \in Seq(Dialogs) /\ IsInjective(stack') /\ ToSet(stack') = ToSet(stack) \ ds
        /\ timers' \in Seq(Dialogs) /\ ToSet(timers') = ToSet(timers) \ ds
    <2>1. /\ Within(stack, Dialogs \ ds) \in Seq(Dialogs) /\ IsInjective(Within(stack, Dialogs \ ds))
          /\ ToSet(Within(stack, Dialogs \ ds)) = ToSet(stack) \cap (Dialogs \ ds)
      BY <1>1, WithinKeeps
    <2>2. /\ Within(timers, Dialogs \ ds) \in Seq(Dialogs)
          /\ ToSet(Within(timers, Dialogs \ ds)) = ToSet(timers) \cap (Dialogs \ ds)
      BY <1>1, WithinKeeps
    <2> QED
      BY <1>1, <1>2, <2>1, <2>2
  <1>4. Len(stack) = Cardinality(ToSet(stack)) /\ Len(stack') = Cardinality(ToSet(stack'))
    BY <1>1, <1>3, LengthOfList
  <1>5. IsFiniteSet(ToSet(stack))
    <2>1. stack \in Surjection(1..Len(stack), ToSet(stack))
      BY <1>1 DEF Surjection, ToSet
    <2>2. IsFiniteSet(1..Len(stack))
      BY <1>1, FS_Interval
    <2> QED
      BY <2>1, <2>2, FS_Surjection
  <1>6. PICK k \in 0..Len(stack) : k = Cardinality(ds) /\ Len(stack') = Len(stack) - k
    <2>1. IsFiniteSet(ds) /\ Cardinality(ds) \in Nat /\ Cardinality(ds) <= Cardinality(ToSet(stack))
      BY <1>5, FS_Subset, FS_CardinalityType
    <2>2. Cardinality(ToSet(stack) \ ds) = Cardinality(ToSet(stack)) - Cardinality(ToSet(stack) \cap ds)
      BY <1>5, FS_Difference
    <2>3. ToSet(stack) \cap ds = ds
      OBVIOUS
    <2>4. PICK a \in Nat, b \in Nat : a = Cardinality(ds) /\ b = Len(stack)
      BY <1>1, <2>1
    <2>5. a <= b /\ Len(stack') = b - a
      BY <1>3, <1>4, <2>1, <2>2, <2>3, <2>4
    <2> QED
      BY <2>4, <2>5
  <1>7. lock' = LockIs(Len(stack'))
    <2>1. lock' = LET given[i \in 0..k] == IF i = 0 THEN lock ELSE unregister(given[i - 1]) IN given[k]
      BY Zenon, <1>6 DEF Cleanup
    <2> QED
      BY <1>1, <1>6, <2>1, GivenBack
  <1>8. focus' \in Dialogs \cup OnPage /\ (stack' = <<>> => focus' \in OnPage)
    <2>1. focus' \in Triggers \cup ToSet(stack') \cup {"body"}
      BY Zenon, <1>2 DEF Cleanup, Focusable
    <2>2. ToSet(stack') \subseteq Dialogs /\ (stack' = <<>> => ToSet(stack') = {})
      BY <1>1, <1>3 DEF ToSet
    <2> QED
      BY <2>1, <2>2 DEF OnPage
  <1>9. ToSet(timers') \subseteq ToSet(stack')
    BY <1>1, <1>3
  <1> QED
    BY <1>2, <1>3, <1>7, <1>8, <1>9 DEF DialogsIInv, StackSound

\* The topmost dialogs close, from the m-th one on.
LEMMA ClosingTop ==
  ASSUME FocusReturns, DialogsIInv, NEW m \in 1..Len(stack), Cleanup({stack[i] : i \in m..Len(stack)}),
         UNCHANGED <<restoreFocus, origin>>, strayed => strayed'
  PROVE  DialogsIInv'
  <1>1. PICK ds : ds = {stack[i] : i \in m..Len(stack)}
    OBVIOUS
  <1>2. PICK n \in Nat : n = Len(stack)
    BY DEF DialogsIInv, StackSound
  <1>3. /\ stack \in Seq(Dialogs) /\ DOMAIN stack = 1..n /\ timers \in Seq(Dialogs)
        /\ \A i, j \in 1..n : stack[i] = stack[j] => i = j
    BY <1>2 DEF DialogsIInv, StackSound, IsInjective
  <1>4. /\ \A i \in 1..(m - 1) : stack[i] \in Dialogs \ ds
        /\ \A i \in m..n : stack[i] \notin Dialogs \ ds
    BY <1>1, <1>2, <1>3
  <1>5. ds \subseteq ToSet(stack)
    BY <1>1, <1>2, <1>3 DEF ToSet
  <1>6. StackSound' /\ stack' = Within(stack, Dialogs \ ds) /\ timers' = Within(timers, Dialogs \ ds)
    BY <1>1, <1>5, Closing
  <1>7. stack' = SubSeq(stack, 1, m - 1)
    <2>1. m - 1 \in 0..Len(stack) /\ (m - 1) + 1 = m
      BY <1>2
    <2> QED
      BY <1>2, <1>3, <1>4, <1>6, <2>1, WithinFirst
  <1>8. Len(stack') = m - 1 /\ \A i \in 1..(m - 1) : stack'[i] = stack[i]
    BY <1>2, <1>3, <1>7
  <1> SUFFICES ASSUME ~strayed' PROVE Handed'
    BY <1>6 DEF DialogsIInv
  <1>9. Handed
    BY DEF DialogsIInv
  <1>10. PICK k \in 0..n : k = Len(timers)
    BY <1>2, <1>3, <1>9 DEF Handed
  <1>11. \A i \in 1..k : timers[i] = stack[n - k + i]
    BY <1>2, <1>9, <1>10 DEF Handed
  <1>12. PICK p \in 0..k : p = IF m - 1 - n + k > 0 THEN m - 1 - n + k ELSE 0
    BY <1>2, <1>10
  <1>13. timers' = SubSeq(timers, 1, p)
    <2>1. \A i \in 1..p : timers[i] \in Dialogs \ ds
      <3> SUFFICES ASSUME NEW i \in 1..p PROVE timers[i] \in Dialogs \ ds
        OBVIOUS
      <3>1. n - k + i \in 1..(m - 1) /\ i \in 1..k
        <4>1. p = m - 1 - n + k /\ m \in Nat
          BY <1>2, <1>12
        <4> QED
          BY <1>2, <1>12, <4>1
      <3> QED
        BY <1>4, <1>11, <3>1
    <2>2. \A i \in (p + 1)..k : timers[i] \notin Dialogs \ ds
      <3> SUFFICES ASSUME NEW i \in (p + 1)..k PROVE timers[i] \notin Dialogs \ ds
        OBVIOUS
      <3>1. n - k + i \in m..n /\ i \in 1..k
        BY <1>2, <1>12
      <3> QED
        BY <1>4, <1>11, <3>1
    <2> QED
      BY <1>3, <1>6, <1>10, <2>1, <2>2, WithinFirst
  <1>14. Len(timers') = p /\ \A i \in 1..p : timers'[i] = timers[i]
    BY <1>3, <1>10, <1>13
  <1>15. \A i \in 1..p : timers'[i] = stack'[(m - 1) - p + i]
    <2> SUFFICES ASSUME NEW i \in 1..p PROVE timers'[i] = stack'[(m - 1) - p + i]
      OBVIOUS
    <2>1. n - k + i \in 1..(m - 1) /\ i \in 1..k /\ (m - 1) - p + i = n - k + i
      <3>1. p = m - 1 - n + k /\ m \in Nat /\ m <= n /\ k \in Nat /\ p \in Nat
        BY <1>2, <1>12
      <3>2. i \in Nat /\ 1 <= i /\ i <= p /\ p <= k /\ k <= n
        BY <1>10, <1>12, <3>1
      <3>3. (m - 1) - p + i = n - k + i
        BY <3>1, <3>2
      <3> QED
        BY <3>1, <3>2, <3>3
    <2> QED
      BY <1>8, <1>11, <1>14, <2>1
  <1>16. p <= m - 1
    BY <1>2, <1>12
  <1>17. PICK low : low = CHOOSE d \in ds : \A e \in ds : \E i, j \in DOMAIN stack : stack[i] = d /\ stack[j] = e /\ i <= j
    OBVIOUS
  <1>18. low = stack[m]
    <2>1. stack[m] \in ds
      BY <1>1, <1>2
    <2>2. \A e \in ds : \E i, j \in DOMAIN stack : stack[i] = stack[m] /\ stack[j] = e /\ i <= j
      BY <1>1, <1>2, <1>3
    <2>3. low \in ds /\ \A e \in ds : \E i, j \in DOMAIN stack : stack[i] = low /\ stack[j] = e /\ i <= j
      BY <1>17, <2>1, <2>2
    <2>4. PICK i \in m..n : low = stack[i]
      BY <1>1, <1>2, <2>3
    <2>5. PICK a, b \in DOMAIN stack : stack[a] = low /\ stack[b] = stack[m] /\ a <= b
      BY <2>1, <2>3
    <2>6. a = i /\ b = m
      BY <1>2, <1>3, <2>4, <2>5
    <2> QED
      BY <2>4, <2>5, <2>6
  <1>19. focus' = Focusable(Home(stack[m]), stack')
    <2>1. Cleanup(ds)
      BY <1>1
    <2>2. focus' = Focusable(Home(low), Within(stack, Dialogs \ ds))
      BY Zenon, <1>17, <2>1 DEF Cleanup, Home
    <2> QED
      BY <1>6, <1>18, <2>2
  <1>20. CASE m = 1
    <2>1. stack' = <<>> /\ stack # <<>>
      BY <1>2, <1>3, <1>8, <1>20, <1>6 DEF StackSound
    <2>2. origin = Home(stack[m]) /\ origin \in OnPage
      BY <1>9, <1>20, <2>1 DEF Handed
    <2>3. focus' = origin
      BY <1>19, <2>2 DEF Focusable, OnPage
    <2>4. (\A i \in 2..Len(stack') : FALSE) /\ p = 0
      BY <1>8, <1>16, <1>20
    <2> QED
      BY <1>8, <1>14, <1>15, <1>16, <2>1, <2>3, <2>4 DEF Handed
  <1>21. CASE m # 1
    <2>1. m \in 2..Len(stack) /\ m - 1 \in 1..(m - 1)
      BY <1>2, <1>21
    <2>2. Home(stack[m]) = stack[m - 1]
      BY <1>9, <2>1 DEF Handed, Home
    <2>3. stack' # <<>> /\ stack'[m - 1] = stack[m - 1] /\ DOMAIN stack' = 1..(m - 1) /\ Last(stack') = stack[m - 1]
      <3>1. PICK t \in Seq(Dialogs) : t = stack'
        BY <1>6 DEF StackSound
      <3>2. Len(t) = m - 1 /\ m - 1 \in Nat /\ m - 1 # 0
        BY <1>2, <1>8, <2>1, <3>1
      <3>3. t # <<>> /\ DOMAIN t = 1..(m - 1)
        BY <3>2
      <3> QED
        BY <1>8, <2>1, <3>1, <3>2, <3>3 DEF Last
    <2>4. stack[m - 1] \in ToSet(stack')
      BY <2>1, <2>3 DEF ToSet
    <2>5. focus' = stack[m - 1]
      BY <1>19, <2>2, <2>4 DEF Focusable
    <2>6. \A i \in 2..(m - 1) : ReturnTo[stack'[i]] = {} /\ restoreFocus[stack'[i]] = stack'[i - 1]
      <3> SUFFICES ASSUME NEW i \in 2..(m - 1) PROVE ReturnTo[stack'[i]] = {} /\ restoreFocus[stack'[i]] = stack'[i - 1]
        OBVIOUS
      <3>1. i \in 2..Len(stack) /\ i \in 1..(m - 1) /\ i - 1 \in 1..(m - 1)
        BY <1>2
      <3> QED
        BY <1>8, <1>9, <3>1 DEF Handed
    <2>7. origin = Home(stack'[1]) /\ origin \in OnPage
      <3>1. stack # <<>> /\ 1 \in 1..(m - 1)
        BY <1>2, <1>3, <2>1
      <3> QED
        BY <1>8, <1>9, <3>1 DEF Handed
    <2>8. (origin = Home(stack[1]) /\ origin \in OnPage)'
      BY <2>7 DEF Home, OnPage
    <2> QED
      BY <1>8, <1>14, <1>15, <1>16, <2>3, <2>5, <2>6, <2>8 DEF Handed
  <1> QED
    BY <1>20, <1>21

LEMMA Opening == ASSUME FocusReturns, DialogsIInv, NEW d \in Dialogs, OpenDialog(d) PROVE DialogsIInv'
  <1>1. PICK n \in Nat : n = Len(stack)
    BY DEF DialogsIInv, StackSound
  <1>2. PICK s \in Seq(Dialogs), q \in Seq(Dialogs) : s = stack /\ q = timers
    BY DEF DialogsIInv, StackSound
  <1>3. /\ Append(s, d) \in Seq(Dialogs) /\ Append(q, d) \in Seq(Dialogs)
        /\ ToSet(Append(s, d)) = ToSet(s) \cup {d} /\ ToSet(Append(q, d)) = ToSet(q) \cup {d}
    BY ValuesAppended
  <1>4. stack' = Append(s, d) /\ timers' = Append(q, d) /\ d \notin ToSet(s)
    BY <1>2 DEF OpenDialog
  <1>5. DOMAIN s = 1..n /\ Len(stack') = n + 1 /\ stack'[n + 1] = d /\ \A i \in 1..n : stack'[i] = s[i]
    BY <1>1, <1>2, <1>4
  <1>6. IsInjective(stack')
    <2>1. IsInjective(s) /\ \A i \in 1..n : s[i] # d
      BY <1>2, <1>4, <1>5 DEF DialogsIInv, StackSound, ToSet
    <2>2. DOMAIN stack' = 1..(n + 1)
      BY <1>3, <1>4, <1>5
    <2> QED
      BY <1>5, <2>1, <2>2 DEF IsInjective
  <1>7. lock' = LockIs(n + 1)
    <2>1. lock = LockIs(n) /\ lock' = registerDialog(lock)
      BY <1>1 DEF DialogsIInv, StackSound, OpenDialog
    <2>2. n + 1 # 0
      OBVIOUS
    <2>3. CASE n = 0
      <3>1. PICK l : l = [count |-> 0, prev |-> "", body |-> "page"]
        OBVIOUS
      <3>2. lock = l /\ l.count = 0 /\ l.body = "page"
        BY <2>1, <2>3, <3>1 DEF LockIs
      <3>3. lock' = [count |-> 1, prev |-> "page", body |-> "hidden"]
        BY <2>1, <3>2 DEF registerDialog
      <3>4. n + 1 = 1
        BY <2>3
      <3> QED
        BY <2>2, <3>3, <3>4 DEF LockIs
    <2>4. CASE n # 0
      <3>1. lock = [count |-> n, prev |-> "page", body |-> "hidden"]
        BY <2>1, <2>4 DEF LockIs
      <3>2. [lock EXCEPT !.count = lock.count + 1] = [count |-> n + 1, prev |-> "page", body |-> "hidden"]
        BY <3>1
      <3>3. lock.count # 0
        BY <2>4, <3>1
      <3> QED
        BY <2>1, <2>2, <3>2, <3>3 DEF registerDialog, LockIs
    <2> QED
      BY <2>3, <2>4
  <1>8. /\ restoreFocus' = [restoreFocus EXCEPT ![d] = focus] /\ restoreFocus' \in [Dialogs -> Dialogs \cup OnPage]
        /\ focus' = d /\ restoreFocus'[d] = focus /\ \A e \in Dialogs \ {d} : restoreFocus'[e] = restoreFocus[e]
    BY DEF DialogsIInv, StackSound, OpenDialog
  <1>9. stack' # <<>>
    BY <1>4, <1>2
  <1>10. StackSound'
    <2>1. stack' \in Seq(Dialogs) /\ timers' \in Seq(Dialogs) /\ ToSet(timers') \subseteq ToSet(stack')
      BY <1>2, <1>3, <1>4 DEF DialogsIInv, StackSound
    <2> QED
      BY <1>5, <1>6, <1>7, <1>8, <1>9, <2>1 DEF StackSound
  <1>11. Last(stack') = d
    BY <1>5 DEF Last
  <1> SUFFICES ASSUME ~strayed' PROVE Handed'
    BY <1>10 DEF DialogsIInv
  <1>12. CASE n = 0
    <2>1. stack = <<>> /\ ToSet(stack) = {} /\ focus \in OnPage
      <3>1. Len(s) = 0
        BY <1>1, <1>2, <1>12
      <3>2. s = <<>>
        BY <3>1
      <3>3. ToSet(s) = {}
        BY <3>2 DEF ToSet
      <3> QED
        BY <1>2, <3>2, <3>3 DEF DialogsIInv, StackSound
    <2>2. q = <<>>
      <3>1. ToSet(q) = {}
        BY <1>2, <2>1 DEF DialogsIInv, StackSound
      <3>2. ASSUME q # <<>> PROVE FALSE
        <4>1. 1 \in DOMAIN q
          BY <3>2
        <4>2. q[1] \in ToSet(q)
          BY <4>1 DEF ToSet
        <4> QED
          BY <3>1, <4>2
      <3> QED
        BY <3>2
    <2>3. Len(timers') = 1 /\ timers'[1] = d
      BY <1>4, <2>2
    <2>4. (origin = Home(stack[1]) /\ origin \in OnPage)'
      <3>1. origin' = IF ReturnTo[d] = {} THEN focus ELSE CHOOSE t \in ReturnTo[d] : TRUE
        BY <2>1 DEF OpenDialog
      <3>2. origin' \in OnPage
        BY <2>1, <3>1 DEF FocusReturns, OnPage
      <3>3. stack'[1] = d
        BY <1>5, <1>12
      <3> QED
        BY <1>8, <3>1, <3>2, <3>3 DEF Home, OnPage
    <2>5. Len(stack') = 1
      BY <1>5, <1>12
    <2>6. (\A i \in 2..1 : FALSE) /\ \A i \in 1..1 : i = 1
      OBVIOUS
    <2>7. \A i \in 1..Len(timers') : timers'[i] = stack'[Len(stack') - Len(timers') + i]
      BY <1>5, <1>12, <2>3, <2>5
    <2>8. timers' # <<>> /\ Len(timers') <= Len(stack')
      <3>1. PICK t \in Seq(Dialogs) : t = timers'
        BY <1>3, <1>4
      <3>2. Len(t) = 1
        BY Zenon, <2>3, <3>1
      <3>3. t # <<>>
        BY <3>2
      <3> QED
        BY <2>3, <2>5, <3>1, <3>3
    <2> QED
      BY <1>9, <2>4, <2>5, <2>6, <2>7, <2>8 DEF Handed
  <1>13. CASE n # 0
    <2>1. stack # <<>> /\ ~strayed /\ focus = stack[n] /\ ReturnTo[d] = {} /\ origin' = origin
      <3>1. stack # <<>>
        BY <1>1, <1>13
      <3> QED
        BY <1>1, <3>1 DEF OpenDialog, isTopDialog, Last
    <2>2. Handed
      BY <2>1 DEF DialogsIInv
    <2>3. PICK k \in 0..n : k = Len(q)
      BY <1>1, <1>2, <2>2 DEF Handed
    <2>4. Len(timers') = k + 1 /\ timers'[k + 1] = d /\ \A i \in 1..k : timers'[i] = q[i]
      BY <1>4, <2>3
    <2>5. \A i \in 1..k : q[i] = s[n - k + i]
      BY <1>1, <1>2, <2>2, <2>3 DEF Handed
    <2>6. ASSUME NEW i \in 1..(k + 1) PROVE timers'[i] = stack'[(n + 1) - (k + 1) + i]
      <3>1. k \in Nat /\ (n + 1) - (k + 1) + i = n - k + i
        OBVIOUS
      <3>2. CASE i = k + 1
        BY <1>5, <2>4, <3>1, <3>2
      <3>3. CASE i # k + 1
        <4>1. i \in 1..k /\ n - k + i \in 1..n
          BY <3>3
        <4> QED
          BY <1>5, <2>4, <2>5, <3>1, <4>1
      <3> QED
        BY <3>2, <3>3
    <2>7. ASSUME NEW i \in 2..(n + 1) PROVE ReturnTo[stack'[i]] = {} /\ restoreFocus'[stack'[i]] = stack'[i - 1]
      <3>1. CASE i = n + 1
        <4>1. i - 1 = n /\ n \in 1..n
          BY <1>13, <3>1
        <4> QED
          BY <1>2, <1>5, <1>8, <2>1, <3>1, <4>1
      <3>2. CASE i # n + 1
        <4>1. i \in 2..n /\ i \in 1..n /\ i - 1 \in 1..n
          BY <3>2
        <4>2. ReturnTo[s[i]] = {} /\ restoreFocus[s[i]] = s[i - 1]
          BY <1>1, <1>2, <2>2, <4>1 DEF Handed
        <4>3. s[i] \in Dialogs \ {d}
          BY <1>4, <1>5, <4>1 DEF ToSet
        <4> QED
          BY <1>5, <1>8, <4>1, <4>2, <4>3
      <3> QED
        BY <3>1, <3>2
    <2>8. (origin = Home(stack[1]) /\ origin \in OnPage)'
      <3>1. origin = Home(stack[1]) /\ origin \in OnPage
        BY <2>1, <2>2 DEF Handed
      <3>2. 1 \in 1..n /\ stack'[1] = s[1]
        BY <1>5, <1>13
      <3>3. s[1] \in Dialogs \ {d}
        BY <1>4, <1>5, <3>2 DEF ToSet
      <3> QED
        BY <1>2, <1>8, <2>1, <3>1, <3>2, <3>3 DEF Home, OnPage
    <2>9. timers' # <<>> /\ Len(timers') <= Len(stack')
      <3>1. PICK t \in Seq(Dialogs) : t = timers'
        BY <1>3, <1>4
      <3>2. Len(t) = k + 1 /\ k + 1 # 0
        BY <2>4, <3>1
      <3>3. t # <<>>
        BY <3>2
      <3> QED
        BY <1>5, <2>4, <3>1, <3>3
    <2> QED
      BY <1>5, <1>9, <2>4, <2>6, <2>7, <2>8, <2>9 DEF Handed
  <1> QED
    BY <1>12, <1>13

LEMMA TimerFires == ASSUME DialogsIInv, FocusTimer PROVE DialogsIInv'
  <1>1. PICK q \in Seq(Dialogs) : q = timers /\ q # <<>>
    BY DEF DialogsIInv, StackSound, FocusTimer
  <1>2. /\ Head(q) = q[1] /\ q[1] \in ToSet(q) /\ Tail(q) \in Seq(Dialogs) /\ Len(Tail(q)) = Len(q) - 1
        /\ \A i \in 1..(Len(q) - 1) : Tail(q)[i] = q[i + 1]
    BY <1>1 DEF ToSet
  <1>3. ToSet(Tail(q)) \subseteq ToSet(q)
    BY <1>1, <1>2 DEF ToSet
  <1>4. focus' = q[1] /\ timers' = Tail(q) /\ UNCHANGED <<stack, restoreFocus, lock, origin, strayed>>
    BY <1>1, <1>2 DEF FocusTimer
  <1>5. ToSet(q) \subseteq ToSet(stack) /\ (stack = <<>> => ToSet(stack) = {}) /\ ToSet(q) \subseteq Dialogs
    BY <1>1 DEF DialogsIInv, StackSound, ToSet
  <1>6. StackSound'
    BY <1>2, <1>3, <1>4, <1>5 DEF DialogsIInv, StackSound
  <1> SUFFICES ASSUME ~strayed PROVE Handed'
    BY <1>4, <1>6 DEF DialogsIInv
  <1>7. Handed
    BY DEF DialogsIInv
  <1>8. PICK n \in Nat, k \in Nat : n = Len(stack) /\ k = Len(q) /\ k # 0 /\ k <= n
    BY <1>1, <1>7 DEF DialogsIInv, StackSound, Handed
  <1>9. Len(timers') = k - 1 /\ \A i \in 1..(k - 1) : timers'[i] = q[i + 1]
    BY <1>2, <1>4, <1>8
  <1>10. \A i \in 1..k : q[i] = stack[n - k + i]
    BY <1>1, <1>7, <1>8 DEF Handed
  <1>11. ASSUME NEW i \in 1..(k - 1) PROVE timers'[i] = stack[n - (k - 1) + i]
    <2>1. i + 1 \in 1..k /\ n - k + (i + 1) = n - (k - 1) + i
      OBVIOUS
    <2> QED
      BY <1>9, <1>10, <2>1
  <1>12. ASSUME timers' = <<>> PROVE stack # <<>> /\ focus' = Last(stack)
    <2>1. k = 1
      <3>1. Len(timers') = 0
        BY <1>12
      <3>2. k - 1 = 0
        BY <1>9, <3>1
      <3> QED
        BY <3>2
    <2>2. 1 \in 1..k /\ n - k + 1 = n
      BY <2>1
    <2> QED
      BY <1>4, <1>5, <1>2, <1>8, <1>10, <2>2 DEF Last
  <1>13. (stack # <<>> => origin = Home(stack[1]) /\ origin \in OnPage)'
    BY <1>4, <1>7 DEF Handed, Home, OnPage
  <1>14. \A i \in 2..Len(stack') : ReturnTo[stack'[i]] = {} /\ restoreFocus'[stack'[i]] = stack'[i - 1]
    BY <1>4, <1>7 DEF Handed
  <1>15. Len(timers') <= Len(stack')
    BY <1>4, <1>8, <1>9
  <1>16. \A i \in 1..Len(timers') : timers'[i] = stack'[Len(stack') - Len(timers') + i]
    BY <1>4, <1>8, <1>9, <1>11
  <1> QED
    BY <1>4, <1>12, <1>13, <1>14, <1>15, <1>16 DEF Handed

LEMMA TopCloses ==
  ASSUME FocusReturns, DialogsIInv, NEW d \in Dialogs, isTopDialog(d), Cleanup({d}),
         UNCHANGED <<restoreFocus, origin>>, strayed => strayed'
  PROVE  DialogsIInv'
  <1>1. PICK n \in Nat : n = Len(stack) /\ stack # <<>> /\ n # 0 /\ stack[n] = d
    BY DEF DialogsIInv, StackSound, isTopDialog, Last
  <1>2. n \in 1..Len(stack) /\ \A i \in n..n : i = n
    BY <1>1
  <1>3. {stack[i] : i \in n..Len(stack)} = {d}
    BY <1>1, <1>2
  <1> QED
    BY <1>2, <1>3, ClosingTop

LEMMA EscapePressed == ASSUME FocusReturns, DialogsIInv, Escape PROVE DialogsIInv'
  <1>1. PICK k \in 1..Len(stack) : /\ Cleanup({stack[i] : i \in (Len(stack) - k + 1)..Len(stack)})
                                   /\ UNCHANGED <<restoreFocus, origin, strayed>>
    BY Zenon DEF Escape
  <1>2. Len(stack) \in Nat
    BY DEF DialogsIInv, StackSound
  <1>3. PICK m \in 1..Len(stack) : m = Len(stack) - k + 1
    BY <1>2
  <1> QED
    BY <1>1, <1>3, ClosingTop

LEMMA PageClosed == ASSUME FocusReturns, DialogsIInv, NEW d \in Dialogs, PageCloses(d) PROVE DialogsIInv'
  <1>1. /\ Cleanup({d}) /\ UNCHANGED <<restoreFocus, origin>> /\ {d} \subseteq ToSet(stack)
        /\ strayed' = (strayed \/ ~isTopDialog(d))
    BY Zenon DEF PageCloses
  <1>2. CASE isTopDialog(d)
    <2>1. strayed => strayed'
      BY <1>1
    <2> QED
      BY <1>1, <1>2, <2>1, TopCloses
  <1>3. CASE ~isTopDialog(d)
    <2>1. strayed'
      BY <1>1, <1>3
    <2> QED
      BY <1>1, <2>1, Closing DEF DialogsIInv
  <1> QED
    BY <1>2, <1>3

LEMMA DialogsSteps == ASSUME FocusReturns, DialogsIInv, [DialogNext]_dialogVars PROVE DialogsIInv'
  <1> DEFINE Same == UNCHANGED <<stack, restoreFocus, timers, lock, origin>>
  <1>1. ASSUME NEW d \in Dialogs, OpenDialog(d) PROVE DialogsIInv'
    BY <1>1, Opening
  <1>2. ASSUME NEW d \in Dialogs, requestClose(d) PROVE DialogsIInv'
    <2>1. isTopDialog(d) /\ Cleanup({d}) /\ UNCHANGED <<restoreFocus, origin, strayed>>
      BY Zenon, <1>2 DEF requestClose
    <2> QED
      BY <2>1, TopCloses
  <1>3. ASSUME NEW d \in Dialogs, PageCloses(d) PROVE DialogsIInv'
    BY <1>3, PageClosed
  <1>4. ASSUME NEW d \in Dialogs, DialogCloseButton(d) PROVE DialogsIInv'
    BY Zenon, <1>2, <1>4 DEF DialogCloseButton
  <1>5. ASSUME Same, strayed', focus' \in OnPage PROVE DialogsIInv'
    BY <1>5 DEF DialogsIInv, StackSound, OnPage
  <1>6. ASSUME NEW d \in Dialogs, DialogLayer(d) PROVE DialogsIInv'
    <2>1. requestClose(d) \/ (Same /\ focus' = "body" /\ strayed' = TRUE)
      BY Zenon, <1>6 DEF DialogLayer
    <2> QED
      BY Zenon, <1>2, <1>5, <2>1 DEF OnPage
  <1>7. ASSUME Same, UNCHANGED <<focus, strayed>> PROVE DialogsIInv'
    BY <1>7 DEF DialogsIInv, StackSound, Handed, Home, OnPage
  <1>8. ASSUME NEW d \in Dialogs, SetBusy(d) PROVE DialogsIInv'
    BY <1>7, <1>8 DEF SetBusy
  <1>9. CASE Escape
    BY <1>9, EscapePressed
  <1>10. CASE FocusTimer
    BY <1>10, TimerFires
  <1>11. ASSUME NEW t \in Triggers, moveTrappedFocus(t) PROVE DialogsIInv'
    <2>1. /\ Same /\ UNCHANGED strayed /\ focus' = t /\ stack # <<>> /\ focus # Last(stack)
      BY <1>11 DEF moveTrappedFocus, isTopDialog
    <2>2. StackSound'
      BY <2>1 DEF DialogsIInv, StackSound, OnPage
    <2>3. ASSUME Handed PROVE Handed'
      <3>1. timers # <<>>
        BY <2>1, <2>3 DEF Handed
      <3> QED
        BY <2>1, <2>3, <3>1 DEF Handed, Home, OnPage
    <2> QED
      BY <2>1, <2>2, <2>3 DEF DialogsIInv
  <1>12. ASSUME NEW t \in Triggers, FocusPage(t) PROVE DialogsIInv'
    BY <1>5, <1>12 DEF FocusPage, OnPage
  <1>13. CASE UNCHANGED dialogVars
    BY <1>7, <1>13 DEF dialogVars
  <1> QED
    BY Zenon, <1>1, <1>3, <1>4, <1>6, <1>8, <1>9, <1>10, <1>11, <1>12, <1>13 DEF DialogNext

LEMMA DialogsHandBack == ASSUME DialogsIInv PROVE PageLockedWhileOpen /\ FocusHandedBack
  <1>1. PageLockedWhileOpen
    <2>1. PICK n \in Nat : n = Len(stack) /\ lock = LockIs(n) /\ (n = 0 <=> stack = <<>>)
      BY DEF DialogsIInv, StackSound
    <2> QED
      BY <2>1 DEF LockIs, PageLockedWhileOpen
  <1> QED
    BY <1>1 DEF DialogsIInv, Handed, FocusHandedBack

\* In whatever order dialogs open and close, the page behind them is locked while one
\* is open and is given back as it was, and the focus returns to the dialog below and
\* in the end to where it was (components/ui/dialog.tsx, dialog-stack.ts).
THEOREM DialogsGiveBack == ASSUME FocusReturns PROVE DialogSpec => [](PageLockedWhileOpen /\ FocusHandedBack)
  <1>1. DialogInit => DialogsIInv
    BY DialogsBegin
  <1>2. DialogsIInv /\ [DialogNext]_dialogVars => DialogsIInv'
    BY DialogsSteps
  <1>3. DialogsIInv => PageLockedWhileOpen /\ FocusHandedBack
    BY DialogsHandBack
  <1> QED
    BY <1>1, <1>2, <1>3, PTL DEF DialogSpec

\* Toasts. Their identifiers need not differ: a clock belongs to all of one's.
ToastRow == [id : ToastIDs, msg : Messages, fresh : BOOLEAN]
IdsOf(s) == {s[i].id : i \in DOMAIN s}
ClocksMatch ==
  \A id \in ToastIDs : /\ clocks[id] = "none" <=> id \notin IdsOf(toasts)
                       /\ clocks[id] = "paused" => id \in hovered \cup focused
ToastsIInv ==
  /\ toasts \in Seq(ToastRow) /\ Len(toasts) <= MaxToasts
  /\ clocks \in [ToastIDs -> {"runs", "paused", "none"}] /\ ClocksMatch
SomeToasts == MaxToasts \in Nat \ {0}

LEMMA ShownIds == ASSUME NEW s, NEW id PROVE ToastOf(s, id) = {} <=> id \notin IdsOf(s)
  BY DEF ToastOf, IdsOf

\* There is an identifier for one more.
LEMMA UnseenIsNew == ASSUME SomeToasts, ToastsIInv PROVE Unseen \in ToastIDs \ IdsOf(toasts)
  <1>1. PICK n \in Nat, max \in Nat : n = Len(toasts) /\ max = MaxToasts /\ n <= max /\ DOMAIN toasts = 1..n
    BY DEF SomeToasts, ToastsIInv
  <1>2. IsFiniteSet(1..n) /\ Cardinality(1..n) = n /\ IsFiniteSet(1..(max + 1)) /\ Cardinality(1..(max + 1)) = max + 1
    <2>1. max + 1 \in Nat /\ 1 \in Int /\ n - 1 + 1 = n /\ (max + 1) - 1 + 1 = max + 1
      OBVIOUS
    <2>2. CASE n = 0
      <3>1. 1..n = {}
        BY <2>2
      <3> QED
        BY <2>1, <2>2, <3>1, FS_EmptySet, FS_Interval
    <2>3. CASE n # 0
      BY <2>1, <2>3, FS_Interval
    <2> QED
      BY <2>2, <2>3
  <1>3. IsFiniteSet(IdsOf(toasts)) /\ Cardinality(IdsOf(toasts)) <= n
    <2>1. PICK f : f = [i \in 1..n |-> toasts[i].id]
      OBVIOUS
    <2>2. f \in Surjection(1..n, IdsOf(toasts))
      BY <1>1, <2>1 DEF Surjection, IdsOf
    <2> QED
      BY <1>2, <2>2, FS_Surjection
  <1>4. ~(ToastIDs \subseteq IdsOf(toasts))
    <2> SUFFICES ASSUME ToastIDs \subseteq IdsOf(toasts) PROVE FALSE
      OBVIOUS
    <2>1. Cardinality(ToastIDs) <= Cardinality(IdsOf(toasts)) /\ Cardinality(IdsOf(toasts)) \in Nat
      BY <1>3, FS_Subset, FS_CardinalityType
    <2>2. Cardinality(ToastIDs) = max + 1
      BY <1>1, <1>2 DEF ToastIDs
    <2>3. PICK c \in Nat : c = Cardinality(IdsOf(toasts))
      BY <2>1
    <2>4. max + 1 <= c /\ c <= n /\ n <= max
      BY <1>1, <1>3, <2>1, <2>2, <2>3
    <2> QED
      BY <2>4
  <1>5. \E id \in ToastIDs : ToastOf(toasts, id) = {}
    BY Zenon, <1>4, ShownIds
  <1> QED
    BY Zenon, <1>5, ShownIds DEF Unseen

\* A notice that is new, one shown again, and one that goes.
LEMMA Toasted == ASSUME SomeToasts, ToastsIInv, toast PROVE ToastsIInv'
  <1> DEFINE kept == IF Len(toasts) < MaxToasts THEN toasts ELSE Tail(toasts)
             dropped == {toasts[i].id : i \in DOMAIN toasts} \ {kept[i].id : i \in DOMAIN kept}
             Same(m) == {i \in DOMAIN toasts : toasts[i].msg = m /\ toasts[i].fresh}
  <1>1. PICK m \in Messages :
          IF Same(m) # {}
          THEN /\ clocks' = schedule(toasts[CHOOSE i \in Same(m) : \A j \in Same(m) : i <= j].id)
               /\ UNCHANGED <<toasts, hovered, focused>>
          ELSE /\ toasts' = Append(kept, [id |-> Unseen, msg |-> m, fresh |-> TRUE])
               /\ clocks' = [id \in ToastIDs |-> IF id = Unseen THEN "runs"
                                                 ELSE IF id \in dropped THEN "none" ELSE clocks[id]]
               /\ hovered' = hovered \ dropped /\ focused' = focused \ dropped
    BY Zenon DEF toast
  <1>2. CASE Same(m) # {}
    <2>1. PICK i \in DOMAIN toasts : clocks' = [clocks EXCEPT ![toasts[i].id] = "runs"]
      <3>1. Same(m) \subseteq Nat
        BY DEF ToastsIInv
      <3>2. \E i \in Same(m) : \A j \in Same(m) : i <= j
        <4> HIDE DEF Same
        <4> QED
          BY Zenon, <1>2, <3>1, Least
      <3>3. PICK i : i = CHOOSE l \in Same(m) : \A j \in Same(m) : l <= j
        OBVIOUS
      <3>4. i \in Same(m)
        <4> HIDE DEF Same
        <4> QED
          BY Zenon, <3>2, <3>3
      <3> QED
        BY Zenon, <1>1, <1>2, <3>3, <3>4 DEF schedule
    <2>2. PICK x \in ToastIDs : x = toasts[i].id
      <3>1. toasts[i] \in ToastRow
        BY DEF ToastsIInv
      <3> QED
        BY <3>1 DEF ToastRow
    <2>3. x \in IdsOf(toasts) /\ IdsOf(toasts') = IdsOf(toasts)
      BY <1>1, <1>2, <2>2 DEF IdsOf
    <2>4. clocks' = [clocks EXCEPT ![x] = "runs"] /\ UNCHANGED <<toasts, hovered, focused>>
      BY Zenon, <1>1, <1>2, <2>1, <2>2
    <2> QED
      BY <2>3, <2>4 DEF ToastsIInv, ClocksMatch
  <1>3. CASE Same(m) = {}
    <2>1. PICK u \in ToastIDs, e \in ToastRow : u = Unseen /\ u \notin IdsOf(toasts) /\ e = [id |-> u, msg |-> m, fresh |-> TRUE]
      BY UnseenIsNew DEF ToastRow
    <2>2. PICK q \in Seq(ToastRow) : q = kept /\ Len(q) < MaxToasts /\ IdsOf(q) \subseteq IdsOf(toasts)
      <3>1. PICK t \in Seq(ToastRow) : t = toasts /\ Len(t) <= MaxToasts
        BY DEF ToastsIInv
      <3>2. CASE Len(t) < MaxToasts
        BY <3>1, <3>2
      <3>3. CASE ~(Len(t) < MaxToasts)
        <4>1. Len(t) = MaxToasts /\ Len(t) # 0 /\ t # <<>>
          BY <3>1, <3>3 DEF SomeToasts
        <4>2. /\ Tail(t) \in Seq(ToastRow) /\ Len(Tail(t)) = Len(t) - 1
              /\ \A i \in 1..(Len(t) - 1) : Tail(t)[i] = t[i + 1] /\ i + 1 \in 1..Len(t)
          BY <4>1
        <4>3. IdsOf(Tail(t)) \subseteq IdsOf(t)
          BY <4>2 DEF IdsOf
        <4>4. kept = Tail(t) /\ Len(Tail(t)) < MaxToasts
          BY <3>1, <3>3, <4>1, <4>2 DEF SomeToasts
        <4> QED
          BY <3>1, <4>2, <4>3, <4>4
      <3> QED
        BY <3>2, <3>3
    <2>3. dropped = IdsOf(toasts) \ IdsOf(q)
      BY <2>2 DEF IdsOf
    <2>4. toasts' = Append(q, e) /\ Append(q, e) \in Seq(ToastRow) /\ Len(toasts') <= MaxToasts
      <3>1. toasts' = Append(q, e)
        BY Zenon, <1>1, <1>3, <2>1, <2>2
      <3> QED
        BY <2>2, <3>1 DEF SomeToasts
    <2>5. IdsOf(toasts') = IdsOf(q) \cup {u}
      <3>1. Len(Append(q, e)) = Len(q) + 1 /\ Append(q, e)[Len(q) + 1] = e /\ \A i \in 1..Len(q) : Append(q, e)[i] = q[i]
        OBVIOUS
      <3>2. DOMAIN Append(q, e) = 1..(Len(q) + 1) /\ DOMAIN q = 1..Len(q) /\ Len(q) \in Nat
        OBVIOUS
      <3>3. e.id = u
        BY <2>1
      <3> QED
        BY <2>4, <3>1, <3>2, <3>3 DEF IdsOf
    <2> HIDE DEF kept, dropped, Same
    <2>6. /\ clocks' = [id \in ToastIDs |-> IF id = u THEN "runs" ELSE IF id \in dropped THEN "none" ELSE clocks[id]]
          /\ hovered' = hovered \ dropped /\ focused' = focused \ dropped
      BY Zenon, <1>1, <1>3, <2>1
    <2>7. clocks' \in [ToastIDs -> {"runs", "paused", "none"}]
      BY <2>6 DEF ToastsIInv
    <2>8. ASSUME NEW id \in ToastIDs
          PROVE  (clocks'[id] = "none" <=> id \notin IdsOf(toasts')) /\ (clocks'[id] = "paused" => id \in hovered' \cup focused')
      <3>1. clocks[id] = "none" <=> id \notin IdsOf(toasts)
        BY DEF ToastsIInv, ClocksMatch
      <3>2. clocks[id] = "paused" => id \in hovered \cup focused
        BY DEF ToastsIInv, ClocksMatch
      <3>3. clocks'[id] = IF id = u THEN "runs" ELSE IF id \in dropped THEN "none" ELSE clocks[id]
        BY <2>6
      <3> QED
        BY <2>1, <2>2, <2>3, <2>5, <2>6, <3>1, <3>2, <3>3
    <2> QED
      BY <2>4, <2>7, <2>8 DEF ToastsIInv, ClocksMatch
  <1> QED
    BY <1>2, <1>3

LEMMA ToastGone == ASSUME SomeToasts, ToastsIInv, NEW id \in ToastIDs, removeToast(id) PROVE ToastsIInv'
  <1>1. PICK t \in Seq(ToastRow) : t = toasts /\ Len(t) <= MaxToasts /\ DOMAIN t = 1..Len(t)
    BY DEF ToastsIInv
  <1>2. PICK rest : rest = {x \in ToSet(t) : x.id # id}
    OBVIOUS
  <1>3. toasts' = Within(t, rest)
    BY Zenon, <1>1, <1>2 DEF removeToast
  <1>4. toasts' \in Seq(ToastRow) /\ Len(toasts') <= Len(t) /\ ToSet(toasts') = ToSet(t) \cap rest
    BY <1>3, WithinKeeps
  <1>5. IdsOf(toasts) = {x.id : x \in ToSet(t)} /\ IdsOf(toasts') = {x.id : x \in ToSet(toasts')}
    BY <1>1 DEF IdsOf, ToSet
  <1>6. IdsOf(toasts') = IdsOf(toasts) \ {id}
    BY <1>2, <1>4, <1>5
  <1>7. Len(toasts') <= MaxToasts
    <2>1. PICK a \in Nat, b \in Nat, max \in Nat : a = Len(toasts') /\ b = Len(t) /\ max = MaxToasts
      BY <1>4 DEF SomeToasts
    <2> QED
      BY <1>1, <1>4, <2>1
  <1>8. clocks' = [clocks EXCEPT ![id] = "none"] /\ hovered' = hovered \ {id} /\ focused' = focused \ {id}
    BY Zenon DEF removeToast
  <1> QED
    BY <1>4, <1>6, <1>7, <1>8 DEF ToastsIInv, ClocksMatch

LEMMA ToastsSteps == ASSUME SomeToasts, ToastsIInv, [ToastNext]_toastVars PROVE ToastsIInv'
  <1>1. CASE toast
    BY <1>1, Toasted
  <1>2. ASSUME NEW id \in ToastIDs, ToastTimer(id) \/ DismissToast(id) PROVE ToastsIInv'
    BY <1>2, ToastGone DEF ToastTimer, DismissToast
  <1>3. ASSUME NEW id \in ToastIDs, WindowPasses(id) PROVE ToastsIInv'
    <2>1. PICK i \in DOMAIN toasts : toasts' = [toasts EXCEPT ![i].fresh = FALSE] /\ UNCHANGED <<clocks, hovered, focused>>
      BY <1>3 DEF WindowPasses, ToastOf
    <2>2. PICK e \in ToastRow : e = toasts[i]
      BY DEF ToastsIInv
    <2>3. PICK f \in ToastRow : f = [e EXCEPT !.fresh = FALSE] /\ f.id = e.id
      <3>1. PICK f : f = [e EXCEPT !.fresh = FALSE]
        OBVIOUS
      <3>2. f \in ToastRow
        BY <3>1 DEF ToastRow
      <3>3. f.id = e.id
        BY <2>2, <3>1 DEF ToastRow
      <3> QED
        BY <3>1, <3>2, <3>3
    <2>4. toasts' = [toasts EXCEPT ![i] = f]
      BY <2>1, <2>2, <2>3
    <2>5. toasts' \in Seq(ToastRow) /\ Len(toasts') = Len(toasts) /\ DOMAIN toasts' = DOMAIN toasts
      BY <2>4 DEF ToastsIInv
    <2>6. \A j \in DOMAIN toasts : toasts'[j].id = toasts[j].id
      BY <2>2, <2>3, <2>4 DEF ToastsIInv
    <2>7. IdsOf(toasts') = IdsOf(toasts)
      BY <2>5, <2>6 DEF IdsOf
    <2> QED
      BY <2>1, <2>5, <2>7 DEF ToastsIInv, ClocksMatch
  <1>4. ASSUME NEW id \in ToastIDs, MouseEnter(id) \/ FocusToast(id) PROVE ToastsIInv'
    <2>1. /\ clocks' = [clocks EXCEPT ![id] = IF clocks[id] = "none" THEN clocks[id] ELSE "paused"]
          /\ toasts' = toasts /\ id \in hovered' \cup focused' /\ hovered \cup focused \subseteq hovered' \cup focused'
      BY <1>4 DEF MouseEnter, FocusToast, pause
    <2> QED
      BY <2>1 DEF ToastsIInv, ClocksMatch
  <1>5. ASSUME NEW id \in ToastIDs, MouseLeave(id) \/ BlurToast(id) PROVE ToastsIInv'
    <2>1. /\ clocks' = [clocks EXCEPT ![id] = IF clocks[id] = "none" THEN clocks[id] ELSE "runs"]
          /\ toasts' = toasts /\ (hovered \cup focused) \ {id} \subseteq hovered' \cup focused'
      BY <1>5 DEF MouseLeave, BlurToast, resume
    <2> QED
      BY <2>1 DEF ToastsIInv, ClocksMatch
  <1>6. CASE UNCHANGED toastVars
    BY <1>6 DEF toastVars, ToastsIInv, ClocksMatch
  <1> QED
    BY Zenon, <1>1, <1>2, <1>3, <1>4, <1>5, <1>6 DEF ToastNext

LEMMA ToastsBegin == ASSUME SomeToasts, ToastInit PROVE ToastsIInv
  <1>1. toasts = <<>> /\ <<>> \in Seq(ToastRow) /\ Len(<<>>) = 0 /\ IdsOf(<<>>) = {}
    BY DEF ToastInit, IdsOf
  <1> QED
    BY <1>1 DEF ToastInit, ToastsIInv, ClocksMatch, SomeToasts

LEMMA ToastsLeave == ASSUME ToastsIInv PROVE ToastsGoAway
  BY Zenon, ShownIds DEF ToastsIInv, ClocksMatch, ToastsGoAway

\* Whatever the pointer, the focus and the timers do, a notice on the screen has a timer
\* unless the reader holds it, and no timer is left of one that is gone (toast.tsx).
THEOREM NoticesGoAway == ASSUME SomeToasts PROVE ToastSpec => []ToastsGoAway
  <1>1. ToastInit => ToastsIInv
    BY ToastsBegin
  <1>2. ToastsIInv /\ [ToastNext]_toastVars => ToastsIInv'
    BY ToastsSteps
  <1>3. ToastsIInv => ToastsGoAway
    BY ToastsLeave
  <1> QED
    BY <1>1, <1>2, <1>3, PTL DEF ToastSpec

\* Menus.
MenusIInv == shown = openMenu /\ (shown = {} \/ \E m : shown = {m})

LEMMA MenusBegin == ASSUME MenuInit PROVE MenusIInv
  BY Zenon DEF MenuInit, MenusIInv

LEMMA MenusSteps == ASSUME MenusIInv, [MenuNext]_menuVars PROVE MenusIInv'
  <1>1. ASSUME NEW m, NEW i, showMenu(m, i) PROVE MenusIInv'
    BY Zenon, <1>1 DEF MenusIInv, showMenu
  <1>2. ASSUME NEW m, closeMenu(m) PROVE MenusIInv'
    BY <1>2 DEF MenusIInv, closeMenu
  <1>3. ASSUME UNCHANGED <<shown, openMenu>> PROVE MenusIInv'
    BY <1>3 DEF MenusIInv
  <1>4. ASSUME NEW m \in Menus, TriggerMenu(m) \/ ArrowOnTrigger(m) PROVE MenusIInv'
    BY Zenon, <1>1, <1>2, <1>4 DEF TriggerMenu, ArrowOnTrigger
  <1>5. ASSUME NEW m \in Menus, MoveInMenu(m) \/ showSubmenu(m) PROVE MenusIInv'
    BY Zenon, <1>3, <1>5 DEF MoveInMenu, showSubmenu
  <1>6. ASSUME NEW m \in Menus, selectEntry(m) \/ LeaveMenu(m) PROVE MenusIInv'
    BY Zenon, <1>2, <1>6 DEF selectEntry, LeaveMenu
  <1>7. CASE LeaveSubmenu \/ UNCHANGED menuVars
    BY Zenon, <1>3, <1>7 DEF LeaveSubmenu, menuVars
  <1> QED
    BY Zenon, <1>4, <1>5, <1>6, <1>7 DEF MenuNext

LEMMA MenusAlone == ASSUME MenusIInv PROVE OneMenu
  <1>1. Cardinality({}) = 0 /\ \A m : Cardinality({m}) = 1
    BY FS_EmptySet, FS_Singleton
  <1> QED
    BY <1>1 DEF MenusIInv, OneMenu

\* One menu is open at a time, and it is the one that the module closes (menu.tsx).
THEOREM MenusTakeTurns == MenuSpec => []OneMenu
  <1>1. MenuInit => MenusIInv
    BY MenusBegin
  <1>2. MenusIInv /\ [MenuNext]_menuVars => MenusIInv'
    BY MenusSteps
  <1>3. MenusIInv => OneMenu
    BY MenusAlone
  <1> QED
    BY <1>1, <1>2, <1>3, PTL DEF MenuSpec

-----------------------------------------------------------------------------
(* Scroll synchronisation and the outline.                                  *)

ScrollSpec == ScrollInit /\ [][ScrollNext]_scrollVars

Pending  == ToSet(queue) \cup ToSet(running)
OtherPane(p) == IF p = "editor" THEN "preview" ELSE "editor"
\* A frame has one piece of work, and measures before it starts to release.
Apart    == {<<"work", "work">>, <<"release1", "measure">>}
InOrder(s) == \A i, j \in DOMAIN s : i < j => <<s[i], s[j]>> \notin Apart
ScrollTypes ==
  /\ queue \in Seq(Callbacks) /\ running \in Seq(Callbacks) /\ (phase # "callbacks" => running = <<>>)
  /\ events \in [Panes -> {"no", "user", "sync"}] /\ scrollingSource \in Panes \cup {"none"}
  /\ work.pane \in Panes
ReleasePending ==
  scrollingSource # "none" \/ suppress => Pending \cap {"release1", "release2", "settle", "finish"} # {}
\* Unless the outline is followed: a scroll that the synchronisation caused is heard of
\* while the pane it came from is the source.
Following ==
  /\ ~suppress /\ Pending \cap {"settle", "finish"} = {}
  /\ InOrder(queue) /\ InOrder(running)
  /\ "work" \in ToSet(running) => "work" \notin ToSet(queue)
  /\ "measure" \in ToSet(queue) => "release1" \notin ToSet(running)
  /\ "work" \in Pending => scrollingSource \in {"none", work.pane} /\ work.origin # "sync"
  /\ "measure" \in Pending => scrollingSource = "preview" /\ "release2" \notin Pending
  /\ \A p \in Panes : events[p] = "sync" => scrollingSource = OtherPane(p) /\ "release2" \notin ToSet(running)
ScrollIInv == ScrollTypes /\ ReleasePending /\ (~clicked => Following)

LEMMA NoCallbacks ==
  <<>> \in Seq(Callbacks) /\ ToSet(<<>>) = {} /\ InOrder(<<>>) /\ \A cs : Without(<<>>, cs) = <<>>
  <1>1. <<>> \in Seq(Callbacks) /\ ToSet(<<>>) = {} /\ InOrder(<<>>)
    BY DEF ToSet, InOrder
  <1>2. \A cs : Within(<<>>, Callbacks \ cs) = <<>>
    <2> TAKE cs
    <2>1. ToSet(<<>>) \subseteq Callbacks \ cs
      BY <1>1
    <2> QED
      BY <1>1, <2>1, WithinKeeps
  <1> QED
    BY <1>1, <1>2 DEF Without

LEMMA KeptCallbacks ==
  ASSUME NEW s \in Seq(Callbacks), NEW cs
  PROVE  /\ Without(s, cs) \in Seq(Callbacks) /\ ToSet(Without(s, cs)) = ToSet(s) \ cs
         /\ InOrder(s) => InOrder(Without(s, cs))
         /\ s = <<>> => Without(s, cs) = <<>>
  <1>1. PICK t : t = Within(s, Callbacks \ cs)
    OBVIOUS
  <1>2. t \in Seq(Callbacks) /\ ToSet(t) = ToSet(s) \cap (Callbacks \ cs)
    BY <1>1, WithinKeeps
  <1>3. ToSet(s) \subseteq Callbacks
    BY DEF ToSet
  <1>4. ASSUME InOrder(s) PROVE InOrder(t)
    <2>1. PICK g \in [DOMAIN t -> DOMAIN s] : /\ \A i \in DOMAIN t : t[i] = s[g[i]]
                                              /\ \A i, j \in DOMAIN t : i < j => g[i] < g[j]
      <3>1. \E g \in [DOMAIN Within(s, Callbacks \ cs) -> DOMAIN s] :
              /\ \A i \in DOMAIN Within(s, Callbacks \ cs) : Within(s, Callbacks \ cs)[i] = s[g[i]]
              /\ \A i, j \in DOMAIN Within(s, Callbacks \ cs) : i < j => g[i] < g[j]
        BY Zenon, WithinOrder
      <3> QED
        BY Zenon, <1>1, <3>1
    <2> QED
      BY <1>4, <2>1 DEF InOrder
  <1> QED
    BY <1>1, <1>2, <1>3, <1>4, NoCallbacks DEF Without

LEMMA AppendedCallback ==
  ASSUME NEW s \in Seq(Callbacks), NEW c \in Callbacks
  PROVE  /\ Append(s, c) \in Seq(Callbacks) /\ ToSet(Append(s, c)) = ToSet(s) \cup {c}
         /\ InOrder(s) /\ (c = "work" => "work" \notin ToSet(s)) /\ (c = "measure" => "release1" \notin ToSet(s))
              => InOrder(Append(s, c))
  <1>1. Append(s, c) \in Seq(Callbacks) /\ ToSet(Append(s, c)) = ToSet(s) \cup {c}
    BY ValuesAppended
  <1>2. PICK n \in Nat : n = Len(s) /\ DOMAIN s = 1..n
    OBVIOUS
  <1>3. DOMAIN Append(s, c) = 1..(n + 1) /\ Append(s, c)[n + 1] = c /\ \A i \in 1..n : Append(s, c)[i] = s[i]
    BY <1>2
  <1>4. ASSUME InOrder(s), c = "work" => "work" \notin ToSet(s), c = "measure" => "release1" \notin ToSet(s)
        PROVE  InOrder(Append(s, c))
    <2>1. ASSUME NEW i \in 1..(n + 1), NEW j \in 1..(n + 1), i < j PROVE <<Append(s, c)[i], Append(s, c)[j]>> \notin Apart
      <3>1. i \in 1..n /\ Append(s, c)[i] = s[i] /\ s[i] \in ToSet(s)
        BY <1>2, <1>3, <2>1 DEF ToSet
      <3>2. CASE j = n + 1
        BY <1>3, <1>4, <3>1, <3>2 DEF Apart
      <3>3. CASE j # n + 1
        <4>1. j \in 1..n /\ Append(s, c)[j] = s[j]
          BY <1>3, <3>3
        <4> QED
          BY <1>2, <1>4, <2>1, <3>1, <4>1 DEF InOrder
      <3> QED
        BY <3>2, <3>3
    <2> QED
      BY <1>3, <2>1 DEF InOrder
  <1> QED
    BY <1>1, <1>4

LEMMA TakenCallback ==
  ASSUME NEW s \in Seq(Callbacks), s # <<>>
  PROVE  /\ Tail(s) \in Seq(Callbacks) /\ ToSet(s) = {Head(s)} \cup ToSet(Tail(s))
         /\ InOrder(s) => /\ InOrder(Tail(s))
                          /\ Head(s) = "work" => "work" \notin ToSet(Tail(s))
                          /\ Head(s) = "release1" => "measure" \notin ToSet(Tail(s))
  <1>1. PICK n \in Nat, t \in Seq(Callbacks) : n + 1 = Len(s) /\ t = Tail(s) /\ Len(t) = n
    <2>1. PICK n \in Nat : n + 1 = Len(s)
      <3>1. Len(s) \in Nat /\ Len(s) # 0
        OBVIOUS
      <3>2. Len(s) - 1 \in Nat /\ (Len(s) - 1) + 1 = Len(s)
        BY <3>1
      <3> QED
        BY <3>2
    <2>2. Tail(s) \in Seq(Callbacks) /\ Len(Tail(s)) = n
      BY <2>1
    <2> QED
      BY <2>1, <2>2
  <1>2. DOMAIN t = 1..n /\ DOMAIN s = 1..(n + 1) /\ Head(s) = s[1] /\ \A i \in 1..n : t[i] = s[i + 1] /\ i + 1 \in 1..(n + 1)
    BY <1>1
  <1>3. ToSet(s) = {s[1]} \cup ToSet(t)
    <2>1. ASSUME NEW j \in 1..(n + 1) PROVE s[j] \in {s[1]} \cup ToSet(t)
      <3>1. CASE j = 1
        BY <3>1
      <3>2. CASE j # 1
        <4>1. j - 1 \in 1..n /\ (j - 1) + 1 = j
          BY <3>2
        <4>2. t[j - 1] = s[j]
          BY <1>2, <4>1
        <4> QED
          BY <1>2, <4>1, <4>2 DEF ToSet
      <3> QED
        BY <3>1, <3>2
    <2>2. 1 \in 1..(n + 1)
      OBVIOUS
    <2>3. s[1] \in ToSet(s) /\ \A i \in 1..n : t[i] \in ToSet(s)
      BY <1>2, <2>2 DEF ToSet
    <2>4. ToSet(t) = {t[i] : i \in 1..n} /\ ToSet(s) = {s[i] : i \in 1..(n + 1)}
      BY Zenon, <1>2 DEF ToSet
    <2> QED
      BY <2>1, <2>3, <2>4
  <1>4. ASSUME InOrder(s) PROVE InOrder(t)
    <2> SUFFICES ASSUME NEW i \in 1..n, NEW j \in 1..n, i < j PROVE <<t[i], t[j]>> \notin Apart
      BY <1>2 DEF InOrder
    <2>1. i + 1 \in 1..(n + 1) /\ j + 1 \in 1..(n + 1) /\ i + 1 < j + 1
      OBVIOUS
    <2> QED
      BY <1>2, <1>4, <2>1 DEF InOrder
  <1>5. ASSUME InOrder(s), NEW e \in ToSet(t) PROVE <<s[1], e>> \notin Apart
    <2>1. PICK i \in 1..n : e = s[i + 1]
      BY <1>2, <1>5 DEF ToSet
    <2>2. 1 \in 1..(n + 1) /\ i + 1 \in 1..(n + 1) /\ 1 < i + 1
      OBVIOUS
    <2> QED
      BY <1>2, <1>5, <2>1, <2>2 DEF InOrder
  <1>6. <<"work", "work">> \in Apart /\ <<"release1", "measure">> \in Apart
    BY DEF Apart
  <1>7. InOrder(s) => (s[1] = "work" => "work" \notin ToSet(t)) /\ (s[1] = "release1" => "measure" \notin ToSet(t))
    BY Zenon, <1>5, <1>6
  <1> QED
    BY <1>1, <1>2, <1>3, <1>4, <1>7

LEMMA Scheduled ==
  ASSUME NEW q \in Seq(Callbacks), NEW r \in Seq(Callbacks), NEW pane, NEW from, Schedule(q, r, pane, from)
  PROVE  /\ queue' \in Seq(Callbacks) /\ running' \in Seq(Callbacks) /\ work' = [pane |-> pane, origin |-> from]
         /\ ToSet(queue') = ToSet(q) \cup {"work"} /\ ToSet(running') = ToSet(r) \ {"work"}
         /\ InOrder(q) => InOrder(queue')
         /\ InOrder(r) => InOrder(running')
         /\ r = <<>> => running' = <<>>
  <1>1. PICK a : a = Without(q, {"work"}) /\ a \in Seq(Callbacks) /\ ToSet(a) = ToSet(q) \ {"work"} /\ (InOrder(q) => InOrder(a))
    BY KeptCallbacks
  <1>2. /\ Append(a, "work") \in Seq(Callbacks) /\ ToSet(Append(a, "work")) = ToSet(a) \cup {"work"}
        /\ InOrder(a) => InOrder(Append(a, "work"))
    BY <1>1, AppendedCallback DEF Callbacks
  <1>3. queue' = Append(a, "work") /\ running' = Without(r, {"work"}) /\ work' = [pane |-> pane, origin |-> from]
    BY <1>1 DEF Schedule
  <1> QED
    BY <1>1, <1>2, <1>3, KeptCallbacks

LEMMA ReleasedLater ==
  ASSUME NEW q \in Seq(Callbacks), NEW r \in Seq(Callbacks), ReleaseLater(q, r)
  PROVE  /\ queue' \in Seq(Callbacks) /\ running' \in Seq(Callbacks)
         /\ ToSet(queue') = (ToSet(q) \ Releases) \cup {"release1"} /\ ToSet(running') = ToSet(r) \ Releases
         /\ InOrder(q) \/ InOrder(Without(q, Releases)) => InOrder(queue')
         /\ InOrder(r) => InOrder(running')
         /\ r = <<>> => running' = <<>>
  <1>1. PICK a : a = Without(q, Releases) /\ a \in Seq(Callbacks) /\ ToSet(a) = ToSet(q) \ Releases /\ (InOrder(q) => InOrder(a))
    BY KeptCallbacks
  <1>2. /\ Append(a, "release1") \in Seq(Callbacks) /\ ToSet(Append(a, "release1")) = ToSet(a) \cup {"release1"}
        /\ InOrder(a) => InOrder(Append(a, "release1"))
    BY <1>1, AppendedCallback DEF Callbacks
  <1>3. queue' = Append(a, "release1") /\ running' = Without(r, Releases)
    BY <1>1 DEF ReleaseLater
  <1> QED
    BY <1>1, <1>2, <1>3, KeptCallbacks

\* The measuring frame of CodeMirror is requested anew.
LEMMA MeasuresAnew ==
  ASSUME NEW q \in Seq(Callbacks)
  PROVE  LET t == Append(Without(q, {"measure"}), "measure")
         IN  /\ t \in Seq(Callbacks) /\ ToSet(t) = ToSet(q) \cup {"measure"}
             /\ InOrder(q) => InOrder(Without(t, Releases))
  <1>1. PICK a : a = Without(q, {"measure"}) /\ a \in Seq(Callbacks) /\ ToSet(a) = ToSet(q) \ {"measure"} /\ (InOrder(q) => InOrder(a))
    BY KeptCallbacks
  <1>2. PICK t \in Seq(Callbacks) : t = Append(a, "measure") /\ ToSet(t) = ToSet(a) \cup {"measure"}
    BY <1>1, AppendedCallback DEF Callbacks
  <1>3. ASSUME InOrder(q) PROVE InOrder(Without(t, Releases))
    <2>1. PICK b : b = Within(t, Callbacks \ Releases)
      OBVIOUS
    <2>2. PICK g \in [DOMAIN b -> DOMAIN t] : /\ \A i \in DOMAIN b : b[i] = t[g[i]]
                                              /\ \A i, j \in DOMAIN b : i < j => g[i] < g[j]
      <3>1. \E g \in [DOMAIN Within(t, Callbacks \ Releases) -> DOMAIN t] :
              /\ \A i \in DOMAIN Within(t, Callbacks \ Releases) : Within(t, Callbacks \ Releases)[i] = t[g[i]]
              /\ \A i, j \in DOMAIN Within(t, Callbacks \ Releases) : i < j => g[i] < g[j]
        BY Zenon, WithinOrder
      <3> QED
        BY Zenon, <2>1, <3>1
    <2>3. "release1" \notin ToSet(b)
      <3>1. ToSet(b) = ToSet(t) \ Releases
        BY <2>1, KeptCallbacks DEF Without
      <3> QED
        BY <3>1 DEF Releases
    <2>4. ASSUME NEW i \in DOMAIN b, NEW j \in DOMAIN b, i < j PROVE <<b[i], b[j]>> \notin Apart
      <3>1. b[i] # "release1"
        BY <2>3 DEF ToSet
      <3>2. g[i] \in DOMAIN t /\ g[j] \in DOMAIN t /\ g[i] < g[j] /\ b[i] = t[g[i]] /\ b[j] = t[g[j]]
        BY <2>2, <2>4
      <3>3. PICK n \in Nat : /\ n = Len(a) /\ DOMAIN a = 1..n /\ DOMAIN t = 1..(n + 1) /\ t[n + 1] = "measure"
                             /\ \A l \in 1..n : t[l] = a[l]
        BY <1>1, <1>2
      <3>4. ASSUME b[i] = "work", b[j] = "work" PROVE FALSE
        <4>1. g[j] # n + 1
          BY <3>2, <3>3, <3>4
        <4>2. g[i] \in 1..n /\ g[j] \in 1..n
          BY <3>2, <3>3, <4>1
        <4>3. a[g[i]] = "work" /\ a[g[j]] = "work"
          BY <3>2, <3>3, <3>4, <4>2
        <4> QED
          BY <1>1, <1>3, <3>2, <3>3, <4>2, <4>3 DEF InOrder, Apart
      <3> QED
        BY <3>1, <3>4 DEF Apart
    <2>5. InOrder(b)
      BY <2>4 DEF InOrder
    <2> QED
      BY <2>1, <2>5 DEF Without
  <1> QED
    BY <1>1, <1>2, <1>3

\* The steps of the reader and of the browser between callbacks.
LEMMA SetsOfCallbacks == ASSUME ScrollTypes PROVE ToSet(queue \o running) = Pending
  BY ValuesJoined DEF ScrollTypes, Pending

LEMMA QuietStep ==
  ASSUME ScrollIInv, UNCHANGED <<queue, running, scrollingSource, suppress, work>>, phase' = "callbacks" => phase = "callbacks" \/ running = <<>>,
         phase' # "callbacks" => running = <<>>,
         events' \in [Panes -> {"no", "user", "sync"}], \A p \in Panes : events'[p] = "sync" => events[p] = "sync",
         clicked => clicked'
  PROVE  ScrollIInv'
  <1>1. ScrollTypes' /\ ReleasePending'
    BY DEF ScrollIInv, ScrollTypes, ReleasePending, Pending
  <1>2. ASSUME Following PROVE Following'
    BY <1>2 DEF Following, Pending, InOrder, OtherPane
  <1> QED
    BY <1>1, <1>2 DEF ScrollIInv

LEMMA NoneRuns == ASSUME ScrollTypes, phase # "callbacks" PROVE running = <<>> /\ ToSet(running) = {} /\ Pending = ToSet(queue)
  BY NoCallbacks DEF ScrollTypes, Pending

LEMMA ReaderScrolls == ASSUME ScrollIInv, UserScroll PROVE ScrollIInv'
  <1>1. /\ phase = "idle" /\ clicked' = (clicked /\ ~AtRest)
        /\ UNCHANGED <<queue, running, phase, scrollingSource, suppress, work>>
    BY DEF UserScroll, Gesture
  <1>2. \E p \in Panes : events' = [events EXCEPT ![p] = "user"]
    BY DEF UserScroll, Panes
  <1>3. /\ events' \in [Panes -> {"no", "user", "sync"}]
        /\ \A p \in Panes : events'[p] = "sync" => events[p] = "sync"
    BY <1>2 DEF ScrollIInv, ScrollTypes
  <1>4. running = <<>> /\ phase' # "callbacks"
    BY <1>1 DEF ScrollIInv, ScrollTypes
  <1>5. CASE ~AtRest
    <2>1. clicked => clicked'
      BY <1>1, <1>5
    <2> QED
      BY <1>1, <1>3, <1>4, <2>1, QuietStep
  <1>6. CASE AtRest
    <2>1. queue = <<>> /\ Pending = {} /\ \A p \in Panes : events[p] = "no"
      BY <1>1, <1>6, NoneRuns, NoCallbacks DEF AtRest, ScrollIInv
    <2>2. scrollingSource = "none" /\ ~suppress
      BY <2>1 DEF ScrollIInv, ReleasePending
    <2>3. ScrollTypes' /\ ReleasePending'
      BY <1>1, <1>3, <1>4, <2>2 DEF ScrollIInv, ScrollTypes, ReleasePending
    <2>4. Following'
      <3>1. Pending' = {} /\ ToSet(queue') = {} /\ ToSet(running') = {} /\ queue' = <<>> /\ running' = <<>>
        BY <1>1, <1>4, <2>1, NoCallbacks DEF Pending
      <3>2. InOrder(queue') /\ InOrder(running')
        BY <3>1, NoCallbacks
      <3>3. \A p \in Panes : events'[p] # "sync"
        BY <1>3, <2>1
      <3> QED
        BY <1>1, <2>2, <3>1, <3>2, <3>3 DEF Following
    <2> QED
      BY <2>3, <2>4 DEF ScrollIInv
  <1> QED
    BY <1>5, <1>6

LEMMA OutlineFollowed == ASSUME ScrollIInv, OutlinePanel PROVE ScrollIInv'
  <1>1. phase = "idle" /\ running = <<>> /\ clicked' = TRUE
    BY DEF OutlinePanel, scrollPreviewToHeading, scrollEditorToSourceLine, Gesture, ScrollIInv, ScrollTypes
  <1>2. CASE scrollPreviewToHeading
    <2>1. PICK a : a = Without(queue, {"settle", "finish"}) /\ a \in Seq(Callbacks)
      BY KeptCallbacks DEF ScrollIInv, ScrollTypes
    <2>2. PICK c \in {"settle", "finish"} : queue' = Append(a, c)
      <3>1. queue' = Append(a, IF reduced THEN "finish" ELSE "settle")
        BY <1>2, <2>1 DEF scrollPreviewToHeading
      <3> QED
        BY <3>1
    <2>3. queue' \in Seq(Callbacks) /\ c \in ToSet(queue')
      BY <2>1, <2>2, AppendedCallback DEF Callbacks
    <2>4. UNCHANGED <<running, phase, scrollingSource, work>> /\ events' \in [Panes -> {"no", "user", "sync"}]
      <3>1. events' = events \/ events' = [events EXCEPT !["preview"] = "user"]
        BY <1>2 DEF scrollPreviewToHeading, Scrolled
      <3> QED
        BY <1>2, <3>1 DEF scrollPreviewToHeading, ScrollIInv, ScrollTypes, Panes
    <2> QED
      BY <1>1, <2>2, <2>3, <2>4 DEF ScrollIInv, ScrollTypes, ReleasePending, Pending
  <1>3. CASE scrollEditorToSourceLine
    <2>1. ReleaseLater(Append(Without(queue, {"measure"}), "measure"), running)
      BY Zenon, <1>3 DEF scrollEditorToSourceLine
    <2>2. PICK a \in Seq(Callbacks) : a = Append(Without(queue, {"measure"}), "measure")
      BY MeasuresAnew DEF ScrollIInv, ScrollTypes
    <2>3. queue' \in Seq(Callbacks) /\ running' = <<>> /\ "release1" \in ToSet(queue')
      BY <1>1, <2>1, <2>2, NoCallbacks, ReleasedLater
    <2>4. UNCHANGED <<events, phase, scrollingSource, work>>
      BY Zenon, <1>3 DEF scrollEditorToSourceLine
    <2> QED
      BY <1>1, <2>3, <2>4, NoCallbacks DEF ScrollIInv, ScrollTypes, ReleasePending, Pending
  <1> QED
    BY <1>2, <1>3 DEF OutlinePanel

LEMMA FrameBegins == ASSUME ScrollIInv, BeginFrame PROVE ScrollIInv'
  <1>1. /\ phase = "idle" /\ phase' = "events" /\ UNCHANGED <<queue, running, scrollingSource, suppress, work, clicked>>
        /\ (events' = events \/ events' = [events EXCEPT !["preview"] = "user"])
    BY DEF BeginFrame, Scrolled
  <1>2. /\ events' \in [Panes -> {"no", "user", "sync"}]
        /\ \A p \in Panes : events'[p] = "sync" => events[p] = "sync"
    BY <1>1 DEF ScrollIInv, ScrollTypes, Panes
  <1>3. running = <<>>
    BY <1>1 DEF ScrollIInv, ScrollTypes
  <1> QED
    BY <1>1, <1>2, <1>3, QuietStep

LEMMA ScrollHeard == ASSUME ScrollIInv, NEW pane \in Panes, HandleScroll(pane) PROVE ScrollIInv'
  <1>1. /\ phase = "events" /\ events[pane] # "no" /\ events' = [events EXCEPT ![pane] = "no"]
        /\ UNCHANGED <<phase, scrollingSource, suppress, clicked>>
    BY Zenon DEF HandleScroll
  <1>2. /\ events' \in [Panes -> {"no", "user", "sync"}]
        /\ \A p \in Panes : events'[p] = "sync" => events[p] = "sync"
    BY <1>1 DEF ScrollIInv, ScrollTypes
  <1>3. running = <<>> /\ ToSet(running) = {} /\ Pending = ToSet(queue) /\ queue \in Seq(Callbacks) /\ running \in Seq(Callbacks)
    BY <1>1, NoneRuns DEF ScrollIInv, ScrollTypes
  <1>4. CASE scrollingSource \in Panes \ {pane} \/ suppress
    <2>1. UNCHANGED <<queue, running, work>>
      BY Zenon, <1>4 DEF HandleScroll
    <2> QED
      BY <1>1, <1>2, <1>3, <2>1, QuietStep
  <1>5. CASE ~(scrollingSource \in Panes \ {pane} \/ suppress)
    <2>1. Schedule(queue, running, pane, events[pane])
      BY Zenon, <1>5 DEF HandleScroll
    <2>2. /\ queue' \in Seq(Callbacks) /\ running' = <<>> /\ work' = [pane |-> pane, origin |-> events[pane]]
          /\ ToSet(queue') = ToSet(queue) \cup {"work"} /\ (InOrder(queue) => InOrder(queue'))
      BY <1>3, <2>1, Scheduled
    <2>3. ToSet(running') = {} /\ InOrder(running') /\ running' \in Seq(Callbacks) /\ Pending' = Pending \cup {"work"}
      BY <1>3, <2>2, NoCallbacks DEF Pending
    <2>4. work'.pane = pane /\ work'.origin = events[pane]
      BY <2>2
    <2>5. ScrollTypes' /\ ReleasePending'
      BY <1>1, <1>2, <2>2, <2>3, <2>4 DEF ScrollIInv, ScrollTypes, ReleasePending
    <2>6. ASSUME Following PROVE Following'
      <3>1. events[pane] # "sync" /\ scrollingSource \in {"none", pane}
        BY <1>5, <2>6 DEF Following, ScrollIInv, ScrollTypes, OtherPane, Panes
      <3> QED
        BY <1>1, <1>2, <1>3, <2>2, <2>3, <2>4, <2>6, <3>1 DEF Following, OtherPane
    <2> QED
      BY <1>1, <2>5, <2>6 DEF ScrollIInv
  <1> QED
    BY <1>4, <1>5

LEMMA FrameGoesOn == ASSUME ScrollIInv, StartCallbacks PROVE ScrollIInv'
  <1>1. /\ phase = "events" /\ running' = queue /\ queue' = <<>> /\ (\A p \in Panes : events[p] = "no")
        /\ (phase' # "callbacks" => queue = <<>>)
        /\ UNCHANGED <<events, scrollingSource, suppress, work, clicked>>
    BY DEF StartCallbacks
  <1>2. running = <<>> /\ Pending = ToSet(queue) /\ queue \in Seq(Callbacks)
    BY <1>1, NoneRuns DEF ScrollIInv, ScrollTypes
  <1>3. ToSet(queue') = {} /\ InOrder(queue') /\ queue' \in Seq(Callbacks) /\ ToSet(running') = ToSet(queue) /\ Pending' = Pending
    BY <1>1, <1>2, NoCallbacks DEF Pending
  <1>4. ScrollTypes' /\ ReleasePending'
    BY <1>1, <1>2, <1>3 DEF ScrollIInv, ScrollTypes, ReleasePending
  <1>5. ASSUME Following PROVE Following'
    BY <1>1, <1>2, <1>3, <1>5 DEF Following
  <1> QED
    BY <1>1, <1>4, <1>5 DEF ScrollIInv

\* The callbacks of a frame.
LEMMA Taken ==
  ASSUME ScrollIInv, NEW c, Callback(c)
  PROVE  \E r \in Seq(Callbacks) :
           /\ r = Tail(running) /\ ToSet(running) = {c} \cup ToSet(r)
           /\ ~clicked => /\ InOrder(r)
                          /\ c = "work" => "work" \notin ToSet(r) \cup ToSet(queue)
                          /\ c = "release1" => "measure" \notin ToSet(r) \cup ToSet(queue)
  <1>1. running \in Seq(Callbacks) /\ running # <<>> /\ Head(running) = c
    BY DEF Callback, ScrollIInv, ScrollTypes
  <1>2. PICK r \in Seq(Callbacks) :
           /\ r = Tail(running) /\ ToSet(running) = {c} \cup ToSet(r)
           /\ InOrder(running) => /\ InOrder(r)
                                  /\ c = "work" => "work" \notin ToSet(r)
                                  /\ c = "release1" => "measure" \notin ToSet(r)
    BY <1>1, TakenCallback
  <1>3. ~clicked => /\ InOrder(running)
                    /\ "work" \in ToSet(running) => "work" \notin ToSet(queue)
                    /\ "measure" \in ToSet(queue) => "release1" \notin ToSet(running)
    BY DEF ScrollIInv, Following
  <1> QED
    BY <1>2, <1>3

\* A callback that requests nothing and gives nothing back.
LEMMA OnlyTaken ==
  ASSUME ScrollIInv, NEW c \in {"work", "measure"}, Callback(c), running' = Tail(running), EndOfFrame,
         UNCHANGED <<queue, scrollingSource, suppress, work, clicked>>,
         events' \in [Panes -> {"no", "user", "sync"}],
         \A p \in Panes : events'[p] = "sync" => events[p] = "sync" \/ (c = "measure" /\ p = "editor")
  PROVE  ScrollIInv'
  <1>1. PICK r \in Seq(Callbacks) : r = Tail(running) /\ ToSet(running) = {c} \cup ToSet(r) /\ (~clicked => InOrder(r))
    BY Zenon, Taken
  <1>2. /\ running' \in Seq(Callbacks) /\ ToSet(running') = ToSet(r) /\ (phase' # "callbacks" => running' = <<>>)
        /\ Pending = Pending' \cup {c} /\ (~clicked => InOrder(running'))
    BY <1>1 DEF EndOfFrame, Pending
  <1>3. ScrollTypes' /\ ReleasePending'
    BY <1>2 DEF ScrollIInv, ScrollTypes, ReleasePending
  <1>4. ASSUME Following, ~clicked PROVE Following'
    <2>1. c = "measure" => scrollingSource = "preview" /\ "release2" \notin Pending
      BY <1>2, <1>4 DEF Following
    <2>2. \A p \in Panes : events'[p] = "sync" => scrollingSource = OtherPane(p) /\ "release2" \notin ToSet(running')
      <3>1. ToSet(running') \subseteq ToSet(running) /\ ToSet(running) \subseteq Pending
        BY <1>1, <1>2 DEF Pending
      <3> QED
        BY <1>4, <2>1, <3>1 DEF Following, OtherPane
    <2> QED
      BY <1>1, <1>2, <1>4, <2>2 DEF Following
  <1> QED
    BY <1>3, <1>4 DEF ScrollIInv

LEMMA PreviewFollows == ASSUME ScrollIInv, SyncPreview PROVE ScrollIInv'
  <1>1. Callback("work") /\ work.pane = "editor" /\ EndOfFrame /\ UNCHANGED <<suppress, work, clicked>>
    BY DEF SyncPreview
  <1>2. CASE ~enabled
    <2>1. running' = Tail(running) /\ UNCHANGED <<queue, events, scrollingSource>>
      BY <1>2 DEF SyncPreview
    <2>2. events' \in [Panes -> {"no", "user", "sync"}]
      BY <2>1 DEF ScrollIInv, ScrollTypes
    <2> QED
      BY Zenon, <1>1, <2>1, <2>2, OnlyTaken
  <1>3. CASE enabled
    <2>1. /\ ReleaseLater(queue, Tail(running)) /\ scrollingSource' = "editor"
          /\ (events' = events \/ events' = [events EXCEPT !["preview"] = "sync"])
      BY <1>3 DEF SyncPreview, Scrolled
    <2>2. PICK r \in Seq(Callbacks) :
            /\ r = Tail(running) /\ ToSet(running) = {"work"} \cup ToSet(r)
            /\ ~clicked => InOrder(r) /\ "work" \notin ToSet(r) \cup ToSet(queue)
      BY <1>1, Taken
    <2>3. /\ queue' \in Seq(Callbacks) /\ running' \in Seq(Callbacks)
          /\ ToSet(queue') = (ToSet(queue) \ Releases) \cup {"release1"} /\ ToSet(running') = ToSet(r) \ Releases
          /\ (InOrder(queue) => InOrder(queue')) /\ (InOrder(r) => InOrder(running'))
      BY <2>1, <2>2, ReleasedLater DEF ScrollIInv, ScrollTypes
    <2>4. events' \in [Panes -> {"no", "user", "sync"}]
      BY <2>1 DEF ScrollIInv, ScrollTypes, Panes
    <2>5. phase' # "callbacks" => running' = <<>>
      BY <1>1 DEF EndOfFrame
    <2>6. "release1" \in Pending' /\ Pending' = ((ToSet(queue) \cup ToSet(r)) \ Releases) \cup {"release1"}
      BY <2>3 DEF Pending
    <2>7. ScrollTypes' /\ ReleasePending'
      BY <1>1, <2>1, <2>3, <2>4, <2>5, <2>6 DEF ScrollIInv, ScrollTypes, ReleasePending, Panes
    <2>8. ASSUME Following, ~clicked PROVE Following'
      <3>1. "work" \in Pending /\ scrollingSource \in {"none", "editor"} /\ "measure" \notin Pending
        BY <1>1, <2>2, <2>8 DEF Following, Pending
      <3>2. "work" \notin Pending' /\ "measure" \notin Pending' /\ "release2" \notin Pending' /\ Pending' \cap {"settle", "finish"} = {}
        BY <2>2, <2>6, <2>8, <3>1 DEF Following, Pending, Releases
      <3>3. events["editor"] # "sync" /\ events'["editor"] = events["editor"]
        BY <2>1, <2>8, <3>1 DEF Following, OtherPane, Panes, ScrollIInv, ScrollTypes
      <3>4. \A p \in Panes : events'[p] = "sync" => scrollingSource' = OtherPane(p) /\ "release2" \notin ToSet(running')
        BY <2>1, <3>2, <3>3 DEF OtherPane, Panes, Pending
      <3>5. InOrder(queue') /\ InOrder(running')
        BY <2>2, <2>3, <2>8 DEF Following
      <3> QED
        BY <1>1, <2>8, <3>2, <3>4, <3>5 DEF Following, Pending
    <2> QED
      BY <1>1, <2>7, <2>8 DEF ScrollIInv
  <1> QED
    BY <1>2, <1>3

LEMMA EditorFollows == ASSUME ScrollIInv, SyncEditor PROVE ScrollIInv'
  <1>1. Callback("work") /\ work.pane = "preview" /\ EndOfFrame /\ UNCHANGED <<events, suppress, work, clicked>>
    BY DEF SyncEditor
  <1>2. CASE ~enabled
    <2>1. running' = Tail(running) /\ UNCHANGED <<queue, scrollingSource>>
      BY <1>2 DEF SyncEditor
    <2>2. events' \in [Panes -> {"no", "user", "sync"}]
      BY <1>1 DEF ScrollIInv, ScrollTypes
    <2> QED
      BY Zenon, <1>1, <2>1, <2>2, OnlyTaken
  <1>3. CASE enabled
    <2>1. /\ ReleaseLater(Append(Without(queue, {"measure"}), "measure"), Without(Tail(running), {"measure"}))
          /\ scrollingSource' = "preview"
      BY Zenon, <1>3 DEF SyncEditor
    <2>2. PICK r \in Seq(Callbacks) :
            /\ r = Tail(running) /\ ToSet(running) = {"work"} \cup ToSet(r)
            /\ ~clicked => InOrder(r) /\ "work" \notin ToSet(r) \cup ToSet(queue)
      BY <1>1, Taken
    <2>3. PICK q \in Seq(Callbacks) :
            /\ q = Append(Without(queue, {"measure"}), "measure") /\ ToSet(q) = ToSet(queue) \cup {"measure"}
            /\ InOrder(queue) => InOrder(Without(q, Releases))
      BY MeasuresAnew DEF ScrollIInv, ScrollTypes
    <2>4. PICK u \in Seq(Callbacks) :
            u = Without(Tail(running), {"measure"}) /\ ToSet(u) = ToSet(r) \ {"measure"} /\ (InOrder(r) => InOrder(u))
      BY <2>2, KeptCallbacks
    <2>5. ReleaseLater(q, u)
      BY Zenon, <2>1, <2>3, <2>4
    <2>6. /\ queue' \in Seq(Callbacks) /\ running' \in Seq(Callbacks)
          /\ ToSet(queue') = (ToSet(q) \ Releases) \cup {"release1"} /\ ToSet(running') = ToSet(u) \ Releases
          /\ (InOrder(Without(q, Releases)) => InOrder(queue')) /\ (InOrder(u) => InOrder(running'))
      BY <2>5, ReleasedLater
    <2>7. phase' # "callbacks" => running' = <<>>
      BY <1>1 DEF EndOfFrame
    <2>8. /\ "release1" \in Pending' /\ ToSet(running') = ToSet(r) \ (Releases \cup {"measure"})
          /\ Pending' = ((ToSet(queue) \cup ToSet(r)) \ Releases) \cup {"measure", "release1"}
      BY <2>3, <2>4, <2>6 DEF Pending, Releases
    <2>9. ScrollTypes' /\ ReleasePending'
      BY <1>1, <2>1, <2>6, <2>7, <2>8 DEF ScrollIInv, ScrollTypes, ReleasePending, Panes
    <2>10. ASSUME Following, ~clicked PROVE Following'
      <3>1. "work" \in Pending /\ scrollingSource \in {"none", "preview"}
        BY <1>1, <2>2, <2>10 DEF Following, Pending
      <3>2. "work" \notin Pending' /\ "release2" \notin Pending' /\ Pending' \cap {"settle", "finish"} = {}
        BY <2>2, <2>8, <2>10, <3>1 DEF Following, Pending, Releases
      <3>3. events["preview"] # "sync"
        BY <2>10, <3>1 DEF Following, OtherPane, Panes
      <3>4. \A p \in Panes : events'[p] = "sync" => scrollingSource' = OtherPane(p) /\ "release2" \notin ToSet(running')
        BY <1>1, <2>1, <3>2, <3>3 DEF OtherPane, Panes, Pending
      <3>5. InOrder(queue') /\ InOrder(running') /\ "release1" \notin ToSet(running')
        BY <2>2, <2>3, <2>4, <2>6, <2>8, <2>10 DEF Following, Releases
      <3> QED
        BY <1>1, <2>1, <2>10, <3>2, <3>4, <3>5 DEF Following, Pending
    <2> QED
      BY <1>1, <2>9, <2>10 DEF ScrollIInv
  <1> QED
    BY <1>2, <1>3

LEMMA EditorMeasures == ASSUME ScrollIInv, Measure PROVE ScrollIInv'
  <1>1. /\ Callback("measure") /\ running' = Tail(running) /\ EndOfFrame
        /\ UNCHANGED <<queue, scrollingSource, suppress, work, clicked>>
        /\ (events' = events \/ events' = [events EXCEPT !["editor"] = "sync"])
    BY DEF Measure, Scrolled
  <1>2. /\ events' \in [Panes -> {"no", "user", "sync"}]
        /\ \A p \in Panes : events'[p] = "sync" => events[p] = "sync" \/ p = "editor"
    BY <1>1 DEF ScrollIInv, ScrollTypes, Panes
  <1> QED
    BY Zenon, <1>1, <1>2, OnlyTaken

LEMMA LockReleased == ASSUME ScrollIInv, Release PROVE ScrollIInv'
  <1>1. /\ running' = Tail(running) /\ EndOfFrame /\ UNCHANGED <<events, work, clicked>>
        /\ \/ Callback("release1") /\ queue' = Append(queue, "release2") /\ UNCHANGED <<scrollingSource, suppress>>
           \/ Callback("release2") /\ scrollingSource' = "none" /\ suppress' = FALSE /\ UNCHANGED queue
    BY Zenon DEF Release
  <1>2. phase' # "callbacks" => running' = <<>>
    BY <1>1 DEF EndOfFrame
  <1>3. CASE Callback("release1") /\ queue' = Append(queue, "release2") /\ UNCHANGED <<scrollingSource, suppress>>
    <2>1. PICK r \in Seq(Callbacks) :
            /\ r = Tail(running) /\ ToSet(running) = {"release1"} \cup ToSet(r)
            /\ ~clicked => InOrder(r) /\ "measure" \notin ToSet(r) \cup ToSet(queue)
      BY <1>3, Taken
    <2>2. queue' \in Seq(Callbacks) /\ ToSet(queue') = ToSet(queue) \cup {"release2"} /\ (InOrder(queue) => InOrder(queue'))
      BY <1>3, AppendedCallback DEF Callbacks, ScrollIInv, ScrollTypes
    <2>3. running' = r /\ Pending' = ToSet(queue) \cup ToSet(r) \cup {"release2"}
      BY <1>1, <2>1, <2>2 DEF Pending
    <2>4. ScrollTypes' /\ ReleasePending'
      BY <1>1, <1>2, <1>3, <2>2, <2>3 DEF ScrollIInv, ScrollTypes, ReleasePending
    <2>5. ASSUME Following, ~clicked PROVE Following'
      BY <1>1, <1>3, <2>1, <2>2, <2>3, <2>5 DEF Following, Pending, OtherPane
    <2> QED
      BY <1>1, <2>4, <2>5 DEF ScrollIInv
  <1>4. CASE Callback("release2") /\ scrollingSource' = "none" /\ suppress' = FALSE /\ UNCHANGED queue
    <2>1. PICK r \in Seq(Callbacks) : r = Tail(running) /\ ToSet(running) = {"release2"} \cup ToSet(r) /\ (~clicked => InOrder(r))
      BY Zenon, <1>4, Taken
    <2>2. running' = r /\ Pending' = ToSet(queue) \cup ToSet(r) /\ Pending = Pending' \cup {"release2"}
      BY <1>1, <1>4, <2>1 DEF Pending
    <2>3. ScrollTypes' /\ ReleasePending'
      BY <1>1, <1>2, <1>4, <2>2 DEF ScrollIInv, ScrollTypes, ReleasePending
    <2>4. ASSUME Following, ~clicked PROVE Following'
      <3>1. "measure" \notin Pending' /\ \A p \in Panes : events'[p] # "sync"
        BY <1>1, <2>1, <2>2, <2>4 DEF Following
      <3> QED
        BY <1>1, <1>4, <2>1, <2>2, <2>4, <3>1 DEF Following
    <2> QED
      BY <1>1, <2>3, <2>4 DEF ScrollIInv
  <1> QED
    BY <1>1, <1>3, <1>4

LEMMA GlideObserved == ASSUME ScrollIInv, CheckSettled PROVE ScrollIInv'
  <1>1. /\ (Callback("finish") \/ Callback("settle")) /\ EndOfFrame /\ UNCHANGED <<events, clicked>>
        /\ \/ Finish
           \/ queue' = Append(queue, "settle") /\ running' = Tail(running) /\ UNCHANGED <<suppress, scrollingSource, work>>
    BY Zenon DEF CheckSettled
  <1>2. PICK r \in Seq(Callbacks) : r = Tail(running) /\ ToSet(running) \cap {"finish", "settle"} # {}
    <2>1. \E c \in {"finish", "settle"} : Callback(c)
      BY <1>1
    <2>2. PICK c \in {"finish", "settle"}, r \in Seq(Callbacks) : r = Tail(running) /\ ToSet(running) = {c} \cup ToSet(r)
      BY Zenon, <2>1, Taken
    <2> QED
      BY <2>2
  <1>3. clicked
    BY <1>2 DEF ScrollIInv, Following, Pending
  <1>4. phase' # "callbacks" => running' = <<>>
    BY <1>1 DEF EndOfFrame
  <1>5. ScrollTypes' /\ ReleasePending'
    <2>1. CASE Finish
      <3>1. suppress' = FALSE /\ scrollingSource' = "none" /\ Schedule(queue, r, "preview", "user")
        BY Zenon, <1>2, <2>1 DEF Finish
      <3>2. queue' \in Seq(Callbacks) /\ running' \in Seq(Callbacks) /\ work' = [pane |-> "preview", origin |-> "user"]
        BY <3>1, Scheduled DEF ScrollIInv, ScrollTypes
      <3>3. work'.pane = "preview"
        BY <3>2
      <3> QED
        BY <1>1, <1>4, <3>1, <3>2, <3>3 DEF ScrollIInv, ScrollTypes, ReleasePending, Panes
    <2>2. CASE queue' = Append(queue, "settle") /\ running' = Tail(running) /\ UNCHANGED <<suppress, scrollingSource, work>>
      <3>1. queue' \in Seq(Callbacks) /\ ToSet(queue') = ToSet(queue) \cup {"settle"}
        BY <2>2, AppendedCallback DEF Callbacks, ScrollIInv, ScrollTypes
      <3> QED
        BY <1>1, <1>2, <1>4, <2>2, <3>1 DEF ScrollIInv, ScrollTypes, ReleasePending, Pending
    <2> QED
      BY <1>1, <2>1, <2>2
  <1> QED
    BY <1>1, <1>3, <1>5 DEF ScrollIInv

LEMMA ScrollSteps == ASSUME ScrollIInv, [ScrollNext]_scrollVars PROVE ScrollIInv'
  <1>1. CASE ToggleSync \/ UNCHANGED scrollVars
    <2>1. UNCHANGED <<queue, running, phase, scrollingSource, suppress, work, events, clicked>>
      BY <1>1 DEF ToggleSync, scrollVars
    <2> QED
      BY <2>1, QuietStep DEF ScrollIInv, ScrollTypes
  <1> QED
    BY Zenon, <1>1, ReaderScrolls, OutlineFollowed, FrameBegins, ScrollHeard, FrameGoesOn, PreviewFollows, EditorFollows,
       EditorMeasures, LockReleased, GlideObserved DEF ScrollNext

LEMMA ScrollBegins == ASSUME ScrollInit PROVE ScrollIInv
  <1>1. /\ queue = <<>> /\ running = <<>> /\ events = [p \in Panes |-> "no"] /\ scrollingSource = "none" /\ suppress = FALSE
        /\ work = [pane |-> "editor", origin |-> "no"]
    BY DEF ScrollInit
  <1>2. work.pane = "editor"
    BY <1>1
  <1>3. Pending = {} /\ ToSet(queue) = {} /\ ToSet(running) = {}
    BY <1>1, NoCallbacks DEF Pending
  <1>4. ScrollTypes /\ ReleasePending
    BY <1>1, <1>2, NoCallbacks DEF ScrollTypes, ReleasePending, Panes
  <1>5. Following
    BY <1>1, <1>3, NoCallbacks DEF Following
  <1> QED
    BY <1>4, <1>5 DEF ScrollIInv

LEMMA ScrollFollows == ASSUME ScrollIInv PROVE NoEcho /\ LocksAreReleased
  <1>1. ToSet(queue \o running) = Pending
    BY SetsOfCallbacks DEF ScrollIInv
  <1>2. NoEcho
    BY <1>1 DEF ScrollIInv, Following, NoEcho
  <1> QED
    BY <1>1, <1>2 DEF ScrollIInv, ReleasePending, LocksAreReleased

-----------------------------------------------------------------------------
\* The binary search of activeHeadingForPreview. The headings below low are at or
\* above the line, those from high on are below it, and each round leaves fewer.

LEMMA Middle == ASSUME NEW a \in Int, NEW b \in Int, a <= b PROVE (a + b) \div 2 \in a..b
  OBVIOUS

AtOrAbove(s, n, line) == {i \in 1..n : s[i] <= line}

LEMMA HeadingFound ==
  ASSUME NEW s, NEW N \in Nat \ {0}, N = Len(s), s \in [1..N -> Int], \A i, j \in 1..N : i < j => s[i] <= s[j],
         NEW line \in Int
  PROVE  LastAtOrAbove(s, line) = IF AtOrAbove(s, N, line) = {} THEN 1 ELSE Max(AtOrAbove(s, N, line))
  <1> DEFINE Halved(t) ==
               LET middle == (t.low + t.high) \div 2 IN
               IF t.low > t.high THEN t
               ELSE IF s[middle] <= line THEN [active |-> middle, low |-> middle + 1, high |-> t.high]
               ELSE [t EXCEPT !.high = middle - 1]
             First1 == [active |-> 1, low |-> 1, high |-> N]
             above == AtOrAbove(s, N, line)
             Range1 == [active : 1..N, low : 1..(N + 1), high : 0..N]
             Search(k) == CHOOSE f : f = [n \in 0..k |-> IF n = 0 THEN [active |-> 1, low |-> 1, high |-> k]
                                                      ELSE Halved(f[n - 1])]
             search == Search(N)
             Between(t, n) ==
               /\ t \in Range1 /\ t.low <= t.high + 1
               /\ \A i \in 1..N : (i < t.low => s[i] <= line) /\ (i > t.high => s[i] > line)
               /\ t.active = IF t.low = 1 THEN 1 ELSE t.low - 1
               /\ t.low > t.high \/ t.high - t.low + 1 <= N - n
  <1>0. LastAtOrAbove(s, line) = search[N].active
    <2>1. LastAtOrAbove(s, line) = Search(Len(s))[Len(s)].active
      BY Zenon DEF LastAtOrAbove
    <2> HIDE DEF Search
    <2> QED
      BY <2>1
  <1>1. ASSUME NEW t \in Range1, t.low <= t.high, NEW m \in Int, m = (t.low + t.high) \div 2
        PROVE  /\ m \in t.low..t.high /\ m \in 1..N
               /\ Halved(t) = IF s[m] <= line THEN [active |-> m, low |-> m + 1, high |-> t.high]
                              ELSE [active |-> t.active, low |-> t.low, high |-> m - 1]
    <2>1. PICK a \in 1..N, l \in 1..(N + 1), h \in 0..N : t = [active |-> a, low |-> l, high |-> h]
      OBVIOUS
    <2>2. t.low = l /\ t.high = h /\ t.active = a
      BY <2>1
    <2>3. m \in l..h /\ m \in 1..N
      <3>1. l \in Int /\ h \in Int /\ l <= h
        BY <1>1, <2>2
      <3>2. m \in l..h
        BY <1>1, <2>2, <3>1, Middle
      <3> QED
        BY <3>1, <3>2
    <2>5. [t EXCEPT !.high = m - 1] = [active |-> a, low |-> l, high |-> m - 1]
      BY <2>1
    <2>6. ~(t.low > t.high)
      BY <1>1, <2>2
    <2>7. Halved(t) = IF s[m] <= line THEN [active |-> m, low |-> m + 1, high |-> t.high] ELSE [t EXCEPT !.high = m - 1]
      BY Zenon, <1>1, <2>6
    <2> QED
      BY <2>2, <2>3, <2>5, <2>7
  <1>2. ASSUME NEW t \in Range1, t.low > t.high PROVE Halved(t) = t
    BY Zenon, <1>2
  <1>3. ASSUME NEW t \in Range1 PROVE Halved(t) \in Range1
    <2>1. t.low \in Int /\ t.high \in 0..N /\ t.active \in 1..N /\ t.low \in 1..(N + 1)
      OBVIOUS
    <2>2. CASE t.low > t.high
      BY Zenon, <1>2, <2>2
    <2>3. CASE t.low <= t.high
      <3>1. PICK m \in 1..N : Halved(t) = IF s[m] <= line THEN [active |-> m, low |-> m + 1, high |-> t.high]
                                         ELSE [active |-> t.active, low |-> t.low, high |-> m - 1]
        <4>1. (t.low + t.high) \div 2 \in Int
          BY <2>1
        <4> QED
          BY Zenon, <1>1, <2>3, <4>1
      <3> HIDE DEF Halved
      <3>2. m + 1 \in 1..(N + 1) /\ m - 1 \in 0..N
        OBVIOUS
      <3> QED
        BY <2>1, <3>1, <3>2
    <2> QED
      BY <2>1, <2>2, <2>3
  <1>4. search = [n \in 0..N |-> IF n = 0 THEN First1 ELSE Halved(search[n - 1])]
    <2> HIDE DEF Halved
    <2>1. PICK step : step = [t \in Range1 |-> Halved(t)]
      OBVIOUS
    <2>2. step \in [Range1 -> Range1] /\ First1 \in Range1
      BY <1>3, <2>1
    <2> HIDE DEF First1, Range1
    <2>3. PICK f \in [0..N -> Range1] : Repeated(f, N, First1, step)
      BY <2>2, Repeats
    <2>4. ASSUME NEW n \in 0..N PROVE f[n] = IF n = 0 THEN First1 ELSE Halved(f[n - 1])
      <3>1. n # 0 => n \in 1..N /\ n - 1 \in 0..N
        OBVIOUS
      <3> QED
        BY <2>1, <2>3, <3>1 DEF Repeated
    <2>5. f = [n \in 0..N |-> IF n = 0 THEN First1 ELSE Halved(f[n - 1])]
      BY <2>3, <2>4
    <2>6. search = CHOOSE g : g = [n \in 0..N |-> IF n = 0 THEN First1 ELSE Halved(g[n - 1])]
      BY Zenon DEF First1
    <2> HIDE DEF search
    <2> QED
      BY Zenon, <2>5, <2>6
  <1> HIDE DEF search
  <1>5. Between(First1, 0)
    <2>1. First1.active = 1 /\ First1.low = 1 /\ First1.high = N
      OBVIOUS
    <2> QED
      BY <2>1
  <1>6. ASSUME NEW n \in 0..(N - 1), NEW t, Between(t, n) PROVE Between(Halved(t), n + 1)
    <2>1. PICK a \in 1..N, l \in 1..(N + 1), h \in 0..N : t = [active |-> a, low |-> l, high |-> h]
      BY <1>6
    <2>2. t \in Range1 /\ t.low = l /\ t.high = h /\ t.active = a
      BY <2>1
    <2>3. /\ l <= h + 1
          /\ \A i \in 1..N : (i < l => s[i] <= line) /\ (i > h => s[i] > line)
          /\ a = IF l = 1 THEN 1 ELSE l - 1
          /\ l > h \/ h - l + 1 <= N - n
      BY <1>6, <2>2
    <2>4. CASE l > h
      <3>1. Halved(t) = t
        BY <1>2, <2>2, <2>4
      <3> HIDE DEF Halved
      <3> QED
        BY <1>6, <2>2, <2>4, <3>1
    <2>5. CASE l <= h
      <3>1. PICK m \in Int : /\ m \in l..h /\ m \in 1..N
                            /\ Halved(t) = IF s[m] <= line THEN [active |-> m, low |-> m + 1, high |-> h]
                                           ELSE [active |-> a, low |-> l, high |-> m - 1]
        <4>1. (t.low + t.high) \div 2 \in Int
          BY <2>2
        <4> QED
          BY Zenon, <1>1, <2>2, <2>5, <4>1
      <3> HIDE DEF Halved
      <3>2. CASE s[m] <= line
        <4>1. PICK u : u = Halved(t) /\ u = [active |-> m, low |-> m + 1, high |-> h]
          BY <3>1, <3>2
        <4>2. u \in Range1 /\ u.active = m /\ u.low = m + 1 /\ u.high = h
          BY <3>1, <4>1
        <4>3. ASSUME NEW i \in 1..N, i < m + 1 PROVE s[i] <= line
          <5>1. i = m \/ i < m
            BY <3>1, <4>3
          <5>2. s[i] \in Int /\ s[m] \in Int /\ (i < m => s[i] <= s[m])
            BY <3>1
          <5> QED
            BY <3>2, <5>1, <5>2
        <4>4. h - (m + 1) + 1 <= N - (n + 1) /\ m + 1 <= h + 1 /\ m + 1 # 1 /\ (m + 1) - 1 = m
          BY <2>3, <2>5, <3>1
        <4> QED
          BY <2>3, <4>1, <4>2, <4>3, <4>4
      <3>3. CASE ~(s[m] <= line)
        <4>1. PICK u : u = Halved(t) /\ u = [active |-> a, low |-> l, high |-> m - 1]
          BY <3>1, <3>3
        <4>2. u \in Range1 /\ u.active = a /\ u.low = l /\ u.high = m - 1
          BY <3>1, <4>1
        <4>3. ASSUME NEW i \in 1..N, i > m - 1 PROVE s[i] > line
          <5>1. i = m \/ m < i
            BY <3>1, <4>3
          <5>2. s[i] \in Int /\ s[m] \in Int /\ (m < i => s[m] <= s[i])
            BY <3>1
          <5> QED
            BY <3>3, <5>1, <5>2
        <4>4. (m - 1) - l + 1 <= N - (n + 1) /\ l <= (m - 1) + 1
          BY <2>3, <2>5, <3>1
        <4> QED
          BY <2>3, <4>1, <4>2, <4>3, <4>4
      <3> QED
        BY <3>2, <3>3
    <2> QED
      BY <2>4, <2>5
  <1>7. Between(search[N], N)
    <2> DEFINE Good == {n \in Nat : n <= N => Between(search[n], n)}
    <2> HIDE DEF Between, Halved, First1
    <2>1. search[0] = First1 /\ \A n \in 0..(N - 1) : search[n + 1] = Halved(search[n])
      <3>1. \A n \in 0..(N - 1) : n + 1 \in 0..N /\ n + 1 # 0 /\ (n + 1) - 1 = n
        OBVIOUS
      <3>2. 0 \in 0..N
        OBVIOUS
      <3> QED
        BY <1>4, <3>1, <3>2
    <2>2. 0 \in Good
      BY <1>5, <2>1
    <2>3. ASSUME NEW n \in Nat, n \in Good PROVE n + 1 \in Good
      <3> SUFFICES ASSUME n + 1 <= N PROVE Between(search[n + 1], n + 1)
        OBVIOUS
      <3>1. n \in 0..(N - 1) /\ Between(search[n], n)
        BY <2>3
      <3> QED
        BY Zenon, <1>6, <2>1, <3>1
    <2>4. N \in Good
      <3> HIDE DEF Good
      <3> QED
        BY <2>2, <2>3, Induct
    <2> QED
      BY <2>4
  <1>8. PICK t \in Range1 : t = search[N] /\ Between(t, N)
    BY <1>7
  <1>9. PICK l \in 1..(N + 1), h \in 0..N :
          l = t.low /\ h = t.high /\ l = h + 1 /\ \A i \in 1..N : i < l <=> s[i] <= line
    <2>1. PICK l \in 1..(N + 1), h \in 0..N : l = t.low /\ h = t.high
      OBVIOUS
    <2>2. l = h + 1
      BY <1>8, <2>1
    <2>3. ASSUME NEW i \in 1..N PROVE i < l <=> s[i] <= line
      <3>1. (i < l => s[i] <= line) /\ (i > h => s[i] > line) /\ s[i] \in Int
        BY <1>8, <2>1
      <3> QED
        BY <2>2, <3>1
    <2> QED
      BY <2>1, <2>2, <2>3
  <1>10. t.active = IF l = 1 THEN 1 ELSE l - 1
    BY <1>8, <1>9
  <1>11. above = 1..(l - 1)
    <2>1. \A i : i \in 1..(l - 1) <=> i \in 1..N /\ i < l
      OBVIOUS
    <2> QED
      BY <1>9, <2>1 DEF AtOrAbove
  <1>12. CASE l = 1
    <2>1. above = {}
      BY <1>11, <1>12
    <2> QED
      BY Zenon, <1>0, <1>8, <1>10, <1>12, <2>1
  <1>13. CASE l # 1
    <2>1. l - 1 \in above /\ \A i \in above : l - 1 >= i
      <3>1. l - 1 \in 1..(l - 1) /\ \A i \in 1..(l - 1) : l - 1 >= i
        BY <1>13
      <3> QED
        BY Zenon, <1>11, <3>1
    <2>2. Max(above) = l - 1
      <3>1. PICK x : x = Max(above)
        OBVIOUS
      <3>2. x \in above /\ \A i \in above : x >= i
        BY Zenon, <2>1, <3>1 DEF Max
      <3>3. x \in 1..(l - 1) /\ x >= l - 1
        BY Zenon, <1>11, <2>1, <3>2
      <3>4. x = l - 1
        BY <3>3
      <3> QED
        BY Zenon, <3>1, <3>4
    <2>3. above # {}
      BY <2>1
    <2> QED
      BY Zenon, <1>0, <1>8, <1>10, <1>13, <2>2, <2>3
  <1> QED
    BY <1>12, <1>13

LEMMA OffsetsSorted ==
  ASSUME PreviewMax \in Nat, NEW tops \in SUBSET (0..PreviewMax), tops # {}
  PROVE  LET s == SortedBy(SetToSeq(tops), {p \in tops \X tops : p[1] < p[2]})
         IN  /\ Len(s) \in Nat \ {0} /\ s \in [1..Len(s) -> Int]
             /\ \A i, j \in 1..Len(s) : i < j => s[i] <= s[j]
  <1>1. PICK R : R = {p \in tops \X tops : p[1] < p[2]}
    OBVIOUS
  <1>2. PICK q \in Seq(tops) : q = SetToSeq(tops) /\ ToSet(q) = tops
    <2>1. IsFiniteSet(tops)
      <3>1. IsFiniteSet(0..PreviewMax)
        BY FS_Interval
      <3> QED
        BY <3>1, FS_Subset
    <2> QED
      BY <2>1, OneOfEach
  <1>3. WeakOrder(R, ToSet(q))
    <2>1. \A a, b \in tops : (<<a, b>> \in R <=> a < b) /\ a \in Int
      BY <1>1
    <2>2. \A a \in tops : <<a, a>> \notin R
      BY <2>1
    <2>3. \A a, b, c \in tops : <<a, b>> \in R /\ <<b, c>> \in R => <<a, c>> \in R
      <3> TAKE a, b, c \in tops
      <3>1. a \in Int /\ b \in Int /\ c \in Int /\ (<<a, b>> \in R <=> a < b) /\ (<<b, c>> \in R <=> b < c) /\ (<<a, c>> \in R <=> a < c)
        BY Zenon, <2>1
      <3> QED
        BY <3>1
    <2>4. \A a, b, c \in tops : <<a, c>> \in R => <<a, b>> \in R \/ <<b, c>> \in R
      <3> TAKE a, b, c \in tops
      <3>1. a \in Int /\ b \in Int /\ c \in Int /\ (<<a, b>> \in R <=> a < b) /\ (<<b, c>> \in R <=> b < c) /\ (<<a, c>> \in R <=> a < c)
        BY Zenon, <2>1
      <3> QED
        BY <3>1
    <2>5. WeakOrder(R, tops)
      BY Zenon, <2>2, <2>3, <2>4 DEF WeakOrder
    <2> QED
      BY <1>2, <2>5
  <1>4. PICK s \in Seq(tops) : s = SortedBy(q, R) /\ Len(s) = Len(q) /\ \A m, n \in DOMAIN q : m < n => <<s[n], s[m]>> \notin R
    BY <1>2, <1>3, Sorts
  <1>5. PICK n \in Nat : n = Len(q) /\ n # 0 /\ DOMAIN q = 1..n /\ DOMAIN s = 1..n
    <2>1. q # <<>>
      BY <1>2 DEF ToSet
    <2> QED
      BY <1>4, <2>1
  <1>6. \A i \in 1..n : s[i] \in tops /\ s[i] \in Int
    <2> TAKE i \in 1..n
    <2>1. s[i] \in tops /\ tops \subseteq Int
      BY <1>5
    <2> QED
      BY <2>1
  <1>7. ASSUME NEW i \in 1..n, NEW j \in 1..n, i < j PROVE s[i] <= s[j]
    <2>1. <<s[j], s[i]>> \notin R
      BY <1>4, <1>5, <1>7
    <2>2. ~(s[j] < s[i])
      BY <1>1, <1>6, <2>1
    <2> QED
      BY <1>6, <2>2
  <1>8. s \in [1..n -> Int]
    BY <1>5, <1>6
  <1>9. n \in Nat \ {0} /\ Len(s) = n /\ s = SortedBy(SetToSeq(tops), {p \in tops \X tops : p[1] < p[2]})
    BY <1>1, <1>2, <1>4, <1>5
  <1> QED
    BY Zenon, <1>7, <1>8, <1>9

LEMMA ActiveHeadingFound == ASSUME PreviewMax \in Nat PROVE ActiveHeadingIsLast
  <1> SUFFICES ASSUME NEW tops \in SUBSET (0..PreviewMax), tops # {}, NEW o \in 0..(PreviewMax - 1)
               PROVE  LET s == SortedBy(SetToSeq(tops), {p \in tops \X tops : p[1] < p[2]})
                          above == {i \in DOMAIN s : s[i] <= o + 1} IN
                      activeHeadingForPreview(s, o) = IF above = {} THEN 1 ELSE Max(above)
    BY Zenon DEF ActiveHeadingIsLast
  <1>1. PICK s : s = SortedBy(SetToSeq(tops), {p \in tops \X tops : p[1] < p[2]})
    OBVIOUS
  <1>2. PICK n \in Nat \ {0} : n = Len(s) /\ s \in [1..n -> Int] /\ DOMAIN s = 1..n /\ \A i, j \in 1..n : i < j => s[i] <= s[j]
    <2>1. Len(s) \in Nat \ {0} /\ s \in [1..Len(s) -> Int] /\ \A i, j \in 1..Len(s) : i < j => s[i] <= s[j]
      BY Zenon, <1>1, OffsetsSorted
    <2> QED
      BY <2>1
  <1>3. o + 1 \in Int /\ o # PreviewMax
    OBVIOUS
  <1>4. LastAtOrAbove(s, o + 1) = IF AtOrAbove(s, n, o + 1) = {} THEN 1 ELSE Max(AtOrAbove(s, n, o + 1))
    BY Zenon, <1>2, <1>3, HeadingFound
  <1>5. activeHeadingForPreview(s, o) = LastAtOrAbove(s, o + 1)
    BY Zenon, <1>3 DEF activeHeadingForPreview
  <1> QED
    BY Zenon, <1>1, <1>2, <1>4, <1>5 DEF AtOrAbove

\* The pane that the reader scrolls leads and the other follows: no scroll that the
\* synchronisation caused comes back as one of the reader, no lock is left behind, and
\* the search marks the last heading above the line (useScrollSync.ts).
THEOREM ScrollFollowsTheReader ==
  ASSUME PreviewMax \in Nat
  PROVE  ScrollSpec => [](NoEcho /\ LocksAreReleased /\ ActiveHeadingIsLast)
  <1>1. ScrollInit => ScrollIInv
    BY ScrollBegins
  <1>2. ScrollIInv /\ [ScrollNext]_scrollVars => ScrollIInv'
    BY ScrollSteps
  <1>3. ScrollIInv => NoEcho /\ LocksAreReleased /\ ActiveHeadingIsLast
    BY ScrollFollows, ActiveHeadingFound
  <1> QED
    BY <1>1, <1>2, <1>3, PTL DEF ScrollSpec
==============================================================================
