----------------------------- MODULE FlowProofs -----------------------------
(***************************************************************************)
(* The flows that the browser and the server run together: a save and the  *)
(* embedding of what it saved, an import, the accounts and their sessions, *)
(* and the code blocks of a page.                                          *)
(***************************************************************************)
EXTENDS EmbeddingTx, EditorSession, ImportFlow, Account, CodeRuns, FiniteSetTheorems, SequenceTheorems, TLAPS

-----------------------------------------------------------------------------
(***************************************************************************)
(* What the committed embedding rows satisfy whatever the order of the     *)
(* statements, for any contents and any number of saves, deletes, claims   *)
(* and seedings. The inductive invariant says, for each transaction, what  *)
(* its uncommitted versions are worth: a transaction holds the rows it has *)
(* written, and what it has seen is the document or a past version of it.  *)
(***************************************************************************)

AnyRow == Doc \union Job \union Index \union Chunks \union {NoRow, Keep}
TxTypeOK ==
  /\ db \in [Tables -> AnyRow] /\ write \in [Txs -> [Tables -> AnyRow]]
  /\ snap \in [Txs -> AnyRow]
  /\ ran \in [save: Nat, delete: Nat, claim: Nat, seed: Nat]
  /\ TablesTypeOK

\* A transaction holds what it has written, and nothing before it begins.
Held == \A x \in Txs, t \in Tables : /\ write[x][t] # Keep => lock[t] = x
                                     /\ lock[t] = x => ~At(x, "idle")

\* The row is the document's, or that of a past version of it.
Past(row) == /\ row.revision <= db["doc"].revision
             /\ row.revision = db["doc"].revision => row.hash = db["doc"].hash
\* The row carries the document as another row shows it.
Carries(row, shown) == row.revision = shown.revision /\ row.hash = shown.hash

SaveInv ==
  ~At("save", "idle") =>
    /\ write["save"]["doc"] \in Doc /\ write["save"]["doc"].state = "normal"
    /\ write["save"]["doc"].revision = db["doc"].revision + 1 /\ db["doc"].state = "normal"
    /\ write["save"]["chunks"] = Keep
    /\ write["save"]["job"] # Keep =>
         write["save"]["job"] \in Job /\ Carries(write["save"]["job"], write["save"]["doc"])
    /\ write["save"]["index"] # Keep =>
         /\ write["save"]["index"] \in Index /\ Carries(write["save"]["index"], write["save"]["doc"])
         /\ db["index"] # NoRow /\ write["save"]["index"].hash = db["index"].hash

DeleteInv ==
  ~At("delete", "idle") =>
    /\ write["delete"]["doc"] \in Doc /\ write["delete"]["doc"].state = "deleted"
    /\ Carries(write["delete"]["doc"], db["doc"])
    /\ \A t \in Tables \ {"doc"} : write["delete"][t] \in {Keep, NoRow}

Replaces == {"chunks", "fkey", "index", "finish"}
CompleteInv ==
  ~At("complete", "idle") =>
    /\ claim # NoClaim /\ snap["complete"] \in Doc /\ Past(snap["complete"])
    /\ write["complete"]["doc"] = Keep
    /\ pc["complete"] \in {"lock job"} \union Replaces
    /\ pc["complete"] \in Replaces =>
         /\ write["complete"]["job"] \in Job /\ write["complete"]["job"].hash = claim.hash
         /\ snap["complete"].hash = claim.hash
    /\ pc["complete"] \in {"fkey", "index", "finish"} =>
         write["complete"]["chunks"] \in Chunks /\ write["complete"]["chunks"].hash = claim.hash
    /\ At("complete", "finish") =>
         write["complete"]["index"] \in Index /\ Carries(write["complete"]["index"], snap["complete"])

SeedInv ==
  ~At("seed", "idle") =>
    /\ snap["seed"] \in Doc /\ Past(snap["seed"])
    /\ \A t \in Tables \ {"job"} : write["seed"][t] = Keep
    /\ write["seed"]["job"] # Keep =>
         write["seed"]["job"] \in Job /\ Carries(write["seed"]["job"], snap["seed"])

\* While the document lives, its index row and its chunks come and go together.
Together ==
  db["doc"].state = "normal" =>
    /\ db["index"] = NoRow <=> db["chunks"] = NoRow
    /\ db["index"] # NoRow => db["index"].hash = db["chunks"].hash

TxIInv == TxTypeOK /\ Held /\ SaveInv /\ DeleteInv /\ CompleteInv /\ SeedInv /\ NeverAhead /\ Together
-----------------------------------------------------------------------------
(* Rows.                                                                   *)

LEMMA Rows ==
  /\ \A t \in Tables : RowOf(t) \subseteq AnyRow /\ Keep \notin RowOf(t)
  /\ RowOf("doc") = Doc /\ RowOf("job") = Job \union {NoRow}
  /\ RowOf("index") = Index \union {NoRow} /\ RowOf("chunks") = Chunks \union {NoRow}
  /\ NoRow \notin Doc \union Job \union Index \union Chunks
  BY MarkersAssumption DEF RowOf, AnyRow, Tables

LEMMA RowsMade ==
  ASSUME NEW h \in Hashes, NEW rev \in Nat, NEW n \in Nat
  PROVE  /\ \A state \in {"normal", "deleted"} : [state |-> state, hash |-> h, revision |-> rev] \in Doc
         /\ \A status \in {"pending", "running", "failed", "succeeded"} :
              [status |-> status, hash |-> h, revision |-> rev, token |-> n] \in Job
         /\ [hash |-> h, revision |-> rev] \in Index /\ [hash |-> h, batch |-> n] \in Chunks
  BY DEF Doc, Job, Index, Chunks

\* Rows that are changed stay rows, and keep what is not changed.
LEMMA DocChanged ==
  ASSUME NEW d \in Doc, NEW h \in Hashes, NEW rev \in Nat
  PROVE  /\ [d EXCEPT !.hash = h, !.revision = rev] \in Doc
         /\ [d EXCEPT !.hash = h, !.revision = rev].state = d.state
         /\ [d EXCEPT !.hash = h, !.revision = rev].revision = rev
         /\ [d EXCEPT !.hash = h, !.revision = rev].hash = h
         /\ [d EXCEPT !.state = "deleted"] \in Doc /\ [d EXCEPT !.state = "deleted"].state = "deleted"
         /\ Carries([d EXCEPT !.state = "deleted"], d)
  BY DEF Doc, Carries

LEMMA JobChanged ==
  ASSUME NEW j \in Job, NEW s \in {"pending", "running", "failed", "succeeded"}, NEW n \in Nat, NEW rev \in Nat
  PROVE  /\ [j EXCEPT !.status = s, !.token = n] \in Job
         /\ Carries([j EXCEPT !.status = s, !.token = n], j)
         /\ [j EXCEPT !.status = s, !.token = n, !.revision = rev] \in Job
         /\ [j EXCEPT !.status = s, !.token = n, !.revision = rev].hash = j.hash
         /\ [j EXCEPT !.status = s, !.token = n, !.revision = rev].revision = rev
         /\ [j EXCEPT !.revision = rev] \in Job /\ [j EXCEPT !.revision = rev].hash = j.hash
         /\ [j EXCEPT !.revision = rev].revision = rev
  BY DEF Job, Carries

LEMMA IndexChanged ==
  ASSUME NEW i \in Index, NEW rev \in Nat
  PROVE  /\ [i EXCEPT !.revision = rev] \in Index /\ [i EXCEPT !.revision = rev].hash = i.hash
         /\ [i EXCEPT !.revision = rev].revision = rev
  BY DEF Index

LEMMA EnqueuedCarries ==
  ASSUME NEW old \in Job \union {NoRow}, NEW d \in Doc
  PROVE  Enqueued(old, d.hash, d.revision) \in Job /\ Carries(Enqueued(old, d.hash, d.revision), d)
  <1>1. d.hash \in Hashes /\ d.revision \in Nat
    BY DEF Doc
  <1>2. CASE old # NoRow /\ old.hash = d.hash
    <2> DEFINE j == [old EXCEPT !.revision = d.revision]
    <2>1. j \in Job /\ j.hash = old.hash /\ j.revision = d.revision
      BY <1>1, <1>2 DEF Job
    <2>2. Enqueued(old, d.hash, d.revision) = j
      BY <1>2 DEF Enqueued
    <2> QED
      BY <1>2, <2>1, <2>2 DEF Carries
  <1>3. CASE ~(old # NoRow /\ old.hash = d.hash)
    BY <1>1, <1>3, RowsMade DEF Enqueued, Carries
  <1> QED
    BY <1>2, <1>3
-----------------------------------------------------------------------------
(* What a statement does to the rows, the locks and the place of its       *)
(* transaction.                                                            *)

LEMMA WritesMeans ==
  ASSUME TxTypeOK, NEW x \in Txs, NEW t \in Tables, NEW row \in RowOf(t), Writes(x, t, row)
  PROVE  /\ write' \in [Txs -> [Tables -> AnyRow]] /\ lock' \in [Tables -> Txs \union {NoTx}]
         /\ \A y \in Txs, u \in Tables : write'[y][u] = IF y = x /\ u = t THEN row ELSE write[y][u]
         /\ \A u \in Tables : lock'[u] = IF u = t THEN x ELSE lock[u]
         /\ lock[t] \in {NoTx, x}
         /\ \A y \in Txs, u \in Tables : write'[y][u] \in RowOf(u) \union {Keep}
  <1>1. write' = [write EXCEPT ![x] = [write[x] EXCEPT ![t] = row]] /\ row \in AnyRow
    BY Rows DEF Writes
  <1>2. write[x] \in [Tables -> AnyRow] /\ write \in [Txs -> [Tables -> AnyRow]]
    BY DEF TxTypeOK
  <1>3. \A y \in Txs, u \in Tables : write'[y][u] = IF y = x /\ u = t THEN row ELSE write[y][u]
    BY <1>1, <1>2
  <1>4. write' \in [Txs -> [Tables -> AnyRow]]
    BY <1>1, <1>2
  <1>5. \A y \in Txs, u \in Tables : write'[y][u] \in RowOf(u) \union {Keep}
    BY <1>3 DEF TxTypeOK, TablesTypeOK
  <1>6. /\ lock' \in [Tables -> Txs \union {NoTx}] /\ lock[t] \in {NoTx, x}
        /\ \A u \in Tables : lock'[u] = IF u = t THEN x ELSE lock[u]
    BY DEF Writes, TxTypeOK, TablesTypeOK
  <1> QED
    BY <1>3, <1>4, <1>5, <1>6

LEMMA EndsMeans ==
  ASSUME TxTypeOK, NEW x \in Txs, NEW versions \in [Tables -> AnyRow], Ends(x, versions),
         \A t \in Tables : versions[t] \in RowOf(t) \union {Keep}
  PROVE  /\ db' \in [Tables -> AnyRow] /\ \A t \in Tables : db'[t] \in RowOf(t)
         /\ \A t \in Tables : db'[t] = IF versions[t] # Keep THEN versions[t] ELSE db[t]
         /\ write' \in [Txs -> [Tables -> AnyRow]]
         /\ \A y \in Txs, t \in Tables : write'[y][t] = IF y = x THEN Keep ELSE write[y][t]
         /\ lock' \in [Tables -> Txs \union {NoTx}]
         /\ \A t \in Tables : lock'[t] = IF lock[t] = x THEN NoTx ELSE lock[t]
         /\ pc' \in [Txs -> Statements] /\ \A y \in Txs : pc'[y] = IF y = x THEN "idle" ELSE pc[y]
         /\ snap' \in [Txs -> AnyRow] /\ \A y \in Txs : y # x => snap'[y] = snap[y]
         /\ shared' \subseteq {"complete", "seed"}
         /\ \A y \in Txs, t \in Tables : write'[y][t] \in RowOf(t) \union {Keep}
  <1>1. \A t \in Tables : db[t] \in RowOf(t)
    BY DEF TxTypeOK, TablesTypeOK
  <1>2. /\ \A t \in Tables : db'[t] = IF versions[t] # Keep THEN versions[t] ELSE db[t]
        /\ (\A t \in Tables : db'[t] \in RowOf(t)) /\ db' \in [Tables -> AnyRow]
    <2>1. \A t \in Tables : (IF versions[t] # Keep THEN versions[t] ELSE db[t]) \in RowOf(t) \cap AnyRow
      BY <1>1, Rows
    <2> QED
      BY <2>1 DEF Ends
  <1>3. NothingWritten \in [Tables -> AnyRow] /\ \A t \in Tables : NothingWritten[t] = Keep
    BY DEF NothingWritten, AnyRow
  <1>4. /\ write' \in [Txs -> [Tables -> AnyRow]]
        /\ \A y \in Txs, t \in Tables : write'[y][t] = IF y = x THEN Keep ELSE write[y][t]
    <2>1. write' = [write EXCEPT ![x] = NothingWritten] /\ write \in [Txs -> [Tables -> AnyRow]]
      BY DEF Ends, TxTypeOK
    <2>2. \A y \in Txs : write'[y] = IF y = x THEN NothingWritten ELSE write[y]
      BY <2>1
    <2> QED
      BY <1>3, <2>1, <2>2
  <1>5. \A y \in Txs, t \in Tables : write'[y][t] \in RowOf(t) \union {Keep}
    BY <1>4 DEF TxTypeOK, TablesTypeOK
  <1>6. /\ lock' \in [Tables -> Txs \union {NoTx}]
        /\ \A t \in Tables : lock'[t] = IF lock[t] = x THEN NoTx ELSE lock[t]
    BY DEF Ends, TxTypeOK, TablesTypeOK
  <1>7. pc' \in [Txs -> Statements] /\ \A y \in Txs : pc'[y] = IF y = x THEN "idle" ELSE pc[y]
    BY DEF Ends, TxTypeOK, TablesTypeOK, Statements
  <1>8. snap' \in [Txs -> AnyRow] /\ \A y \in Txs : y # x => snap'[y] = snap[y]
    BY DEF Ends, TxTypeOK, AnyRow
  <1>9. shared' \subseteq {"complete", "seed"}
    BY DEF Ends, TxTypeOK, TablesTypeOK
  <1> QED
    BY <1>2, <1>4, <1>5, <1>6, <1>7, <1>8, <1>9

LEMMA GoesMeans ==
  ASSUME TxTypeOK, NEW x \in Txs, NEW s \in Statements, Goes(x, s)
  PROVE  pc' \in [Txs -> Statements] /\ \A y \in Txs : pc'[y] = IF y = x THEN s ELSE pc[y]
  BY DEF Goes, TxTypeOK, TablesTypeOK

LEMMA TxFacts ==
  ASSUME TxTypeOK
  PROVE  /\ db["doc"] \in Doc /\ db["doc"].hash \in Hashes /\ db["doc"].revision \in Nat
         /\ db["job"] # NoRow => db["job"] \in Job
         /\ db["index"] # NoRow => db["index"] \in Index
         /\ db["chunks"] # NoRow => db["chunks"] \in Chunks
         /\ \A x \in Txs : write[x] \in [Tables -> AnyRow]
         /\ \A x \in Txs, t \in Tables : write[x][t] \in RowOf(t) \union {Keep}
         /\ claim # NoClaim => claim.hash \in Hashes /\ claim.token \in Nat
  <1>1. \A t \in Tables : db[t] \in RowOf(t)
    BY DEF TxTypeOK, TablesTypeOK
  <1>2. db["doc"] \in Doc /\ (db["job"] # NoRow => db["job"] \in Job)
    BY <1>1, Rows DEF Tables
  <1>3. (db["index"] # NoRow => db["index"] \in Index) /\ (db["chunks"] # NoRow => db["chunks"] \in Chunks)
    BY <1>1, Rows DEF Tables
  <1>4. db["doc"].hash \in Hashes /\ db["doc"].revision \in Nat
    BY <1>2 DEF Doc
  <1>5. claim # NoClaim => claim.hash \in Hashes /\ claim.token \in Nat
    BY DEF TxTypeOK, TablesTypeOK
  <1>6. \A x \in Txs : write[x] \in [Tables -> AnyRow]
    BY DEF TxTypeOK
  <1>7. \A x \in Txs, t \in Tables : write[x][t] \in RowOf(t) \union {Keep}
    BY DEF TxTypeOK, TablesTypeOK
  <1> QED
    BY <1>2, <1>3, <1>4, <1>5, <1>6, <1>7
-----------------------------------------------------------------------------
(* A step of one transaction leaves the others what they rely on.          *)

\* The document's versions follow each other.
Grows == /\ db'["doc"].revision >= db["doc"].revision
         /\ db'["doc"].revision = db["doc"].revision => db'["doc"].hash = db["doc"].hash
         /\ db'["doc"] \in Doc
Untouched(x) == /\ pc'[x] = pc[x] /\ snap'[x] = snap[x]
                /\ \A t \in Tables : write'[x][t] = write[x][t]
\* Transaction x moves: it changes no row that another holds.
Moves(x) == /\ \A y \in Txs \ {x} : Untouched(y)
            /\ \A t \in Tables : lock[t] \in Txs \ {x} => db'[t] = db[t]
            /\ Grows

LEMMA PastStays ==
  ASSUME TxTypeOK, Grows, NEW row, row.revision \in Nat, Past(row) PROVE Past(row)'
  BY TxFacts DEF Grows, Past, Doc

LEMMA OthersStand ==
  ASSUME TxIInv, NEW x \in Txs, Moves(x), x = "complete" \/ claim' = claim
  PROVE  /\ x # "save" => SaveInv'
         /\ x # "delete" => DeleteInv'
         /\ x # "complete" => CompleteInv'
         /\ x # "seed" => SeedInv'
  <1>1. \A y \in Txs \ {x}, t \in Tables : write[y][t] # Keep => db'[t] = db[t]
    BY DEF TxIInv, Held, Moves
  <1>2. \A y \in Txs \ {x} : Untouched(y)
    BY DEF Moves
  <1>3. Tables = {"doc", "job", "index", "chunks"} /\ Txs = {"save", "delete", "complete", "seed"}
    BY DEF Tables, Txs
  <1>4. Keep \notin Doc \union Job \union Index \union Chunks
    BY MarkersAssumption
  <1>5. \A d \in Doc : d.revision \in Nat
    BY DEF Doc
  <1>6. ASSUME x # "save" PROVE SaveInv'
    <2> SUFFICES ASSUME ~At("save", "idle")' PROVE SaveInv'
      BY DEF SaveInv
    <2>1. Untouched("save") /\ ~At("save", "idle")
      BY <1>2, <1>3, <1>6 DEF Untouched, At
    <2>2. \A t \in Tables : write'["save"][t] = write["save"][t]
      BY <2>1 DEF Untouched
    <2>3. db'["doc"] = db["doc"] /\ (write["save"]["index"] # Keep => db'["index"] = db["index"])
      BY <1>1, <1>3, <1>4, <1>6, <2>1 DEF TxIInv, SaveInv
    <2> QED
      BY <1>3, <2>1, <2>2, <2>3 DEF TxIInv, SaveInv, Carries
  <1>7. ASSUME x # "delete" PROVE DeleteInv'
    <2> SUFFICES ASSUME ~At("delete", "idle")' PROVE DeleteInv'
      BY DEF DeleteInv
    <2>1. Untouched("delete") /\ ~At("delete", "idle")
      BY <1>2, <1>3, <1>7 DEF Untouched, At
    <2>2. \A t \in Tables : write'["delete"][t] = write["delete"][t]
      BY <2>1 DEF Untouched
    <2>3. db'["doc"] = db["doc"]
      BY <1>1, <1>3, <1>4, <1>7, <2>1 DEF TxIInv, DeleteInv
    <2> QED
      BY <1>3, <2>1, <2>2, <2>3 DEF TxIInv, DeleteInv, Carries
  <1>8. ASSUME x # "complete" PROVE CompleteInv'
    <2> SUFFICES ASSUME ~At("complete", "idle")' PROVE CompleteInv'
      BY DEF CompleteInv
    <2>1. Untouched("complete") /\ ~At("complete", "idle") /\ claim' = claim
      BY <1>2, <1>3, <1>8 DEF Untouched, At
    <2>2. (\A t \in Tables : write'["complete"][t] = write["complete"][t]) /\ pc'["complete"] = pc["complete"]
          /\ snap'["complete"] = snap["complete"]
      BY <2>1 DEF Untouched
    <2>3. Past(snap["complete"])' 
      BY <1>5, <2>1, <2>2, PastStays DEF TxIInv, CompleteInv, Moves, Past
    <2> QED
      BY <1>3, <2>1, <2>2, <2>3 DEF TxIInv, CompleteInv, Carries, At
  <1>9. ASSUME x # "seed" PROVE SeedInv'
    <2> SUFFICES ASSUME ~At("seed", "idle")' PROVE SeedInv'
      BY DEF SeedInv
    <2>1. Untouched("seed") /\ ~At("seed", "idle")
      BY <1>2, <1>3, <1>9 DEF Untouched, At
    <2>2. (\A t \in Tables : write'["seed"][t] = write["seed"][t]) /\ snap'["seed"] = snap["seed"]
      BY <2>1 DEF Untouched
    <2>3. Past(snap["seed"])'
      BY <1>5, <2>1, <2>2, PastStays DEF TxIInv, SeedInv, Moves, Past
    <2> QED
      BY <1>3, <2>1, <2>2, <2>3 DEF TxIInv, SeedInv, Carries
  <1> QED
    BY <1>6, <1>7, <1>8, <1>9

\* Nothing is committed: what holds of the committed rows still holds.
LEMMA NothingCommitted ==
  ASSUME TxIInv, UNCHANGED db PROVE NeverAhead' /\ Together' /\ Grows /\ \A row : Past(row)' <=> Past(row)
  <1>1. NeverAhead' /\ Together'
    BY DEF TxIInv, NeverAhead, Together
  <1>2. Grows
    BY TxFacts DEF TxIInv, Grows, Doc
  <1>3. \A row : Past(row)' <=> Past(row)
    BY DEF Past
  <1> QED
    BY <1>1, <1>2, <1>3
-----------------------------------------------------------------------------
(* The three kinds of steps of a transaction.                              *)

Counts == ran' \in [save: Nat, delete: Nat, claim: Nat, seed: Nat]
ClaimTyped == claim' = NoClaim \/ claim' \in [hash: Hashes, token: Nat]

\* A statement writes a row.
LEMMA WritingStep ==
  ASSUME TxIInv, NEW x \in Txs, NEW t \in Tables, NEW row \in RowOf(t), Writes(x, t, row),
         NEW s \in Statements \ {"idle"}, Goes(x, s), UNCHANGED <<db, snap, shared, gen, claim>>, Counts
  PROVE  /\ TxTypeOK' /\ Held' /\ Moves(x) /\ NeverAhead' /\ Together' /\ pc'[x] = s
         /\ \A row2 : Past(row2)' <=> Past(row2)
         /\ \A u \in Tables : write'[x][u] = IF u = t THEN row ELSE write[x][u]
  <1>1. /\ write' \in [Txs -> [Tables -> AnyRow]] /\ lock' \in [Tables -> Txs \union {NoTx}]
        /\ \A y \in Txs, u \in Tables : write'[y][u] = IF y = x /\ u = t THEN row ELSE write[y][u]
        /\ \A u \in Tables : lock'[u] = IF u = t THEN x ELSE lock[u]
        /\ lock[t] \in {NoTx, x}
        /\ \A y \in Txs, u \in Tables : write'[y][u] \in RowOf(u) \union {Keep}
    BY WritesMeans DEF TxIInv
  <1>2. pc' \in [Txs -> Statements] /\ \A y \in Txs : pc'[y] = IF y = x THEN s ELSE pc[y]
    BY GoesMeans DEF TxIInv
  <1>3. TxTypeOK'
    BY <1>1, <1>2 DEF TxIInv, TxTypeOK, TablesTypeOK, Counts
  <1>4. Held'
    <2>1. NoTx \notin Txs
      BY MarkersAssumption
    <2> QED
      BY <1>1, <1>2, <2>1 DEF TxIInv, Held, At
  <1>5. NeverAhead' /\ Together' /\ Grows /\ \A row2 : Past(row2)' <=> Past(row2)
    BY NothingCommitted
  <1>6. Moves(x)
    BY <1>1, <1>2, <1>5 DEF Moves, Untouched
  <1> QED
    BY <1>1, <1>2, <1>3, <1>4, <1>5, <1>6

\* A statement looks at rows, or waits for its turn to write.
LEMMA LookingStep ==
  ASSUME TxIInv, NEW x \in Txs, NEW s \in Statements, s = "idle" => At(x, "idle"), Goes(x, s),
         UNCHANGED <<db, lock, write, gen, claim>>, Counts, shared' \subseteq {"complete", "seed"},
         snap' \in [Txs -> AnyRow], \A y \in Txs \ {x} : snap'[y] = snap[y]
  PROVE  /\ TxTypeOK' /\ Held' /\ Moves(x) /\ NeverAhead' /\ Together' /\ pc'[x] = s
         /\ \A row : Past(row)' <=> Past(row)
  <1>1. pc' \in [Txs -> Statements] /\ \A y \in Txs : pc'[y] = IF y = x THEN s ELSE pc[y]
    BY GoesMeans DEF TxIInv
  <1>2. TxTypeOK'
    BY <1>1 DEF TxIInv, TxTypeOK, TablesTypeOK, Counts
  <1>3. Held'
    BY <1>1 DEF TxIInv, Held, At
  <1>4. NeverAhead' /\ Together' /\ Grows /\ \A row : Past(row)' <=> Past(row)
    BY NothingCommitted
  <1>5. Moves(x)
    BY <1>1, <1>4 DEF Moves, Untouched
  <1> QED
    BY <1>1, <1>2, <1>3, <1>4, <1>5

\* A transaction commits or rolls back.
LEMMA EndingStep ==
  ASSUME TxIInv, NEW x \in Txs, NEW versions \in [Tables -> AnyRow], Ends(x, versions),
         \A t \in Tables : versions[t] \in RowOf(t) \union {Keep} /\ (versions[t] # Keep => lock[t] = x),
         versions["doc"] # Keep =>
           /\ versions["doc"].revision >= db["doc"].revision
           /\ versions["doc"].revision = db["doc"].revision => versions["doc"].hash = db["doc"].hash,
         UNCHANGED <<gen, ran>>, ClaimTyped
  PROVE  /\ TxTypeOK' /\ Held' /\ Moves(x) /\ pc'[x] = "idle"
         /\ \A t \in Tables : db'[t] = IF versions[t] # Keep THEN versions[t] ELSE db[t]
  <1>1. /\ db' \in [Tables -> AnyRow] /\ \A t \in Tables : db'[t] \in RowOf(t)
        /\ \A t \in Tables : db'[t] = IF versions[t] # Keep THEN versions[t] ELSE db[t]
        /\ write' \in [Txs -> [Tables -> AnyRow]]
        /\ \A y \in Txs, t \in Tables : write'[y][t] = IF y = x THEN Keep ELSE write[y][t]
        /\ lock' \in [Tables -> Txs \union {NoTx}]
        /\ \A t \in Tables : lock'[t] = IF lock[t] = x THEN NoTx ELSE lock[t]
        /\ pc' \in [Txs -> Statements] /\ \A y \in Txs : pc'[y] = IF y = x THEN "idle" ELSE pc[y]
        /\ snap' \in [Txs -> AnyRow] /\ \A y \in Txs : y # x => snap'[y] = snap[y]
        /\ shared' \subseteq {"complete", "seed"}
        /\ \A y \in Txs, t \in Tables : write'[y][t] \in RowOf(t) \union {Keep}
    BY EndsMeans DEF TxIInv
  <1>2. TxTypeOK'
    BY <1>1 DEF TxIInv, TxTypeOK, TablesTypeOK, ClaimTyped
  <1>3. Held'
    <2>1. NoTx \notin Txs
      BY MarkersAssumption
    <2> QED
      BY <1>1, <2>1 DEF TxIInv, Held, At
  <1>4. Grows
    <2>1. "doc" \in Tables /\ db'["doc"] \in Doc
      BY <1>1, Rows DEF Tables
    <2>2. db["doc"].revision \in Nat
      BY TxFacts DEF TxIInv
    <2>3. db'["doc"] = IF versions["doc"] # Keep THEN versions["doc"] ELSE db["doc"]
      BY <1>1, <2>1
    <2> QED
      BY <2>1, <2>2, <2>3 DEF Grows
  <1>5. Moves(x)
    <2>1. \A t \in Tables : lock[t] \in Txs \ {x} => db'[t] = db[t]
      BY <1>1
    <2> QED
      BY <1>1, <1>4, <2>1 DEF Moves, Untouched
  <1> QED
    BY <1>1, <1>2, <1>3, <1>5

\* What a rollback leaves.
LEMMA RollbackStep ==
  ASSUME TxIInv, NEW x \in Txs, RollsBack(x), UNCHANGED <<gen, ran>>, ClaimTyped, x = "complete" \/ claim' = claim
  PROVE  TxIInv'
  <1>1. NothingWritten \in [Tables -> AnyRow] /\ \A t \in Tables : NothingWritten[t] = Keep
    BY DEF NothingWritten, AnyRow
  <1>2. /\ TxTypeOK' /\ Held' /\ Moves(x) /\ pc'[x] = "idle"
        /\ \A t \in Tables : db'[t] = IF NothingWritten[t] # Keep THEN NothingWritten[t] ELSE db[t]
    <2>1. "doc" \in Tables
      BY DEF Tables
    <2>2. Ends(x, NothingWritten)
      BY DEF RollsBack
    <2> QED
      BY <1>1, <2>1, <2>2, EndingStep
  <1>3. \A t \in Tables : db'[t] = db[t]
    BY <1>1, <1>2
  <1>4. NeverAhead' /\ Together'
    BY <1>3 DEF TxIInv, NeverAhead, Together, Tables
  <1>5. /\ x # "save" => SaveInv'
        /\ x # "delete" => DeleteInv'
        /\ x # "complete" => CompleteInv'
        /\ x # "seed" => SeedInv'
    BY <1>2, OthersStand
  <1>6. /\ x = "save" => SaveInv'
        /\ x = "delete" => DeleteInv'
        /\ x = "complete" => CompleteInv'
        /\ x = "seed" => SeedInv'
    BY <1>2 DEF SaveInv, DeleteInv, CompleteInv, SeedInv, At
  <1> QED
    BY <1>2, <1>4, <1>5, <1>6 DEF TxIInv
-----------------------------------------------------------------------------
(* The save.                                                               *)

LEMMA Names ==
  /\ Tables = {"doc", "job", "index", "chunks"} /\ Txs = {"save", "delete", "complete", "seed"}
  /\ Keep \notin Doc \union Job \union Index \union Chunks \union {NoRow}
  BY MarkersAssumption DEF Tables, Txs

LEMMA SaveBeginsStep == ASSUME TxIInv, NEW h \in Hashes, SaveBegins(h) PROVE TxIInv'
  <1> DEFINE r == db["doc"].revision + 1
             d == [db["doc"] EXCEPT !.hash = h, !.revision = r]
  <1>1. db["doc"] \in Doc /\ r \in Nat /\ db["doc"].state = "normal"
    BY TxFacts DEF TxIInv, SaveBegins
  <1>2. d \in Doc /\ d.state = "normal" /\ d.revision = db["doc"].revision + 1
    <2> HIDE DEF r
    <2>1. d \in Doc /\ d.state = db["doc"].state /\ d.revision = r
      BY <1>1 DEF Doc
    <2> QED
      BY <1>1, <2>1 DEF r
  <1>3. /\ Writes("save", "doc", d) /\ Goes("save", "enqueue") /\ UNCHANGED <<db, snap, shared, gen, claim>>
        /\ ran' = [ran EXCEPT !.save = @ + 1] /\ At("save", "idle")
    BY DEF SaveBegins
  <1> HIDE DEF d
  <1>4. Counts
    BY <1>3 DEF Counts, TxIInv, TxTypeOK
  <1>5. /\ TxTypeOK' /\ Held' /\ Moves("save") /\ NeverAhead' /\ Together' /\ pc'["save"] = "enqueue"
        /\ \A u \in Tables : write'["save"][u] = IF u = "doc" THEN d ELSE write["save"][u]
    <2>1. "save" \in Txs /\ "doc" \in Tables /\ d \in RowOf("doc") /\ "enqueue" \in Statements \ {"idle"}
      BY <1>2, Names, Rows DEF Statements
    <2> QED
      BY <1>3, <1>4, <2>1, WritingStep
  <1>6. \A t \in Tables : write["save"][t] = Keep
    BY <1>3, Names DEF TxIInv, Held
  <1>7. SaveInv'
    <2>1. /\ write'["save"]["doc"] = d /\ write'["save"]["job"] = Keep
          /\ write'["save"]["index"] = Keep /\ write'["save"]["chunks"] = Keep
      BY <1>5, <1>6, Names
    <2> QED
      BY <1>1, <1>2, <1>3, <2>1 DEF SaveInv
  <1> QED
    BY <1>3, <1>5, <1>7, OthersStand, Names DEF TxIInv

LEMMA SaveEnqueuesStep == ASSUME TxIInv, SaveEnqueues PROVE TxIInv'
  <1> DEFINE s == IF gen = "building" THEN "upsert" ELSE "commit"
  <1>1. At("save", "enqueue") /\ Goes("save", s) /\ UNCHANGED <<db, lock, write, snap, shared, gen, claim, ran>>
    BY DEF SaveEnqueues
  <1>2. s \in Statements /\ s # "idle"
    BY DEF Statements
  <1> HIDE DEF s
  <1>3. Counts /\ shared' \subseteq {"complete", "seed"} /\ snap' \in [Txs -> AnyRow] /\ snap' = snap
    BY <1>1 DEF Counts, TxIInv, TxTypeOK, TablesTypeOK
  <1>4. TxTypeOK' /\ Held' /\ Moves("save") /\ NeverAhead' /\ Together' /\ pc'["save"] = s
    BY <1>1, <1>2, <1>3, LookingStep, Names
  <1>5. ~At("save", "idle")
    BY <1>1 DEF At
  <1>6. SaveInv'
    BY <1>1, <1>5 DEF TxIInv, SaveInv
  <1> QED
    BY <1>1, <1>4, <1>6, OthersStand, Names DEF TxIInv

LEMMA SaveUpsertsStep == ASSUME TxIInv, SaveUpserts PROVE TxIInv'
  <1> DEFINE d == write["save"]["doc"]
             j == Enqueued(db["job"], d.hash, d.revision)
  <1>1. At("save", "upsert") /\ ~At("save", "idle")
    BY DEF SaveUpserts, At
  <1>2. d \in Doc
    BY <1>1 DEF TxIInv, SaveInv
  <1>3. j \in Job /\ Carries(j, d)
    BY <1>2, EnqueuedCarries, TxFacts DEF TxIInv
  <1>4. Writes("save", "job", j) /\ Goes("save", "index") /\ UNCHANGED <<db, snap, shared, gen, claim, ran>>
    BY DEF SaveUpserts
  <1> HIDE DEF d, j
  <1>5. Counts
    BY <1>4 DEF Counts, TxIInv, TxTypeOK
  <1>6. /\ TxTypeOK' /\ Held' /\ Moves("save") /\ NeverAhead' /\ Together' /\ pc'["save"] = "index"
        /\ \A u \in Tables : write'["save"][u] = IF u = "job" THEN j ELSE write["save"][u]
    <2>1. "save" \in Txs /\ "job" \in Tables /\ j \in RowOf("job") /\ "index" \in Statements \ {"idle"}
      BY <1>3, Names, Rows DEF Statements
    <2> QED
      BY <1>4, <1>5, <2>1, WritingStep
  <1>7. SaveInv'
    BY <1>1, <1>3, <1>4, <1>6, Names DEF TxIInv, SaveInv, d
  <1> QED
    BY <1>4, <1>6, <1>7, OthersStand, Names DEF TxIInv

LEMMA SaveUpdatesIndexStep == ASSUME TxIInv, SaveUpdatesIndex PROVE TxIInv'
  <1> DEFINE d == write["save"]["doc"]
             i == [db["index"] EXCEPT !.revision = d.revision]
  <1>1. At("save", "index") /\ ~At("save", "idle")
    BY DEF SaveUpdatesIndex, At
  <1>2. d \in Doc /\ d.revision \in Nat
    BY <1>1 DEF TxIInv, SaveInv, Doc
  <1>3. UNCHANGED <<db, snap, shared, gen, claim, ran>> /\ Goes("save", "commit")
    BY DEF SaveUpdatesIndex
  <1>4. Counts /\ shared' \subseteq {"complete", "seed"} /\ snap' \in [Txs -> AnyRow] /\ snap' = snap
    BY <1>3 DEF Counts, TxIInv, TxTypeOK, TablesTypeOK
  <1>5. CASE db["index"] # NoRow /\ db["index"].hash = d.hash
    <2>1. i \in Index /\ i.hash = db["index"].hash /\ i.revision = d.revision
      BY <1>2, <1>5, IndexChanged, TxFacts DEF TxIInv
    <2>2. Writes("save", "index", i)
      BY <1>5 DEF SaveUpdatesIndex
    <2> HIDE DEF d, i
    <2>3. /\ TxTypeOK' /\ Held' /\ Moves("save") /\ NeverAhead' /\ Together' /\ pc'["save"] = "commit"
          /\ \A u \in Tables : write'["save"][u] = IF u = "index" THEN i ELSE write["save"][u]
      <3>1. "save" \in Txs /\ "index" \in Tables /\ i \in RowOf("index") /\ "commit" \in Statements \ {"idle"}
        BY <2>1, Names, Rows DEF Statements
      <3> QED
        BY <1>3, <1>4, <2>2, <3>1, WritingStep
    <2>4. SaveInv'
      BY <1>1, <1>3, <1>5, <2>1, <2>3, Names DEF TxIInv, SaveInv, Carries, d
    <2> QED
      BY <1>3, <2>3, <2>4, OthersStand, Names DEF TxIInv
  <1>6. CASE ~(db["index"] # NoRow /\ db["index"].hash = d.hash)
    <2>1. UNCHANGED <<lock, write>>
      BY <1>6 DEF SaveUpdatesIndex
    <2>2. TxTypeOK' /\ Held' /\ Moves("save") /\ NeverAhead' /\ Together'
      BY <1>3, <1>4, <2>1, LookingStep, Names DEF Statements
    <2>3. SaveInv'
      BY <1>1, <1>3, <2>1 DEF TxIInv, SaveInv
    <2> QED
      BY <1>3, <2>2, <2>3, OthersStand, Names DEF TxIInv
  <1> QED
    BY <1>5, <1>6

LEMMA SaveCommitsStep == ASSUME TxIInv, SaveCommits PROVE TxIInv'
  <1> DEFINE v == write["save"]
  <1>1. /\ ~At("save", "idle") /\ Ends("save", v) /\ UNCHANGED <<gen, claim, ran>>
    BY DEF SaveCommits, Commits, At
  <1>2. /\ v["doc"] \in Doc /\ v["doc"].state = "normal"
        /\ v["doc"].revision = db["doc"].revision + 1 /\ db["doc"].state = "normal"
        /\ v["chunks"] = Keep
        /\ v["job"] # Keep => v["job"] \in Job /\ Carries(v["job"], v["doc"])
        /\ v["index"] # Keep => /\ v["index"] \in Index /\ Carries(v["index"], v["doc"])
                                /\ db["index"] # NoRow /\ v["index"].hash = db["index"].hash
    BY <1>1 DEF TxIInv, SaveInv
  <1>3. /\ v \in [Tables -> AnyRow]
        /\ \A t \in Tables : v[t] \in RowOf(t) \union {Keep}
    BY TxFacts, Names DEF TxIInv
  <1>4. \A t \in Tables : v[t] # Keep => lock[t] = "save"
    BY Names DEF TxIInv, Held
  <1>5. ClaimTyped
    BY <1>1 DEF ClaimTyped, TxIInv, TxTypeOK, TablesTypeOK
  <1>6. db["doc"].revision \in Nat
    BY TxFacts DEF TxIInv
  <1> HIDE DEF v
  <1>7. /\ TxTypeOK' /\ Held' /\ Moves("save") /\ pc'["save"] = "idle"
        /\ \A t \in Tables : db'[t] = IF v[t] # Keep THEN v[t] ELSE db[t]
    BY <1>1, <1>2, <1>3, <1>4, <1>5, <1>6, EndingStep, Names
  <1>8. /\ db'["doc"] = v["doc"] /\ db'["chunks"] = db["chunks"]
        /\ db'["job"] = IF v["job"] # Keep THEN v["job"] ELSE db["job"]
        /\ db'["index"] = IF v["index"] # Keep THEN v["index"] ELSE db["index"]
    BY <1>2, <1>7, Names
  <1>9. NeverAhead'
    <2>1. (db["job"] # NoRow => db["job"].revision <= db["doc"].revision /\ db["job"].revision \in Nat)
          /\ (db["index"] # NoRow => db["index"].revision <= db["doc"].revision /\ db["index"].revision \in Nat)
      BY TxFacts DEF TxIInv, NeverAhead, Job, Index
    <2>2. db'["doc"].revision = db["doc"].revision + 1
      BY <1>2, <1>8
    <2>3. \A t \in {"job", "index"} : db'[t] # NoRow =>
            \/ db'[t].revision = db'["doc"].revision /\ db'[t].hash = db'["doc"].hash
            \/ db'[t].revision <= db["doc"].revision /\ db'[t].revision \in Nat
      BY <1>2, <1>8, <2>1 DEF Carries
    <2>4. \A t \in {"job", "index"} : db'[t] # NoRow =>
            /\ db'[t].revision <= db'["doc"].revision
            /\ db'[t].revision = db'["doc"].revision => db'[t].hash = db'["doc"].hash
      BY <1>6, <2>2, <2>3
    <2> QED
      BY <2>4 DEF NeverAhead
  <1>10. Together'
    <2>1. NoRow \notin Index
      BY Rows
    <2> QED
      BY <1>2, <1>8, <2>1 DEF TxIInv, Together
  <1>11. SaveInv'
    BY <1>7 DEF SaveInv, At
  <1> QED
    BY <1>1, <1>7, <1>9, <1>10, <1>11, OthersStand, Names DEF TxIInv
-----------------------------------------------------------------------------
(* The delete.                                                             *)

LEMMA DeleteBeginsStep == ASSUME TxIInv, DeleteBegins PROVE TxIInv'
  <1> DEFINE d == [db["doc"] EXCEPT !.state = "deleted"]
  <1>1. db["doc"] \in Doc
    BY TxFacts DEF TxIInv
  <1>2. d \in Doc /\ d.state = "deleted" /\ Carries(d, db["doc"])
    BY <1>1 DEF Doc, Carries
  <1>3. /\ Writes("delete", "doc", d) /\ Goes("delete", "chunks") /\ UNCHANGED <<db, snap, shared, gen, claim>>
        /\ ran' = [ran EXCEPT !.delete = @ + 1] /\ At("delete", "idle")
    BY DEF DeleteBegins
  <1> HIDE DEF d
  <1>4. Counts
    BY <1>3 DEF Counts, TxIInv, TxTypeOK
  <1>5. /\ TxTypeOK' /\ Held' /\ Moves("delete") /\ NeverAhead' /\ Together'
        /\ \A u \in Tables : write'["delete"][u] = IF u = "doc" THEN d ELSE write["delete"][u]
    <2>1. "delete" \in Txs /\ "doc" \in Tables /\ d \in RowOf("doc") /\ "chunks" \in Statements \ {"idle"}
      BY <1>2, Names, Rows DEF Statements
    <2> QED
      BY <1>3, <1>4, <2>1, WritingStep
  <1>6. \A t \in Tables : write["delete"][t] = Keep
    BY <1>3, Names DEF TxIInv, Held
  <1>7. DeleteInv'
    <2>1. write'["delete"]["doc"] = d /\ \A t \in Tables \ {"doc"} : write'["delete"][t] = Keep
      BY <1>5, <1>6, Names
    <2> QED
      BY <1>2, <1>3, <2>1 DEF DeleteInv, Carries
  <1> QED
    BY <1>3, <1>5, <1>7, OthersStand, Names DEF TxIInv

\* The delete looks for rows of a table.
LEMMA DeleteLooksStep ==
  ASSUME TxIInv, ~At("delete", "idle"), NEW s \in Statements, Goes("delete", s), s # "idle",
         UNCHANGED <<db, lock, write, shared, gen, claim, ran>>,
         snap' \in [Txs -> AnyRow], \A y \in Txs \ {"delete"} : snap'[y] = snap[y]
  PROVE  TxIInv'
  <1>1. Counts /\ shared' \subseteq {"complete", "seed"}
    BY DEF Counts, TxIInv, TxTypeOK, TablesTypeOK
  <1>2. TxTypeOK' /\ Held' /\ Moves("delete") /\ NeverAhead' /\ Together'
    BY <1>1, LookingStep, Names
  <1>3. DeleteInv'
    BY DEF TxIInv, DeleteInv, Carries
  <1> QED
    BY <1>2, <1>3, OthersStand, Names DEF TxIInv

LEMMA DeleteSelectsStep ==
  ASSUME TxIInv, NEW t \in Tables, t \in Statements \ {"idle"}, NEW onRow \in Statements \ {"idle"},
         NEW next \in Statements \ {"idle"}, DeleteSelects(t, onRow, next)
  PROVE  TxIInv'
  <1> DEFINE s == IF db[t] = NoRow THEN next ELSE onRow
  <1>1. /\ ~At("delete", "idle") /\ Goes("delete", s) /\ snap' = [snap EXCEPT !["delete"] = db[t]]
        /\ UNCHANGED <<db, lock, write, shared, gen, claim, ran>>
    BY DEF DeleteSelects, At
  <1>2. s \in Statements /\ s # "idle"
    OBVIOUS
  <1>3. snap' \in [Txs -> AnyRow] /\ \A y \in Txs \ {"delete"} : snap'[y] = snap[y]
    BY <1>1 DEF TxIInv, TxTypeOK
  <1> HIDE DEF s
  <1> QED
    BY <1>1, <1>2, <1>3, DeleteLooksStep

LEMMA DeletesRowStep ==
  ASSUME TxIInv, ~At("delete", "idle"), NEW t \in Tables \ {"doc"}, NEW next \in Statements \ {"idle"},
         DeletesRow(t, next)
  PROVE  TxIInv'
  <1>1. Writes("delete", t, NoRow) /\ Goes("delete", next) /\ UNCHANGED <<db, snap, shared, gen, claim, ran>>
    BY DEF DeletesRow
  <1>2. "delete" \in Txs /\ t \in Tables /\ NoRow \in RowOf(t)
    BY Names, Rows
  <1>3. Counts
    BY <1>1 DEF Counts, TxIInv, TxTypeOK
  <1>4. /\ TxTypeOK' /\ Held' /\ Moves("delete") /\ NeverAhead' /\ Together'
        /\ \A u \in Tables : write'["delete"][u] = IF u = t THEN NoRow ELSE write["delete"][u]
    BY <1>1, <1>2, <1>3, WritingStep
  <1>5. DeleteInv'
    BY <1>1, <1>4, Names DEF TxIInv, DeleteInv, Carries
  <1> QED
    BY <1>1, <1>4, <1>5, OthersStand, Names DEF TxIInv

LEMMA DeleteCommitsStep == ASSUME TxIInv, DeleteCommits PROVE TxIInv'
  <1> DEFINE v == write["delete"]
  <1>1. ~At("delete", "idle") /\ Ends("delete", v) /\ UNCHANGED <<gen, claim, ran>>
    BY DEF DeleteCommits, Commits, At
  <1>2. /\ v["doc"] \in Doc /\ v["doc"].state = "deleted" /\ Carries(v["doc"], db["doc"])
        /\ \A t \in Tables \ {"doc"} : v[t] \in {Keep, NoRow}
    BY <1>1 DEF TxIInv, DeleteInv
  <1>3. v \in [Tables -> AnyRow] /\ \A t \in Tables : v[t] \in RowOf(t) \union {Keep}
    BY TxFacts, Names DEF TxIInv
  <1>4. \A t \in Tables : v[t] # Keep => lock[t] = "delete"
    BY Names DEF TxIInv, Held
  <1>5. ClaimTyped /\ db["doc"].revision \in Nat
    BY <1>1, TxFacts DEF ClaimTyped, TxIInv, TxTypeOK, TablesTypeOK
  <1> HIDE DEF v
  <1>6. /\ TxTypeOK' /\ Held' /\ Moves("delete") /\ pc'["delete"] = "idle"
        /\ \A t \in Tables : db'[t] = IF v[t] # Keep THEN v[t] ELSE db[t]
    <2>1. v["doc"].revision >= db["doc"].revision /\ v["doc"].hash = db["doc"].hash
      BY <1>2, <1>5 DEF Carries
    <2> QED
      BY <1>1, <1>3, <1>4, <1>5, <2>1, EndingStep, Names
  <1>7. /\ db'["doc"] = v["doc"]
        /\ \A t \in {"job", "index"} : db'[t] = NoRow \/ db'[t] = db[t]
    BY <1>2, <1>6, Names
  <1>8. NeverAhead' /\ Together'
    BY <1>2, <1>7 DEF TxIInv, NeverAhead, Together, Carries
  <1>9. DeleteInv'
    BY <1>6 DEF DeleteInv, At
  <1> QED
    BY <1>1, <1>6, <1>8, <1>9, OthersStand, Names DEF TxIInv
-----------------------------------------------------------------------------
(* The worker.                                                             *)

\* A claim is taken or given back: the job keeps its content.
LEMMA JobStep ==
  ASSUME TxIInv, NEW row \in Job, db["job"] # NoRow, Carries(row, db["job"]), Autocommits("job", row),
         UNCHANGED <<lock, write, pc, snap, shared, gen>>, Counts, ClaimTyped, At("complete", "idle")
  PROVE  TxIInv'
  <1>1. /\ \A t \in Tables : db'[t] = IF t = "job" THEN row ELSE db[t]
        /\ db' \in [Tables -> AnyRow] /\ lock["job"] = NoTx
    BY Rows, Names DEF Autocommits, Free, TxIInv, TxTypeOK
  <1>2. TxTypeOK'
    <2>1. \A t \in Tables : db'[t] \in RowOf(t)
      BY <1>1, Rows DEF TxIInv, TxTypeOK, TablesTypeOK
    <2> QED
      BY <1>1, <2>1 DEF TxIInv, TxTypeOK, TablesTypeOK, Counts, ClaimTyped
  <1>3. Held'
    BY DEF TxIInv, Held, At
  <1>4. db'["doc"] = db["doc"] /\ db'["index"] = db["index"] /\ db'["chunks"] = db["chunks"] /\ db'["job"] = row
    BY <1>1, Names
  <1>5. NeverAhead' /\ Together'
    BY <1>4 DEF TxIInv, NeverAhead, Together, Carries
  <1>6. SaveInv' /\ DeleteInv' /\ SeedInv'
    BY <1>4 DEF TxIInv, SaveInv, DeleteInv, SeedInv, Carries, Past, At
  <1>7. CompleteInv'
    BY DEF CompleteInv, At
  <1> QED
    BY <1>2, <1>3, <1>5, <1>6, <1>7 DEF TxIInv

LEMMA ClaimsStep == ASSUME TxIInv, Claims PROVE TxIInv'
  <1> DEFINE n == ran.claim + 1
             row == [db["job"] EXCEPT !.status = "running", !.token = n]
  <1>1. db["job"] \in Job /\ db["job"] # NoRow /\ n \in Nat /\ db["job"].hash \in Hashes
    BY TxFacts DEF Claims, TxIInv, TxTypeOK, Job
  <1>2. row \in Job /\ Carries(row, db["job"])
    BY <1>1, JobChanged
  <1>3. /\ Autocommits("job", row) /\ UNCHANGED <<lock, write, pc, snap, shared, gen>>
        /\ claim = NoClaim /\ claim' = [hash |-> db["job"].hash, token |-> n]
        /\ ran' = [ran EXCEPT !.claim = @ + 1]
    BY DEF Claims
  <1> HIDE DEF row, n
  <1>4. Counts /\ ClaimTyped
    BY <1>1, <1>3 DEF Counts, ClaimTyped, TxIInv, TxTypeOK
  <1>5. At("complete", "idle")
    BY <1>3 DEF TxIInv, CompleteInv
  <1> QED
    BY <1>1, <1>2, <1>3, <1>4, <1>5, JobStep

LEMMA ClaimFailsStep == ASSUME TxIInv, ClaimFails PROVE TxIInv'
  <1> DEFINE zero == 0
             row == [db["job"] EXCEPT !.status = "failed", !.token = zero]
  <1>1. At("complete", "idle") /\ claim' = NoClaim /\ UNCHANGED <<lock, write, pc, snap, shared, gen, ran>>
    BY DEF ClaimFails
  <1>2. Counts /\ ClaimTyped
    BY <1>1 DEF Counts, ClaimTyped, TxIInv, TxTypeOK
  <1>3. CASE db["job"] # NoRow /\ Autocommits("job", row)
    <2>1. db["job"] \in Job /\ zero \in Nat
      BY <1>3, TxFacts DEF TxIInv
    <2>2. row \in Job /\ Carries(row, db["job"])
      BY <2>1, JobChanged
    <2> HIDE DEF row, zero
    <2> QED
      BY <1>1, <1>2, <1>3, <2>2, JobStep
  <1>4. CASE UNCHANGED db
    <2>1. TxTypeOK' /\ Held' /\ NeverAhead' /\ Together'
      BY <1>1, <1>2, <1>4 DEF TxIInv, TxTypeOK, TablesTypeOK, Counts, ClaimTyped, Held, At, NeverAhead, Together
    <2>2. SaveInv' /\ DeleteInv' /\ SeedInv'
      BY <1>1, <1>4 DEF TxIInv, SaveInv, DeleteInv, SeedInv, Carries, Past, At
    <2>3. CompleteInv'
      BY <1>1 DEF CompleteInv, At
    <2> QED
      BY <2>1, <2>2, <2>3 DEF TxIInv
  <1> QED
    BY <1>3, <1>4 DEF ClaimFails

LEMMA CompleteBeginsStep == ASSUME TxIInv, CompleteBegins PROVE TxIInv'
  <1>1. /\ claim # NoClaim /\ At("complete", "idle") /\ Goes("complete", "lock job")
        /\ snap' = [snap EXCEPT !["complete"] = db["doc"]]
        /\ UNCHANGED <<db, lock, write, shared, gen, claim, ran>>
    BY DEF CompleteBegins
  <1>2. /\ Counts /\ shared' \subseteq {"complete", "seed"} /\ snap' \in [Txs -> AnyRow]
        /\ snap'["complete"] = db["doc"] /\ \A y \in Txs \ {"complete"} : snap'[y] = snap[y]
    BY <1>1, Names DEF Counts, TxIInv, TxTypeOK, TablesTypeOK
  <1>3. TxTypeOK' /\ Held' /\ Moves("complete") /\ NeverAhead' /\ Together' /\ pc'["complete"] = "lock job"
        /\ \A row : Past(row)' <=> Past(row)
    BY <1>1, <1>2, LookingStep, Names DEF Statements
  <1>4. write["complete"]["doc"] = Keep
    BY <1>1, Names DEF TxIInv, Held
  <1>5. db["doc"] \in Doc /\ Past(db["doc"])
    BY TxFacts DEF TxIInv, Past
  <1>6. CompleteInv'
    BY <1>1, <1>2, <1>3, <1>4, <1>5 DEF CompleteInv, Replaces, At, Past
  <1> QED
    BY <1>1, <1>3, <1>6, OthersStand, Names DEF TxIInv

\* A statement of the completion writes a row.
LEMMA CompleteWritesStep ==
  ASSUME TxIInv, ~At("complete", "idle"), NEW t \in Tables \ {"doc"}, NEW row \in RowOf(t),
         Writes("complete", t, row), NEW s \in Statements \ {"idle"}, Goes("complete", s),
         UNCHANGED <<db, snap, shared, gen, claim, ran>>
  PROVE  /\ TxTypeOK' /\ Held' /\ NeverAhead' /\ Together' /\ SaveInv' /\ DeleteInv' /\ SeedInv'
         /\ pc'["complete"] = s /\ claim' # NoClaim /\ snap'["complete"] \in Doc /\ Past(snap["complete"])'
         /\ \A u \in Tables : write'["complete"][u] = IF u = t THEN row ELSE write["complete"][u]
         /\ write'["complete"]["doc"] = Keep
  <1>1. Counts
    BY DEF Counts, TxIInv, TxTypeOK
  <1>2. /\ TxTypeOK' /\ Held' /\ Moves("complete") /\ NeverAhead' /\ Together' /\ pc'["complete"] = s
        /\ \A u \in Tables : write'["complete"][u] = IF u = t THEN row ELSE write["complete"][u]
    BY <1>1, WritingStep, Names
  <1>3. SaveInv' /\ DeleteInv' /\ SeedInv'
    BY <1>2, OthersStand, Names
  <1>4. claim' # NoClaim /\ snap'["complete"] \in Doc /\ Past(snap["complete"])'
    BY DEF TxIInv, CompleteInv, Past
  <1>5. write'["complete"]["doc"] = Keep
    BY <1>2, Names DEF TxIInv, CompleteInv
  <1> QED
    BY <1>2, <1>3, <1>4, <1>5

LEMMA CompleteLocksStep == ASSUME TxIInv, CompleteLocks PROVE TxIInv'
  <1>1. /\ ~At("complete", "idle") /\ ClaimMatches(db["job"], snap["complete"])
        /\ Writes("complete", "job", db["job"]) /\ Goes("complete", "chunks")
        /\ UNCHANGED <<db, snap, shared, gen, claim, ran>>
    BY DEF CompleteLocks, At
  <1>2. db["job"] \in Job /\ db["job"].hash = claim.hash /\ snap["complete"].hash = claim.hash
    BY <1>1, TxFacts DEF ClaimMatches, TxIInv
  <1>3. "job" \in Tables \ {"doc"} /\ db["job"] \in RowOf("job") /\ "chunks" \in Statements \ {"idle"}
    BY <1>2, Names, Rows DEF Statements
  <1>4. /\ TxTypeOK' /\ Held' /\ NeverAhead' /\ Together' /\ SaveInv' /\ DeleteInv' /\ SeedInv'
        /\ pc'["complete"] = "chunks" /\ claim' # NoClaim /\ snap'["complete"] \in Doc /\ Past(snap["complete"])'
        /\ \A u \in Tables : write'["complete"][u] = IF u = "job" THEN db["job"] ELSE write["complete"][u]
        /\ write'["complete"]["doc"] = Keep
    BY <1>1, <1>3, CompleteWritesStep
  <1>5. write'["complete"]["job"] = db["job"]
    BY <1>3, <1>4
  <1>6. CompleteInv'
    BY <1>1, <1>2, <1>4, <1>5 DEF CompleteInv, Replaces, At
  <1> QED
    BY <1>4, <1>6 DEF TxIInv

LEMMA CompleteReplacesChunksStep == ASSUME TxIInv, CompleteReplacesChunks PROVE TxIInv'
  <1> DEFINE row == [hash |-> claim.hash, batch |-> claim.token]
  <1>1. /\ ~At("complete", "idle") /\ pc["complete"] = "chunks"
        /\ Writes("complete", "chunks", row) /\ Goes("complete", "fkey")
        /\ UNCHANGED <<db, snap, shared, gen, claim, ran>>
    BY DEF CompleteReplacesChunks, At
  <1>2. claim.hash \in Hashes /\ claim.token \in Nat
    BY <1>1, TxFacts DEF TxIInv, CompleteInv
  <1>3. row \in Chunks /\ row.hash = claim.hash
    BY <1>2 DEF Chunks
  <1> HIDE DEF row
  <1>4. "chunks" \in Tables \ {"doc"} /\ row \in RowOf("chunks") /\ "fkey" \in Statements \ {"idle"}
    BY <1>3, Names, Rows DEF Statements
  <1>5. /\ TxTypeOK' /\ Held' /\ NeverAhead' /\ Together' /\ SaveInv' /\ DeleteInv' /\ SeedInv'
        /\ pc'["complete"] = "fkey" /\ claim' # NoClaim /\ snap'["complete"] \in Doc /\ Past(snap["complete"])'
        /\ \A u \in Tables : write'["complete"][u] = IF u = "chunks" THEN row ELSE write["complete"][u]
        /\ write'["complete"]["doc"] = Keep
    BY <1>1, <1>4, CompleteWritesStep
  <1>6. write'["complete"]["chunks"] = row /\ write'["complete"]["job"] = write["complete"]["job"]
    BY <1>5, Names
  <1>7. CompleteInv'
    BY <1>1, <1>3, <1>5, <1>6 DEF TxIInv, CompleteInv, Replaces, At
  <1> QED
    BY <1>5, <1>7 DEF TxIInv

LEMMA CompleteChecksKeyStep == ASSUME TxIInv, CompleteChecksKey PROVE TxIInv'
  <1>1. /\ ~At("complete", "idle") /\ pc["complete"] = "fkey" /\ Goes("complete", "index")
        /\ UNCHANGED <<db, lock, write, snap, gen, claim, ran>> /\ shared' = shared \union {"complete"}
    BY DEF CompleteChecksKey, At
  <1>2. Counts /\ shared' \subseteq {"complete", "seed"} /\ snap' \in [Txs -> AnyRow] /\ snap' = snap
    BY <1>1 DEF Counts, TxIInv, TxTypeOK, TablesTypeOK
  <1>3. TxTypeOK' /\ Held' /\ Moves("complete") /\ NeverAhead' /\ Together' /\ pc'["complete"] = "index"
    BY <1>1, <1>2, LookingStep, Names DEF Statements
  <1>4. CompleteInv'
    BY <1>1, <1>3 DEF TxIInv, CompleteInv, Replaces, At, Past
  <1> QED
    BY <1>1, <1>3, <1>4, OthersStand, Names DEF TxIInv

LEMMA CompleteWritesIndexStep == ASSUME TxIInv, CompleteWritesIndex PROVE TxIInv'
  <1> DEFINE row == [hash |-> claim.hash, revision |-> snap["complete"].revision]
  <1>1. /\ ~At("complete", "idle") /\ pc["complete"] = "index"
        /\ Writes("complete", "index", row) /\ Goes("complete", "finish")
        /\ UNCHANGED <<db, snap, shared, gen, claim, ran>>
    BY DEF CompleteWritesIndex, At
  <1>2. claim.hash \in Hashes /\ snap["complete"].revision \in Nat /\ snap["complete"].hash = claim.hash
    BY <1>1, TxFacts DEF TxIInv, CompleteInv, Replaces, Doc
  <1>3. row \in Index /\ Carries(row, snap["complete"])
    BY <1>2 DEF Index, Carries
  <1> HIDE DEF row
  <1>4. "index" \in Tables \ {"doc"} /\ row \in RowOf("index") /\ "finish" \in Statements \ {"idle"}
    BY <1>3, Names, Rows DEF Statements
  <1>5. /\ TxTypeOK' /\ Held' /\ NeverAhead' /\ Together' /\ SaveInv' /\ DeleteInv' /\ SeedInv'
        /\ pc'["complete"] = "finish" /\ claim' # NoClaim /\ snap'["complete"] \in Doc /\ Past(snap["complete"])'
        /\ \A u \in Tables : write'["complete"][u] = IF u = "index" THEN row ELSE write["complete"][u]
        /\ write'["complete"]["doc"] = Keep
    BY <1>1, <1>4, CompleteWritesStep
  <1>6. /\ write'["complete"]["index"] = row /\ write'["complete"]["job"] = write["complete"]["job"]
        /\ write'["complete"]["chunks"] = write["complete"]["chunks"]
    BY <1>5, Names
  <1>7. CompleteInv'
    BY <1>1, <1>2, <1>3, <1>5, <1>6 DEF TxIInv, CompleteInv, Replaces, At, Carries
  <1> QED
    BY <1>5, <1>7 DEF TxIInv

LEMMA CompleteFinishesStep == ASSUME TxIInv, CompleteFinishes PROVE TxIInv'
  <1> DEFINE w == write["complete"]
             rev == snap["complete"].revision
             zero == 0
             j == [w["job"] EXCEPT !.status = "succeeded", !.token = zero, !.revision = rev]
             v == [w EXCEPT !["job"] = j]
  <1>1. /\ ~At("complete", "idle") /\ At("complete", "finish") /\ pc["complete"] \in Replaces
        /\ Ends("complete", v) /\ UNCHANGED <<gen, ran>> /\ claim' = NoClaim
    BY DEF CompleteFinishes, At, Replaces
  <1>2. /\ w["job"] \in Job /\ w["job"].hash = claim.hash /\ w["doc"] = Keep
        /\ snap["complete"] \in Doc /\ Past(snap["complete"]) /\ snap["complete"].hash = claim.hash
        /\ w["chunks"] \in Chunks /\ w["chunks"].hash = claim.hash
        /\ w["index"] \in Index /\ Carries(w["index"], snap["complete"])
    BY <1>1 DEF TxIInv, CompleteInv, At
  <1>3. rev \in Nat /\ zero \in Nat
    BY <1>2 DEF Doc
  <1>4. j \in Job /\ j.hash = claim.hash /\ j.revision = rev
    <2> HIDE DEF w, rev, zero
    <2> QED
      BY <1>2, <1>3 DEF Job
  <1>5. w \in [Tables -> AnyRow] /\ \A t \in Tables : w[t] \in RowOf(t) \union {Keep}
    BY TxFacts, Names DEF TxIInv
  <1>6. \A t \in Tables : w[t] # Keep => lock[t] = "complete"
    BY Names DEF TxIInv, Held
  <1> HIDE DEF w, j
  <1>7. /\ v \in [Tables -> AnyRow] /\ v["job"] = j /\ v["doc"] = Keep
        /\ v["index"] = w["index"] /\ v["chunks"] = w["chunks"]
        /\ \A t \in Tables : v[t] = IF t = "job" THEN j ELSE w[t]
    BY <1>2, <1>4, <1>5, Names DEF AnyRow
  <1> HIDE DEF v
  <1>8. \A t \in Tables : v[t] \in RowOf(t) \union {Keep} /\ (v[t] # Keep => lock[t] = "complete")
    BY <1>2, <1>4, <1>5, <1>6, <1>7, Rows, Names
  <1>9. /\ TxTypeOK' /\ Held' /\ Moves("complete") /\ pc'["complete"] = "idle"
        /\ \A t \in Tables : db'[t] = IF v[t] # Keep THEN v[t] ELSE db[t]
    BY <1>1, <1>7, <1>8, EndingStep, Names DEF ClaimTyped
  <1>10. db'["doc"] = db["doc"] /\ db'["job"] = j /\ db'["index"] = w["index"] /\ db'["chunks"] = w["chunks"]
    BY <1>2, <1>4, <1>7, <1>9, Names
  <1>11. NeverAhead' /\ Together'
    <2>1. NoRow \notin Job \union Index \union Chunks
      BY Rows
    <2> QED
      BY <1>2, <1>4, <1>10, <2>1 DEF NeverAhead, Together, Past, Carries
  <1>12. CompleteInv'
    BY <1>9 DEF CompleteInv, At
  <1> QED
    BY <1>9, <1>11, <1>12, OthersStand, Names DEF TxIInv
-----------------------------------------------------------------------------
(* The seeding.                                                            *)

LEMMA SeedSelectsStep == ASSUME TxIInv, SeedSelects PROVE TxIInv'
  <1>1. /\ At("seed", "idle") /\ UNCHANGED <<db, lock, write, shared, gen, claim>>
        /\ ran' = [ran EXCEPT !.seed = @ + 1]
    BY DEF SeedSelects
  <1>2. Counts /\ shared' \subseteq {"complete", "seed"}
    BY <1>1 DEF Counts, TxIInv, TxTypeOK, TablesTypeOK
  <1>3. CASE Goes("seed", "insert") /\ snap' = [snap EXCEPT !["seed"] = db["doc"]]
    <2>1. /\ snap' \in [Txs -> AnyRow] /\ snap'["seed"] = db["doc"]
          /\ \A y \in Txs \ {"seed"} : snap'[y] = snap[y]
      BY <1>3, Names DEF TxIInv, TxTypeOK
    <2>2. TxTypeOK' /\ Held' /\ Moves("seed") /\ NeverAhead' /\ Together'
      BY <1>1, <1>2, <1>3, <2>1, LookingStep, Names DEF Statements
    <2>3. \A t \in Tables : write["seed"][t] = Keep
      BY <1>1, Names DEF TxIInv, Held
    <2>4. db["doc"] \in Doc /\ Past(db["doc"])
      BY TxFacts DEF TxIInv, Past
    <2>5. SeedInv'
      BY <1>1, <2>1, <2>3, <2>4, Names DEF SeedInv, Past
    <2> QED
      BY <1>1, <2>2, <2>5, OthersStand, Names DEF TxIInv
  <1>4. CASE UNCHANGED <<pc, snap>>
    <2>1. TxTypeOK' /\ Held' /\ NeverAhead' /\ Together'
      BY <1>1, <1>2, <1>4 DEF TxIInv, TxTypeOK, TablesTypeOK, Counts, Held, At, NeverAhead, Together
    <2>2. SaveInv' /\ DeleteInv'
      BY <1>1, <1>4 DEF TxIInv, SaveInv, DeleteInv, Carries, At
    <2>3. CompleteInv' /\ SeedInv'
      BY <1>1, <1>4 DEF TxIInv, CompleteInv, SeedInv, Carries, Past, At
    <2> QED
      BY <2>1, <2>2, <2>3 DEF TxIInv
  <1> QED
    BY <1>3, <1>4 DEF SeedSelects

LEMMA SeedInsertsStep == ASSUME TxIInv, SeedInserts PROVE TxIInv'
  <1> DEFINE j == [status |-> "pending", hash |-> snap["seed"].hash, revision |-> snap["seed"].revision, token |-> 0]
  <1>1. /\ ~At("seed", "idle") /\ Writes("seed", "job", j) /\ Goes("seed", "fkey")
        /\ UNCHANGED <<db, snap, shared, gen, claim, ran>>
    BY DEF SeedInserts, At
  <1>2. snap["seed"].hash \in Hashes /\ snap["seed"].revision \in Nat
    BY <1>1 DEF TxIInv, SeedInv, Doc
  <1>3. j \in Job /\ Carries(j, snap["seed"])
    BY <1>2 DEF Job, Carries
  <1> HIDE DEF j
  <1>4. "seed" \in Txs /\ "job" \in Tables /\ j \in RowOf("job") /\ "fkey" \in Statements \ {"idle"}
    BY <1>3, Names, Rows DEF Statements
  <1>5. Counts
    BY <1>1 DEF Counts, TxIInv, TxTypeOK
  <1>6. /\ TxTypeOK' /\ Held' /\ Moves("seed") /\ NeverAhead' /\ Together'
        /\ \A u \in Tables : write'["seed"][u] = IF u = "job" THEN j ELSE write["seed"][u]
    BY <1>1, <1>4, <1>5, WritingStep
  <1>7. SeedInv'
    BY <1>1, <1>3, <1>6, Names DEF TxIInv, SeedInv, Past, Carries
  <1> QED
    BY <1>1, <1>6, <1>7, OthersStand, Names DEF TxIInv

LEMMA SeedCommitsStep == ASSUME TxIInv, SeedCommits PROVE TxIInv'
  <1> DEFINE v == write["seed"]
  <1>1. ~At("seed", "idle") /\ Ends("seed", v) /\ UNCHANGED <<gen, claim, ran>>
    BY DEF SeedCommits, Commits, At
  <1>2. /\ snap["seed"] \in Doc /\ Past(snap["seed"]) /\ \A t \in Tables \ {"job"} : v[t] = Keep
        /\ v["job"] # Keep => v["job"] \in Job /\ Carries(v["job"], snap["seed"])
    BY <1>1 DEF TxIInv, SeedInv
  <1>3. v \in [Tables -> AnyRow] /\ \A t \in Tables : v[t] \in RowOf(t) \union {Keep}
    BY TxFacts, Names DEF TxIInv
  <1>4. \A t \in Tables : v[t] # Keep => lock[t] = "seed"
    BY Names DEF TxIInv, Held
  <1>5. ClaimTyped
    BY <1>1 DEF ClaimTyped, TxIInv, TxTypeOK, TablesTypeOK
  <1> HIDE DEF v
  <1>6. /\ TxTypeOK' /\ Held' /\ Moves("seed") /\ pc'["seed"] = "idle"
        /\ \A t \in Tables : db'[t] = IF v[t] # Keep THEN v[t] ELSE db[t]
    BY <1>1, <1>2, <1>3, <1>4, <1>5, EndingStep, Names
  <1>7. /\ \A t \in Tables \ {"job"} : db'[t] = db[t]
        /\ db'["job"] = db["job"] \/ Carries(db'["job"], snap["seed"])
    BY <1>2, <1>6, Names
  <1>8. NeverAhead' /\ Together'
    BY <1>2, <1>7, Names DEF TxIInv, NeverAhead, Together, Past, Carries
  <1>9. SeedInv'
    BY <1>6 DEF SeedInv, At
  <1> QED
    BY <1>1, <1>6, <1>8, <1>9, OthersStand, Names DEF TxIInv
-----------------------------------------------------------------------------
(* Together.                                                               *)

LEMMA TxStarts == ASSUME TxInit PROVE TxIInv
  <1>1. PICK h \in Hashes :
          db = [t \in Tables |-> IF t = "doc" THEN [state |-> "normal", hash |-> h, revision |-> 1] ELSE NoRow]
    BY DEF TxInit
  <1>2. /\ db["doc"] = [state |-> "normal", hash |-> h, revision |-> 1] /\ db["doc"] \in Doc
        /\ \A t \in Tables \ {"doc"} : db[t] = NoRow
    BY <1>1, Names DEF Doc
  <1>3. db \in [Tables -> AnyRow] /\ \A t \in Tables : db[t] \in RowOf(t)
    BY <1>1, <1>2, Names, Rows DEF AnyRow
  <1>4. \A x \in Txs, t \in Tables : write[x][t] = Keep /\ pc[x] = "idle" /\ lock[t] = NoTx
    BY DEF TxInit, NothingWritten
  <1>5. TxTypeOK
    <2>1. write \in [Txs -> [Tables -> AnyRow]] /\ snap \in [Txs -> AnyRow]
      BY DEF TxInit, NothingWritten, AnyRow
    <2>2. ran \in [save: Nat, delete: Nat, claim: Nat, seed: Nat]
      BY DEF TxInit
    <2>3. /\ lock \in [Tables -> Txs \union {NoTx}] /\ pc \in [Txs -> Statements]
          /\ shared = {} /\ gen = "none" /\ claim = NoClaim
      BY DEF TxInit, Statements
    <2> QED
      BY <1>3, <1>4, <2>1, <2>2, <2>3 DEF TxTypeOK, TablesTypeOK
  <1>6. Held
    BY <1>4, MarkersAssumption DEF Held
  <1>7. SaveInv /\ DeleteInv /\ CompleteInv /\ SeedInv
    BY <1>4, Names DEF SaveInv, DeleteInv, CompleteInv, SeedInv, At
  <1>8. NeverAhead /\ Together
    BY <1>2, Names DEF NeverAhead, Together
  <1> QED
    BY <1>5, <1>6, <1>7, <1>8 DEF TxIInv

LEMMA UnchangedStep == ASSUME TxIInv, UNCHANGED txVars PROVE TxIInv'
  <1>1. TxTypeOK' /\ Held' /\ NeverAhead' /\ Together'
    BY DEF txVars, TxIInv, TxTypeOK, TablesTypeOK, Held, At, NeverAhead, Together
  <1>2. SaveInv' /\ DeleteInv' /\ CompleteInv' /\ SeedInv'
    BY DEF txVars, TxIInv, SaveInv, DeleteInv, CompleteInv, SeedInv, Carries, Past, At
  <1> QED
    BY <1>1, <1>2 DEF TxIInv

\* The generation's row: no version of a document's rows is concerned.
LEMMA CreateGenerationStep == ASSUME TxIInv, CreateGeneration PROVE TxIInv'
  <1>1. UNCHANGED <<db, lock, write, pc, snap, shared, claim, ran>> /\ gen' = "building"
    BY DEF CreateGeneration
  <1>2. TxTypeOK' /\ Held' /\ NeverAhead' /\ Together'
    BY <1>1 DEF TxIInv, TxTypeOK, TablesTypeOK, Held, At, NeverAhead, Together
  <1>3. SaveInv' /\ DeleteInv' /\ CompleteInv' /\ SeedInv'
    BY <1>1 DEF TxIInv, SaveInv, DeleteInv, CompleteInv, SeedInv, Carries, Past, At
  <1> QED
    BY <1>2, <1>3 DEF TxIInv

LEMMA DeleteSteps ==
  ASSUME TxIInv,
         \/ DeleteBegins \/ DeleteSelectsChunks \/ DeletesChunks \/ DeleteSelectsIndex
         \/ DeletesIndex \/ DeleteSelectsJob \/ DeletesJob \/ DeleteCommits
  PROVE  TxIInv'
  <1>1. {"chunks", "delete chunks", "index", "delete index", "job", "delete job", "commit"} \subseteq Statements \ {"idle"}
    BY DEF Statements
  <1>2. CASE DeleteSelectsChunks
    BY <1>1, <1>2, DeleteSelectsStep, Names DEF DeleteSelectsChunks
  <1>3. CASE DeleteSelectsIndex
    BY <1>1, <1>3, DeleteSelectsStep, Names DEF DeleteSelectsIndex
  <1>4. CASE DeleteSelectsJob
    BY <1>1, <1>4, DeleteSelectsStep, Names DEF DeleteSelectsJob
  <1>5. CASE DeletesChunks
    <2>1. ~At("delete", "idle")
      BY <1>5 DEF DeletesChunks, At
    <2>2. CASE DeletesRow("chunks", "index")
      BY <1>1, <2>1, <2>2, DeletesRowStep, Names
    <2>3. CASE Goes("delete", "index") /\ UNCHANGED <<db, lock, write, snap, shared, gen, claim, ran>>
      <3>1. snap' \in [Txs -> AnyRow] /\ \A y \in Txs \ {"delete"} : snap'[y] = snap[y]
        BY <2>3 DEF TxIInv, TxTypeOK
      <3> QED
        BY <1>1, <2>1, <2>3, <3>1, DeleteLooksStep
    <2>4. \/ DeletesRow("chunks", "index")
          \/ UNCHANGED <<db, lock, write, snap, shared, gen, claim, ran>> /\ Goes("delete", "index")
      BY <1>5 DEF DeletesChunks
    <2> QED
      BY <2>2, <2>3, <2>4
  <1>6. CASE DeletesIndex
    <2>1. ~At("delete", "idle") /\ DeletesRow("index", "job")
      BY <1>6 DEF DeletesIndex, At
    <2> QED
      BY <1>1, <2>1, DeletesRowStep, Names
  <1>7. CASE DeletesJob
    <2>1. ~At("delete", "idle") /\ DeletesRow("job", "commit")
      BY <1>7 DEF DeletesJob, At
    <2> QED
      BY <1>1, <2>1, DeletesRowStep, Names
  <1> QED
    BY <1>2, <1>3, <1>4, <1>5, <1>6, <1>7, DeleteBeginsStep, DeleteCommitsStep

\* A victim of deadlock detection, a stale completion and a seeding that finds its
\* row roll back.
LEMMA RollbackSteps ==
  ASSUME TxIInv, CompleteIsStale \/ SeedSkips \/ \E x \in Txs : DeadlockAborts(x) PROVE TxIInv'
  <1>1. CASE CompleteIsStale
    <2>1. RollsBack("complete") /\ claim' = NoClaim /\ UNCHANGED <<gen, ran>>
      BY <1>1 DEF CompleteIsStale
    <2> QED
      BY <2>1, RollbackStep, Names DEF ClaimTyped
  <1>2. ASSUME NEW x \in Txs, RollsBack(x), UNCHANGED <<gen, claim, ran>> PROVE TxIInv'
    <2>1. ClaimTyped
      BY <1>2 DEF ClaimTyped, TxIInv, TxTypeOK, TablesTypeOK
    <2> QED
      BY <1>2, <2>1, RollbackStep
  <1> QED
    BY <1>1, <1>2, Names DEF SeedSkips, DeadlockAborts

LEMMA TxSteps == ASSUME TxIInv, [TxNext]_txVars PROVE TxIInv'
  <1>1. CASE \/ \E h \in Hashes : SaveBegins(h)
             \/ SaveEnqueues \/ SaveUpserts \/ SaveUpdatesIndex \/ SaveCommits
    BY <1>1, SaveBeginsStep, SaveEnqueuesStep, SaveUpsertsStep, SaveUpdatesIndexStep, SaveCommitsStep
  <1>2. CASE \/ DeleteBegins \/ DeleteSelectsChunks \/ DeletesChunks \/ DeleteSelectsIndex
             \/ DeletesIndex \/ DeleteSelectsJob \/ DeletesJob \/ DeleteCommits
    BY <1>2, DeleteSteps
  <1>3. CASE Claims \/ ClaimFails
    BY <1>3, ClaimsStep, ClaimFailsStep
  <1>4. CASE \/ CompleteBegins \/ CompleteLocks \/ CompleteReplacesChunks
             \/ CompleteChecksKey \/ CompleteWritesIndex \/ CompleteFinishes
    BY <1>4, CompleteBeginsStep, CompleteLocksStep, CompleteReplacesChunksStep,
       CompleteChecksKeyStep, CompleteWritesIndexStep, CompleteFinishesStep
  <1>5. CASE CreateGeneration \/ SeedSelects \/ SeedInserts \/ SeedCommits
    BY <1>5, CreateGenerationStep, SeedSelectsStep, SeedInsertsStep, SeedCommitsStep
  <1>6. CASE CompleteIsStale \/ SeedSkips \/ \E x \in Txs : DeadlockAborts(x)
    BY <1>6, RollbackSteps
  <1>7. CASE UNCHANGED txVars
    BY <1>7, UnchangedStep
  <1> QED
    BY <1>1, <1>2, <1>3, <1>4, <1>5, <1>6, <1>7 DEF TxNext, Finished

\* No interleaving of the transactions' statements breaks the inductive invariant.
THEOREM TxInvariant == TxSpec => []TxIInv
  <1>1. TxInit => TxIInv
    BY TxStarts
  <1>2. TxIInv /\ [TxNext]_txVars => TxIInv'
    BY TxSteps
  <1> QED
    BY <1>1, <1>2, PTL DEF TxSpec

\* Every committed and uncommitted version is a row of its table.
THEOREM TxTypeCorrect == TxSpec => []TablesTypeOK
  <1>1. TxIInv => TablesTypeOK
    BY DEF TxIInv, TxTypeOK
  <1> QED
    BY <1>1, TxInvariant, PTL

\* Search answers only from vectors of the present content: the index row that a
\* document shows was committed with its chunks (vectorstore and repo write both in
\* the transaction of the completion), and a save keeps its hash.
THEOREM ServedCorrect == TxSpec => []ServedIsCurrent
  <1>1. TxIInv => ServedIsCurrent
    BY DEF TxIInv, Together, ServedIsCurrent
  <1> QED
    BY <1>1, TxInvariant, PTL

\* No row is ahead of its document: what a statement saw of the document before it
\* waited is a past version, and the versions only follow each other.
THEOREM AheadCorrect == TxSpec => []NeverAhead
  <1>1. TxIInv => NeverAhead
    BY DEF TxIInv
  <1> QED
    BY <1>1, TxInvariant, PTL

-----------------------------------------------------------------------------
(***************************************************************************)
(* No save of the editor overwrites a version its tab was not shown, for   *)
(* any number of tabs and texts, however requests and answers are lost or  *)
(* delayed.                                                                *)
(*                                                                         *)
(* The invariant is one of each session by itself, SoundAt(s, n): what the *)
(* session s knows of the document n. The functions of the save queue keep *)
(* it while the document stands still, and a write of the document keeps   *)
(* it for every session at once, because it only moves the revision on.    *)
(***************************************************************************)

\* Holding a revision of the document n and a text for it: BaseIsKnown's Knows.
KnowsAt(revision, text, n) ==
  revision <= n.revision /\ (revision = n.revision => text = n.text)

\* The fields that a session in this phase must have.
Filled(s) ==
  /\ s.phase = "open" => s.text \in Texts /\ s.saved \in Texts /\ s.base \in 1..MaxRevision
  /\ s.phase \in {"loading", "recovering"} => s.fetched # None
  /\ s.phase = "recovering" => s.found # None
  /\ s.request # "none" => s.phase = "open" /\ s.sending # None

KnowledgeSound(s, n) ==
  /\ s.phase = "open" => KnowsAt(s.base, s.saved, n)
  /\ s.fetched # None => KnowsAt(s.fetched.revision, s.fetched.text, n)
  /\ s.request = "accepted" => KnowsAt(s.base + 1, s.sending, n)

DirtySound(s) == s.phase = "open" /\ s.text # s.saved => s.dirty

StatusSound(s) ==
  /\ InFlight(s) <=> s.status \in {"SAVING", "QUEUED"}
  /\ Blocked(s) => s.queued # None
  /\ ~InFlight(s) /\ ~Blocked(s) => s.queued = None

SoundAt(s, n) ==
  /\ s \in Tab
  /\ Filled(s)
  /\ KnowledgeSound(s, n)
  /\ DirtySound(s)
  /\ StatusSound(s)

DraftSound(d, n) ==
  /\ d \in Draft \union {None}
  /\ d # None => KnowsAt(d.base, d.hash, n)

IInv ==
  /\ note \in Note
  /\ tab \in [Tabs -> Tab]
  /\ \A t \in Tabs : SoundAt(tab[t], note)
  /\ DraftSound(draft, note)
  /\ late \in SUBSET Save
-----------------------------------------------------------------------------
(* A session on its own.                                                   *)

\* A session that is closed knows nothing.
LEMMA ClosedSound == ASSUME NEW n PROVE SoundAt(Closed, n)
  BY EditorAssumption DEF SoundAt, Closed, Tab, Filled, KnowledgeSound,
       DirtySound, StatusSound, InFlight, Blocked, Status

\* Sending keeps what the session knows.
LEMMA SentSound ==
  ASSUME NEW n \in Note, NEW s \in Tab, NEW text \in Titled,
         Filled(s), KnowledgeSound(s, n), DirtySound(s), s.phase = "open"
  PROVE  SoundAt(Sent(s, text), n)
<1> DEFINE r == Sent(s, text)
<1>1. r \in Tab
  BY DEF Sent, Tab, Status
<1>2. /\ r.phase = "open" /\ r.text = s.text /\ r.saved = s.saved
      /\ r.base = s.base /\ r.dirty = s.dirty /\ r.fetched = s.fetched
      /\ r.request = "sent" /\ r.status = "SAVING" /\ r.queued = None
      /\ r.sending = text
  BY DEF Sent, Tab
<1>3. text # None
  BY EditorAssumption DEF Titled
<1> HIDE DEF r
<1>4. Filled(r)
  BY <1>2, <1>3 DEF Filled
<1>5. KnowledgeSound(r, n) /\ DirtySound(r)
  BY <1>2 DEF KnowledgeSound, DirtySound
<1>6. StatusSound(r)
  BY <1>2 DEF StatusSound, InFlight, Blocked
<1> QED BY <1>1, <1>4, <1>5, <1>6 DEF SoundAt, r

\* Marking changes the status alone.
LEMMA MarkedTyped ==
  ASSUME NEW s \in Tab
  PROVE  Marked(s) \in Tab
<1>1. \A e \in BOOLEAN, st \in Status : [s EXCEPT !.edited = e, !.status = st] \in Tab
  BY DEF Tab
<1>2. InFlight(s) \in BOOLEAN
  BY DEF InFlight
<1>3. (IF Blocked(s) THEN s.status
       ELSE IF InFlight(s) THEN "QUEUED" ELSE "LOCAL_CHANGES") \in Status
  BY DEF Tab, Status
<1> QED BY <1>1, <1>2, <1>3 DEF Marked

\* And it keeps what the session knows.
LEMMA MarkedSound ==
  ASSUME NEW n \in Note, NEW s, SoundAt(s, n)
  PROVE  SoundAt(Marked(s), n)
<1> DEFINE r == Marked(s)
<1> USE DEF SoundAt
<1>1. r \in Tab
  BY MarkedTyped
<1>2. /\ r.phase = s.phase /\ r.text = s.text /\ r.saved = s.saved
      /\ r.base = s.base /\ r.dirty = s.dirty /\ r.fetched = s.fetched
      /\ r.request = s.request /\ r.queued = s.queued /\ r.sending = s.sending
      /\ r.found = s.found
  BY DEF Marked, Tab
<1>3. r.status = IF Blocked(s) THEN s.status
                 ELSE IF InFlight(s) THEN "QUEUED" ELSE "LOCAL_CHANGES"
  BY DEF Marked, Tab
<1> HIDE DEF r
<1>4. Filled(r)
  BY <1>2 DEF Filled
<1>5. KnowledgeSound(r, n) /\ DirtySound(r)
  BY <1>2 DEF KnowledgeSound, DirtySound
<1>6. StatusSound(r)
  BY <1>2, <1>3 DEF StatusSound, InFlight, Blocked
<1> QED BY <1>1, <1>4, <1>5, <1>6 DEF r

\* A request for a save queues the text, sends it or finds nothing to save.
LEMMA SaveRequestedSound ==
  ASSUME NEW n \in Note, NEW s, SoundAt(s, n), NEW text \in Titled,
         s.phase = "open", ~Blocked(s)
  PROVE  SoundAt(SaveRequested(s, text), n)
<1> DEFINE r == SaveRequested(s, text)
<1> USE DEF SoundAt
<1>1. CASE InFlight(s)
  <2>1. r = [s EXCEPT !.queued = text, !.status = "QUEUED"]
    BY <1>1 DEF SaveRequested
  <2>2. r \in Tab
    BY <2>1 DEF Tab, Status
  <2>3. /\ r.phase = s.phase /\ r.text = s.text /\ r.saved = s.saved
        /\ r.base = s.base /\ r.dirty = s.dirty /\ r.fetched = s.fetched
        /\ r.request = s.request /\ r.sending = s.sending /\ r.found = s.found
        /\ r.status = "QUEUED"
    BY <2>1 DEF Tab
  <2> HIDE DEF r
  <2>4. Filled(r) /\ KnowledgeSound(r, n) /\ DirtySound(r)
    BY <2>3 DEF Filled, KnowledgeSound, DirtySound
  <2>5. StatusSound(r)
    BY <1>1, <2>3 DEF StatusSound, InFlight, Blocked
  <2> QED BY <2>2, <2>4, <2>5 DEF r
<1>2. CASE ~InFlight(s) /\ text = s.saved /\ text = s.title
  <2>1. r = [s EXCEPT !.status = "SYNCED"]
    BY <1>2 DEF SaveRequested
  <2>2. r \in Tab
    BY <2>1 DEF Tab, Status
  <2>3. /\ r.phase = s.phase /\ r.text = s.text /\ r.saved = s.saved
        /\ r.base = s.base /\ r.dirty = s.dirty /\ r.fetched = s.fetched
        /\ r.request = s.request /\ r.sending = s.sending /\ r.found = s.found
        /\ r.queued = s.queued /\ r.status = "SYNCED"
    BY <2>1 DEF Tab
  <2> HIDE DEF r
  <2>4. Filled(r) /\ KnowledgeSound(r, n) /\ DirtySound(r)
    BY <2>3 DEF Filled, KnowledgeSound, DirtySound
  <2>5. StatusSound(r)
    BY <1>2, <2>3 DEF StatusSound, InFlight, Blocked
  <2> QED BY <2>2, <2>4, <2>5 DEF r
<1>3. CASE ~InFlight(s) /\ ~(text = s.saved /\ text = s.title)
  <2>1. r = Sent(s, text)
    BY <1>3 DEF SaveRequested
  <2> QED BY <2>1, SentSound
<1> QED BY <1>1, <1>2, <1>3

\* A session that takes over the server's version keeps its type.
LEMMA ResyncedTyped ==
  ASSUME NEW s \in Tab, NEW server \in Note
  PROVE  Resynced(s, server) \in Tab
<1>1. server.text \in Texts /\ server.revision \in 0..MaxRevision /\ "SYNCED" \in Status
  BY EditorAssumption DEF Note, Titled, Status
<1> QED BY <1>1 DEF Resynced, Tab

\* A session takes over what it has fetched from the server.
LEMMA InitializedSound ==
  ASSUME NEW n \in Note, NEW s \in Tab, NEW text \in Texts, NEW server \in Note,
         KnowsAt(server.revision, server.text, n), s.request = "none"
  PROVE  SoundAt(Initialized(s, text, server), n)
<1> DEFINE r == [Resynced(s, server) EXCEPT
                   !.phase = "open", !.text = text, !.title = text,
                   !.dirty = text # server.text, !.fetched = None, !.found = None]
<1>1. server.text \in Texts /\ server.revision \in 1..MaxRevision
  BY DEF Note, Titled
<1>2. r \in Tab
  <2>1. Resynced(s, server) \in Tab
    BY ResyncedTyped
  <2>2. \A b \in BOOLEAN :
          [Resynced(s, server) EXCEPT
             !.phase = "open", !.text = text, !.title = text,
             !.dirty = b, !.fetched = None, !.found = None] \in Tab
    BY <2>1 DEF Tab
  <2>3. (text # server.text) \in BOOLEAN
    OBVIOUS
  <2> QED BY <2>2, <2>3
<1>3. /\ r.phase = "open" /\ r.text = text /\ r.saved = server.text
      /\ r.base = server.revision /\ r.fetched = None /\ r.request = "none"
      /\ r.status = "SYNCED" /\ r.queued = None
      /\ r.dirty = (text # server.text)
  BY DEF Resynced, Tab
<1>4. Initialized(s, text, server) = IF r.dirty THEN Marked(r) ELSE r
  BY DEF Initialized
<1> HIDE DEF r
<1>5. SoundAt(r, n)
  BY <1>1, <1>2, <1>3 DEF SoundAt, Filled, KnowledgeSound, DirtySound, StatusSound,
                          InFlight, Blocked
<1> QED BY <1>4, <1>5, MarkedSound

\* A session whose conflict is resolved starts again from the server's version.
LEMMA ResolvedSound ==
  ASSUME NEW n \in Note, NEW s, SoundAt(s, n), NEW server \in Note,
         KnowsAt(server.revision, server.text, n),
         s.phase = "open", s.request = "none", NEW text \in Texts,
         NEW dirty \in BOOLEAN, text # server.text => dirty
  PROVE  SoundAt([Resynced(s, server) EXCEPT
                    !.text = text, !.dirty = dirty, !.fetched = None], n)
<1> DEFINE r == [Resynced(s, server) EXCEPT
                   !.text = text, !.dirty = dirty, !.fetched = None]
<1>1. server.text \in Texts /\ server.revision \in 1..MaxRevision /\ s \in Tab
  BY DEF Note, Titled, SoundAt
<1>2. r \in Tab
  <2>1. Resynced(s, server) \in Tab
    BY <1>1, ResyncedTyped
  <2> QED BY <2>1 DEF Tab
<1>3. /\ r.phase = "open" /\ r.text = text /\ r.saved = server.text
      /\ r.base = server.revision /\ r.fetched = None /\ r.request = "none"
      /\ r.status = "SYNCED" /\ r.queued = None /\ r.dirty = dirty
  BY <1>1 DEF Resynced, Tab
<1> HIDE DEF r
<1>4. SoundAt(r, n)
  BY <1>1, <1>2, <1>3 DEF SoundAt, Filled, KnowledgeSound, DirtySound, StatusSound,
                          InFlight, Blocked
<1> QED BY <1>4 DEF r

\* An accepted save moves the base to the revision it made, and what the editor
\* has moved on to meanwhile is dirty or sent next.
LEMMA AcceptedSound ==
  ASSUME NEW n \in Note, NEW s, SoundAt(s, n), s.request = "accepted"
  PROVE  SoundAt(Accepted(s), n)
<1> DEFINE newer == s.queued # None /\ s.queued # s.sending
           isLatest == ~newer /\ ~s.edited
           clear == isLatest /\ s.sending = s.text
           r == [s EXCEPT !.base = s.base + 1,
                          !.saved = s.sending, !.title = s.sending,
                          !.request = "none", !.sending = None,
                          !.dirty = ~clear, !.edited = FALSE,
                          !.queued = IF isLatest THEN None ELSE @,
                          !.status = IF newer THEN "QUEUED"
                                     ELSE IF s.edited THEN "LOCAL_CHANGES" ELSE "SYNCED"]
<1>1. /\ s \in Tab /\ s.phase = "open" /\ s.sending \in Titled
      /\ KnowsAt(s.base + 1, s.sending, n)
  BY DEF SoundAt, Filled, KnowledgeSound, Tab
<1>2. s.base + 1 \in 1..MaxRevision
  BY <1>1, EditorAssumption DEF Tab, Note, KnowsAt
<1>3. r \in Tab
  <2>1. \A b \in BOOLEAN, q \in Titled \union {None}, st \in Status :
          [s EXCEPT !.base = s.base + 1, !.saved = s.sending, !.title = s.sending,
                    !.request = "none", !.sending = None, !.dirty = b, !.edited = FALSE,
                    !.queued = q, !.status = st] \in Tab
    <3>1. s.sending \in Texts /\ s.base + 1 \in 0..MaxRevision
      BY <1>1, <1>2, EditorAssumption DEF Titled
    <3>2. [s EXCEPT !.base = s.base + 1, !.saved = s.sending, !.title = s.sending,
                    !.request = "none", !.sending = None] \in Tab
      BY <1>1, <3>1 DEF Tab
    <3> QED BY <1>1, <3>2 DEF Tab
  <2>2. (~clear) \in BOOLEAN
    OBVIOUS
  <2>3. (IF isLatest THEN None ELSE s.queued) \in Titled \union {None}
    BY <1>1 DEF Tab
  <2>4. (IF newer THEN "QUEUED" ELSE IF s.edited THEN "LOCAL_CHANGES" ELSE "SYNCED") \in Status
    BY DEF Status
  <2> HIDE DEF newer, isLatest, clear
  <2> QED BY <2>1, <2>2, <2>3, <2>4
<1>4. /\ r.phase = "open" /\ r.text = s.text /\ r.saved = s.sending
      /\ r.base = s.base + 1 /\ r.fetched = s.fetched /\ r.request = "none"
      /\ r.queued = IF isLatest THEN None ELSE s.queued
      /\ r.dirty = (~clear)
      /\ r.status = IF newer THEN "QUEUED"
                    ELSE IF s.edited THEN "LOCAL_CHANGES" ELSE "SYNCED"
  <2> HIDE DEF newer, isLatest, clear
  <2> QED BY <1>1 DEF Tab
<1>5. Accepted(s) = IF r.queued # None THEN Sent(r, r.queued) ELSE r
  BY DEF Accepted
<1> HIDE DEF r
<1>6. Filled(r) /\ KnowledgeSound(r, n)
  BY <1>1, <1>2, <1>4 DEF SoundAt, Filled, KnowledgeSound, Titled
<1>7. DirtySound(r)
  BY <1>4 DEF DirtySound
<1>8. CASE r.queued # None
  <2>1. r.queued \in Titled
    BY <1>3, <1>8 DEF Tab
  <2> QED BY <1>3, <1>4, <1>5, <1>6, <1>7, <1>8, <2>1, SentSound
<1>9. CASE r.queued = None
  <2>1. r.status \in {"LOCAL_CHANGES", "SYNCED"}
    BY <1>4, <1>9
  <2>2. StatusSound(r)
    BY <1>4, <1>9, <2>1 DEF StatusSound, InFlight, Blocked
  <2> QED BY <1>3, <1>5, <1>6, <1>7, <1>9, <2>2 DEF SoundAt
<1> QED BY <1>8, <1>9

\* A refused save, and one that failed, wait for the user with their text kept.
LEMMA RejectedSound ==
  ASSUME NEW n \in Note, NEW s, SoundAt(s, n), s.request # "none"
  PROVE  SoundAt(Rejected(s), n)
<1> DEFINE r == Rejected(s)
<1>1. s \in Tab /\ s.phase = "open" /\ s.sending \in Titled
  BY DEF SoundAt, Filled, Tab
<1>2. r \in Tab
  BY <1>1 DEF Rejected, Tab, Status
<1>3. /\ r.phase = "open" /\ r.text = s.text /\ r.saved = s.saved /\ r.base = s.base
      /\ r.fetched = None /\ r.request = "none" /\ r.queued = s.sending
      /\ r.status = "CONFLICT" /\ r.dirty = s.dirty
  BY <1>1 DEF Rejected, Tab
<1>4. s.sending # None
  BY <1>1, EditorAssumption DEF Titled
<1> HIDE DEF r
<1>5. SoundAt(r, n)
  BY <1>1, <1>2, <1>3, <1>4 DEF SoundAt, Filled, KnowledgeSound, DirtySound, StatusSound,
                          InFlight, Blocked
<1> QED BY <1>5 DEF r

\* A failed one keeps the text that was to follow it, or else its own.
LEMMA FailedSound ==
  ASSUME NEW n \in Note, NEW s, SoundAt(s, n), s.request # "none"
  PROVE  SoundAt(Failed(s), n)
<1> DEFINE r == Failed(s)
<1>1. s \in Tab /\ s.phase = "open" /\ s.sending \in Titled
  BY DEF SoundAt, Filled, Tab
<1>2. r \in Tab
  BY <1>1 DEF Failed, Tab, Status
<1>3. /\ r.phase = "open" /\ r.text = s.text /\ r.saved = s.saved /\ r.base = s.base
      /\ r.fetched = s.fetched /\ r.request = "none"
      /\ r.queued = (IF s.queued = None THEN s.sending ELSE s.queued)
      /\ r.status = "ERROR" /\ r.dirty = s.dirty
  BY <1>1 DEF Failed, Tab
<1>4. r.queued # None
  BY <1>1, <1>3, EditorAssumption DEF Titled
<1> HIDE DEF r
<1>5. SoundAt(r, n)
  BY <1>1, <1>2, <1>3, <1>4 DEF SoundAt, Filled, KnowledgeSound, DirtySound, StatusSound,
                          InFlight, Blocked
<1> QED BY <1>5 DEF r

-----------------------------------------------------------------------------
(* From a session to the system.                                           *)

\* A write moves the revision on, so what was known of older ones stays true.
LEMMA WriteKeeps ==
  ASSUME NEW n \in Note, NEW m \in Note, m.revision = n.revision + 1
  PROVE  /\ \A s : SoundAt(s, n) => SoundAt(s, m)
         /\ \A d : DraftSound(d, n) => DraftSound(d, m)
<1>1. \A b \in 0..MaxRevision : \A text : KnowsAt(b, text, n) => KnowsAt(b, text, m)
  BY EditorAssumption DEF KnowsAt, Note
<1>2. \A s : SoundAt(s, n) => SoundAt(s, m)
  <2> SUFFICES ASSUME NEW s, SoundAt(s, n) PROVE SoundAt(s, m)
    OBVIOUS
  <2>1. s \in Tab /\ Filled(s) /\ DirtySound(s) /\ StatusSound(s) /\ KnowledgeSound(s, n)
    BY DEF SoundAt
  <2>2. s.phase = "open" => KnowsAt(s.base, s.saved, m)
    BY <1>1, <2>1 DEF KnowledgeSound, Tab
  <2>3. s.fetched # None => KnowsAt(s.fetched.revision, s.fetched.text, m)
    <3>1. s.fetched # None => s.fetched.revision \in 0..MaxRevision
      BY <2>1, EditorAssumption DEF Tab, Note
    <3> QED BY <1>1, <2>1, <3>1 DEF KnowledgeSound
  <2>4. s.request = "accepted" => KnowsAt(s.base + 1, s.sending, m)
    <3>1. SUFFICES ASSUME s.request = "accepted" PROVE KnowsAt(s.base + 1, s.sending, m)
      OBVIOUS
    <3>2. KnowsAt(s.base + 1, s.sending, n)
      BY <2>1, <3>1 DEF KnowledgeSound
    <3>3. s.base + 1 \in 0..MaxRevision
      BY <2>1, <3>2, EditorAssumption DEF KnowsAt, Tab, Note
    <3> QED BY <1>1, <3>2, <3>3
  <2> QED BY <2>1, <2>2, <2>3, <2>4 DEF SoundAt, KnowledgeSound
<1>3. \A d : DraftSound(d, n) => DraftSound(d, m)
  <2> SUFFICES ASSUME NEW d, DraftSound(d, n) PROVE DraftSound(d, m)
    OBVIOUS
  <2>1. d # None => d.base \in 0..MaxRevision
    BY EditorAssumption DEF DraftSound, Draft
  <2> QED BY <1>1, <2>1 DEF DraftSound
<1> QED BY <1>2, <1>3

\* A step of one session while the document and the draft stand still.
LEMMA TabStep ==
  ASSUME IInv, note' = note, NEW t \in Tabs, NEW s, SoundAt(s, note),
         tab' = [tab EXCEPT ![t] = s],
         DraftSound(draft', note), late' \in SUBSET Save
  PROVE  IInv'
<1>1. s \in Tab
  BY DEF SoundAt
<1>2. tab' \in [Tabs -> Tab]
  BY <1>1 DEF IInv
<1>3. \A u \in Tabs : SoundAt(tab'[u], note)
  BY DEF IInv
<1> QED BY <1>2, <1>3 DEF IInv

\* A write that leaves the sessions alone.
LEMMA NoteStep ==
  ASSUME IInv, NEW text \in Titled, Write(text), tab' = tab, draft' = draft,
         late' \in SUBSET Save
  PROVE  IInv'
<1>1. note' \in Note /\ note'.revision = note.revision + 1
  BY EditorAssumption DEF IInv, Write, Note
<1>2. \A u \in Tabs : SoundAt(tab[u], note')
  BY <1>1, WriteKeeps DEF IInv
<1>3. DraftSound(draft, note')
  BY <1>1, WriteKeeps DEF IInv
<1> QED BY <1>1, <1>2, <1>3 DEF IInv

\* The draft a session flushes names a version the session knows.
LEMMA FlushedSound ==
  ASSUME NEW n \in Note, NEW s, SoundAt(s, n), s.phase = "open"
  PROVE  DraftSound(Flushed(s), n)
<1>1. KnowsAt(s.base, s.saved, n) /\ s.text \in Texts /\ s.saved \in Texts
      /\ s.base \in 1..MaxRevision
  BY DEF SoundAt, KnowledgeSound, Filled
<1>2. CASE s.dirty
  <2>1. Flushed(s) = [text |-> s.text, base |-> s.base, hash |-> s.saved]
    BY <1>2 DEF Flushed
  <2> QED BY <1>1, <2>1 DEF DraftSound, Draft
<1>3. CASE ~s.dirty
  BY <1>3 DEF Flushed, DraftSound
<1> QED BY <1>2, <1>3

\* What the queue of a session sends next has a title, if it sends anything.
LEMMA FollowingTyped ==
  ASSUME NEW s \in Tab
  PROVE  Accepted(s).sending \in Titled \union {None}
<1> DEFINE isLatest == ~(s.queued # None /\ s.queued # s.sending) /\ ~s.edited
           r == [s EXCEPT !.base = s.base + 1,
                          !.saved = s.sending, !.title = s.sending,
                          !.request = "none", !.sending = None,
                          !.dirty = ~(isLatest /\ s.sending = s.text), !.edited = FALSE,
                          !.queued = IF isLatest THEN None ELSE @,
                          !.status = IF s.queued # None /\ s.queued # s.sending THEN "QUEUED"
                                     ELSE IF s.edited THEN "LOCAL_CHANGES" ELSE "SYNCED"]
<1>1. r.sending = None /\ r.queued = IF isLatest THEN None ELSE s.queued
  BY DEF Tab
<1>2. DOMAIN r = DOMAIN s /\ "sending" \in DOMAIN s
  BY DEF Tab
<1>3. r.queued \in Titled \union {None}
  <2> HIDE DEF isLatest, r
  <2> QED BY <1>1 DEF Tab
<1>4. Accepted(s) = IF r.queued # None THEN Sent(r, r.queued) ELSE r
  BY DEF Accepted
<1> HIDE DEF r
<1>5. Sent(r, r.queued).sending = r.queued
  BY <1>2 DEF Sent
<1> QED BY <1>1, <1>3, <1>4, <1>5

\* An abandoned save is one that was sent, or that the queue sends after it.
LEMMA AbandonedTyped ==
  ASSUME IInv, NEW t \in Tabs, Abandoned(t) \/ Unmounted(t)
  PROVE  late' \in SUBSET Save
<1> DEFINE s == tab[t]
           next == Accepted(s).sending
<1>0. late \in SUBSET Save /\ SoundAt(s, note) /\ note \in Note /\ s \in Tab
  BY DEF IInv
<1>1. CASE UNCHANGED late
  BY <1>1, <1>0
<1>2. s.request = "sent" => s.sending \in Titled /\ s.base \in 1..MaxRevision
  BY <1>0 DEF SoundAt, Filled, Tab
<1>3. s.request = "accepted" => s.base + 1 \in 1..MaxRevision
  BY <1>0, EditorAssumption DEF SoundAt, Filled, KnowledgeSound, KnowsAt, Note, Tab
<1>4. next \in Titled \union {None}
  BY <1>0, FollowingTyped
<1> HIDE DEF next
<1>5. CASE s.request = "sent" /\ StillSent([text |-> s.sending, base |-> s.base, next |-> None])
  BY <1>0, <1>2, <1>5 DEF StillSent, Save
<1>6. CASE s.request = "sent" /\ StillSent([text |-> s.sending, base |-> s.base, next |-> next])
  BY <1>0, <1>2, <1>4, <1>6 DEF StillSent, Save
<1>7. CASE s.request = "accepted" /\ next # None
           /\ StillSent([text |-> next, base |-> s.base + 1, next |-> None])
  BY <1>0, <1>3, <1>4, <1>7 DEF StillSent, Save
<1> QED BY <1>1, <1>5, <1>6, <1>7 DEF Abandoned, Unmounted, next

\* No draft says nothing.
LEMMA NoDraftSound == ASSUME NEW n PROVE DraftSound(None, n)
  BY DEF DraftSound

\* At first every tab is closed.
LEMMA InitSound == Init => IInv
<1> SUFFICES ASSUME Init PROVE IInv
  OBVIOUS
<1>1. note \in Note
  BY EditorAssumption DEF Init, Note
<1>2. \A t \in Tabs : SoundAt(tab[t], note)
  BY ClosedSound DEF Init
<1>3. tab \in [Tabs -> Tab]
  BY <1>2 DEF SoundAt, Init
<1> QED BY <1>1, <1>2, <1>3, NoDraftSound DEF Init, IInv

-----------------------------------------------------------------------------
(* Every action keeps the invariant.                                       *)

\* Opening the page: what is loaded was true when it was fetched.
LEMMA OpeningStep ==
  ASSUME IInv, NEW t \in Tabs,
         Fetch(t) \/ Load(t) \/ UseRecoveredServer(t) \/ UseRecoveredLocal(t)
  PROVE  IInv'
<1> DEFINE s == tab[t]
           server == s.fetched
<1>0. /\ s \in Tab /\ SoundAt(s, note) /\ note \in Note /\ tab \in [Tabs -> Tab]
      /\ DraftSound(draft, note) /\ late \in SUBSET Save
  BY DEF IInv
<1>1. CASE Fetch(t)
  <2> DEFINE r == [Closed EXCEPT !.phase = "loading", !.fetched = note]
  <2>1. SoundAt(Closed, note) /\ Closed \in Tab
    BY ClosedSound DEF SoundAt
  <2>2. r \in Tab
    BY <1>0, <2>1 DEF Tab
  <2>3. /\ r.phase = "loading" /\ r.fetched = note /\ r.request = "none"
        /\ r.status = "SYNCED" /\ r.queued = None
    BY DEF Closed
  <2> HIDE DEF r
  <2>4. note # None
    BY <1>0, NoneAssumption
  <2>5. KnowsAt(note.revision, note.text, note)
    BY <1>0 DEF KnowsAt, Note
  <2>6. SoundAt(r, note)
    BY <2>2, <2>3, <2>4, <2>5 DEF SoundAt, Filled, KnowledgeSound, DirtySound, StatusSound,
                                  InFlight, Blocked
  <2>7. tab' = [tab EXCEPT ![t] = r] /\ note' = note /\ draft' = draft /\ late' = late
    BY <1>1 DEF Fetch, r
  <2> QED BY <1>0, <2>6, <2>7, TabStep
<1>2. ASSUME s.phase \in {"loading", "recovering"}
      PROVE  /\ server \in Note /\ KnowsAt(server.revision, server.text, note)
             /\ s.request = "none" /\ server.text \in Texts
             /\ \A text \in Texts : SoundAt(Initialized(s, text, server), note)
  <2>1. server \in Note /\ KnowsAt(server.revision, server.text, note) /\ s.request = "none"
    BY <1>0, <1>2 DEF SoundAt, Filled, KnowledgeSound, Tab
  <2>2. server.text \in Texts
    BY <2>1 DEF Note, Titled
  <2> QED BY <1>0, <2>1, <2>2, InitializedSound
<1>3. CASE Load(t)
  <2>1. s.phase = "loading"
    BY <1>3 DEF Load
  <2>2. DraftSound(draft', note)
    BY <1>0, <1>3, NoDraftSound DEF Load
  <2>3. draft # None => draft.text \in Texts
    BY <1>0 DEF DraftSound, Draft
  <2>4. CASE draft = None \/ draft.text = server.text
    <3>1. tab' = [tab EXCEPT ![t] = Initialized(s, server.text, server)]
      BY <1>3, <2>4 DEF Load
    <3> QED BY <1>0, <1>2, <1>3, <2>1, <2>2, <3>1, TabStep DEF Load
  <2>5. CASE ~(draft = None \/ draft.text = server.text) /\ Recoverable(server)
    <3>1. tab' = [tab EXCEPT ![t] = Initialized(s, draft.text, server)]
      BY <1>3, <2>5 DEF Load
    <3> QED BY <1>0, <1>2, <1>3, <2>1, <2>2, <2>3, <2>5, <3>1, TabStep DEF Load
  <2>6. CASE ~(draft = None \/ draft.text = server.text) /\ ~Recoverable(server)
    <3> DEFINE r == [s EXCEPT !.phase = "recovering", !.found = draft.text]
    <3>1. tab' = [tab EXCEPT ![t] = r]
      BY <1>3, <2>6 DEF Load
    <3>2. r \in Tab
      BY <1>0, <2>3, <2>6 DEF Tab
    <3>3. /\ r.phase = "recovering" /\ r.fetched = s.fetched /\ r.found = draft.text
          /\ r.request = s.request /\ r.status = s.status /\ r.queued = s.queued
      BY <1>0 DEF Tab
    <3>4. draft.text # None
      BY <2>3, <2>6, EditorAssumption
    <3> HIDE DEF r
    <3>5. SoundAt(r, note)
      BY <1>0, <1>2, <2>1, <3>2, <3>3, <3>4
         DEF SoundAt, Filled, KnowledgeSound, DirtySound, StatusSound, InFlight, Blocked
    <3> QED BY <1>0, <1>3, <2>2, <3>1, <3>5, TabStep DEF Load
  <2> QED BY <2>4, <2>5, <2>6
<1>4. CASE UseRecoveredServer(t)
  <2>1. s.phase = "recovering" /\ tab' = [tab EXCEPT ![t] = Initialized(s, server.text, server)]
    BY <1>4 DEF UseRecoveredServer
  <2> QED BY <1>0, <1>2, <1>4, <2>1, NoDraftSound, TabStep DEF UseRecoveredServer
<1>5. CASE UseRecoveredLocal(t)
  <2>1. s.phase = "recovering" /\ tab' = [tab EXCEPT ![t] = Initialized(s, s.found, server)]
    BY <1>5 DEF UseRecoveredLocal
  <2>2. s.found \in Texts
    BY <1>0, <2>1 DEF SoundAt, Filled, Tab
  <2> QED BY <1>0, <1>2, <1>5, <2>1, <2>2, TabStep DEF UseRecoveredLocal
<1> QED BY <1>1, <1>3, <1>4, <1>5

\* Typing and asking for a save.
LEMMA EditingStep ==
  ASSUME IInv, NEW t \in Tabs,
         \/ \E text \in Texts : Type(t, text)
         \/ Autosave(t) \/ ManualSave(t) \/ Retry(t)
  PROVE  IInv'
<1> DEFINE s == tab[t]
<1>0. /\ s \in Tab /\ SoundAt(s, note) /\ note \in Note /\ tab \in [Tabs -> Tab]
      /\ DraftSound(draft, note) /\ late \in SUBSET Save
  BY DEF IInv
<1>1. ASSUME NEW text \in Texts, Type(t, text) PROVE IInv'
  <2> DEFINE typed == [s EXCEPT !.text = text, !.dirty = text # s.saved]
  <2>1. s.phase = "open"
    BY <1>1 DEF Type
  <2>2. typed \in Tab
    <3>1. \A b \in BOOLEAN : [s EXCEPT !.text = text, !.dirty = b] \in Tab
      BY <1>0 DEF Tab
    <3>2. (text # s.saved) \in BOOLEAN
      OBVIOUS
    <3> QED BY <3>1, <3>2
  <2>3. /\ typed.phase = "open" /\ typed.text = text /\ typed.saved = s.saved
        /\ typed.base = s.base /\ typed.fetched = s.fetched /\ typed.request = s.request
        /\ typed.sending = s.sending /\ typed.status = s.status /\ typed.queued = s.queued
        /\ typed.dirty = (text # s.saved)
    BY <1>0, <2>1 DEF Tab
  <2>4. tab' = [tab EXCEPT ![t] = IF typed.dirty THEN Marked(typed) ELSE typed]
    BY <1>1 DEF Type
  <2> HIDE DEF typed
  <2>5. SoundAt(typed, note)
    BY <1>0, <2>1, <2>2, <2>3 DEF SoundAt, Filled, KnowledgeSound, DirtySound, StatusSound,
                                  InFlight, Blocked
  <2>6. SoundAt(IF typed.dirty THEN Marked(typed) ELSE typed, note)
    BY <1>0, <2>5, MarkedSound
  <2> QED BY <1>0, <1>1, <2>4, <2>6, TabStep DEF Type
<1>2. CASE Autosave(t)
  <2>1. SoundAt(SaveRequested(s, s.text), note)
    BY <1>0, <1>2, SaveRequestedSound DEF Autosave
  <2> QED BY <1>0, <1>2, <2>1, TabStep DEF Autosave
<1>3. CASE ManualSave(t)
  <2>1. SoundAt(SaveRequested(s, s.text), note)
    BY <1>0, <1>3, SaveRequestedSound DEF ManualSave
  <2> QED BY <1>0, <1>3, <2>1, TabStep DEF ManualSave
<1>4. CASE Retry(t)
  <2>1. SoundAt(Sent(s, s.text), note)
    BY <1>0, <1>4, SentSound DEF Retry, SoundAt
  <2> QED BY <1>0, <1>4, <2>1, TabStep DEF Retry
<1> QED BY <1>1, <1>2, <1>3, <1>4

\* The server, where the document changes.
LEMMA ServerStep ==
  ASSUME IInv,
         \/ \E t \in Tabs : ServerSaves(t)
         \/ ServerSavesLate
         \/ \E text \in Titled : ImportOverwrites(text)
  PROVE  IInv'
<1>0. /\ note \in Note /\ tab \in [Tabs -> Tab] /\ late \in SUBSET Save
      /\ DraftSound(draft, note) /\ \A u \in Tabs : SoundAt(tab[u], note)
  BY DEF IInv
<1>1. ASSUME NEW t \in Tabs, ServerSaves(t) PROVE IInv'
  <2> DEFINE s == tab[t]
  <2>1. /\ s \in Tab /\ SoundAt(s, note) /\ s.request = "sent" /\ s.phase = "open"
        /\ s.sending \in Titled /\ s.base \in 1..MaxRevision /\ s.sending # None
    BY <1>0, <1>1 DEF ServerSaves, SoundAt, Filled, Tab
  <2>2. CASE /\ Accepts(s.base) /\ Write(s.sending)
             /\ tab' = [tab EXCEPT ![t].request = "accepted"]
    <3> DEFINE r == [s EXCEPT !.request = "accepted"]
    <3>1. /\ note' = [text |-> s.sending, revision |-> note.revision + 1]
          /\ note' \in Note /\ s.base = note.revision
      BY <1>0, <2>1, <2>2, EditorAssumption DEF Accepts, Write, Note
    <3>2. tab' = [tab EXCEPT ![t] = r]
      BY <1>0, <2>2
    <3>3. r \in Tab
      BY <2>1 DEF Tab
    <3>4. /\ r.phase = "open" /\ r.text = s.text /\ r.saved = s.saved /\ r.base = s.base
          /\ r.fetched = s.fetched /\ r.request = "accepted" /\ r.sending = s.sending
          /\ r.status = s.status /\ r.queued = s.queued /\ r.dirty = s.dirty
      BY <2>1 DEF Tab
    <3> HIDE DEF r
    <3>5. SoundAt(s, note') /\ DraftSound(draft, note')
      BY <1>0, <2>1, <3>1, WriteKeeps
    <3>6. KnowsAt(r.base + 1, r.sending, note')
      BY <3>1, <3>4 DEF KnowsAt, Note
    <3>7. SoundAt(r, note')
      BY <2>1, <3>3, <3>4, <3>5, <3>6 DEF SoundAt, Filled, KnowledgeSound, DirtySound,
                                          StatusSound, InFlight, Blocked
    <3>8. \A u \in Tabs : SoundAt(tab[u], note')
      BY <1>0, <3>1, WriteKeeps
    <3>9. \A u \in Tabs : SoundAt(tab'[u], note')
      BY <1>0, <3>2, <3>7, <3>8
    <3>10. tab' \in [Tabs -> Tab] /\ draft' = draft /\ late' = late
      BY <1>0, <1>1, <3>2, <3>3 DEF ServerSaves
    <3> QED BY <1>0, <3>1, <3>5, <3>9, <3>10 DEF IInv
  <2>3. CASE /\ tab' = [tab EXCEPT ![t].request = "rejected"] /\ UNCHANGED note
    <3> DEFINE r == [s EXCEPT !.request = "rejected"]
    <3>1. tab' = [tab EXCEPT ![t] = r]
      BY <1>0, <2>3
    <3>2. r \in Tab
      BY <2>1 DEF Tab
    <3>3. /\ r.phase = "open" /\ r.text = s.text /\ r.saved = s.saved /\ r.base = s.base
          /\ r.fetched = s.fetched /\ r.request = "rejected" /\ r.sending = s.sending
          /\ r.status = s.status /\ r.queued = s.queued /\ r.dirty = s.dirty
      BY <2>1 DEF Tab
    <3> HIDE DEF r
    <3>4. SoundAt(r, note)
      BY <2>1, <3>2, <3>3 DEF SoundAt, Filled, KnowledgeSound, DirtySound,
                              StatusSound, InFlight, Blocked
    <3>5. draft' = draft /\ late' = late
      BY <1>1 DEF ServerSaves
    <3> QED BY <1>0, <2>3, <3>1, <3>4, <3>5, TabStep
  <2> QED BY <1>1, <2>2, <2>3 DEF ServerSaves
<1>2. CASE ServerSavesLate
  <2>1. PICK q \in late :
          /\ \/ /\ Accepts(q.base) /\ Write(q.text)
                /\ \/ late' = late \ {q}
                   \/ /\ q.next # None
                      /\ late' = (late \ {q}) \union
                                  {[text |-> q.next, base |-> q.base + 1, next |-> None]}
             \/ ~Accepts(q.base) /\ late' = late \ {q} /\ UNCHANGED note
          /\ UNCHANGED <<tab, draft>>
    BY <1>2 DEF ServerSavesLate
  <2>2. q.text \in Titled /\ q.base \in 1..MaxRevision /\ q.next \in Titled \union {None}
    BY <1>0, <2>1 DEF Save
  <2>3. CASE Accepts(q.base) /\ Write(q.text)
    <3>1. q.base + 1 \in 1..MaxRevision
      BY <2>2, <2>3, EditorAssumption DEF Accepts, Write
    <3>2. q.next # None =>
            [text |-> q.next, base |-> q.base + 1, next |-> None] \in Save
      BY <2>2, <3>1 DEF Save
    <3>3. late' \in SUBSET Save
      BY <1>0, <2>1, <2>3, <3>2
    <3> QED BY <2>1, <2>2, <2>3, <3>3, NoteStep
  <2>4. CASE late' = late \ {q} /\ UNCHANGED note
    BY <1>0, <2>1, <2>4 DEF IInv
  <2> QED BY <2>1, <2>3, <2>4
<1>3. ASSUME NEW text \in Titled, ImportOverwrites(text) PROVE IInv'
  BY <1>0, <1>3, NoteStep DEF ImportOverwrites
<1> QED BY <1>1, <1>2, <1>3

\* The answer, or none.
LEMMA AnswerStep ==
  ASSUME IInv, NEW t \in Tabs, Receive(t) \/ Fail(t)
  PROVE  IInv'
<1> DEFINE s == tab[t]
<1>0. /\ SoundAt(s, note) /\ note \in Note /\ DraftSound(draft, note) /\ late \in SUBSET Save
  BY DEF IInv
<1>1. CASE Receive(t) /\ s.request = "accepted"
  <2>1. tab' = [tab EXCEPT ![t] = Accepted(s)]
    BY <1>1 DEF Receive
  <2> QED BY <1>0, <1>1, <2>1, AcceptedSound, TabStep DEF Receive
<1>2. CASE Receive(t) /\ s.request = "rejected"
  <2>1. tab' = [tab EXCEPT ![t] = Rejected(s)]
    BY <1>2 DEF Receive
  <2> QED BY <1>0, <1>2, <2>1, RejectedSound, TabStep DEF Receive
<1>3. CASE Fail(t)
  <2>1. late' \in SUBSET Save
    BY <1>3, AbandonedTyped DEF Fail
  <2>2. SoundAt(Failed(s), note)
    BY <1>0, <1>3, FailedSound DEF Fail
  <2> QED BY <1>0, <1>3, <2>1, <2>2, TabStep DEF Fail
<1> QED BY <1>1, <1>2, <1>3 DEF Receive

\* A conflict and its two ways out.
LEMMA ConflictStep ==
  ASSUME IInv, NEW t \in Tabs,
         LoadConflict(t) \/ UseConflictServer(t) \/ KeepConflictDraft(t)
  PROVE  IInv'
<1> DEFINE s == tab[t]
           server == s.fetched
<1>0. /\ s \in Tab /\ SoundAt(s, note) /\ note \in Note /\ tab \in [Tabs -> Tab]
      /\ DraftSound(draft, note) /\ late \in SUBSET Save
  BY DEF IInv
<1>1. CASE LoadConflict(t)
  <2> DEFINE r == [s EXCEPT !.fetched = note]
  <2>1. tab' = [tab EXCEPT ![t] = r]
    BY <1>0, <1>1 DEF LoadConflict
  <2>2. r \in Tab
    BY <1>0 DEF Tab
  <2>3. /\ r.phase = s.phase /\ r.text = s.text /\ r.saved = s.saved /\ r.base = s.base
        /\ r.fetched = note /\ r.request = s.request /\ r.sending = s.sending
        /\ r.status = s.status /\ r.queued = s.queued /\ r.dirty = s.dirty
        /\ r.found = s.found
    BY <1>0 DEF Tab
  <2> HIDE DEF r
  <2>4. KnowsAt(note.revision, note.text, note) /\ note # None
    BY <1>0, NoneAssumption DEF KnowsAt, Note
  <2>5. SoundAt(r, note)
    BY <1>0, <2>2, <2>3, <2>4 DEF SoundAt, Filled, KnowledgeSound, DirtySound,
                                  StatusSound, InFlight, Blocked
  <2> QED BY <1>0, <1>1, <2>1, <2>5, TabStep DEF LoadConflict
<1>2. ASSUME s.phase = "open", s.status = "CONFLICT", s.fetched # None
      PROVE  /\ server \in Note /\ KnowsAt(server.revision, server.text, note)
             /\ s.request = "none" /\ s.text \in Texts /\ server.text \in Texts
  <2>1. server \in Note /\ KnowsAt(server.revision, server.text, note) /\ s.text \in Texts
    BY <1>0, <1>2 DEF SoundAt, Filled, KnowledgeSound, Tab
  <2>2. s.request = "none"
    BY <1>0, <1>2 DEF SoundAt, StatusSound, InFlight
  <2>3. server.text \in Texts
    BY <2>1 DEF Note, Titled
  <2> QED BY <2>1, <2>2, <2>3
<1>3. CASE UseConflictServer(t)
  <2>1. s.phase = "open" /\ s.status = "CONFLICT" /\ s.fetched # None
    BY <1>3 DEF UseConflictServer
  <2>2. SoundAt([Resynced(s, server) EXCEPT
                   !.text = server.text, !.dirty = FALSE, !.fetched = None], note)
    BY <1>0, <1>2, <2>1, ResolvedSound
  <2> QED BY <1>0, <1>3, <2>2, NoDraftSound, TabStep DEF UseConflictServer
<1>4. CASE KeepConflictDraft(t)
  <2> DEFINE r == [Resynced(s, server) EXCEPT !.dirty = TRUE, !.fetched = None]
             q == [Resynced(s, server) EXCEPT !.text = s.text, !.dirty = TRUE, !.fetched = None]
  <2>1. s.phase = "open" /\ s.status = "CONFLICT" /\ s.fetched # None /\ s.text \in Titled
    BY <1>4 DEF KeepConflictDraft
  <2>2. SoundAt(q, note)
    BY <1>0, <1>2, <2>1, ResolvedSound
  <2>3. r = q
    <3>1. Resynced(s, server) \in Tab /\ Resynced(s, server).text = s.text
      BY <1>0, <1>2, <2>1, ResyncedTyped DEF Resynced, Tab
    <3> QED BY <3>1 DEF Tab
  <2>4. r.phase = "open" /\ r.request = "none" /\ r.text = s.text /\ r.status = "SYNCED"
    BY <1>0, <1>2, <2>1 DEF Resynced, Tab
  <2>5. SoundAt(Marked(r), note)
    BY <1>0, <2>2, <2>3, MarkedSound
  <2>6. /\ Marked(r).phase = "open" /\ Marked(r).text = s.text
        /\ Marked(r).status = "LOCAL_CHANGES"
    <3>1. r \in Tab
      BY <2>2, <2>3 DEF SoundAt
    <3> HIDE DEF r
    <3> QED BY <2>4, <3>1 DEF Marked, Tab, Blocked, InFlight
  <2>7. tab' = [tab EXCEPT ![t] = SaveRequested(Marked(r), s.text)]
    BY <1>4 DEF KeepConflictDraft
  <2> HIDE DEF r
  <2>8. SoundAt(SaveRequested(Marked(r), s.text), note)
    BY <1>0, <2>1, <2>5, <2>6, SaveRequestedSound DEF Blocked
  <2> QED BY <1>0, <1>4, <2>7, <2>8, TabStep DEF KeepConflictDraft
<1> QED BY <1>1, <1>3, <1>4

\* The draft, and a tab that goes.
LEMMA LeavingStep ==
  ASSUME IInv, NEW t \in Tabs, FlushDraft(t) \/ Leave(t) \/ Crash(t)
  PROVE  IInv'
<1> DEFINE s == tab[t]
<1>0. /\ s \in Tab /\ SoundAt(s, note) /\ note \in Note
      /\ DraftSound(draft, note) /\ late \in SUBSET Save
  BY DEF IInv
<1>1. CASE FlushDraft(t)
  <2>1. DraftSound(draft', note)
    BY <1>0, <1>1, FlushedSound DEF FlushDraft
  <2> QED BY <1>1, <2>1 DEF FlushDraft, IInv
<1>2. CASE Leave(t)
  <2> DEFINE r == [Closed EXCEPT !.phase = "left", !.text = s.text, !.dirty = s.dirty]
  <2>1. DraftSound(draft', note)
    BY <1>0, <1>2, FlushedSound DEF Leave
  <2>2. Closed \in Tab
    BY <1>0, ClosedSound DEF SoundAt
  <2>3. r \in Tab
    BY <1>0, <2>2 DEF Tab
  <2>4. /\ r.phase = "left" /\ r.fetched = None /\ r.request = "none"
        /\ r.status = "SYNCED" /\ r.queued = None
    BY DEF Closed
  <2> HIDE DEF r
  <2>5. SoundAt(r, note)
    BY <2>3, <2>4 DEF SoundAt, Filled, KnowledgeSound, DirtySound, StatusSound,
                      InFlight, Blocked
  <2>6. tab' = [tab EXCEPT ![t] = r] /\ note' = note
    BY <1>2 DEF Leave, r
  <2>7. late' \in SUBSET Save
    BY <1>2, AbandonedTyped DEF Leave
  <2> QED BY <2>1, <2>5, <2>6, <2>7, TabStep
<1>3. CASE Crash(t)
  <2>1. late' \in SUBSET Save
    BY <1>3, AbandonedTyped DEF Crash
  <2> QED BY <1>0, <1>3, <2>1, ClosedSound, TabStep DEF Crash
<1> QED BY <1>1, <1>2, <1>3

\* The invariant is inductive.
LEMMA StepSound == IInv /\ [Next]_vars => IInv'
<1> SUFFICES ASSUME IInv, [Next]_vars PROVE IInv'
  OBVIOUS
<1>1. CASE UNCHANGED vars
  BY <1>1 DEF vars, IInv
<1>2. CASE Next
  BY <1>2, OpeningStep, EditingStep, ServerStep, AnswerStep, ConflictStep, LeavingStep DEF Next
<1> QED BY <1>1, <1>2

\* So it holds in every reachable state.
THEOREM SpecSound == Spec => []IInv
  BY InitSound, StepSound, PTL DEF Spec
-----------------------------------------------------------------------------
(* What it means.                                                          *)

\* TypeOK: the row, the sessions, the draft and the requests keep their types.
THEOREM TypeCorrect == Spec => []TypeOK
<1>1. IInv => TypeOK
  BY DEF IInv, TypeOK, DraftSound
<1> QED BY <1>1, SpecSound, PTL

\* BaseIsKnown: a revision number held anywhere, in a session, in a dialog, in an
\* answer on its way or in the draft, is held with the text it belongs to, for
\* any number of tabs and whatever is lost, delayed or killed.
THEOREM KnownCorrect == Spec => []BaseIsKnown
<1>1. IInv => BaseIsKnown
  BY DEF IInv, BaseIsKnown, SoundAt, KnowledgeSound, DraftSound, Knows, KnowsAt
<1> QED BY <1>1, SpecSound, PTL

\* UnsavedIsDirty: no sequence of edits, answers and decisions leaves unconfirmed
\* text in an editor that takes it for saved.
THEOREM DirtyCorrect == Spec => []UnsavedIsDirty
<1>1. IInv => UnsavedIsDirty
  BY DEF IInv, UnsavedIsDirty, SoundAt, DirtySound
<1> QED BY <1>1, SpecSound, PTL

\* StatusIsHonest: the status says whether a request is under way, and the text
\* of a refused or failed save is kept until the user has decided.
THEOREM StatusCorrect == Spec => []StatusIsHonest
<1>1. IInv => StatusIsHonest
  BY DEF IInv, StatusIsHonest, SoundAt, StatusSound
<1> QED BY <1>1, SpecSound, PTL

-----------------------------------------------------------------------------
(* Only the server accepts a save.                                         *)

\* What the functions of the queue do to the request.
LEMMA Requests ==
  ASSUME NEW s \in Tab, NEW text
  PROVE  /\ Marked(s).request = s.request
         /\ Sent(s, text).request = "sent"
         /\ SaveRequested(s, text).request \in {s.request, "sent"}
         /\ \A server : Initialized(s, text, server).request = s.request
         /\ Accepted(s).request \in {"none", "sent"}
         /\ Rejected(s).request = "none"
         /\ Failed(s).request = "none"
<1>1. Marked(s).request = s.request
  BY DEF Marked, Tab
<1>2. Sent(s, text).request = "sent"
  BY DEF Sent, Tab
<1>3. SaveRequested(s, text).request \in {s.request, "sent"}
  BY <1>2 DEF SaveRequested, Tab
<1>4. ASSUME NEW server PROVE Initialized(s, text, server).request = s.request
  BY DEF Initialized, Resynced, Marked, Tab
<1>5. Accepted(s).request \in {"none", "sent"}
  BY DEF Accepted, Sent, Tab
<1>6. Rejected(s).request = "none" /\ Failed(s).request = "none"
  BY DEF Rejected, Failed, Tab
<1> QED BY <1>1, <1>2, <1>3, <1>4, <1>5, <1>6

\* An action of a tab, apart from its request to the server, accepts nothing.
LEMMA TabsAcceptNothing ==
  ASSUME IInv, NEW t \in Tabs,
         \/ Fetch(t) \/ Load(t) \/ UseRecoveredServer(t) \/ UseRecoveredLocal(t)
         \/ \E text \in Texts : Type(t, text)
         \/ Autosave(t) \/ ManualSave(t) \/ Retry(t) \/ Receive(t) \/ Fail(t)
         \/ LoadConflict(t) \/ UseConflictServer(t) \/ KeepConflictDraft(t)
         \/ FlushDraft(t) \/ Leave(t) \/ Crash(t)
  PROVE  \A u \in Tabs : tab'[u].request = "accepted" => tab[u].request = "accepted"
<1> DEFINE s == tab[t]
<1>0. s \in Tab /\ tab \in [Tabs -> Tab]
  BY DEF IInv
<1> DEFINE NoNewAnswer == \A u \in Tabs : tab'[u].request = "accepted" => tab[u].request = "accepted"
<1>1. ASSUME NEW r, tab' = [tab EXCEPT ![t] = r],
             r.request = "accepted" => s.request = "accepted"
      PROVE  NoNewAnswer
  BY <1>0, <1>1
<1> SUFFICES NoNewAnswer
  OBVIOUS
<1> HIDE DEF NoNewAnswer
<1>2. CASE Fetch(t)
  <2>1. [Closed EXCEPT !.phase = "loading", !.fetched = note].request = "none"
    BY DEF Closed
  <2> QED BY <1>1, <1>2, <2>1 DEF Fetch
<1>3. CASE Load(t)
  <2> DEFINE server == s.fetched
             found == [s EXCEPT !.phase = "recovering", !.found = draft.text]
  <2>1. found.request = s.request
    BY <1>0 DEF Tab
  <2>2. \A text : Initialized(s, text, server).request = s.request
    BY <1>0, Requests
  <2>3. \/ tab' = [tab EXCEPT ![t] = Initialized(s, server.text, server)]
        \/ tab' = [tab EXCEPT ![t] = Initialized(s, draft.text, server)]
        \/ tab' = [tab EXCEPT ![t] = found]
    BY <1>3 DEF Load
  <2> HIDE DEF found, server
  <2>4. CASE tab' = [tab EXCEPT ![t] = Initialized(s, server.text, server)]
    BY <1>1, <2>2, <2>4
  <2>5. CASE tab' = [tab EXCEPT ![t] = Initialized(s, draft.text, server)]
    BY <1>1, <2>2, <2>5
  <2>6. CASE tab' = [tab EXCEPT ![t] = found]
    BY <1>1, <2>1, <2>6
  <2> QED BY <2>3, <2>4, <2>5, <2>6
<1>4. CASE UseRecoveredServer(t) \/ UseRecoveredLocal(t)
  <2>1. \A text : Initialized(s, text, s.fetched).request = s.request
    BY <1>0, Requests
  <2>2. CASE tab' = [tab EXCEPT ![t] = Initialized(s, s.fetched.text, s.fetched)]
    BY <1>1, <2>1, <2>2
  <2>3. CASE tab' = [tab EXCEPT ![t] = Initialized(s, s.found, s.fetched)]
    BY <1>1, <2>1, <2>3
  <2> QED BY <1>4, <2>2, <2>3 DEF UseRecoveredServer, UseRecoveredLocal
<1>5. ASSUME NEW text \in Texts, Type(t, text) PROVE NoNewAnswer
  <2> DEFINE typed == [s EXCEPT !.text = text, !.dirty = text # s.saved]
  <2>1. typed \in Tab
    <3>1. \A b \in BOOLEAN : [s EXCEPT !.text = text, !.dirty = b] \in Tab
      BY <1>0 DEF Tab
    <3>2. (text # s.saved) \in BOOLEAN
      OBVIOUS
    <3> QED BY <3>1, <3>2
  <2>2. typed.request = s.request
    BY <1>0 DEF Tab
  <2>3. \/ tab' = [tab EXCEPT ![t] = Marked(typed)]
        \/ tab' = [tab EXCEPT ![t] = typed]
    BY <1>5 DEF Type
  <2> HIDE DEF typed
  <2>4. Marked(typed).request = s.request
    BY <2>1, <2>2, Requests
  <2> QED BY <1>1, <2>2, <2>3, <2>4
<1>6. CASE Autosave(t) \/ ManualSave(t)
  <2>1. tab' = [tab EXCEPT ![t] = SaveRequested(s, s.text)]
    BY <1>6 DEF Autosave, ManualSave
  <2>2. SaveRequested(s, s.text).request \in {s.request, "sent"}
    BY <1>0, Requests
  <2> QED BY <1>1, <2>1, <2>2
<1>7. CASE Retry(t)
  <2>1. tab' = [tab EXCEPT ![t] = Sent(s, s.text)]
    BY <1>7 DEF Retry
  <2>2. Sent(s, s.text).request = "sent"
    BY <1>0, Requests
  <2> QED BY <1>1, <2>1, <2>2
<1>8. CASE Receive(t) \/ Fail(t)
  <2>1. /\ Accepted(s).request \in {"none", "sent"}
        /\ Rejected(s).request = "none" /\ Failed(s).request = "none"
    BY <1>0, Requests
  <2>2. CASE tab' = [tab EXCEPT ![t] = Accepted(s)]
    BY <1>1, <2>1, <2>2
  <2>3. CASE tab' = [tab EXCEPT ![t] = Rejected(s)]
    BY <1>1, <2>1, <2>3
  <2>4. CASE tab' = [tab EXCEPT ![t] = Failed(s)]
    BY <1>1, <2>1, <2>4
  <2> QED BY <1>8, <2>2, <2>3, <2>4 DEF Receive, Fail
<1>9. CASE LoadConflict(t)
  <2>1. [s EXCEPT !.fetched = note].request = s.request
    BY <1>0 DEF Tab
  <2>2. tab' = [tab EXCEPT ![t] = [s EXCEPT !.fetched = note]]
    BY <1>0, <1>9 DEF LoadConflict
  <2> QED BY <1>1, <2>1, <2>2
<1>10. CASE UseConflictServer(t)
  <2> DEFINE r == [Resynced(s, s.fetched) EXCEPT !.text = s.fetched.text,
                                                 !.dirty = FALSE, !.fetched = None]
  <2>1. r.request = s.request
    BY <1>0 DEF Resynced, Tab
  <2>2. tab' = [tab EXCEPT ![t] = r]
    BY <1>10 DEF UseConflictServer
  <2> HIDE DEF r
  <2> QED BY <1>1, <2>1, <2>2
<1>11. CASE KeepConflictDraft(t)
  <2> DEFINE server == s.fetched
             q == [Resynced(s, server) EXCEPT !.dirty = TRUE, !.fetched = None]
  <2>1. server \in Note
    BY <1>0, <1>11 DEF KeepConflictDraft, Tab
  <2>2. Resynced(s, server) \in Tab /\ Resynced(s, server).request = s.request
    BY <1>0, <2>1, ResyncedTyped DEF Resynced, Tab
  <2>3. q \in Tab /\ q.request = s.request
    BY <2>2 DEF Tab
  <2>4. tab' = [tab EXCEPT ![t] = SaveRequested(Marked(q), s.text)]
    BY <1>11 DEF KeepConflictDraft
  <2> HIDE DEF q
  <2>5. Marked(q) \in Tab /\ Marked(q).request = s.request
    BY <2>3, MarkedTyped, Requests
  <2>6. SaveRequested(Marked(q), s.text).request \in {s.request, "sent"}
    BY <2>5, Requests
  <2> QED BY <1>1, <2>4, <2>6
<1>12. CASE FlushDraft(t)
  BY <1>12 DEF FlushDraft, NoNewAnswer
<1>13. CASE Leave(t)
  <2> DEFINE r == [Closed EXCEPT !.phase = "left", !.text = s.text, !.dirty = s.dirty]
  <2>1. r.request = "none"
    BY DEF Closed
  <2>2. tab' = [tab EXCEPT ![t] = r]
    BY <1>13 DEF Leave
  <2> HIDE DEF r
  <2> QED BY <1>1, <2>1, <2>2
<1>14. CASE Crash(t)
  <2>1. Closed.request = "none"
    BY DEF Closed
  <2> QED BY <1>1, <1>14, <2>1 DEF Crash
<1>15. CASE \E text \in Texts : Type(t, text)
  BY <1>5, <1>15
<1> QED
  BY <1>2, <1>3, <1>4, <1>6, <1>7, <1>8, <1>9, <1>10, <1>11, <1>12, <1>13, <1>14, <1>15

\* NoBlindOverwrite: a save that is accepted replaces the very text its tab has
\* last confirmed, and with the very text the tab sent.
THEOREM OverwriteCorrect == Spec => NoBlindOverwrite
<1>1. ASSUME IInv, [Next]_vars, NEW t \in Tabs,
             tab[t].request = "sent", tab'[t].request = "accepted"
      PROVE  note.text = tab[t].saved /\ note'.text = tab[t].sending
  <2>0. tab \in [Tabs -> Tab] /\ note \in Note /\ SoundAt(tab[t], note)
    BY <1>1 DEF IInv
  <2>1. tab' # tab
    BY <1>1
  <2>2. PICK u \in Tabs : ServerSaves(u)
    BY <1>1, <2>1, TabsAcceptNothing DEF Next, vars, ServerSavesLate, ImportOverwrites
  <2>3. u = t
    BY <1>1, <2>0, <2>2 DEF ServerSaves
  <2>4. Accepts(tab[t].base) /\ Write(tab[t].sending)
    BY <1>1, <2>0, <2>2, <2>3 DEF ServerSaves, Tab
  <2>5. tab[t].phase = "open" /\ KnowsAt(tab[t].base, tab[t].saved, note)
    BY <1>1, <2>0 DEF SoundAt, Filled, KnowledgeSound
  <2> QED BY <2>4, <2>5 DEF Accepts, Write, KnowsAt
<1>2. IInv /\ [Next]_vars =>
        [\A t \in Tabs :
           tab[t].request = "sent" /\ tab'[t].request = "accepted" =>
             /\ note.text = tab[t].saved
             /\ note'.text = tab[t].sending]_vars
  BY <1>1
<1> QED BY <1>2, SpecSound, PTL DEF Spec, NoBlindOverwrite

-----------------------------------------------------------------------------
(***************************************************************************)
(* However many workers take an import over from each other, crash or fail *)
(* between its notes, every note is written once or not at all, and the    *)
(* row of the note says which; for any archive and any number of workers.  *)
(*                                                                         *)
(* What makes it hold is the row that a worker has locked: nobody else     *)
(* works on it, and it is still pending when its transaction commits.      *)
(***************************************************************************)

WorkerStates ==
  [does : {"poll", "loop", "note"}, note : ImportNotes \cup {0},
   outcome : {"none", "skipped", "updated", "suffixed", "created", "failed"}]

RowsTyped ==
  /\ noteRows \in [ImportNotes -> {"pending"} \cup Terminal]
  /\ written \in [ImportNotes -> Nat]
  /\ worker \in [ImportWorkers -> WorkerStates]
  /\ \A w \in ImportWorkers : worker[w].note = 0 <=> worker[w].does # "note"

\* The note a worker has in its hands is nobody else's.
RowsExclusive ==
  \A w, u \in ImportWorkers :
    worker[w].does = "note" /\ worker[u].does = "note" /\ worker[w].note = worker[u].note => w = u

\* The row of a note that a transaction works on is pending.
HeldIsPending ==
  \A w \in ImportWorkers : worker[w].does = "note" => noteRows[worker[w].note] = "pending"

ImportIInv == RowsTyped /\ RowsExclusive /\ HeldIsPending /\ ImportedOnce
-----------------------------------------------------------------------------
LEMMA ImportStarts == ASSUME ImportBounds, ImportInit PROVE ImportIInv
  BY DEF ImportBounds, ImportInit, ImportIInv, RowsTyped, RowsExclusive, HeldIsPending, ImportedOnce,
     WorkerStates, IdleWorker, Terminal

\* A step that leaves the rows alone and puts no worker on a note.
LEMMA RestingWorkers ==
  ASSUME ImportBounds, ImportIInv, UNCHANGED <<noteRows, written>>,
         NEW w \in ImportWorkers, NEW d \in {"poll", "loop"},
         worker[w].does # "note" \/ d = "poll",
         worker' = [worker EXCEPT ![w] = [IdleWorker EXCEPT !.does = d]]
  PROVE  ImportIInv'
  <1>1. [IdleWorker EXCEPT !.does = d] = [does |-> d, note |-> 0, outcome |-> "none"]
    BY DEF IdleWorker
  <1>2. /\ worker' \in [ImportWorkers -> WorkerStates]
        /\ \A u \in ImportWorkers : worker'[u] = IF u = w THEN [does |-> d, note |-> 0, outcome |-> "none"] ELSE worker[u]
    BY <1>1 DEF ImportIInv, RowsTyped, WorkerStates
  <1> QED
    BY <1>2 DEF ImportBounds, ImportIInv, RowsTyped, RowsExclusive, HeldIsPending, ImportedOnce

\* Steps of the dialog, of the clock and of the library touch neither.
LEMMA OthersKeepRows ==
  ASSUME ImportIInv, UNCHANGED <<noteRows, written, worker>> PROVE ImportIInv'
  BY DEF ImportIInv, RowsTyped, RowsExclusive, HeldIsPending, ImportedOnce

LEMMA ClaimKeepsRows ==
  ASSUME ImportBounds, ImportIInv, NEW w \in ImportWorkers, Claim(w) PROVE ImportIInv'
  <1>1. worker[w] \in WorkerStates /\ worker[w].does = "poll" /\ worker[w].note = 0
    BY DEF ImportIInv, RowsTyped, Claim
  <1>2. /\ worker' \in [ImportWorkers -> WorkerStates]
        /\ \A u \in ImportWorkers \ {w} : worker'[u] = worker[u]
        /\ worker'[w].does = "loop" /\ worker'[w].note = 0
    BY <1>1 DEF ImportIInv, RowsTyped, WorkerStates, Claim
  <1> QED
    BY <1>2 DEF ImportBounds, ImportIInv, RowsTyped, RowsExclusive, HeldIsPending, ImportedOnce, Claim

\* A worker takes a row that is pending and that nobody has locked.
LEMMA TakingKeepsRows ==
  ASSUME ImportBounds, ImportIInv, NEW w \in ImportWorkers, importNote(w) PROVE ImportIInv'
  <1>1. PICK n \in First(NextPending) : \E o \in Outcomes(n) :
          worker' = [worker EXCEPT ![w] = [does |-> "note", note |-> n, outcome |-> o]]
    BY DEF importNote
  <1>2. PICK o \in Outcomes(n) :
          worker' = [worker EXCEPT ![w] = [does |-> "note", note |-> n, outcome |-> o]]
    BY <1>1
  <1>3. n \in ImportNotes /\ noteRows[n] = "pending" /\ \A u \in ImportWorkers : worker[u].note # n
    BY <1>1 DEF First, NextPending, LockedRows
  <1>4. [does |-> "note", note |-> n, outcome |-> o] \in WorkerStates
    BY <1>2, <1>3 DEF Outcomes, WorkerStates
  <1>5. /\ worker' \in [ImportWorkers -> WorkerStates]
        /\ \A u \in ImportWorkers \ {w} : worker'[u] = worker[u]
        /\ worker'[w].does = "note" /\ worker'[w].note = n
    BY <1>2, <1>4 DEF ImportIInv, RowsTyped
  <1>6. n # 0
    BY <1>3 DEF ImportBounds
  <1> QED
    BY <1>3, <1>5, <1>6 DEF ImportIInv, RowsTyped, RowsExclusive, HeldIsPending, ImportedOnce, importNote

\* The commit writes the document and its row together; the row was pending, so
\* nobody wrote before.
LEMMA CommitKeepsRows ==
  ASSUME ImportBounds, ImportIInv, NEW w \in ImportWorkers, MarkTerminal(w) PROVE ImportIInv'
  <1> DEFINE n == worker[w].note  o == worker[w].outcome
  <1>1. n \in ImportNotes /\ noteRows[n] = "pending" /\ written[n] = 0
    BY DEF ImportBounds, ImportIInv, RowsTyped, MarkTerminal, WorkerStates, ImportedOnce
  <1>2. RowStatus(o) \in Terminal /\ (RowStatus(o) = "done" \/ RowStatus(o) \in {"skipped", "failed"})
    BY DEF RowStatus, Terminal
  <1>3. /\ noteRows' = [noteRows EXCEPT ![n] = RowStatus(o)]
        /\ written' = [written EXCEPT ![n] = IF RowStatus(o) = "done" THEN @ + 1 ELSE @]
        /\ worker' = [worker EXCEPT ![w] = [IdleWorker EXCEPT !.does = "loop"]]
        /\ worker[w].does = "note"
    BY DEF MarkTerminal
  <1>4. [IdleWorker EXCEPT !.does = "loop"] = [does |-> "loop", note |-> 0, outcome |-> "none"]
    BY DEF IdleWorker
  <1>5. /\ worker' \in [ImportWorkers -> WorkerStates]
        /\ \A u \in ImportWorkers \ {w} : worker'[u] = worker[u]
        /\ worker'[w].does = "loop" /\ worker'[w].note = 0
    BY <1>3, <1>4 DEF ImportIInv, RowsTyped, WorkerStates
  <1>6. /\ noteRows' \in [ImportNotes -> {"pending"} \cup Terminal]
        /\ \A k \in ImportNotes \ {n} : noteRows'[k] = noteRows[k]
        /\ noteRows'[n] = RowStatus(o)
    BY <1>1, <1>2, <1>3 DEF ImportIInv, RowsTyped
  <1>7. /\ written' \in [ImportNotes -> Nat]
        /\ \A k \in ImportNotes \ {n} : written'[k] = written[k]
        /\ written'[n] = IF RowStatus(o) = "done" THEN 1 ELSE 0
    BY <1>1, <1>3 DEF ImportIInv, RowsTyped
  <1>8. \A u \in ImportWorkers : worker[u].does = "note" /\ u # w => worker[u].note # n
    BY <1>3 DEF ImportIInv, RowsExclusive
  <1> HIDE DEF n, o
  <1>9. RowsTyped'
    BY <1>5, <1>6, <1>7 DEF ImportIInv, RowsTyped
  <1>10. RowsExclusive'
    BY <1>5 DEF ImportIInv, RowsExclusive
  <1>11. HeldIsPending'
    <2> SUFFICES ASSUME NEW u \in ImportWorkers, worker'[u].does = "note"
                 PROVE  noteRows'[worker'[u].note] = "pending"
      BY DEF HeldIsPending
    <2>1. u # w /\ worker'[u] = worker[u]
      BY <1>5
    <2>2. worker[u].note \in ImportNotes
      BY <2>1 DEF ImportIInv, RowsTyped, WorkerStates
    <2> QED
      BY <1>6, <1>8, <2>1, <2>2 DEF ImportIInv, HeldIsPending
  <1>12. ImportedOnce'
    BY <1>2, <1>6, <1>7 DEF ImportIInv, ImportedOnce
  <1> QED
    BY <1>9, <1>10, <1>11, <1>12 DEF ImportIInv

LEMMA ImportSteps == ASSUME ImportBounds, ImportIInv, [FlowNext]_<<importVars, exportVars>> PROVE ImportIInv'
  <1>1. CASE UNCHANGED importVars
    BY <1>1, OthersKeepRows DEF importVars
  <1>2. CASE \/ openDialog \/ closeDialog \/ importFile \/ confirm \/ createImportJob \/ previewAnswer
             \/ \E m \in ImportModes : setMode(m)
             \/ Confirm \/ pollImport \/ pollAnswer \/ requestFails \/ leavePage
             \/ LeaseLapses \/ RetryIsDue \/ LibraryChanges
    BY <1>2, OthersKeepRows
       DEF openDialog, closeDialog, importFile, confirm, createImportJob, previewAnswer, setMode, Confirm,
           pollImport, pollAnswer, requestFails, Failing, leavePage, LeaseLapses, RetryIsDue, LibraryChanges,
           Server
  <1>3. ASSUME NEW w \in ImportWorkers, Claim(w) PROVE ImportIInv'
    BY <1>3, ClaimKeepsRows
  <1>4. ASSUME NEW w \in ImportWorkers, importNote(w) PROVE ImportIInv'
    BY <1>4, TakingKeepsRows
  <1>5. ASSUME NEW w \in ImportWorkers, MarkTerminal(w) PROVE ImportIInv'
    BY <1>5, CommitKeepsRows
  <1>6. ASSUME NEW w \in ImportWorkers, Finish(w) \/ releaseFailure(w) \/ WorkerCrash(w) PROVE ImportIInv'
    <2>1. worker' = [worker EXCEPT ![w] = [IdleWorker EXCEPT !.does = "poll"]]
      BY <1>6 DEF Finish, releaseFailure, WorkerCrash, IdleWorker
    <2>2. UNCHANGED <<noteRows, written>>
      BY <1>6 DEF Finish, releaseFailure, WorkerCrash
    <2> QED
      BY <2>1, <2>2, RestingWorkers
  <1> QED
    BY <1>1, <1>2, <1>3, <1>4, <1>5, <1>6 DEF FlowNext, ImportNext, importVars, exportVars

THEOREM ImportInvariant == ASSUME ImportBounds PROVE ImportSpec => []ImportIInv
  <1>1. ImportInit => ImportIInv
    BY ImportStarts
  <1>2. ImportIInv /\ [FlowNext]_<<importVars, exportVars>> => ImportIInv'
    BY ImportSteps
  <1> QED
    BY <1>1, <1>2, PTL DEF ImportSpec

\* No note is written twice, and exactly the notes marked done were written
\* (import_worker.go: the transaction per note and its terminal state).
THEOREM NotesImportedOnce == ASSUME ImportBounds PROVE ImportSpec => []ImportedOnce
  <1>1. ImportIInv => ImportedOnce
    BY DEF ImportIInv
  <1> QED
    BY <1>1, ImportInvariant, PTL

\* Two workers never hold the same note, and a transaction that commits finds its
\* row pending (FOR UPDATE SKIP LOCKED in import_job_note_repo.go).
THEOREM NotesHaveOneWorker == ASSUME ImportBounds PROVE ImportSpec => [](RowsExclusive /\ HeldIsPending)
  <1>1. ImportIInv => RowsExclusive /\ HeldIsPending
    BY DEF ImportIInv
  <1> QED
    BY <1>1, ImportInvariant, PTL
-----------------------------------------------------------------------------
(***************************************************************************)
(* Three promises of docs/002 for any number of tabs and owners: the last  *)
(* way to sign in is never taken away, a registration code is consumed     *)
(* with exactly one account, and the tabs of a browser share one session.  *)
(***************************************************************************)

-----------------------------------------------------------------------------
(* The settings page: an account keeps a password or a provider.           *)

AccountTyped ==
  /\ account.password \in BOOLEAN /\ IsFiniteSet(account.bound)
  /\ account = [password |-> account.password, bound |-> account.bound]
AccountIInv == AccountTyped /\ AlwaysSignIn

LEMMA SettingsStarts == ASSUME AccountBounds, SettingsInit PROVE AccountIInv
  <1>1. account \in [password : BOOLEAN, bound : SUBSET Providers] /\ (account.password \/ account.bound # {})
    BY DEF SettingsInit
  <1>2. IsFiniteSet(account.bound)
    BY <1>1, FS_Subset DEF AccountBounds
  <1> QED
    BY <1>1, <1>2 DEF AccountIInv, AccountTyped, AlwaysSignIn

LEMMA BindKeepsSignIn == ASSUME AccountIInv, NEW c \in Clients, Bind(c) PROVE AccountIInv'
  <1> DEFINE more == account.bound \cup {settings[c].doing.provider}
  <1>1. IsFiniteSet(more) /\ more # {}
    BY FS_AddElement DEF AccountIInv, AccountTyped
  <1>2. account' = [password |-> account.password, bound |-> more] \/ UNCHANGED account
    BY DEF Bind, AccountIInv, AccountTyped
  <1> HIDE DEF more
  <1> QED
    BY <1>1, <1>2 DEF AccountIInv, AccountTyped, AlwaysSignIn

\* A provider is taken away only while a password or another provider is left.
LEMMA UnbindKeepsSignIn == ASSUME AccountIInv, NEW c \in Clients, Unbind(c) PROVE AccountIInv'
  <1> DEFINE p == settings[c].doing.provider
             less == account.bound \ {p}
  <1>1. CASE UNCHANGED account
    BY <1>1 DEF AccountIInv, AccountTyped, AlwaysSignIn
  <1>2. CASE /\ ~(Cardinality(account.bound) <= 1 /\ ~account.password) /\ p \in account.bound
             /\ account' = [account EXCEPT !.bound = @ \ {p}]
    <2>1. IsFiniteSet(less) /\ Cardinality(less) = Cardinality(account.bound) - 1
      BY <1>2, FS_RemoveElement DEF AccountIInv, AccountTyped
    <2>2. Cardinality(account.bound) \in Nat
      BY FS_CardinalityType DEF AccountIInv, AccountTyped
    <2>3. account.password \/ less # {}
      BY <1>2, <2>1, <2>2, FS_EmptySet
    <2>4. account' = [password |-> account.password, bound |-> less]
      BY <1>2 DEF AccountIInv, AccountTyped
    <2> HIDE DEF less
    <2> QED
      BY <2>1, <2>3, <2>4 DEF AccountIInv, AccountTyped, AlwaysSignIn
  <1> QED
    BY <1>1, <1>2 DEF Unbind

LEMMA PasswordKeepsSignIn == ASSUME AccountIInv, NEW c \in Clients, UpdatePassword(c) PROVE AccountIInv'
  <1>1. account \in [password : BOOLEAN, bound : {account.bound}]
    BY DEF AccountIInv, AccountTyped
  <1>2. \A b \in BOOLEAN : /\ [account EXCEPT !.password = b] \in [password : BOOLEAN, bound : {account.bound}]
                         /\ [account EXCEPT !.password = b].password = b
    BY <1>1
  <1>3. \/ /\ account' \in [password : BOOLEAN, bound : {account.bound}] /\ account'.password = TRUE
        \/ UNCHANGED account
    BY <1>2 DEF UpdatePassword
  <1> QED
    BY <1>3 DEF AccountIInv, AccountTyped, AlwaysSignIn

LEMMA SettingsSteps == ASSUME AccountIInv, [SettingsNext]_settingsVars PROVE AccountIInv'
  <1>1. CASE UNCHANGED account
    BY <1>1 DEF AccountIInv, AccountTyped, AlwaysSignIn
  <1>2. ASSUME NEW c \in Clients, Bind(c) \/ Unbind(c) \/ UpdatePassword(c) PROVE AccountIInv'
    BY <1>2, BindKeepsSignIn, UnbindKeepsSignIn, PasswordKeepsSignIn
  <1>3. ASSUME NEW c \in Clients,
               \/ loadSettings(c) \/ retrySettings(c) \/ BindURL(c) \/ cancelUnbind(c) \/ confirmUnbind(c)
               \/ UnbindAnswer(c) \/ updatePassword(c) \/ PasswordAnswer(c)
               \/ \E p \in Providers : startBind(c, p) \/ requestUnbind(c, p)
        PROVE  UNCHANGED account
    BY <1>3 DEF loadSettings, retrySettings, BindURL, cancelUnbind, confirmUnbind, UnbindAnswer, updatePassword,
                PasswordAnswer, startBind, requestUnbind
  <1> QED
    BY <1>1, <1>2, <1>3 DEF SettingsNext, settingsVars

\* Whichever tabs bind, unbind and set passwords at the same time, a way to sign
\* in is left (OAuthService.Unbind counts and deletes under the lock of the user).
THEOREM WayToSignInStays == ASSUME AccountBounds PROVE SettingsSpec => []AlwaysSignIn
  <1>1. SettingsInit => AccountIInv
    BY SettingsStarts
  <1>2. AccountIInv /\ [SettingsNext]_settingsVars => AccountIInv'
    BY SettingsSteps
  <1>3. AccountIInv => AlwaysSignIn
    BY DEF AccountIInv
  <1> QED
    BY <1>1, <1>2, <1>3, PTL DEF SettingsSpec

-----------------------------------------------------------------------------
(* Registration: the code goes with the account.                           *)

Mails == [status : {"pending", "sent", "failed"}, used : BOOLEAN, age : Nat]
Signups ==
  [enabled : {"loading", "on", "off"}, typed : Nat, submit : {"none", "sent", "valid", "denied", "done"},
   valid : Nat, send : {"none", "sent", "passed", "mailing", "denied", "done"}, mail : Nat,
   cooldown : BOOLEAN, done : BOOLEAN]

\* Codes that clients speak of were mailed.
Mailed(p, n) ==
  /\ p \in Signups /\ p.typed <= n
  /\ p.submit = "valid" => p.valid \in 1..n
UsedOnce(ms, used) ==
  IF used THEN \E i \in DOMAIN ms : \A j \in DOMAIN ms : ms[j].used <=> j = i
  ELSE \A i \in DOMAIN ms : ~ms[i].used
RegisterIInv ==
  /\ mails \in Seq(Mails) /\ user \in BOOLEAN
  /\ signup \in [Clients -> Signups] /\ \A c \in Clients : Mailed(signup[c], Len(mails))
  /\ UsedOnce(mails, user)

LEMMA RegisterStarts == ASSUME RegisterInit PROVE RegisterIInv
  <1>1. NewSignup \in Signups /\ NewSignup.typed = 0 /\ NewSignup.submit = "none"
    BY DEF NewSignup, Signups
  <1>2. mails = <<>> /\ user = FALSE /\ signup = [c \in Clients |-> NewSignup]
    BY DEF RegisterInit
  <1>3. mails \in Seq(Mails) /\ Len(mails) = 0 /\ DOMAIN mails = {}
    BY <1>2
  <1> HIDE DEF NewSignup
  <1>4. \A c \in Clients : signup[c] = NewSignup
    BY <1>2
  <1>5. signup \in [Clients -> Signups] /\ \A c \in Clients : Mailed(signup[c], Len(mails))
    BY <1>1, <1>2, <1>3, <1>4 DEF Mailed
  <1> QED
    BY <1>2, <1>3, <1>5 DEF RegisterIInv, UsedOnce

\* A client moves while the table stands still or grows.
LEMMA ClientMoves ==
  ASSUME RegisterIInv, NEW c \in Clients, NEW p, SetSignup(c, p), Mailed(p, Len(mails')),
         mails' \in Seq(Mails), Len(mails) <= Len(mails'), user' \in BOOLEAN, UsedOnce(mails', user')
  PROVE  RegisterIInv'
  <1>1. \A d \in Clients : signup'[d] = IF d = c THEN p ELSE signup[d]
    BY DEF SetSignup, RegisterIInv
  <1>2. signup' \in [Clients -> Signups]
    BY DEF SetSignup, RegisterIInv, Mailed
  <1>3. Len(mails) \in Nat /\ Len(mails') \in Nat
    BY DEF RegisterIInv
  <1>4. \A d \in Clients : Mailed(signup'[d], Len(mails'))
    <2> SUFFICES ASSUME NEW d \in Clients PROVE Mailed(signup'[d], Len(mails'))
      OBVIOUS
    <2>1. CASE d = c
      BY <1>1, <2>1
    <2>2. CASE d # c
      <3>1. signup'[d] = signup[d] /\ Mailed(signup[d], Len(mails))
        BY <1>1, <2>2 DEF RegisterIInv
      <3>2. signup[d].typed \in Nat /\ signup[d].valid \in Nat
        BY DEF RegisterIInv, Signups
      <3> QED
        BY <1>3, <3>1, <3>2 DEF Mailed
    <2> QED
      BY <2>1, <2>2
  <1> QED
    BY <1>2, <1>4 DEF RegisterIInv

LEMMA ClientAlone ==
  ASSUME RegisterIInv, NEW c \in Clients, NEW p, SetSignup(c, p), Mailed(p, Len(mails)), UNCHANGED <<mails, user>>
  PROVE  RegisterIInv'
  <1>1. Len(mails) \in Nat
    BY DEF RegisterIInv
  <1> QED
    BY <1>1, ClientMoves DEF RegisterIInv

\* What a client sends or hears, but for what it says about codes.
LEMMA SignupFields ==
  ASSUME NEW p \in Signups, NEW n \in Nat, Mailed(p, n)
  PROVE  /\ \A e \in {"on", "off"} : Mailed([p EXCEPT !.enabled = e], n)
         /\ \A x \in {"none", "sent", "passed", "mailing", "denied", "done"} : Mailed([p EXCEPT !.send = x], n)
         /\ \A x \in {"none", "sent", "passed", "mailing", "denied", "done"}, m \in Nat :
              Mailed([p EXCEPT !.send = x, !.mail = m], n)
         /\ \A b \in BOOLEAN : Mailed([p EXCEPT !.send = "none", !.cooldown = b], n)
         /\ \A b \in BOOLEAN : Mailed([p EXCEPT !.cooldown = b], n)
         /\ \A i \in 0..n : Mailed([p EXCEPT !.submit = "sent", !.typed = i], n)
         /\ \A i \in 1..n : Mailed([p EXCEPT !.submit = "valid", !.typed = 0, !.valid = i], n)
         /\ Mailed([p EXCEPT !.submit = "denied", !.typed = 0, !.valid = 0], n)
         /\ \A x \in {"done", "denied"} : Mailed([p EXCEPT !.submit = x, !.valid = 0], n)
         /\ \A b \in BOOLEAN : Mailed([p EXCEPT !.submit = "none", !.typed = 0, !.done = b], n)
  <1>1. p.typed \in Nat /\ p.valid \in Nat
    BY DEF Signups
  <1>2. \A e \in {"on", "off"} : Mailed([p EXCEPT !.enabled = e], n)
    BY DEF Mailed, Signups
  <1>3. \A x \in {"none", "sent", "passed", "mailing", "denied", "done"} : Mailed([p EXCEPT !.send = x], n)
    BY DEF Mailed, Signups
  <1>4. \A x \in {"none", "sent", "passed", "mailing", "denied", "done"}, m \in Nat :
           Mailed([p EXCEPT !.send = x, !.mail = m], n)
    BY DEF Mailed, Signups
  <1>5. \A b \in BOOLEAN : Mailed([p EXCEPT !.send = "none", !.cooldown = b], n)
    BY DEF Mailed, Signups
  <1>6. \A b \in BOOLEAN : Mailed([p EXCEPT !.cooldown = b], n)
    BY DEF Mailed, Signups
  <1>7. \A i \in 0..n : Mailed([p EXCEPT !.submit = "sent", !.typed = i], n)
    <2>1. \A i \in Nat : [p EXCEPT !.submit = "sent", !.typed = i] \in Signups
      BY DEF Signups
    <2>2. \A i \in Nat : /\ [p EXCEPT !.submit = "sent", !.typed = i].typed = i
        /\ [p EXCEPT !.submit = "sent", !.typed = i].submit = "sent"
      BY DEF Signups
    <2> TAKE i \in 0..n
    <2> DEFINE r == [p EXCEPT !.submit = "sent", !.typed = i]
    <2>0. i \in Nat /\ i <= n
      OBVIOUS
    <2>3. r \in Signups /\ r.typed = i /\ r.submit = "sent"
      BY <2>0, <2>1, <2>2, Zenon
    <2> HIDE DEF r
    <2>4. Mailed(r, n)
      BY <2>0, <2>3 DEF Mailed
    <2> QED
      BY <2>4 DEF r
  <1>8. \A i \in 1..n : Mailed([p EXCEPT !.submit = "valid", !.typed = 0, !.valid = i], n)
    <2>1. \A i \in Nat : [p EXCEPT !.submit = "valid", !.typed = 0, !.valid = i] \in Signups
      BY DEF Signups
    <2>2. \A i \in Nat : /\ [p EXCEPT !.submit = "valid", !.typed = 0, !.valid = i].typed = 0
        /\ [p EXCEPT !.submit = "valid", !.typed = 0, !.valid = i].valid = i
      BY DEF Signups
    <2> TAKE i \in 1..n
    <2> DEFINE r == [p EXCEPT !.submit = "valid", !.typed = 0, !.valid = i]
    <2>0. i \in Nat /\ i <= n
      OBVIOUS
    <2>3. r \in Signups /\ r.typed = 0 /\ r.valid = i
      BY <2>0, <2>1, <2>2, Zenon
    <2> HIDE DEF r
    <2>4. Mailed(r, n)
      BY <2>0, <2>3 DEF Mailed
    <2> QED
      BY <2>4 DEF r
  <1>9. Mailed([p EXCEPT !.submit = "denied", !.typed = 0, !.valid = 0], n)
    <2>1. [p EXCEPT !.submit = "denied", !.typed = 0, !.valid = 0] \in Signups
      BY DEF Signups
    <2>2. /\ [p EXCEPT !.submit = "denied", !.typed = 0, !.valid = 0].typed = 0
        /\ [p EXCEPT !.submit = "denied", !.typed = 0, !.valid = 0].submit = "denied"
      BY DEF Signups
    <2> QED
      BY <1>1, <2>1, <2>2 DEF Mailed
  <1>10. \A x \in {"done", "denied"} : Mailed([p EXCEPT !.submit = x, !.valid = 0], n)
    <2>1. \A x \in {"done", "denied"} : [p EXCEPT !.submit = x, !.valid = 0] \in Signups
      BY DEF Signups
    <2>2. \A x \in {"done", "denied"} : /\ [p EXCEPT !.submit = x, !.valid = 0].typed = p.typed
        /\ [p EXCEPT !.submit = x, !.valid = 0].submit = x
      BY DEF Signups
    <2> QED
      BY <1>1, <2>1, <2>2 DEF Mailed
  <1>11. \A b \in BOOLEAN : Mailed([p EXCEPT !.submit = "none", !.typed = 0, !.done = b], n)
    <2> TAKE b \in BOOLEAN
    <2> DEFINE r == [p EXCEPT !.submit = "none", !.typed = 0, !.done = b]
    <2>1. r \in Signups
      BY DEF Signups
    <2>2. r.typed = 0 /\ r.submit = "none"
      BY DEF Signups
    <2> HIDE DEF r
    <2>3. Mailed(r, n)
      BY <2>1, <2>2 DEF Mailed
    <2> QED
      BY <2>3 DEF r
  <1> QED
    BY <1>2, <1>3, <1>4, <1>5, <1>6, <1>7, <1>8, <1>9, <1>10, <1>11

\* The requests that leave the table alone.
LEMMA QuietRequests ==
  ASSUME RegisterIInv, NEW c \in Clients,
         \/ RegisterProperties(c) \/ handleSendCode(c) \/ ensureCooldown(c) \/ SendCodeAnswer(c)
         \/ CooldownEnds(c) \/ submitRegister(c) \/ ValidateRegisterCode(c) \/ RegisterAnswer(c)
  PROVE  RegisterIInv'
  <1> DEFINE p == signup[c]  n == Len(mails)
  <1>1. p \in Signups /\ n \in Nat /\ Mailed(p, n)
    BY DEF RegisterIInv
  <1>2. UNCHANGED <<mails, user>>
    BY DEF RegisterProperties, handleSendCode, ensureCooldown, SendCodeAnswer, CooldownEnds, submitRegister,
           ValidateRegisterCode, RegisterAnswer
  <1> SUFFICES \E q : Mailed(q, n) /\ SetSignup(c, q)
    BY <1>2, ClientAlone
  <1>3. CASE RegisterProperties(c)
    BY <1>1, <1>3, SignupFields DEF RegisterProperties
  <1>4. CASE handleSendCode(c)
    BY <1>1, <1>4, SignupFields DEF handleSendCode
  <1>5. CASE ensureCooldown(c)
    <2>1. \E x \in {"denied", "passed"} : SetSignup(c, [p EXCEPT !.send = x])
      BY <1>5 DEF ensureCooldown
    <2> QED
      BY <1>1, <2>1, SignupFields
  <1>6. CASE SendCodeAnswer(c)
    <2>1. \A b \in BOOLEAN : Mailed([p EXCEPT !.send = "none", !.cooldown = b], n)
      BY <1>1, SignupFields
    <2>2. PICK lost \in {p.send = "sent", TRUE} :
            SetSignup(c, [p EXCEPT !.send = "none", !.cooldown = (p.send = "done" /\ ~lost) \/ @])
      BY <1>6 DEF SendCodeAnswer
    <2>3. ((p.send = "done" /\ ~lost) \/ p.cooldown) \in BOOLEAN
      BY <1>1 DEF Signups
    <2> QED
      BY <2>1, <2>2, <2>3
  <1>7. CASE CooldownEnds(c)
    <2>1. \A b \in BOOLEAN : Mailed([p EXCEPT !.cooldown = b], n)
      BY <1>1, SignupFields
    <2> QED
      BY <1>7, <2>1 DEF CooldownEnds
  <1>8. CASE submitRegister(c)
    BY <1>1, <1>8, SignupFields DEF submitRegister
  <1>9. CASE ValidateRegisterCode(c)
    <2> DEFINE i == latestByEmail
               ok == i # 0 /\ p.typed = i /\ ~mails[i].used /\ mails[i].age < 2
    <2>1. SetSignup(c, [p EXCEPT !.submit = IF ok THEN "valid" ELSE "denied", !.typed = 0,
                                 !.valid = IF ok THEN i ELSE 0])
      BY <1>9 DEF ValidateRegisterCode
    <2>2. ok => i \in 1..n
      BY <1>1 DEF Mailed, Signups
    <2> HIDE DEF i
    <2>3. CASE ok
      BY <1>1, <2>1, <2>2, <2>3, SignupFields
    <2>4. CASE ~ok
      BY <1>1, <2>1, <2>4, SignupFields
    <2> QED
      BY <2>3, <2>4
  <1>10. CASE RegisterAnswer(c)
    <2>1. \A b \in BOOLEAN : Mailed([p EXCEPT !.submit = "none", !.typed = 0, !.done = b], n)
      BY <1>1, SignupFields
    <2>2. PICK lost \in {p.submit = "sent", TRUE} :
            SetSignup(c, [p EXCEPT !.submit = "none", !.typed = 0, !.done = p.submit = "done" /\ ~lost])
      BY <1>10 DEF RegisterAnswer
    <2>3. (p.submit = "done" /\ ~lost) \in BOOLEAN
      OBVIOUS
    <2> QED
      BY <2>1, <2>2, <2>3
  <1> QED
    BY <1>3, <1>4, <1>5, <1>6, <1>7, <1>8, <1>9, <1>10

\* One row of the table changes.
LEMMA RowChanges ==
  ASSUME NEW ms \in Seq(Mails), NEW i \in DOMAIN ms, NEW m \in Mails, NEW ns, ns = [ms EXCEPT ![i] = m]
  PROVE  /\ ns \in Seq(Mails) /\ Len(ns) = Len(ms) /\ DOMAIN ns = DOMAIN ms
         /\ \A j \in DOMAIN ms : ns[j] = IF j = i THEN m ELSE ms[j]
  <1>1. i \in 1..Len(ms) /\ DOMAIN ms = 1..Len(ms)
    BY LenProperties
  <1>2. ns \in Seq(Mails) /\ Len(ns) = Len(ms) /\ \A j \in 1..Len(ms) : ns[j] = IF j = i THEN m ELSE ms[j]
    BY <1>1, ExceptSeq
  <1>3. DOMAIN ns = 1..Len(ns)
    BY <1>2, LenProperties
  <1> QED
    BY <1>1, <1>2, <1>3

LEMMA MailFields ==
  ASSUME NEW m \in Mails
  PROVE  /\ \A x \in {"sent", "failed"} : [m EXCEPT !.status = x] \in Mails /\ [m EXCEPT !.status = x].used = m.used
         /\ [m EXCEPT !.used = TRUE] \in Mails /\ [m EXCEPT !.used = TRUE].used = TRUE
         /\ [m EXCEPT !.age = @ + 1] \in Mails /\ [m EXCEPT !.age = @ + 1].used = m.used
  <1>1. \A x \in {"sent", "failed"} : [m EXCEPT !.status = x] \in Mails /\ [m EXCEPT !.status = x].used = m.used
    BY DEF Mails
  <1>2. \A b \in BOOLEAN : [m EXCEPT !.used = b] \in Mails /\ [m EXCEPT !.used = b].used = b
    BY DEF Mails
  <1>3. [m EXCEPT !.age = @ + 1] \in Mails /\ [m EXCEPT !.age = @ + 1].used = m.used
    BY DEF Mails
  <1> QED
    BY <1>1, <1>2, <1>3

\* A change that leaves "used" alone keeps what was consumed.
LEMMA StaysUsed ==
  ASSUME NEW ms, NEW ns, NEW used \in BOOLEAN, UsedOnce(ms, used), DOMAIN ns = DOMAIN ms,
         \A j \in DOMAIN ms : ns[j].used = ms[j].used
  PROVE  UsedOnce(ns, used)
  BY DEF UsedOnce

LEMMA CodeStored == ASSUME RegisterIInv, NEW c \in Clients, CreateCode(c) PROVE RegisterIInv'
  <1> DEFINE p == [signup[c] EXCEPT !.send = "mailing", !.mail = Len(mails) + 1]
  <1>1. mails' = Append(mails, Mail) /\ SetSignup(c, p) /\ UNCHANGED user
    BY DEF CreateCode
  <1>2. Mail \in Mails /\ Mail.used = FALSE
    BY DEF Mail, Mails
  <1>3. /\ mails' \in Seq(Mails) /\ Len(mails') = Len(mails) + 1 /\ Len(mails) \in Nat
        /\ DOMAIN mails = 1..Len(mails) /\ DOMAIN mails' = 1..(Len(mails) + 1)
        /\ \A j \in DOMAIN mails : mails'[j] = mails[j]
        /\ mails'[Len(mails) + 1] = Mail
    BY <1>1, <1>2 DEF RegisterIInv
  <1>4. UsedOnce(mails', user')
    <2>1. CASE user
      <3>1. PICK i \in DOMAIN mails : \A j \in DOMAIN mails : mails[j].used <=> j = i
        BY <2>1 DEF RegisterIInv, UsedOnce
      <3>2. i \in DOMAIN mails' /\ \A j \in DOMAIN mails' : mails'[j].used <=> j = i
        BY <1>2, <1>3, <3>1
      <3> QED
        BY <1>1, <2>1, <3>2 DEF UsedOnce
    <2>2. CASE ~user
      BY <1>1, <1>2, <1>3, <2>2 DEF RegisterIInv, UsedOnce
    <2> QED
      BY <2>1, <2>2
  <1>5. Mailed(p, Len(mails))
    <2>1. signup[c] \in Signups /\ Mailed(signup[c], Len(mails)) /\ Len(mails) + 1 \in Nat
      BY <1>3 DEF RegisterIInv
    <2>2. \A m \in Nat : Mailed([signup[c] EXCEPT !.send = "mailing", !.mail = m], Len(mails))
      BY <1>3, <2>1, SignupFields
    <2> QED
      BY <2>1, <2>2, Zenon
  <1> HIDE DEF p
  <1>6. Mailed(p, Len(mails'))
    <2>1. p.typed \in Nat /\ p.valid \in Nat
      BY <1>5 DEF Mailed, Signups
    <2> QED
      BY <1>3, <1>5, <2>1 DEF Mailed
  <1> QED
    BY <1>1, <1>3, <1>4, <1>6, ClientMoves DEF RegisterIInv

LEMMA CodeMailed == ASSUME RegisterIInv, NEW c \in Clients, MarkStatus(c) PROVE RegisterIInv'
  <1>1. PICK s \in {"sent", "failed"} :
          /\ mails' = [mails EXCEPT ![signup[c].mail].status = s]
          /\ SetSignup(c, [signup[c] EXCEPT !.mail = 0, !.send = IF s = "sent" THEN "done" ELSE "denied"])
    BY DEF MarkStatus
  <1> DEFINE i == signup[c].mail
             m == [mails[i] EXCEPT !.status = s]
             p == [signup[c] EXCEPT !.mail = 0, !.send = IF s = "sent" THEN "done" ELSE "denied"]
  <1>2. mails' \in Seq(Mails) /\ Len(mails') = Len(mails) /\ UsedOnce(mails', user)
    <2>1. CASE i \in DOMAIN mails
      <3>1. mails[i] \in Mails
        BY <2>1 DEF RegisterIInv
      <3>2. m \in Mails /\ m.used = mails[i].used
        BY <3>1, MailFields
      <3>3. mails' = [mails EXCEPT ![i] = m] /\ mails \in Seq(Mails)
        BY <1>1 DEF RegisterIInv
      <3> HIDE DEF m, i
      <3>4. /\ mails' \in Seq(Mails) /\ Len(mails') = Len(mails) /\ DOMAIN mails' = DOMAIN mails
            /\ \A j \in DOMAIN mails : mails'[j] = IF j = i THEN m ELSE mails[j]
        BY <2>1, <3>2, <3>3, RowChanges
      <3>5. \A j \in DOMAIN mails : mails'[j].used = mails[j].used
        BY <3>2, <3>4
      <3>6. UsedOnce(mails, user) /\ user \in BOOLEAN
        BY DEF RegisterIInv
      <3> QED
        BY <3>4, <3>5, <3>6, StaysUsed
    <2>2. CASE i \notin DOMAIN mails
      <3>1. mails \in Seq(Mails) /\ UsedOnce(mails, user)
        BY DEF RegisterIInv
      <3>2. mails' = mails
        BY <1>1, <2>2, <3>1, LenProperties
      <3> QED
        BY <3>1, <3>2
    <2> QED
      BY <2>1, <2>2
  <1>3. signup[c] \in Signups /\ Mailed(signup[c], Len(mails)) /\ Len(mails) \in Nat /\ user \in BOOLEAN
    BY DEF RegisterIInv
  <1>4. Mailed(p, Len(mails))
    <2>1. p \in Signups
      BY <1>3 DEF Signups
    <2>2. p.typed = signup[c].typed /\ p.submit = signup[c].submit /\ p.valid = signup[c].valid
      BY <1>3 DEF Signups
    <2> HIDE DEF p
    <2> QED
      BY <1>3, <2>1, <2>2 DEF Mailed
  <1>5. user' = user /\ SetSignup(c, p)
    BY <1>1 DEF MarkStatus
  <1> HIDE DEF p
  <1>6. Mailed(p, Len(mails')) /\ Len(mails) <= Len(mails')
    BY <1>2, <1>3, <1>4
  <1>7. user' \in BOOLEAN /\ UsedOnce(mails', user')
    BY <1>2, <1>3, <1>5
  <1> QED
    BY <1>2, <1>5, <1>6, <1>7, ClientMoves

\* The transaction consumes a code nobody consumed, for the one account.
LEMMA AccountCreated == ASSUME RegisterIInv, NEW c \in Clients, RegisterTransaction(c) PROVE RegisterIInv'
  <1> DEFINE i == signup[c].valid
             q(x) == [signup[c] EXCEPT !.submit = x, !.valid = 0]
             m == [mails[i] EXCEPT !.used = TRUE]
             p == q("done")
  <1>1. signup[c] \in Signups /\ Mailed(signup[c], Len(mails)) /\ Len(mails) \in Nat
    BY DEF RegisterIInv
  <1>2. \A x \in {"done", "denied"} : Mailed(q(x), Len(mails))
    BY <1>1, SignupFields
  <1>3. i \in DOMAIN mails /\ mails[i] \in Mails
    BY <1>1 DEF RegisterTransaction, Mailed, RegisterIInv
  <1>4. CASE SetSignup(c, q("denied")) /\ UNCHANGED <<mails, user>>
    BY <1>2, <1>4, ClientAlone
  <1>5. CASE /\ ~user /\ user' = TRUE /\ SetSignup(c, q("done"))
             /\ mails' = [mails EXCEPT ![i].used = TRUE]
    <2>1. m \in Mails /\ m.used = TRUE
      BY <1>3, MailFields
    <2>2. mails' = [mails EXCEPT ![i] = m] /\ mails \in Seq(Mails)
      BY <1>5 DEF RegisterIInv
    <2>3. Mailed(p, Len(mails)) /\ SetSignup(c, p)
      BY <1>2, <1>5
    <2>4. \A j \in DOMAIN mails : ~mails[j].used
      BY <1>5 DEF RegisterIInv, UsedOnce
    <2> HIDE DEF q, m, p, i
    <2>5. /\ mails' \in Seq(Mails) /\ Len(mails') = Len(mails) /\ DOMAIN mails' = DOMAIN mails
          /\ \A j \in DOMAIN mails : mails'[j] = IF j = i THEN m ELSE mails[j]
      BY <1>3, <2>1, <2>2, RowChanges
    <2>6. \A j \in DOMAIN mails' : mails'[j].used <=> j = i
      BY <2>1, <2>4, <2>5
    <2>7. user' \in BOOLEAN /\ UsedOnce(mails', user')
      BY <1>3, <1>5, <2>5, <2>6 DEF UsedOnce
    <2>8. Mailed(p, Len(mails')) /\ Len(mails) <= Len(mails')
      BY <1>1, <2>3, <2>5
    <2> QED
      BY <2>3, <2>5, <2>7, <2>8, ClientMoves
  <1> QED
    BY <1>4, <1>5 DEF RegisterTransaction

LEMMA CodeExpires == ASSUME RegisterIInv, CodeAges PROVE RegisterIInv'
  <1>1. PICK i \in DOMAIN mails : mails' = [mails EXCEPT ![i].age = @ + 1] /\ UNCHANGED <<user, signup>>
    BY DEF CodeAges
  <1> DEFINE m == [mails[i] EXCEPT !.age = @ + 1]
  <1>2. mails[i] \in Mails
    BY DEF RegisterIInv
  <1>3. m \in Mails /\ m.used = mails[i].used
    BY <1>2, MailFields
  <1>4. mails' = [mails EXCEPT ![i] = m] /\ mails \in Seq(Mails) /\ UsedOnce(mails, user) /\ user \in BOOLEAN
    BY <1>1 DEF RegisterIInv
  <1> HIDE DEF m
  <1>5. /\ mails' \in Seq(Mails) /\ Len(mails') = Len(mails) /\ DOMAIN mails' = DOMAIN mails
        /\ \A j \in DOMAIN mails : mails'[j] = IF j = i THEN m ELSE mails[j]
    BY <1>3, <1>4, RowChanges
  <1>6. \A j \in DOMAIN mails : mails'[j].used = mails[j].used
    BY <1>3, <1>5
  <1>7. UsedOnce(mails', user)
    BY <1>4, <1>5, <1>6, StaysUsed
  <1> QED
    BY <1>1, <1>5, <1>7 DEF RegisterIInv

LEMMA RegisterSteps == ASSUME RegisterIInv, [RegisterNext]_registerVars PROVE RegisterIInv'
  <1>1. CASE UNCHANGED registerVars
    BY <1>1 DEF RegisterIInv, registerVars, UsedOnce
  <1>2. CASE CodeAges
    BY <1>2, CodeExpires
  <1>3. ASSUME NEW c \in Clients,
               \/ RegisterProperties(c) \/ handleSendCode(c) \/ ensureCooldown(c) \/ SendCodeAnswer(c)
               \/ CooldownEnds(c) \/ submitRegister(c) \/ ValidateRegisterCode(c) \/ RegisterAnswer(c)
        PROVE  RegisterIInv'
    BY <1>3, QuietRequests
  <1>4. ASSUME NEW c \in Clients, CreateCode(c) \/ MarkStatus(c) \/ RegisterTransaction(c) PROVE RegisterIInv'
    BY <1>4, CodeStored, CodeMailed, AccountCreated
  <1> QED
    BY <1>1, <1>2, <1>3, <1>4 DEF RegisterNext

\* A code that is used once counts as one.
LEMMA UsedCounted ==
  ASSUME NEW ms, NEW used \in BOOLEAN, UsedOnce(ms, used)
  PROVE  Cardinality({i \in DOMAIN ms : ms[i].used}) = IF used THEN 1 ELSE 0
  <1>1. CASE used
    <2>1. PICK i \in DOMAIN ms : \A j \in DOMAIN ms : ms[j].used <=> j = i
      BY <1>1 DEF UsedOnce
    <2>2. {j \in DOMAIN ms : ms[j].used} = {i}
      BY <2>1
    <2> QED
      BY <1>1, <2>2, FS_Singleton
  <1>2. CASE ~used
    <2>1. {j \in DOMAIN ms : ms[j].used} = {}
      BY <1>2 DEF UsedOnce
    <2> QED
      BY <1>2, <2>1, FS_EmptySet
  <1> QED
    BY <1>1, <1>2

\* However many tabs register with one address, a code is consumed if and only if
\* the account exists, and only one is (AuthService.Register's transaction).
THEOREM CodeGoesWithAccount == RegisterSpec => []CodeConsumedWithAccount
  <1>1. RegisterInit => RegisterIInv
    BY RegisterStarts
  <1>2. RegisterIInv /\ [RegisterNext]_registerVars => RegisterIInv'
    BY RegisterSteps
  <1>3. RegisterIInv => CodeConsumedWithAccount
    BY UsedCounted DEF RegisterIInv, CodeConsumedWithAccount
  <1> QED
    BY <1>1, <1>2, <1>3, PTL DEF RegisterSpec

-----------------------------------------------------------------------------
(* The session: one token per exchange code, and the e-mail of the token.  *)

Pages == {"login", "app", "provider", "callback"}
Tokens == [owner : Owners, code : Nat, live : BOOLEAN]
ExchangeCodes == [owner : Owners, consumed : BOOLEAN]
TabStates ==
  [page : Pages, login : {"none", "sent"}, as : Owners \cup {"none"}, oauth : BOOLEAN, code : Nat,
   call : Nat, error : BOOLEAN]

\* A tab holds a code that was given out, and signs in as somebody.
TabKnows(s, n) == s \in TabStates /\ s.code <= n /\ (s.login = "sent" => s.as \in Owners)
\* A token that came from a code consumed it, and no other token did.
TokensSound(tk, ex) ==
  /\ tk \in Seq(Tokens) /\ ex \in Seq(ExchangeCodes)
  /\ \A m \in DOMAIN tk : tk[m].code # 0 => tk[m].code \in DOMAIN ex /\ ex[tk[m].code].consumed
  /\ \A m, n \in DOMAIN tk : m # n /\ tk[m].code # 0 => tk[m].code # tk[n].code
StoredIs(st, tk) ==
  /\ st.token = 0 \/ st.token \in DOMAIN tk
  /\ IF st.token = 0 THEN st.email = "none" ELSE st.email = tk[st.token].owner
SessionIInv ==
  /\ TokensSound(tokens, exchanges) /\ StoredIs(stored, tokens)
  /\ tabs \in [Clients -> TabStates] /\ \A t \in Clients : TabKnows(tabs[t], Len(exchanges))

LEMMA AtLoginKnows == AtLogin \in TabStates /\ \A n \in Nat : TabKnows(AtLogin, n)
  <1>1. AtLogin \in TabStates /\ AtLogin.code = 0 /\ AtLogin.login = "none"
    BY DEF AtLogin, TabStates, Pages
  <1> QED
    BY <1>1 DEF TabKnows

LEMMA SessionStarts == ASSUME SessionInit PROVE SessionIInv
  <1>1. stored.token = 0 /\ stored.email = "none" /\ tokens = <<>> /\ exchanges = <<>>
    BY DEF SessionInit, NoSession
  <1>2. TokensSound(tokens, exchanges) /\ StoredIs(stored, tokens) /\ Len(exchanges) = 0
    BY <1>1 DEF TokensSound, StoredIs
  <1>3. tabs = [t \in Clients |-> AtLogin]
    BY DEF SessionInit
  <1> QED
    BY <1>2, <1>3, AtLoginKnows DEF SessionIInv

\* The changes of a tab that leave its code and its owner, or set known ones.
LEMMA TabFields ==
  ASSUME NEW s, NEW n \in Nat, TabKnows(s, n)
  PROVE  /\ \A o \in Owners, b \in BOOLEAN : TabKnows([s EXCEPT !.login = "sent", !.as = o, !.error = b], n)
         /\ \A b \in BOOLEAN : TabKnows([s EXCEPT !.page = "app", !.oauth = b], n)
         /\ \A b \in BOOLEAN : TabKnows([s EXCEPT !.login = "none", !.as = "none", !.error = b], n)
         /\ \A a, b \in BOOLEAN : TabKnows([s EXCEPT !.oauth = a, !.error = b], n)
         /\ \A p \in Pages : TabKnows([s EXCEPT !.page = p], n)
         /\ \A k \in Nat : k <= n => TabKnows([s EXCEPT !.page = "callback", !.code = k], n)
         /\ \A b \in BOOLEAN : TabKnows([s EXCEPT !.page = "callback", !.error = b], n)
         /\ \A b \in BOOLEAN : TabKnows([s EXCEPT !.error = b], n)
         /\ \A k \in Nat : TabKnows([s EXCEPT !.call = k], n)
  <1> s \in TabStates /\ s.code \in Nat
    BY DEF TabKnows, TabStates
  <1>1. \A o \in Owners, b \in BOOLEAN : TabKnows([s EXCEPT !.login = "sent", !.as = o, !.error = b], n)
    BY DEF TabKnows, TabStates
  <1>2. \A b \in BOOLEAN : TabKnows([s EXCEPT !.page = "app", !.oauth = b], n)
    BY DEF TabKnows, TabStates, Pages
  <1>3. \A b \in BOOLEAN : TabKnows([s EXCEPT !.login = "none", !.as = "none", !.error = b], n)
    BY DEF TabKnows, TabStates
  <1>4. \A a, b \in BOOLEAN : TabKnows([s EXCEPT !.oauth = a, !.error = b], n)
    BY DEF TabKnows, TabStates
  <1>5. \A p \in Pages : TabKnows([s EXCEPT !.page = p], n)
    BY DEF TabKnows, TabStates, Pages
  <1>6. \A k \in Nat : k <= n => TabKnows([s EXCEPT !.page = "callback", !.code = k], n)
    BY DEF TabKnows, TabStates, Pages
  <1>7. \A b \in BOOLEAN : TabKnows([s EXCEPT !.page = "callback", !.error = b], n)
    BY DEF TabKnows, TabStates, Pages
  <1>8. \A b \in BOOLEAN : TabKnows([s EXCEPT !.error = b], n)
    BY DEF TabKnows, TabStates
  <1>9. \A k \in Nat : TabKnows([s EXCEPT !.call = k], n)
    BY DEF TabKnows, TabStates
  <1> QED
    BY <1>1, <1>2, <1>3, <1>4, <1>5, <1>6, <1>7, <1>8, <1>9

\* A tab moves; the tables and the storage are sound as they are then.
LEMMA TabMoves ==
  ASSUME SessionIInv, NEW t \in Clients, NEW s, SetTab(t, s), TabKnows(s, Len(exchanges')),
         TokensSound(tokens', exchanges'), StoredIs(stored', tokens'), Len(exchanges) <= Len(exchanges')
  PROVE  SessionIInv'
  <1>1. \A u \in Clients : tabs'[u] = IF u = t THEN s ELSE tabs[u]
    BY DEF SetTab, SessionIInv
  <1>2. tabs' \in [Clients -> TabStates]
    BY DEF SetTab, SessionIInv, TabKnows
  <1>3. Len(exchanges) \in Nat /\ Len(exchanges') \in Nat
    BY LenProperties DEF SessionIInv, TokensSound
  <1>4. \A u \in Clients : TabKnows(tabs'[u], Len(exchanges'))
    <2> TAKE u \in Clients
    <2>1. CASE u = t
      BY <1>1, <2>1
    <2>2. CASE u # t
      <3>1. tabs'[u] = tabs[u] /\ TabKnows(tabs[u], Len(exchanges)) /\ tabs[u].code \in Nat
        BY <1>1, <2>2 DEF SessionIInv, TabStates
      <3> QED
        BY <1>3, <3>1 DEF TabKnows
    <2> QED
      BY <2>1, <2>2
  <1> QED
    BY <1>2, <1>4 DEF SessionIInv

LEMMA TabAlone ==
  ASSUME SessionIInv, NEW t \in Clients, NEW s, SetTab(t, s), TabKnows(s, Len(exchanges)),
         UNCHANGED <<stored, tokens, exchanges>>
  PROVE  SessionIInv'
  <1>1. Len(exchanges) \in Nat
    BY LenProperties DEF SessionIInv, TokensSound
  <1> QED
    BY <1>1, TabMoves DEF SessionIInv

\* Signing a token with a password, or for a code that nobody consumed.
LEMMA SignedSound ==
  ASSUME NEW tk, NEW ex, TokensSound(tk, ex), NEW st, StoredIs(st, tk), NEW o \in Owners
  PROVE  LET more == Append(tk, [owner |-> o, code |-> 0, live |-> TRUE])
         IN  /\ TokensSound(more, ex) /\ StoredIs(st, more) /\ Len(tk) + 1 \in DOMAIN more
             /\ StoredIs([token |-> Len(tk) + 1, email |-> more[Len(tk) + 1].owner], more)
  <1> DEFINE x == [owner |-> o, code |-> 0, live |-> TRUE]
             more == Append(tk, x)
  <1>1. x \in Tokens /\ x.code = 0
    BY DEF Tokens
  <1>2. tk \in Seq(Tokens) /\ ex \in Seq(ExchangeCodes)
    BY DEF TokensSound
  <1> HIDE DEF x
  <1>3. /\ more \in Seq(Tokens) /\ DOMAIN more = 1..(Len(tk) + 1) /\ DOMAIN tk = 1..Len(tk) /\ Len(tk) \in Nat
        /\ \A m \in DOMAIN more : more[m] = IF m = Len(tk) + 1 THEN x ELSE tk[m]
    BY <1>1, <1>2
  <1> HIDE DEF more
  <1>4. TokensSound(more, ex)
    BY <1>1, <1>2, <1>3 DEF TokensSound
  <1>5. StoredIs(st, more)
    BY <1>3 DEF StoredIs
  <1>6. StoredIs([token |-> Len(tk) + 1, email |-> more[Len(tk) + 1].owner], more)
    BY <1>3 DEF StoredIs
  <1> QED
    BY <1>3, <1>4, <1>5, <1>6 DEF more, x

LEMMA ExchangedSound ==
  ASSUME NEW tk, NEW ex, TokensSound(tk, ex), NEW st, StoredIs(st, tk),
         NEW k \in DOMAIN ex, ~ex[k].consumed
  PROVE  LET more == Append(tk, [owner |-> ex[k].owner, code |-> k, live |-> TRUE])
             gone == [ex EXCEPT ![k].consumed = TRUE]
         IN  /\ TokensSound(more, gone) /\ StoredIs(st, more) /\ Len(gone) = Len(ex)
             /\ StoredIs([token |-> Len(tk) + 1, email |-> more[Len(tk) + 1].owner], more)
  <1> DEFINE x == [owner |-> ex[k].owner, code |-> k, live |-> TRUE]
             y == [ex[k] EXCEPT !.consumed = TRUE]
             more == Append(tk, x)
             gone == [ex EXCEPT ![k] = y]
  <1>1. tk \in Seq(Tokens) /\ ex \in Seq(ExchangeCodes) /\ ex[k] \in ExchangeCodes
    BY DEF TokensSound
  <1>2. k \in 1..Len(ex) /\ DOMAIN ex = 1..Len(ex) /\ Len(ex) \in Nat
    BY <1>1, LenProperties
  <1>3. x \in Tokens /\ x.code = k
    BY <1>1, <1>2 DEF Tokens, ExchangeCodes
  <1>4. y \in ExchangeCodes /\ y.consumed = TRUE
    <2>1. \A b \in BOOLEAN : [ex[k] EXCEPT !.consumed = b] \in ExchangeCodes /\ [ex[k] EXCEPT !.consumed = b].consumed = b
      BY <1>1 DEF ExchangeCodes
    <2> QED
      BY <2>1
  <1>5. gone = [ex EXCEPT ![k].consumed = TRUE]
    OBVIOUS
  <1> HIDE DEF x, y
  <1>6. /\ more \in Seq(Tokens) /\ DOMAIN more = 1..(Len(tk) + 1) /\ DOMAIN tk = 1..Len(tk) /\ Len(tk) \in Nat
        /\ \A m \in DOMAIN more : more[m] = IF m = Len(tk) + 1 THEN x ELSE tk[m]
    BY <1>1, <1>3
  <1>7. gone \in Seq(ExchangeCodes) /\ Len(gone) = Len(ex) /\ \A j \in 1..Len(ex) : gone[j] = IF j = k THEN y ELSE ex[j]
    BY <1>1, <1>2, <1>4, ExceptSeq
  <1> HIDE DEF more, gone
  <1>8. DOMAIN gone = DOMAIN ex
    BY <1>2, <1>7, LenProperties
  <1>9. \A m \in DOMAIN tk : tk[m].code # k
    <2>1. \A m \in DOMAIN tk : tk[m].code # 0 => ex[tk[m].code].consumed
      BY DEF TokensSound
    <2> QED
      BY <1>2, <2>1
  <1>10. \A m \in DOMAIN more : more[m].code # 0 => more[m].code \in DOMAIN gone /\ gone[more[m].code].consumed
    <2> TAKE m \in DOMAIN more
    <2>1. CASE m = Len(tk) + 1
      BY <1>2, <1>3, <1>4, <1>6, <1>7, <1>8, <2>1
    <2>2. CASE m # Len(tk) + 1
      <3>1. m \in DOMAIN tk /\ more[m] = tk[m]
        BY <1>6, <2>2
      <3>2. tk[m].code # 0 => tk[m].code \in DOMAIN ex /\ ex[tk[m].code].consumed
        BY <3>1 DEF TokensSound
      <3> QED
        BY <1>2, <1>4, <1>7, <1>8, <3>1, <3>2
    <2> QED
      BY <2>1, <2>2
  <1>11. \A m, n \in DOMAIN more : m # n /\ more[m].code # 0 => more[m].code # more[n].code
    <2>1. \A m, n \in DOMAIN tk : m # n /\ tk[m].code # 0 => tk[m].code # tk[n].code
      BY DEF TokensSound
    <2> QED
      BY <1>3, <1>6, <1>9, <2>1
  <1>12. TokensSound(more, gone)
    BY <1>6, <1>7, <1>10, <1>11 DEF TokensSound
  <1>13. StoredIs(st, more)
    BY <1>6 DEF StoredIs
  <1>14. StoredIs([token |-> Len(tk) + 1, email |-> more[Len(tk) + 1].owner], more)
    BY <1>6 DEF StoredIs
  <1> QED
    BY <1>5, <1>7, <1>12, <1>13, <1>14 DEF more, gone, x

LEMMA NothingStored == \A tk : StoredIs(NoSession, tk)
  BY DEF StoredIs, NoSession

\* The steps of a tab that leave the storage and the tables alone.
LEMMA QuietTabs ==
  ASSUME SessionIInv, NEW t \in Clients,
         \/ handleLogin(t) \/ handleOAuth(t) \/ OAuthURL(t) \/ OpenCallback(t) \/ backToSignIn(t) \/ Home(t)
         \/ BoundaryRedirects(t) \/ apiFetch(t)
  PROVE  SessionIInv'
  <1> DEFINE s == tabs[t]  n == Len(exchanges)
  <1>1. n \in Nat /\ TabKnows(s, n) /\ TabKnows(AtLogin, n)
    BY LenProperties, AtLoginKnows DEF SessionIInv, TokensSound
  <1>2. UNCHANGED <<stored, tokens, exchanges>>
    BY DEF handleLogin, handleOAuth, OAuthURL, OpenCallback, backToSignIn, Home, BoundaryRedirects, apiFetch
  <1> SUFFICES \E q : TabKnows(q, n) /\ SetTab(t, q)
    BY <1>2, TabAlone
  <1>3. CASE handleLogin(t)
    <2>1. PICK o \in Owners : SetTab(t, [s EXCEPT !.login = "sent", !.as = o, !.error = FALSE])
      BY <1>3 DEF handleLogin
    <2>2. \A b \in BOOLEAN : TabKnows([s EXCEPT !.login = "sent", !.as = o, !.error = b], n)
      BY <1>1, TabFields
    <2> QED
      BY <2>1, <2>2
  <1>4. CASE handleOAuth(t)
    <2>1. \A a, b \in BOOLEAN : TabKnows([s EXCEPT !.oauth = a, !.error = b], n)
      BY <1>1, TabFields
    <2>2. SetTab(t, [s EXCEPT !.oauth = TRUE, !.error = FALSE])
      BY <1>4 DEF handleOAuth
    <2> QED
      BY <2>1, <2>2
  <1>5. CASE OAuthURL(t)
    <2>1. CASE SetTab(t, [AtLogin EXCEPT !.page = "provider"])
      <3>1. \A p \in Pages : TabKnows([AtLogin EXCEPT !.page = p], n)
        BY <1>1, TabFields
      <3> QED
        BY <2>1, <3>1 DEF Pages
    <2>2. CASE SetTab(t, [s EXCEPT !.oauth = FALSE, !.error = OnPage(t, "login")])
      <3>1. \A a, b \in BOOLEAN : TabKnows([s EXCEPT !.oauth = a, !.error = b], n)
        BY <1>1, TabFields
      <3>2. OnPage(t, "login") \in BOOLEAN
        BY DEF OnPage
      <3> QED
        BY <2>2, <3>1, <3>2
    <2> QED
      BY <1>5, <2>1, <2>2 DEF OAuthURL
  <1>6. CASE OpenCallback(t)
    <2>1. PICK k \in DOMAIN exchanges : SetTab(t, [AtLogin EXCEPT !.page = "callback", !.code = k])
      BY <1>6 DEF OpenCallback
    <2>2. k \in Nat /\ k <= n
      BY LenProperties DEF SessionIInv, TokensSound
    <2>3. TabKnows([AtLogin EXCEPT !.page = "callback", !.code = k], n)
      BY <1>1, <2>2, TabFields
    <2> QED
      BY <2>1, <2>3
  <1>7. CASE backToSignIn(t) \/ BoundaryRedirects(t)
    BY <1>1, <1>7 DEF backToSignIn, BoundaryRedirects
  <1>8. CASE Home(t)
    <2>1. \A p \in Pages : TabKnows([AtLogin EXCEPT !.page = p], n)
      BY <1>1, TabFields
    <2>2. SetTab(t, [AtLogin EXCEPT !.page = IF stored.token # 0 THEN "app" ELSE "login"])
      BY <1>8 DEF Home
    <2> QED
      BY <2>1, <2>2 DEF Pages
  <1>9. CASE apiFetch(t)
    <2>1. stored.token \in Nat
      BY LenProperties DEF SessionIInv, TokensSound, StoredIs
    <2>2. TabKnows([s EXCEPT !.call = stored.token], n)
      BY <1>1, <2>1, TabFields
    <2> QED
      BY <1>9, <2>2 DEF apiFetch
  <1> QED
    BY <1>3, <1>4, <1>5, <1>6, <1>7, <1>8, <1>9

LEMMA PasswordSignsIn == ASSUME SessionIInv, NEW t \in Clients, LoginAnswer(t) PROVE SessionIInv'
  <1> DEFINE s == tabs[t]  n == Len(exchanges)
             k == Len(tokens) + 1
             p == [AtLogin EXCEPT !.page = "app", !.oauth = s.oauth]
  <1>1. /\ n \in Nat /\ TabKnows(s, n) /\ TabKnows(AtLogin, n) /\ s.oauth \in BOOLEAN
        /\ TokensSound(tokens, exchanges) /\ StoredIs(stored, tokens)
    BY LenProperties, AtLoginKnows DEF SessionIInv, TokensSound, TabStates
  <1>2. CASE tokens' = Signed(s.as, 0) /\ EnterAs(t, k) /\ UNCHANGED exchanges
    <2>1. s.as \in Owners
      BY <1>1 DEF LoginAnswer, TabKnows
    <2>2. /\ tokens' = Append(tokens, [owner |-> s.as, code |-> 0, live |-> TRUE])
          /\ stored' = [token |-> k, email |-> tokens'[k].owner] /\ SetTab(t, p)
      BY <1>2 DEF Signed, EnterAs
    <2>3. TokensSound(tokens', exchanges') /\ StoredIs(stored', tokens')
      BY <1>1, <1>2, <2>1, <2>2, SignedSound
    <2>4. \A b \in BOOLEAN : TabKnows([AtLogin EXCEPT !.page = "app", !.oauth = b], n)
      BY <1>1, TabFields
    <2>5. TabKnows(p, n)
      BY <1>1, <2>4
    <2> HIDE DEF p
    <2> QED
      BY <1>1, <1>2, <2>2, <2>3, <2>5, TabMoves
  <1>3. CASE /\ SetTab(t, [s EXCEPT !.login = "none", !.as = "none", !.error = TRUE])
             /\ UNCHANGED <<stored, tokens, exchanges>>
    <2>1. \A b \in BOOLEAN : TabKnows([s EXCEPT !.login = "none", !.as = "none", !.error = b], n)
      BY <1>1, TabFields
    <2>2. TabKnows([s EXCEPT !.login = "none", !.as = "none", !.error = TRUE], n)
      BY <2>1
    <2> QED
      BY <1>3, <2>2, TabAlone
  <1> QED
    BY <1>2, <1>3 DEF LoginAnswer

LEMMA CodeGivenOut == ASSUME SessionIInv, NEW t \in Clients, ProviderReturns(t) PROVE SessionIInv'
  <1> DEFINE n == Len(exchanges)
             p == [AtLogin EXCEPT !.page = "callback", !.code = n + 1]
             q == [AtLogin EXCEPT !.page = "callback", !.error = TRUE]
  <1>1. /\ n \in Nat /\ TabKnows(AtLogin, n) /\ TabKnows(AtLogin, n + 1)
        /\ TokensSound(tokens, exchanges) /\ StoredIs(stored, tokens)
    BY LenProperties, AtLoginKnows DEF SessionIInv, TokensSound
  <1>2. ASSUME NEW o \in Owners, exchanges' = Append(exchanges, [owner |-> o, consumed |-> FALSE]), SetTab(t, p),
               UNCHANGED <<stored, tokens>>
        PROVE  SessionIInv'
    <2>1. [owner |-> o, consumed |-> FALSE] \in ExchangeCodes /\ exchanges \in Seq(ExchangeCodes)
      BY <1>1 DEF ExchangeCodes, TokensSound
    <2>2. /\ exchanges' \in Seq(ExchangeCodes) /\ Len(exchanges') = n + 1
          /\ DOMAIN exchanges = 1..n /\ DOMAIN exchanges' = 1..(n + 1)
          /\ \A j \in DOMAIN exchanges : exchanges'[j] = exchanges[j]
      BY <1>2, <2>1
    <2>3. TokensSound(tokens, exchanges')
      BY <1>1, <2>2 DEF TokensSound
    <2>4. \A k \in Nat : k <= n + 1 => TabKnows([AtLogin EXCEPT !.page = "callback", !.code = k], n + 1)
      <3> DEFINE m == n + 1
      <3>1. m \in Nat /\ TabKnows(AtLogin, m)
        BY <1>1
      <3> HIDE DEF m
      <3>2. \A k \in Nat : k <= m => TabKnows([AtLogin EXCEPT !.page = "callback", !.code = k], m)
        BY <3>1, TabFields
      <3> QED
        BY <3>2 DEF m
    <2>5. n + 1 \in Nat /\ n + 1 <= n + 1 /\ n <= n + 1
      BY <1>1
    <2>6. TabKnows(p, n + 1)
      BY <2>4, <2>5, Zenon
    <2>7. TokensSound(tokens', exchanges') /\ StoredIs(stored', tokens') /\ Len(exchanges) <= Len(exchanges')
      BY <1>1, <1>2, <2>2, <2>3, <2>5
    <2> HIDE DEF p
    <2> QED
      BY <1>2, <2>2, <2>6, <2>7, TabMoves
  <1>3. CASE SetTab(t, q) /\ UNCHANGED <<stored, tokens, exchanges>>
    <2>1. \A b \in BOOLEAN : TabKnows([AtLogin EXCEPT !.page = "callback", !.error = b], n)
      BY <1>1, TabFields
    <2>2. TabKnows(q, n)
      BY <2>1
    <2> QED
      BY <1>3, <2>2, TabAlone
  <1> QED
    BY <1>2, <1>3 DEF ProviderReturns

LEMMA CodeExchanged == ASSUME SessionIInv, NEW t \in Clients, Exchange(t) PROVE SessionIInv'
  <1> DEFINE s == tabs[t]  n == Len(exchanges)  k == s.code  x == exchanges[k]
             p == [AtLogin EXCEPT !.page = "app", !.oauth = s.oauth]
             q == [s EXCEPT !.error = TRUE]
  <1>1. /\ n \in Nat /\ TabKnows(s, n) /\ TabKnows(AtLogin, n) /\ s.oauth \in BOOLEAN
        /\ TokensSound(tokens, exchanges) /\ StoredIs(stored, tokens)
    BY LenProperties, AtLoginKnows DEF SessionIInv, TokensSound, TabStates
  <1>2. k \in DOMAIN exchanges
    <2>1. k # 0 /\ k \in Nat /\ k <= n
      BY <1>1 DEF Exchange, OAuthCallbackView, TabKnows, TabStates
    <2> QED
      BY <1>1, <2>1, LenProperties DEF TokensSound
  <1>3. TabKnows(p, n) /\ TabKnows(q, n)
    <2>1. \A b \in BOOLEAN : TabKnows([AtLogin EXCEPT !.page = "app", !.oauth = b], n)
      BY <1>1, TabFields
    <2>2. \A b \in BOOLEAN : TabKnows([s EXCEPT !.error = b], n)
      BY <1>1, TabFields
    <2> QED
      BY <1>1, <2>1, <2>2
  <1>4. CASE /\ ~x.consumed /\ exchanges' = [exchanges EXCEPT ![k].consumed = TRUE] /\ tokens' = Signed(x.owner, k)
             /\ EnterAs(t, Len(tokens) + 1) \/ (SetTab(t, q) /\ UNCHANGED stored)
    <2>1. tokens' = Append(tokens, [owner |-> x.owner, code |-> k, live |-> TRUE])
      BY <1>4 DEF Signed
    <2>2. /\ TokensSound(tokens', exchanges') /\ StoredIs(stored, tokens') /\ Len(exchanges') = n
          /\ StoredIs([token |-> Len(tokens) + 1, email |-> tokens'[Len(tokens) + 1].owner], tokens')
      <3>1. exchanges' = [exchanges EXCEPT ![k].consumed = TRUE] /\ ~exchanges[k].consumed
        BY <1>4
      <3> HIDE DEF k
      <3> QED
        BY <1>1, <1>2, <2>1, <3>1, ExchangedSound
    <2>3. n <= Len(exchanges') /\ TabKnows(p, Len(exchanges')) /\ TabKnows(q, Len(exchanges'))
      BY <1>1, <1>3, <2>2
    <2>4. CASE EnterAs(t, Len(tokens) + 1)
      <3>1. stored' = [token |-> Len(tokens) + 1, email |-> tokens'[Len(tokens) + 1].owner] /\ SetTab(t, p)
        BY <2>4 DEF EnterAs
      <3>2. StoredIs(stored', tokens')
        BY <2>2, <3>1
      <3> HIDE DEF p
      <3> QED
        BY <2>2, <2>3, <3>1, <3>2, TabMoves
    <2>5. CASE SetTab(t, q) /\ UNCHANGED stored
      <3>1. StoredIs(stored', tokens')
        BY <2>2, <2>5
      <3> HIDE DEF q
      <3> QED
        BY <2>2, <2>3, <2>5, <3>1, TabMoves
    <2> QED
      BY <1>4, <2>4, <2>5
  <1>5. CASE SetTab(t, q) /\ UNCHANGED <<stored, tokens, exchanges>>
    BY <1>3, <1>5, TabAlone
  <1> QED
    BY <1>4, <1>5 DEF Exchange

LEMMA SignedOut ==
  ASSUME SessionIInv, NEW t \in Clients, redirectToLogin(t), UNCHANGED <<tokens, exchanges>>
  PROVE  SessionIInv'
  <1>1. /\ Len(exchanges) \in Nat /\ TabKnows(AtLogin, Len(exchanges)) /\ TokensSound(tokens, exchanges)
        /\ stored' = NoSession /\ SetTab(t, AtLogin)
    BY LenProperties, AtLoginKnows DEF SessionIInv, TokensSound, redirectToLogin
  <1> QED
    BY <1>1, NothingStored, TabMoves

LEMMA CallAnswered == ASSUME SessionIInv, NEW t \in Clients, ApiAnswer(t) PROVE SessionIInv'
  <1>1. CASE redirectToLogin(t)
    BY <1>1, SignedOut DEF ApiAnswer
  <1>2. CASE SetTab(t, [tabs[t] EXCEPT !.call = 0]) /\ UNCHANGED <<stored, tokens, exchanges>>
    <2>1. Len(exchanges) \in Nat /\ TabKnows(tabs[t], Len(exchanges))
      BY LenProperties DEF SessionIInv, TokensSound
    <2>2. TabKnows([tabs[t] EXCEPT !.call = 0], Len(exchanges))
      BY <2>1, TabFields
    <2> QED
      BY <1>2, <2>2, TabAlone
  <1> QED
    BY <1>1, <1>2 DEF ApiAnswer

LEMMA TokenDies == ASSUME SessionIInv, TokenExpires PROVE SessionIInv'
  <1>1. PICK n \in DOMAIN tokens : tokens' = [tokens EXCEPT ![n].live = FALSE] /\ UNCHANGED <<stored, exchanges, tabs>>
    BY DEF TokenExpires
  <1> DEFINE x == [tokens[n] EXCEPT !.live = FALSE]
  <1>2. tokens \in Seq(Tokens) /\ tokens[n] \in Tokens /\ n \in 1..Len(tokens) /\ DOMAIN tokens = 1..Len(tokens)
    BY LenProperties DEF SessionIInv, TokensSound
  <1>3. x \in Tokens /\ x.owner = tokens[n].owner /\ x.code = tokens[n].code
    <2>1. \A b \in BOOLEAN : LET y == [tokens[n] EXCEPT !.live = b]
                            IN  y \in Tokens /\ y.owner = tokens[n].owner /\ y.code = tokens[n].code
      BY <1>2 DEF Tokens
    <2> QED
      BY <2>1
  <1>4. tokens' = [tokens EXCEPT ![n] = x]
    BY <1>1
  <1> HIDE DEF x
  <1>5. tokens' \in Seq(Tokens) /\ Len(tokens') = Len(tokens) /\ \A j \in 1..Len(tokens) : tokens'[j] = IF j = n THEN x ELSE tokens[j]
    BY <1>2, <1>3, <1>4, ExceptSeq
  <1>6. DOMAIN tokens' = DOMAIN tokens /\ \A j \in DOMAIN tokens : tokens'[j].owner = tokens[j].owner /\ tokens'[j].code = tokens[j].code
    BY <1>2, <1>3, <1>5, LenProperties
  <1>7. TokensSound(tokens', exchanges')
    BY <1>1, <1>5, <1>6 DEF SessionIInv, TokensSound
  <1>8. StoredIs(stored', tokens')
    BY <1>1, <1>6 DEF SessionIInv, StoredIs
  <1> QED
    BY <1>1, <1>7, <1>8 DEF SessionIInv

LEMMA SessionSteps == ASSUME SessionIInv, [SessionNext]_sessionVars PROVE SessionIInv'
  <1>1. CASE UNCHANGED sessionVars
    BY <1>1 DEF SessionIInv, sessionVars, TokensSound, StoredIs
  <1>2. CASE TokenExpires
    BY <1>2, TokenDies
  <1>3. ASSUME NEW t \in Clients,
               \/ handleLogin(t) \/ handleOAuth(t) \/ OAuthURL(t) \/ OpenCallback(t) \/ backToSignIn(t) \/ Home(t)
               \/ BoundaryRedirects(t) \/ apiFetch(t)
        PROVE  SessionIInv'
    BY <1>3, QuietTabs
  <1>4. ASSUME NEW t \in Clients, LoginAnswer(t) \/ ProviderReturns(t) \/ Exchange(t) \/ ApiAnswer(t)
        PROVE  SessionIInv'
    BY <1>4, PasswordSignsIn, CodeGivenOut, CodeExchanged, CallAnswered
  <1>5. ASSUME NEW t \in Clients, handleLogout(t) PROVE SessionIInv'
    BY <1>5, SignedOut DEF handleLogout
  <1> QED
    BY <1>1, <1>2, <1>3, <1>4, <1>5 DEF SessionNext

\* However many tabs sign in, return from a provider, repeat a callback or sign
\* out, a code gives one token and the stored e-mail is that of the stored token
\* (OAuthService.ConsumeExchange; setAuthToken and setAuthEmail of lib/api.ts).
THEOREM SessionIsOne == SessionSpec => []OneSession
  <1>1. SessionInit => SessionIInv
    BY SessionStarts
  <1>2. SessionIInv /\ [SessionNext]_sessionVars => SessionIInv'
    BY SessionSteps
  <1>3. SessionIInv => OneSession
    BY DEF SessionIInv, TokensSound, StoredIs, OneSession
  <1> QED
    BY <1>1, <1>2, <1>3, PTL DEF SessionSpec

-----------------------------------------------------------------------------
(***************************************************************************)
(* The blocks of a page share a worker and a listener per language. For    *)
(* any number of blocks and languages, and however they are mounted again: *)
(* no language sees the output of another, and a block that was run last   *)
(* in a language whose runtime could be fetched is released.               *)
(***************************************************************************)

\* What belongs to the worker of a language.
BlocksOf(k)   == {b \in Blocks : Key(b) = k}
ProgramsOf(k) == [block : BlocksOf(k), mount : Nat, n : Nat, printed : BOOLEAN]
MessagesOf(k) == [type : {"stdout", "done", "error"}, from : BlocksOf(k), n : Nat]
ListensIn(k, l) == l # NoListener => l \in [block : BlocksOf(k), mount : Nat]
LinesOf(b)    == [from : BlocksOf(Key(b)), n : Nat]
Shown(b)      == [mount : Nat, running : BOOLEAN, failed : BOOLEAN, output : SUBSET LinesOf(b)]

SandboxesSound == /\ sandboxes \in [Blocks -> UNION {Shown(b) : b \in Blocks}]
                  /\ \A b \in Blocks : sandboxes[b] \in Shown(b)
ListenersSound == DOMAIN listeners = Keys /\ \A k \in Keys : ListensIn(k, listeners[k])
ProgramsSound  == DOMAIN programs = Keys /\ \A k \in Keys : programs[k] \in Seq(ProgramsOf(k))
PostedSound    == DOMAIN posted = Keys /\ \A k \in Keys : posted[k] \in Seq(MessagesOf(k))
RegistryIInv   == started \in Nat /\ SandboxesSound /\ ListenersSound /\ ProgramsSound /\ PostedSound
-----------------------------------------------------------------------------
LEMMA KeyOfBlock == \A b \in Blocks : Key(b) \in Keys /\ b \in BlocksOf(Key(b))
  BY DEF Keys, BlocksOf

LEMMA RegistryStarts == ASSUME RunInit PROVE RegistryIInv
  <1>1. \A b \in Blocks : Fresh(0) \in Shown(b)
    BY DEF Fresh, Shown
  <1>2. SandboxesSound
    BY <1>1 DEF RunInit, SandboxesSound
  <1>3. started \in Nat /\ ListenersSound /\ ProgramsSound /\ PostedSound
    BY DEF RunInit, ListenersSound, ListensIn, ProgramsSound, PostedSound
  <1> QED
    BY <1>2, <1>3 DEF RegistryIInv

\* One block changes what it shows.
LEMMA BlockShows ==
  ASSUME SandboxesSound, NEW b \in Blocks, NEW s \in Shown(b), sandboxes' = [sandboxes EXCEPT ![b] = s]
  PROVE  SandboxesSound' /\ \A c \in Blocks : sandboxes'[c] = IF c = b THEN s ELSE sandboxes[c]
  <1>1. \A c \in Blocks : sandboxes'[c] = IF c = b THEN s ELSE sandboxes[c]
    BY DEF SandboxesSound
  <1>2. sandboxes' \in [Blocks -> UNION {Shown(c) : c \in Blocks}]
    BY DEF SandboxesSound
  <1> QED
    BY <1>1, <1>2 DEF SandboxesSound

LEMMA OneShown ==
  ASSUME NEW b \in Blocks, NEW s \in Shown(b)
  PROVE  /\ \A m \in Nat : Fresh(m) \in Shown(b)
         /\ [s EXCEPT !.running = TRUE, !.failed = FALSE, !.output = {}] \in Shown(b)
         /\ \A msg \in MessagesOf(Key(b)) : onMessage(s, msg) \in Shown(b)
  <1>1. \A m \in Nat : Fresh(m) \in Shown(b)
    BY DEF Fresh, Shown
  <1>2. [s EXCEPT !.running = TRUE, !.failed = FALSE, !.output = {}] \in Shown(b)
    <2>1. \A r, f \in BOOLEAN, o \in SUBSET LinesOf(b) :
            [s EXCEPT !.running = r, !.failed = f, !.output = o] \in Shown(b)
      BY DEF Shown
    <2> QED
      BY <2>1
  <1>3. ASSUME NEW msg \in MessagesOf(Key(b)) PROVE onMessage(s, msg) \in Shown(b)
    <2>1. \A r \in BOOLEAN : [s EXCEPT !.running = r] \in Shown(b)
      BY DEF Shown
    <2>2. \A r, f \in BOOLEAN : [s EXCEPT !.running = r, !.failed = f] \in Shown(b)
      BY DEF Shown
    <2>3. \A o \in SUBSET LinesOf(b) : [s EXCEPT !.output = o] \in Shown(b)
      BY DEF Shown
    <2>4. s.output \cup {[from |-> msg.from, n |-> msg.n]} \in SUBSET LinesOf(b)
      BY DEF Shown, LinesOf, MessagesOf
    <2>5. msg.type \in {"stdout", "done", "error"}
      BY DEF MessagesOf
    <2> QED
      BY <2>1, <2>2, <2>3, <2>4, <2>5 DEF onMessage
  <1> QED
    BY <1>1, <1>2, <1>3

\* The sequence of one language changes.
LEMMA LanguageRuns ==
  ASSUME ProgramsSound, NEW k \in Keys, NEW s \in Seq(ProgramsOf(k)), programs' = [programs EXCEPT ![k] = s]
  PROVE  ProgramsSound' /\ \A j \in Keys : programs'[j] = IF j = k THEN s ELSE programs[j]
  BY DEF ProgramsSound
LEMMA LanguagePosts ==
  ASSUME PostedSound, NEW k \in Keys, NEW s \in Seq(MessagesOf(k)), posted' = [posted EXCEPT ![k] = s]
  PROVE  PostedSound' /\ \A j \in Keys : posted'[j] = IF j = k THEN s ELSE posted[j]
  BY DEF PostedSound
LEMMA LanguageListens ==
  ASSUME ListenersSound, NEW k \in Keys, NEW l, ListensIn(k, l), listeners' = [listeners EXCEPT ![k] = l]
  PROVE  ListenersSound' /\ \A j \in Keys : listeners'[j] = IF j = k THEN l ELSE listeners[j]
  BY DEF ListenersSound

LEMMA WithoutOne ==
  ASSUME NEW S, NEW s \in Seq(S), NEW i \in DOMAIN s PROVE Without(s, i) \in Seq(S)
  <1>1. i \in 1..Len(s) /\ Len(s) \in Nat /\ \A j \in 1..Len(s) : s[j] \in S
    BY LenProperties, ElementOfSeq
  <1>2. SubSeq(s, 1, i - 1) \in Seq(S)
    BY <1>1, SubSeqProperties
  <1>3. SubSeq(s, i + 1, Len(s)) \in Seq(S)
    BY <1>1, SubSeqProperties
  <1> QED
    BY <1>2, <1>3, ConcatProperties DEF Without

\* What a run leaves behind: the block forgets its output, it alone listens to the
\* language, and its program follows the others if there is a worker.
LEMMA RunLeaves ==
  ASSUME BlocksNamed, RegistryIInv, NEW b \in Blocks, runCode(b)
  PROVE  /\ RegistryIInv'
         /\ \A c \in Blocks : c # b => sandboxes'[c] = sandboxes[c]
         /\ \A j \in Keys : j # Key(b) => listeners'[j] = listeners[j] /\ programs'[j] = programs[j]
         /\ UNCHANGED posted
         /\ \E w \in getOrCreateWorker(Key(b)) :
              /\ workers' = [workers EXCEPT ![Key(b)] = w] /\ (w = "up" => programs'[Key(b)] # <<>>)
              /\ w # "up" => UNCHANGED programs
         /\ listeners'[Key(b)] # NoListener
  <1> DEFINE k == Key(b)
             s == [sandboxes[b] EXCEPT !.running = TRUE, !.failed = FALSE, !.output = {}]
             l == [block |-> b, mount |-> sandboxes[b].mount]
             p == [block |-> b, mount |-> sandboxes[b].mount, n |-> started, printed |-> FALSE]
  <1>1. k \in Keys /\ b \in BlocksOf(k) /\ sandboxes[b] \in Shown(b) /\ sandboxes[b].mount \in Nat /\ started \in Nat
    BY KeyOfBlock DEF RegistryIInv, SandboxesSound, Shown
  <1>2. s \in Shown(b) /\ ListensIn(k, l) /\ p \in ProgramsOf(k)
    BY <1>1, OneShown DEF ListensIn, ProgramsOf
  <1>3. /\ sandboxes' = [sandboxes EXCEPT ![b] = s] /\ started' = started + 1 /\ UNCHANGED posted
        /\ registryRun(k, p)
    BY DEF runCode
  <1>4. PICK w \in getOrCreateWorker(k) :
          /\ workers' = [workers EXCEPT ![k] = w]
          /\ listeners' = [listeners EXCEPT ![k] = l]
          /\ programs' = IF w = "up" THEN [programs EXCEPT ![k] = Append(@, p)] ELSE programs
    BY <1>3 DEF registryRun
  <1>5. programs[k] \in Seq(ProgramsOf(k)) /\ l # NoListener
    BY <1>1 DEF BlocksNamed, RegistryIInv, ProgramsSound, NoListener
  <1> HIDE DEF s, l, p
  <1>6. SandboxesSound' /\ \A c \in Blocks : c # b => sandboxes'[c] = sandboxes[c]
    BY <1>2, <1>3, BlockShows DEF RegistryIInv
  <1>7. /\ ListenersSound' /\ \A j \in Keys : j # k => listeners'[j] = listeners[j]
        /\ listeners'[k] # NoListener
    <2>1. ListenersSound' /\ \A j \in Keys : listeners'[j] = IF j = k THEN l ELSE listeners[j]
      BY <1>1, <1>2, <1>4, LanguageListens DEF RegistryIInv
    <2> QED
      BY <1>1, <1>5, <2>1
  <1>8. /\ ProgramsSound' /\ \A j \in Keys : j # k => programs'[j] = programs[j]
        /\ w = "up" => programs'[k] # <<>>
    <2>1. CASE w = "up"
      <3>1. Append(programs[k], p) \in Seq(ProgramsOf(k)) /\ Append(programs[k], p) # <<>>
        BY <1>2, <1>5
      <3>2. programs' = [programs EXCEPT ![k] = Append(programs[k], p)]
        BY <1>4, <2>1
      <3>3. ProgramsSound' /\ \A j \in Keys : programs'[j] = IF j = k THEN Append(programs[k], p) ELSE programs[j]
        BY <1>1, <3>1, <3>2, LanguageRuns DEF RegistryIInv
      <3> QED
        BY <1>1, <3>1, <3>3
    <2>2. CASE w # "up"
      BY <1>4, <2>2 DEF RegistryIInv, ProgramsSound
    <2> QED
      BY <2>1, <2>2
  <1>9. PostedSound' /\ started' \in Nat
    BY <1>1, <1>3 DEF RegistryIInv, PostedSound
  <1>10. RegistryIInv'
    BY <1>6, <1>7, <1>8, <1>9 DEF RegistryIInv
  <1> QED
    BY <1>3, <1>4, <1>6, <1>7, <1>8, <1>10

Printed(p) == [p EXCEPT !.printed = TRUE]
\* A program prints or ends: what it posts is of its language, and it says when it
\* ends.
LEMMA ProgramPosts ==
  ASSUME RegistryIInv, NEW k \in Keys, Prints(k) \/ RunEnds(k)
  PROVE  /\ RegistryIInv' /\ UNCHANGED <<sandboxes, listeners, workers>>
         /\ \A j \in Keys : j # k => programs'[j] = programs[j] /\ posted'[j] = posted[j]
         /\ \A i \in DOMAIN posted[k] : i \in DOMAIN posted'[k] /\ posted'[k][i] = posted[k][i]
         /\ \/ programs'[k] # <<>>
            \/ \E i \in DOMAIN posted'[k] : posted'[k][i].type \in {"done", "error"}
  <1>1. PICK i \in Turn(k), type \in {"stdout", "done", "error"} :
          /\ Post(k, type, programs[k][i])
          /\ \/ type = "stdout" /\ programs' = [programs EXCEPT ![k] = [programs[k] EXCEPT ![i] = Printed(programs[k][i])]]
             \/ type # "stdout" /\ programs' = [programs EXCEPT ![k] = Without(programs[k], i)]
    BY DEF Prints, RunEnds, Printed
  <1> DEFINE p == programs[k][i]
             m == [type |-> type, from |-> p.block, n |-> p.n]
             q == Printed(p)
  <1>2. programs[k] \in Seq(ProgramsOf(k)) /\ i \in DOMAIN programs[k] /\ i \in 1..Len(programs[k])
    BY LenProperties DEF Turn, RegistryIInv, ProgramsSound
  <1>3. p \in ProgramsOf(k)
    BY <1>2, ElementOfSeq
  <1>4. m \in MessagesOf(k) /\ m.type = type
    BY <1>3 DEF ProgramsOf, MessagesOf
  <1>5. q \in ProgramsOf(k)
    <2>1. \A b \in BOOLEAN : [p EXCEPT !.printed = b] \in ProgramsOf(k)
      BY <1>3 DEF ProgramsOf
    <2> QED
      BY <2>1 DEF Printed
  <1>6. posted' = [posted EXCEPT ![k] = Append(posted[k], m)] /\ posted[k] \in Seq(MessagesOf(k))
    BY <1>1 DEF Post, RegistryIInv, PostedSound
  <1>7. \/ programs' = [programs EXCEPT ![k] = [programs[k] EXCEPT ![i] = q]]
        \/ programs' = [programs EXCEPT ![k] = Without(programs[k], i)] /\ type # "stdout"
    BY <1>1
  <1> HIDE DEF m, p, q
  <1>8. /\ Append(posted[k], m) \in Seq(MessagesOf(k))
        /\ \A j \in DOMAIN posted[k] : j \in DOMAIN Append(posted[k], m) /\ Append(posted[k], m)[j] = posted[k][j]
        /\ \E j \in DOMAIN Append(posted[k], m) : Append(posted[k], m)[j] = m
    <2>1. Len(posted[k]) + 1 \in DOMAIN Append(posted[k], m) /\ Append(posted[k], m)[Len(posted[k]) + 1] = m
      BY <1>4, <1>6
    <2> QED
      BY <1>4, <1>6, <2>1
  <1>9. PostedSound' /\ \A j \in Keys : posted'[j] = IF j = k THEN Append(posted[k], m) ELSE posted[j]
    BY <1>6, <1>8, LanguagePosts DEF RegistryIInv
  <1>10. /\ ProgramsSound' /\ \A j \in Keys : j # k => programs'[j] = programs[j]
         /\ type = "stdout" => programs'[k] # <<>>
    <2>1. CASE programs' = [programs EXCEPT ![k] = [programs[k] EXCEPT ![i] = q]]
      <3>1. /\ [programs[k] EXCEPT ![i] = q] \in Seq(ProgramsOf(k))
            /\ Len([programs[k] EXCEPT ![i] = q]) = Len(programs[k])
        BY <1>2, <1>5, ExceptSeq
      <3>2. [programs[k] EXCEPT ![i] = q] # <<>>
        BY <1>2, <3>1
      <3>3. ProgramsSound' /\ \A j \in Keys : programs'[j] = IF j = k THEN [programs[k] EXCEPT ![i] = q] ELSE programs[j]
        BY <2>1, <3>1, LanguageRuns DEF RegistryIInv
      <3> QED
        BY <3>2, <3>3
    <2>2. CASE programs' = [programs EXCEPT ![k] = Without(programs[k], i)] /\ type # "stdout"
      <3>1. Without(programs[k], i) \in Seq(ProgramsOf(k))
        BY <1>2, WithoutOne
      <3>2. ProgramsSound' /\ \A j \in Keys : programs'[j] = IF j = k THEN Without(programs[k], i) ELSE programs[j]
        BY <2>2, <3>1, LanguageRuns DEF RegistryIInv
      <3> QED
        BY <2>2, <3>2
    <2> QED
      BY <1>7, <2>1, <2>2
  <1>11. UNCHANGED <<sandboxes, listeners, workers, started>>
    BY DEF Prints, RunEnds
  <1>12. RegistryIInv'
    BY <1>9, <1>10, <1>11 DEF RegistryIInv, SandboxesSound, ListenersSound
  <1>13. \/ programs'[k] # <<>>
         \/ \E j \in DOMAIN posted'[k] : posted'[k][j].type \in {"done", "error"}
    BY <1>4, <1>8, <1>9, <1>10
  <1> QED
    BY <1>8, <1>9, <1>10, <1>11, <1>12, <1>13

\* A message is handed to the listener of its language, if its block is mounted.
LEMMA MessageHeard ==
  ASSUME RegistryIInv, NEW k \in Keys, onmessage(k)
  PROVE  /\ RegistryIInv' /\ UNCHANGED <<listeners, programs, workers>>
         /\ \A j \in Keys : j # k => posted'[j] = posted[j]
         /\ \A i \in DOMAIN posted[k] : i # 1 => i - 1 \in DOMAIN posted'[k] /\ posted'[k][i - 1] = posted[k][i]
         /\ \A b \in Blocks :
              IF listeners[k] = [block |-> b, mount |-> sandboxes[b].mount] /\ listeners[k] # NoListener
              THEN sandboxes'[b] = onMessage(sandboxes[b], posted[k][1])
              ELSE sandboxes'[b] = sandboxes[b]
  <1> DEFINE l == listeners[k]
             s == onMessage(sandboxes[l.block], Head(posted[k]))
  <1>1. posted[k] \in Seq(MessagesOf(k)) /\ posted[k] # <<>>
    BY DEF onmessage, RegistryIInv, PostedSound
  <1>2. /\ Head(posted[k]) \in MessagesOf(k) /\ Head(posted[k]) = posted[k][1] /\ Tail(posted[k]) \in Seq(MessagesOf(k))
        /\ \A i \in DOMAIN posted[k] : i # 1 => i - 1 \in DOMAIN Tail(posted[k]) /\ Tail(posted[k])[i - 1] = posted[k][i]
    <2>1. /\ Head(posted[k]) \in MessagesOf(k) /\ Tail(posted[k]) \in Seq(MessagesOf(k))
          /\ Len(Tail(posted[k])) = Len(posted[k]) - 1 /\ Len(posted[k]) \in Nat
          /\ \A i \in 1..Len(Tail(posted[k])) : Tail(posted[k])[i] = posted[k][i + 1]
      BY <1>1, HeadTailProperties, LenProperties
    <2>2. DOMAIN posted[k] = 1..Len(posted[k]) /\ DOMAIN Tail(posted[k]) = 1..Len(Tail(posted[k]))
      BY <1>1, <2>1, LenProperties
    <2>3. \A i \in DOMAIN posted[k] : i # 1 => i - 1 \in DOMAIN Tail(posted[k]) /\ Tail(posted[k])[i - 1] = posted[k][i]
      BY <2>1, <2>2
    <2>4. Head(posted[k]) = posted[k][1]
      BY <1>1
    <2> QED
      BY <2>1, <2>3, <2>4
  <1>3. posted' = [posted EXCEPT ![k] = Tail(posted[k])]
    BY DEF onmessage
  <1>4. PostedSound' /\ \A j \in Keys : posted'[j] = IF j = k THEN Tail(posted[k]) ELSE posted[j]
    BY <1>2, <1>3, LanguagePosts DEF RegistryIInv
  <1>5. ListensIn(k, l)
    BY DEF RegistryIInv, ListenersSound
  <1>6. UNCHANGED <<listeners, programs, workers, started>>
    BY DEF onmessage
  <1>7. CASE l # NoListener /\ sandboxes[l.block].mount = l.mount
    <2>1. l.block \in Blocks /\ Key(l.block) = k /\ sandboxes[l.block] \in Shown(l.block)
      BY <1>5, <1>7 DEF ListensIn, BlocksOf, RegistryIInv, SandboxesSound
    <2>2. s \in Shown(l.block)
      BY <1>2, <2>1, OneShown
    <2>3. sandboxes' = [sandboxes EXCEPT ![l.block] = s]
      BY <1>7 DEF onmessage
    <2>4. SandboxesSound' /\ \A c \in Blocks : sandboxes'[c] = IF c = l.block THEN s ELSE sandboxes[c]
      BY <2>1, <2>2, <2>3, BlockShows DEF RegistryIInv
    <2>5. RegistryIInv'
      BY <1>4, <1>6, <2>4 DEF RegistryIInv, ListenersSound, ProgramsSound
    <2>6. l = [block |-> l.block, mount |-> sandboxes[l.block].mount]
      BY <1>5, <1>7 DEF ListensIn
    <2>7. \A b \in Blocks : l = [block |-> b, mount |-> sandboxes[b].mount] <=> b = l.block
      BY <2>6
    <2>8. s = onMessage(sandboxes[l.block], posted[k][1])
      BY <1>2
    <2>9. \A b \in Blocks :
            IF l = [block |-> b, mount |-> sandboxes[b].mount] /\ l # NoListener
            THEN sandboxes'[b] = onMessage(sandboxes[b], posted[k][1])
            ELSE sandboxes'[b] = sandboxes[b]
      BY <1>7, <2>4, <2>7, <2>8
    <2> QED
      BY <1>2, <1>4, <1>6, <2>5, <2>9
  <1>8. CASE ~(l # NoListener /\ sandboxes[l.block].mount = l.mount)
    <2>1. UNCHANGED sandboxes
      BY <1>8 DEF onmessage
    <2>2. RegistryIInv'
      BY <1>4, <1>6, <2>1 DEF RegistryIInv, SandboxesSound, ListenersSound, ProgramsSound
    <2>3. \A b \in Blocks : ~(l = [block |-> b, mount |-> sandboxes[b].mount] /\ l # NoListener)
      BY <1>8
    <2>4. \A b \in Blocks :
            IF l = [block |-> b, mount |-> sandboxes[b].mount] /\ l # NoListener
            THEN sandboxes'[b] = onMessage(sandboxes[b], posted[k][1])
            ELSE sandboxes'[b] = sandboxes[b]
      BY <2>1, <2>3
    <2> QED
      BY <1>2, <1>4, <1>6, <2>2, <2>4
  <1> QED
    BY <1>7, <1>8

LEMMA BlockMounts ==
  ASSUME RegistryIInv, NEW b \in Blocks, Remount(b)
  PROVE  /\ RegistryIInv' /\ UNCHANGED <<listeners, programs, posted, workers>>
         /\ \A c \in Blocks : IF c = b THEN ~sandboxes'[c].running ELSE sandboxes'[c] = sandboxes[c]
  <1>1. Fresh(started) \in Shown(b) /\ ~Fresh(started).running
    BY OneShown DEF RegistryIInv, SandboxesSound, Fresh
  <1>2. SandboxesSound' /\ \A c \in Blocks : sandboxes'[c] = IF c = b THEN Fresh(started) ELSE sandboxes[c]
    BY <1>1, BlockShows DEF Remount, RegistryIInv
  <1> QED
    BY <1>1, <1>2 DEF Remount, RegistryIInv, ListenersSound, ProgramsSound, PostedSound

LEMMA RegistrySteps == ASSUME BlocksNamed, RegistryIInv, [RunNext]_runVars PROVE RegistryIInv'
  <1>1. CASE UNCHANGED runVars
    BY <1>1 DEF RegistryIInv, runVars, SandboxesSound, ListenersSound, ProgramsSound, PostedSound
  <1>2. ASSUME NEW b \in Blocks, ProbeGo(b) \/ runCode(b) \/ Remount(b) PROVE RegistryIInv'
    BY <1>2, RunLeaves, BlockMounts
       DEF ProbeGo, RegistryIInv, SandboxesSound, ListenersSound, ProgramsSound, PostedSound
  <1>3. ASSUME NEW k \in Keys, Prints(k) \/ RunEnds(k) \/ onmessage(k) PROVE RegistryIInv'
    BY <1>3, ProgramPosts, MessageHeard
  <1> QED
    BY <1>1, <1>2, <1>3 DEF RunNext

\* Blocks of different languages never show each other's output, whatever aliases
\* they are written with (sandbox-registry.ts keeps one worker per language key).
THEOREM LanguagesStayApart == ASSUME BlocksNamed PROVE RunSpec => []LanguagesApart
  <1>1. RunInit => RegistryIInv
    BY RegistryStarts
  <1>2. RegistryIInv /\ [RunNext]_runVars => RegistryIInv'
    BY RegistrySteps
  <1>3. RegistryIInv => LanguagesApart
    BY DEF RegistryIInv, SandboxesSound, Shown, LinesOf, BlocksOf, TerminalOutput, LanguagesApart
  <1> QED
    BY <1>1, <1>2, <1>3, PTL DEF RunSpec

-----------------------------------------------------------------------------
(* A run that can be heard ends.                                           *)

\* A worker that does not listen, or is not made yet, has nothing to say; a block
\* that runs has made its language one.
Silent(k) == programs[k] = <<>> /\ posted[k] = <<>>
WorkersKnown ==
  /\ DOMAIN workers = Keys /\ \A k \in Keys : workers[k] \in {"none", "up", "dead"} /\ (workers[k] # "up" => Silent(k))
  /\ \A b \in Blocks : sandboxes[b].running => workers[Key(b)] # "none" /\ listeners[Key(b)] # NoListener
\* The block waits for the end of its run, and hears a worker that listens.
BlockWaits(b) == sandboxes[b].running /\ Heard(b) /\ workers[Key(b)] = "up"
WaitersReleased == \A b \in Blocks : BlockWaits(b) => EndComes(Key(b))
ReleaseIInv == RegistryIInv /\ WorkersKnown /\ WaitersReleased

LEMMA ReleasedMeans == ASSUME WorkersKnown, WaitersReleased PROVE RunIsReleased
  BY KeyOfBlock DEF WorkersKnown, WaitersReleased, RunIsReleased, BlockWaits, Silent

LEMMA RunIsHeard ==
  ASSUME BlocksNamed, ReleaseIInv, NEW b \in Blocks, runCode(b) PROVE WorkersKnown' /\ WaitersReleased'
  <1>1. PICK w \in getOrCreateWorker(Key(b)) :
          /\ workers' = [workers EXCEPT ![Key(b)] = w] /\ (w = "up" => programs'[Key(b)] # <<>>)
          /\ w # "up" => UNCHANGED programs
    BY RunLeaves DEF ReleaseIInv
  <1>2. Key(b) \in Keys /\ \A c \in Blocks : Key(c) \in Keys
    BY KeyOfBlock
  <1>3. w \in {"up", "dead"} /\ (w = "dead" => workers[Key(b)] # "up")
    BY <1>1, <1>2 DEF getOrCreateWorker, ReleaseIInv, WorkersKnown, runCode
  <1>4. \A k \in Keys : workers'[k] = IF k = Key(b) THEN w ELSE workers[k]
    BY <1>1, <1>2 DEF ReleaseIInv, WorkersKnown
  <1>5. /\ \A c \in Blocks : c # b => sandboxes'[c] = sandboxes[c]
        /\ \A j \in Keys : j # Key(b) => listeners'[j] = listeners[j] /\ programs'[j] = programs[j]
        /\ listeners'[Key(b)] # NoListener /\ UNCHANGED posted
    BY RunLeaves DEF ReleaseIInv
  <1>6. WorkersKnown'
    <2>1. \A k \in Keys : workers'[k] \in {"none", "up", "dead"} /\ (workers'[k] # "up" => Silent(k)')
      BY <1>1, <1>3, <1>4, <1>5 DEF ReleaseIInv, WorkersKnown, Silent
    <2>2. ASSUME NEW c \in Blocks, sandboxes'[c].running PROVE workers'[Key(c)] # "none" /\ listeners'[Key(c)] # NoListener
      BY <1>2, <1>3, <1>4, <1>5, <2>2 DEF ReleaseIInv, WorkersKnown
    <2>3. DOMAIN workers' = Keys
      BY <1>1 DEF ReleaseIInv, WorkersKnown
    <2> QED
      BY <2>1, <2>2, <2>3 DEF WorkersKnown
  <1>7. ASSUME NEW c \in Blocks, BlockWaits(c)' PROVE EndComes(Key(c))'
    <2>1. CASE Key(c) = Key(b)
      <3>1. w = "up"
        BY <1>2, <1>4, <1>7, <2>1 DEF BlockWaits
      <3> QED
        BY <1>1, <2>1, <3>1 DEF EndComes
    <2>2. CASE Key(c) # Key(b)
      <3>1. sandboxes'[c] = sandboxes[c] /\ listeners'[Key(c)] = listeners[Key(c)]
            /\ programs'[Key(c)] = programs[Key(c)] /\ posted' = posted /\ workers'[Key(c)] = workers[Key(c)]
        BY <1>2, <1>4, <1>5, <2>2
      <3>2. EndComes(Key(c))
        BY <1>7, <3>1 DEF BlockWaits, Heard, ReleaseIInv, WaitersReleased
      <3> QED
        BY <3>1, <3>2 DEF EndComes
    <2> QED
      BY <2>1, <2>2
  <1> QED
    BY <1>6, <1>7 DEF WaitersReleased

LEMMA ProgramSaysEnd ==
  ASSUME ReleaseIInv, NEW k \in Keys, Prints(k) \/ RunEnds(k) PROVE WorkersKnown' /\ WaitersReleased'
  <1>1. UNCHANGED <<sandboxes, listeners, workers>>
    BY ProgramPosts DEF ReleaseIInv
  <1>2. programs[k] # <<>>
    BY DEF Prints, RunEnds, Turn
  <1>3. \A j \in Keys : j # k => programs'[j] = programs[j] /\ posted'[j] = posted[j]
    BY ProgramPosts DEF ReleaseIInv
  <1>4. WorkersKnown'
    BY <1>1, <1>2, <1>3 DEF ReleaseIInv, WorkersKnown, Silent
  <1>5. ASSUME NEW c \in Blocks, BlockWaits(c)' PROVE EndComes(Key(c))'
    <2>1. CASE Key(c) = k
      BY <2>1, ProgramPosts DEF ReleaseIInv, EndComes
    <2>2. CASE Key(c) # k
      <3>1. programs'[Key(c)] = programs[Key(c)] /\ posted'[Key(c)] = posted[Key(c)]
        BY <1>3, <2>2, KeyOfBlock
      <3>2. EndComes(Key(c))
        BY <1>1, <1>5 DEF BlockWaits, Heard, ReleaseIInv, WaitersReleased
      <3> QED
        BY <3>1, <3>2 DEF EndComes
    <2> QED
      BY <2>1, <2>2
  <1> QED
    BY <1>4, <1>5 DEF WaitersReleased

\* The message that is taken off the way either ends the run it is heard in, or
\* was not the end.
LEMMA EndIsHeard ==
  ASSUME BlocksNamed, ReleaseIInv, NEW k \in Keys, onmessage(k) PROVE WorkersKnown' /\ WaitersReleased'
  <1>1. UNCHANGED <<listeners, programs, workers>>
    BY MessageHeard DEF ReleaseIInv
  <1>2. posted[k] \in Seq(MessagesOf(k)) /\ posted[k] # <<>>
    BY DEF onmessage, ReleaseIInv, RegistryIInv, PostedSound
  <1>3. posted[k][1] \in MessagesOf(k) /\ 1 \in DOMAIN posted[k]
    BY <1>2
  <1>4. ASSUME NEW c \in Blocks PROVE sandboxes'[c].mount = sandboxes[c].mount /\ (sandboxes'[c].running => sandboxes[c].running)
    <2> DEFINE msg == posted[k][1]
    <2>1. sandboxes'[c] = onMessage(sandboxes[c], msg) \/ sandboxes'[c] = sandboxes[c]
      BY MessageHeard DEF ReleaseIInv
    <2>2. sandboxes[c] \in Shown(c) /\ msg \in MessagesOf(k)
      BY <1>3 DEF ReleaseIInv, RegistryIInv, SandboxesSound
    <2> HIDE DEF msg
    <2> QED
      BY <2>1, <2>2 DEF onMessage, Shown, MessagesOf
  <1>5. WorkersKnown'
    <2>1. \A j \in Keys : j # k => posted'[j] = posted[j]
      BY MessageHeard DEF ReleaseIInv
    <2>2. workers[k] = "up"
      BY <1>2 DEF ReleaseIInv, WorkersKnown, Silent
    <2> QED
      BY <1>1, <1>4, <2>1, <2>2 DEF ReleaseIInv, WorkersKnown, Silent
  <1>6. ASSUME NEW c \in Blocks, BlockWaits(c)' PROVE EndComes(Key(c))'
    <2>1. BlockWaits(c) /\ sandboxes'[c].running
      BY <1>1, <1>4, <1>6 DEF BlockWaits, Heard
    <2>2. EndComes(Key(c))
      BY <2>1 DEF ReleaseIInv, WaitersReleased
    <2>3. CASE Key(c) # k
      <3>1. posted'[Key(c)] = posted[Key(c)]
        BY <2>3, KeyOfBlock, MessageHeard DEF ReleaseIInv
      <3> QED
        BY <1>1, <2>2, <3>1 DEF EndComes
    <2>4. CASE Key(c) = k /\ programs[k] # <<>>
      BY <1>1, <2>4 DEF EndComes
    <2>5. CASE Key(c) = k /\ programs[k] = <<>>
      <3> DEFINE msg == posted[k][1]
      <3>1. msg \in MessagesOf(k) /\ sandboxes[c] \in Shown(c)
        BY <1>3 DEF ReleaseIInv, RegistryIInv, SandboxesSound
      <3>2. PICK i \in DOMAIN posted[k] : posted[k][i].type \in {"done", "error"}
        BY <2>2, <2>5 DEF EndComes
      <3>3. listeners[k] = [block |-> c, mount |-> sandboxes[c].mount] /\ listeners[k] # NoListener
        BY <2>1, <2>5 DEF BlocksNamed, BlockWaits, Heard, NoListener
      <3>4. sandboxes'[c] = onMessage(sandboxes[c], msg)
        BY <3>3, MessageHeard DEF ReleaseIInv
      <3> HIDE DEF msg
      <3>5. msg.type \notin {"done", "error"}
        BY <2>1, <3>1, <3>4 DEF onMessage, Shown, MessagesOf
      <3>6. i # 1
        BY <3>2, <3>5 DEF msg
      <3>7. i - 1 \in DOMAIN posted'[k] /\ posted'[k][i - 1] = posted[k][i]
        BY <3>2, <3>6, MessageHeard DEF ReleaseIInv
      <3> QED
        BY <2>5, <3>2, <3>7 DEF EndComes
    <2> QED
      BY <2>3, <2>4, <2>5
  <1> QED
    BY <1>5, <1>6 DEF WaitersReleased

LEMMA MountWaitsForNothing ==
  ASSUME ReleaseIInv, NEW b \in Blocks, Remount(b) PROVE WorkersKnown' /\ WaitersReleased'
  BY BlockMounts DEF ReleaseIInv, WorkersKnown, Silent, WaitersReleased, BlockWaits, Heard, EndComes

LEMMA ReleaseSteps == ASSUME BlocksNamed, ReleaseIInv, [RunNext]_runVars PROVE ReleaseIInv'
  <1>1. RegistryIInv'
    BY RegistrySteps DEF ReleaseIInv
  <1>2. CASE UNCHANGED <<sandboxes, workers, listeners, programs, posted>>
    BY <1>1, <1>2 DEF ReleaseIInv, WorkersKnown, Silent, WaitersReleased, BlockWaits, Heard, EndComes
  <1>3. ASSUME NEW b \in Blocks, ProbeGo(b) PROVE ReleaseIInv'
    BY <1>2, <1>3 DEF ProbeGo
  <1>4. ASSUME NEW b \in Blocks, runCode(b) \/ Remount(b) PROVE WorkersKnown' /\ WaitersReleased'
    BY <1>4, RunIsHeard, MountWaitsForNothing
  <1>5. ASSUME NEW k \in Keys, Prints(k) \/ RunEnds(k) \/ onmessage(k) PROVE WorkersKnown' /\ WaitersReleased'
    BY <1>5, ProgramSaysEnd, EndIsHeard
  <1> QED
    BY <1>1, <1>2, <1>3, <1>4, <1>5 DEF RunNext, runVars, ReleaseIInv

\* A block that shows it runs, whose worker could load its runtime and whose
\* language has had no later run, always has an end to wait for: the answer is
\* neither lost with a worker nor handed to another block. Whatever else shows
\* that it runs waits for a worker without its runtime, or has lost its listener
\* to a later run (sandbox-registry.ts has no onerror and one listener a language).
THEOREM RunsAreReleased == ASSUME BlocksNamed PROVE RunSpec => []RunIsReleased
  <1>1. RunInit => ReleaseIInv
    <2> SUFFICES ASSUME RunInit PROVE ReleaseIInv
      OBVIOUS
    <2>1. RegistryIInv
      BY RegistryStarts
    <2>2. WorkersKnown /\ WaitersReleased
      BY DEF RunInit, Fresh, WorkersKnown, Silent, WaitersReleased, BlockWaits
    <2> QED
      BY <2>1, <2>2 DEF ReleaseIInv
  <1>2. ReleaseIInv /\ [RunNext]_runVars => ReleaseIInv'
    BY ReleaseSteps
  <1>3. ReleaseIInv => RunIsReleased
    BY ReleasedMeans DEF ReleaseIInv
  <1> QED
    BY <1>1, <1>2, <1>3, PTL DEF RunSpec
=============================================================================
