---------------------------- MODULE SearchService ----------------------------
(***************************************************************************)
(* What semantic search promises its users, with no generations, jobs,     *)
(* workers or leases: a document is found by its present content or not    *)
(* yet at all, and a switch of the index is invisible except that it leaves *)
(* every document findable.                                                *)
(***************************************************************************)
CONSTANTS Docs, Hashes, NoHash

VARIABLES
  content,  \* the content of each document, NoHash when there is none
  served,   \* the content search finds the document by, NoHash when it does not
  online    \* an index has been activated

svars == <<content, served, online>>

Init ==
  /\ content \in [Docs -> Hashes \union {NoHash}]
  /\ served = [d \in Docs |-> NoHash]
  /\ online = FALSE

\* A new document or an accepted save. Saving the same content costs nothing.
Write(d, h) ==
  /\ content' = [content EXCEPT ![d] = h]
  /\ served' = IF content[d] = h THEN served ELSE [served EXCEPT ![d] = NoHash]
  /\ UNCHANGED online

Remove(d) ==
  /\ content[d] # NoHash
  /\ content' = [content EXCEPT ![d] = NoHash]
  /\ served' = [served EXCEPT ![d] = NoHash]
  /\ UNCHANGED online

\* The vectors of the present content are in.
Publish(d) ==
  /\ online /\ content[d] # NoHash
  /\ served' = [served EXCEPT ![d] = content[d]]
  /\ UNCHANGED <<content, online>>

\* Another index takes over, complete from its first query on.
Switch ==
  /\ online' = TRUE
  /\ served' = content
  /\ UNCHANGED content

Next ==
  \/ \E d \in Docs :
       \/ \E h \in Hashes : Write(d, h)
       \/ Remove(d)
       \/ Publish(d)
  \/ Switch

Spec == Init /\ [][Next]_svars
=============================================================================
