------------------------------- MODULE SharePage -------------------------------
(***************************************************************************)
(* The public page of a shared note (app/share/[token]): the gate with its *)
(* password and its retries (hooks/useSharePage.ts), the paged comments    *)
(* beside other visitors who comment (hooks/useShareComments.ts), and the  *)
(* replies of one comment (components/CommentItem.tsx).                    *)
(*                                                                         *)
(* Comments are numbered in the order in which the server stores them; it  *)
(* lists comments newest first and replies oldest first.                   *)
(***************************************************************************)
EXTENDS Integers, Sequences, FiniteSets, SequencesExt, Subsequences

CONSTANTS MaxComments,   \* bound: comments, and replies, that are ever stored
          CommentPage,   \* limit=10
          Protected      \* the share has a password

VARIABLES gate,      \* the states of useSharePage and the request of its effect
          comments,  \* the list with loadedCommentsCount, hasMore and total
          reading,   \* requests for comments: a first page and a next one
          posting,   \* the comment that is being posted, or none
          draft,     \* annotationContent: "empty", "typed" or "sending"
          posted,    \* comments on the server
          beside,    \* history: a list was read beside a post
          top        \* history: the newest comment of the last first page
shareVars == <<gate, comments, reading, posting, draft, posted, beside, top>>

VARIABLES replies,   \* the replies shown, replyCount and repliesExpanded
          replyReq, replyPost,   \* requests of the item: a page, a reply
          target,    \* replyingTo: "none", this "comment" or "another" one
          replyDraft,   \* inlineReplyContent is not empty
          replied    \* replies on the server
replyVars == <<replies, replyReq, replyPost, target, replyDraft, replied>>

(***************************************************************************)
(* The gate                                                                *)
(***************************************************************************)

GateStart == [loading |-> TRUE, error |-> FALSE, asks |-> FALSE, wrong |-> FALSE,
              open |-> FALSE, password |-> "", lock |-> FALSE, attempt |-> 1]
NoComments == [shown |-> <<>>, loaded |-> 0, more |-> TRUE, loading |-> FALSE,
               appending |-> FALSE, failed |-> FALSE]

\* What the page shows.
ShareView == CASE gate.loading -> "loading" [] gate.asks -> "password"
               [] gate.error \/ ~gate.open -> "unavailable" [] OTHER -> "note"

\* The request comes to an end: finally releases the lock.
Settled(g) == [g EXCEPT !.loading = FALSE, !.lock = FALSE]
FirstPage  == [append |-> FALSE, off |-> 0, phase |-> "wire", got |-> <<>>, total |-> 0]
Detail ==
  /\ gate.loading
  /\ Protected => gate.password = "right"
  /\ gate' = [Settled(gate) EXCEPT !.open = TRUE, !.asks = FALSE, !.wrong = FALSE]
  /\ comments' = [comments EXCEPT !.loading = TRUE, !.failed = FALSE]
  /\ reading' = reading \cup {FirstPage}      \* the effect on detail
  /\ UNCHANGED <<posting, draft, posted, beside, top>>
Gate(g) == /\ gate.loading
           /\ gate' = g
           /\ UNCHANGED <<comments, reading, posting, draft, posted, beside, top>>
PasswordRefused ==
  /\ Protected /\ gate.password # "right"
  /\ Gate([Settled(gate) EXCEPT !.asks = TRUE, !.wrong = gate.password # ""])
DetailFails == Gate([Settled(gate) EXCEPT !.error = TRUE])
\* "too many requests": two more attempts, after one and two seconds.
TooMany == IF gate.attempt < 3 THEN Gate([gate EXCEPT !.attempt = @ + 1]) ELSE DetailFails

\* The form of the password takes one submission at a time.
PasswordState == ShareView = "password" /\ ~gate.lock
UnavailableState == ShareView = "unavailable" /\ ~gate.lock
Again(g) == [g EXCEPT !.loading = TRUE, !.error = FALSE, !.lock = TRUE, !.attempt = 1]
submitPassword ==
  /\ PasswordState
  /\ \E p \in {"right", "wrong"} : gate' = [Again(gate) EXCEPT !.password = p, !.wrong = FALSE]
  /\ UNCHANGED <<comments, reading, posting, draft, posted, beside, top>>
retryShare ==
  /\ UnavailableState
  /\ gate' = Again(gate)
  /\ UNCHANGED <<comments, reading, posting, draft, posted, beside, top>>

(***************************************************************************)
(* Comments                                                                *)
(***************************************************************************)

Newest(n) == [i \in 1..n |-> n + 1 - i]
PageFrom(s, off) == SubSeq(s, off + 1, IF off + CommentPage > Len(s) THEN Len(s) ELSE off + CommentPage)
\* Mutant: a page is appended as it comes.
appended(a, b) == a \o b
merged(a, b) == WithNew(a, b)

fetchComments(append) ==
  /\ comments' = IF append THEN [comments EXCEPT !.appending = TRUE, !.failed = FALSE]
                 ELSE [comments EXCEPT !.loading = TRUE, !.failed = FALSE]
  /\ reading' = reading \cup {[FirstPage EXCEPT !.append = append,
                                 !.off = IF append THEN comments.loaded ELSE 0]}
  /\ UNCHANGED <<gate, posting, draft, posted, beside, top>>
\* The buttons below the note.
CommentsSection ==
  IF ShareView # "note" THEN {}
  ELSE (IF draft = "typed" THEN {"Post comment"} ELSE {})
       \cup (IF comments.failed THEN {"Retry"} ELSE {})
       \cup (IF comments.more /\ comments.shown # <<>> THEN {"Load more comments"} ELSE {})
handleLoadMoreComments ==
  /\ "Load more comments" \in CommentsSection
  /\ ~comments.loading /\ ~comments.appending
  /\ fetchComments(TRUE)
retryComments == "Retry" \in CommentsSection /\ fetchComments(FALSE)

ReadComments ==
  \E r \in reading :
    /\ r.phase = "wire"
    /\ reading' = (reading \ {r}) \cup
         {[r EXCEPT !.phase = "read", !.got = PageFrom(Newest(posted), r.off), !.total = posted]}
    /\ beside' = (beside \/ posting # {})
    /\ UNCHANGED <<gate, comments, posting, draft, posted, top>>
\* applyFetchResult counts from what was loaded when the request was made.
applyFetchResult(c, r) ==
  LET n == IF r.append THEN r.off + Len(r.got) ELSE Len(r.got)
  IN  [c EXCEPT !.shown = IF r.append THEN merged(@, r.got) ELSE r.got,
                !.loaded = n, !.more = n < r.total]
Ended(c, r) == IF r.append THEN [c EXCEPT !.appending = FALSE] ELSE [c EXCEPT !.loading = FALSE]
CommentsAnswer ==
  \E r \in reading :
    /\ r.phase = "read"
    /\ comments' = Ended(applyFetchResult(comments, r), r)
    /\ reading' = reading \ {r}
    /\ top' = IF r.append THEN top ELSE r.total
    /\ UNCHANGED <<gate, posting, draft, posted, beside>>
CommentsFail ==
  \E r \in reading :
    /\ comments' = Ended([comments EXCEPT !.failed = TRUE], r)
    /\ reading' = reading \ {r}
    /\ UNCHANGED <<gate, posting, draft, posted, beside, top>>

OthersComment ==
  /\ posted < MaxComments
  /\ posted' = posted + 1
  /\ UNCHANGED <<gate, comments, reading, posting, draft, beside, top>>
TypeComment ==
  /\ ShareView = "note" /\ draft = "empty" /\ draft' = "typed"
  /\ UNCHANGED <<gate, comments, reading, posting, posted, beside, top>>
handleSubmitComment ==
  /\ "Post comment" \in CommentsSection /\ posting = {}
  /\ posting' = {[phase |-> "wire", id |-> 0]}
  /\ draft' = "sending"
  /\ beside' = (beside \/ \E r \in reading : r.phase = "read")
  /\ UNCHANGED <<gate, comments, reading, posted, top>>
PostStored ==
  /\ \E p \in posting : p.phase = "wire"
  /\ posted < MaxComments
  /\ posted' = posted + 1
  /\ posting' = {[phase |-> "stored", id |-> posted + 1]}
  /\ UNCHANGED <<gate, comments, reading, draft, beside, top>>
PostAnswer ==
  \E p \in posting :
    /\ p.phase = "stored"
    /\ comments' = [comments EXCEPT !.shown = <<p.id>> \o @, !.loaded = @ + 1]
    /\ draft' = "empty" /\ posting' = {}
    /\ UNCHANGED <<gate, reading, posted, beside, top>>
PostFails ==
  \E p \in posting :
    /\ p.phase = "wire"
    /\ draft' = "typed" /\ posting' = {}
    /\ UNCHANGED <<gate, comments, reading, posted, beside, top>>

ShareInit ==
  /\ gate = GateStart /\ comments = NoComments /\ reading = {} /\ posting = {}
  /\ draft = "empty" /\ posted \in 0..MaxComments /\ beside = FALSE
  /\ top = 0
ShareNext ==
  \/ Detail \/ PasswordRefused \/ DetailFails \/ TooMany \/ submitPassword \/ retryShare
  \/ handleLoadMoreComments \/ retryComments \/ ReadComments \/ CommentsAnswer \/ CommentsFail
  \/ OthersComment \/ TypeComment \/ handleSubmitComment \/ PostStored \/ PostAnswer \/ PostFails

(***************************************************************************)
(* The replies of a comment                                                *)
(***************************************************************************)

Oldest(n) == [i \in 1..n |-> i]
\* The buttons of a comment that ask for its replies.
CommentItemView ==
  IF ~replies.expanded THEN IF replies.count > 0 THEN {"View"} ELSE {}
  ELSE (IF replies.failed THEN {"Retry"} ELSE {})
       \cup (IF replies.count > Len(replies.shown) THEN {"Load more replies"} ELSE {})
fetchReplies ==
  /\ CommentItemView # {} /\ replyReq = {}
  /\ replyReq' = {[off |-> Len(replies.shown), phase |-> "wire", got |-> <<>>]}
  /\ replies' = [replies EXCEPT !.failed = FALSE]
  /\ UNCHANGED <<replyPost, target, replyDraft, replied>>
ReadReplies ==
  \E r \in replyReq :
    /\ r.phase = "wire"
    /\ replyReq' = {[r EXCEPT !.phase = "read", !.got = PageFrom(Oldest(replied), r.off)]}
    /\ UNCHANGED <<replies, replyPost, target, replyDraft, replied>>
RepliesAnswer ==
  \E r \in replyReq :
    /\ \/ r.phase = "read" /\ replies' = [replies EXCEPT !.shown = merged(@, r.got), !.expanded = TRUE]
       \/ replies' = [replies EXCEPT !.failed = TRUE]
    /\ replyReq' = {}
    /\ UNCHANGED <<replyPost, target, replyDraft, replied>>

\* Reply, here or at another comment, clears what was typed.
toggleReply(t) ==
  /\ target' = IF target = t THEN "none" ELSE t
  /\ replyDraft' = FALSE
  /\ UNCHANGED <<replies, replyReq, replyPost, replied>>
\* The form below the target; its Cancel keeps what was typed.
ReplyForm == IF target # "comment" THEN {}
             ELSE (IF replyDraft THEN {"Post reply"} ELSE {})
                  \cup (IF replyPost = {} THEN {"Cancel"} ELSE {})
cancelReply ==
  /\ "Cancel" \in ReplyForm
  /\ target' = "none"
  /\ UNCHANGED <<replies, replyReq, replyPost, replyDraft, replied>>
TypeReply ==
  /\ target # "none" /\ replyDraft' = TRUE
  /\ UNCHANGED <<replies, replyReq, replyPost, target, replied>>
submitReply ==
  /\ "Post reply" \in ReplyForm /\ replyPost = {}
  /\ replyPost' = {[phase |-> "wire", id |-> 0]}
  /\ UNCHANGED <<replies, replyReq, target, replyDraft, replied>>
ReplyStored ==
  /\ \E p \in replyPost : p.phase = "wire"
  /\ replied < MaxComments
  /\ replied' = replied + 1
  /\ replyPost' = {[phase |-> "stored", id |-> replied + 1]}
  /\ UNCHANGED <<replies, replyReq, target, replyDraft>>
shownWith(s, id) == merged(s, <<id>>)
ReplyAnswer ==
  \E p \in replyPost :
    /\ \/ /\ p.phase = "stored"
          /\ replies' = [replies EXCEPT !.shown = shownWith(@, p.id), !.count = @ + 1,
                                        !.expanded = TRUE]
          /\ replyDraft' = FALSE /\ target' = "none"
       \/ p.phase = "wire" /\ UNCHANGED <<replies, replyDraft, target>>
    /\ replyPost' = {}
    /\ UNCHANGED <<replyReq, replied>>
OthersReply ==
  /\ replied < MaxComments /\ replied' = replied + 1
  /\ UNCHANGED <<replies, replyReq, replyPost, target, replyDraft>>

ReplyInit ==
  /\ replied \in 0..MaxComments
  /\ replies = [shown |-> <<>>, count |-> replied, expanded |-> FALSE, failed |-> FALSE]
  /\ replyReq = {} /\ replyPost = {} /\ target = "none" /\ replyDraft = FALSE
ReplyNext == \/ fetchReplies \/ ReadReplies \/ RepliesAnswer
             \/ toggleReply("comment") \/ toggleReply("another") \/ cancelReply \/ TypeReply
             \/ submitReply \/ ReplyStored \/ ReplyAnswer \/ OthersReply

(***************************************************************************)
(* Properties                                                              *)
(***************************************************************************)

ShareTypeOK ==
  /\ gate.attempt \in 1..3 /\ gate.password \in {"", "right", "wrong"}
  /\ ToSet(comments.shown) \subseteq 1..MaxComments /\ comments.loaded \in Nat
  /\ draft \in {"empty", "typed", "sending"} /\ posted \in 0..MaxComments
  /\ ToSet(replies.shown) \subseteq 1..MaxComments /\ target \in {"none", "comment", "another"}

\* Nothing hangs: a page that loads, or that refuses a second submission, has
\* its request under way, so retry and the password form always work again.
ShareNeverStuck ==
  /\ gate.lock => gate.loading
  /\ comments.loading => \E r \in reading : ~r.append
  /\ comments.appending => \E r \in reading : r.append
  /\ draft = "sending" => posting # {}

\* Paging by offset loses no comment though others comment in between: when no
\* more is offered, every comment that stood when the first page was read is
\* shown, and none twice, unless a list was read while the visitor was posting.
CommentsComplete ==
  ~beside => /\ IsInjective(comments.shown)
             /\ ~comments.more => 1..top \subseteq ToSet(comments.shown)

\* A reply is shown once, whether its own answer or a page brings it first.
RepliesShownOnce == IsInjective(replies.shown)
==============================================================================
