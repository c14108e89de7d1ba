----------------------------- MODULE ShareSettings -----------------------------
(***************************************************************************)
(* The share tab of a document (docs/[id]/components/DetailsShareContent,  *)
(* DetailsPanelContent, hooks/useShareLink.ts) and the four calls that the *)
(* server answers it with (service/document_share_service.go).  A share is *)
(* known by its number, its token.  The permission and the download switch *)
(* go the way of the expiry date and are left out.  No control waits for   *)
(* an answer: leaving the password field for a click elsewhere starts two  *)
(* calls.                                                                  *)
(***************************************************************************)
EXTENDS Integers, Sequences, FiniteSets

CONSTANTS MaxShares,    \* bound: shares that are created
          MaxCalls      \* bound: calls of the page that are under way at once

VARIABLES shares,   \* per share: active, expires and whether a password hash is set
          calls,    \* per place: the call under way and how far the server is with it
          docLock,  \* call that holds the row lock of the document, 0 for none
          activeShare, \* the share as the page has it: its number and its settings
          form,     \* the fields of the settings
          loaded,   \* whether the share tab was opened
          last,     \* history: what the last answer was: good, an error, or overtaken, when
                    \* the server had taken another call between giving it and its arrival
          secured,  \* history: the owner was told that the password is set, and the server has
                    \* since neither cleared it nor made or revoked a share
          takenBack \* history: an update wrote back that there is no password, as it had read
                    \* before another one set it
shareTabVars == <<shares, calls, docLock, activeShare, form, loaded, last, secured, takenBack>>

NoShare == [token |-> 0, expires |-> 0]
ClosedForm == [expires |-> 0, password |-> FALSE]
\* The effect on activeShare; the response never has the password.
FormOf(share) == [expires |-> share.expires, password |-> FALSE]
\* Mutant: the form keeps what was chosen, whatever the answer says.
ShowBesideForm(share) == activeShare' = share /\ UNCHANGED form
Show(share) == activeShare' = share /\ form' = IF share = NoShare /\ activeShare = NoShare THEN form ELSE FormOf(share)

Active == {t \in DOMAIN shares : shares[t].active}
Hashed == \A t \in Active : shares[t].hash
\* toShareResponse of the active share.
Response == IF Active = {} THEN NoShare
            ELSE LET t == CHOOSE a \in Active : TRUE IN
                 [token |-> t, expires |-> shares[t].expires]

\* late: the server took another call since it answered this one; stands: the password it
\* set was neither cleared nor left behind with a revoked share.
NoPayload == [expires |-> 0, password |-> "kept"]
CallOf(kind, payload, at) == [kind |-> kind, payload |-> payload, at |-> at, hash |-> FALSE,
                              answer |-> NoShare, ok |-> TRUE, late |-> FALSE, stands |-> FALSE]
NoCall == CallOf("load", NoPayload, "answered")
Waiting == {c \in DOMAIN calls : calls[c].at # "answered"}

(***************************************************************************)
(* The page                                                                *)
(***************************************************************************)

Call(kind, payload) ==
  \E c \in DOMAIN calls \ Waiting :
    /\ \A d \in DOMAIN calls \ Waiting : c <= d
    /\ calls' = [calls EXCEPT ![c] = CallOf(kind, payload, "sent")]

\* What the tab offers.
ShareFields == {"Expiration date", "Password", "Clear"}
DetailsShareContent == IF activeShare.token = 0 THEN {"Generate share link"} ELSE {"Revoke share link"} \cup ShareFields

\* DetailsPanelContent: the share tab is opened, for the first time or after the history
\* tab, which takes its place in loadedTabRef.
loadShare ==
  /\ loaded' = TRUE /\ Call("load", NoPayload)
  /\ UNCHANGED <<shares, docLock, activeShare, form, last, secured, takenBack>>
handleShare ==
  /\ loaded /\ "Generate share link" \in DetailsShareContent /\ Call("create", NoPayload)
  /\ UNCHANGED <<shares, docLock, activeShare, form, loaded, last, secured, takenBack>>
handleRevokeShare ==
  /\ "Revoke share link" \in DetailsShareContent /\ Call("revoke", NoPayload)
  /\ UNCHANGED <<shares, docLock, activeShare, form, loaded, last, secured, takenBack>>

\* save: the fields of the render, one of them overridden, and what becomes of the password.
save(expires, password) ==
  /\ activeShare.token # 0 /\ Call("update", [expires |-> expires, password |-> password])
  /\ UNCHANGED <<shares, docLock, activeShare, loaded, last, secured, takenBack>>
changeExpiresAt == form' = [form EXCEPT !.expires = 1 - @] /\ save(1 - form.expires, "kept")
setPasswordInput ==
  /\ "Password" \in DetailsShareContent /\ ~form.password /\ form' = [form EXCEPT !.password = TRUE]
  /\ UNCHANGED <<shares, calls, docLock, activeShare, loaded, last, secured, takenBack>>
\* The field loses the focus.
savePassword == form.password /\ save(form.expires, "set") /\ UNCHANGED form
clearPassword == form' = [form EXCEPT !.password = FALSE] /\ save(form.expires, "cleared")

\* A good answer: activeShare becomes what it says.
Answer(c) ==
  LET call == calls[c] IN
  /\ call.at = "done" /\ call.ok /\ calls' = [calls EXCEPT ![c] = NoCall]
  /\ Show(IF call.kind = "revoke" THEN NoShare ELSE call.answer)
  /\ last' = IF call.late THEN "overtaken" ELSE "good"
  /\ secured' = (secured \/ call.stands)
  /\ UNCHANGED <<shares, docLock, loaded, takenBack>>
\* An error, of the server or on the way, whatever the server has done by then: a failed
\* load shows no share, the other calls leave the page.
AnswerFails(c) ==
  LET call == calls[c] IN
  /\ c \in Waiting /\ calls' = [calls EXCEPT ![c] = NoCall] /\ docLock' = IF docLock = c THEN 0 ELSE docLock
  /\ IF call.kind = "load" THEN Show(NoShare)
     ELSE UNCHANGED activeShare /\ form' = [form EXCEPT !.password = @ /\ call.payload.password # "cleared"]
  /\ last' = "error" /\ UNCHANGED <<shares, loaded, secured, takenBack>>

(***************************************************************************)
(* The server: every action is a statement or a transaction                *)
(***************************************************************************)

At(c, kind, step) == calls[c].kind = kind /\ calls[c].at = step
Goes(c, step) == calls' = [calls EXCEPT ![c].at = step]
Done(c, ok, answer) == calls' = [calls EXCEPT ![c].at = "done", ![c].ok = ok, ![c].answer = answer]
Page == <<activeShare, form, loaded, last>>

GetActiveShare(c) == /\ At(c, "load", "sent") /\ Done(c, TRUE, Response)
                     /\ UNCHANGED <<shares, docLock, secured, takenBack, Page>>
\* The shares change: the answers given before are late, and without the password (kept
\* FALSE) none stands.
Takes(c, call, kept) ==
  calls' = [d \in DOMAIN calls |-> IF d = c THEN call
                                  ELSE [calls[d] EXCEPT !.late = @ \/ calls[d].at = "done", !.stands = @ /\ kept]]
Over(c, answer) == [calls[c] EXCEPT !.at = "done", !.answer = answer]

\* CreateShare: the document is locked until the transaction commits.
CreateShareLocks(c) ==
  /\ At(c, "create", "sent") /\ docLock = 0 /\ Len(shares) < MaxShares
  /\ docLock' = c /\ Goes(c, "locked") /\ UNCHANGED <<shares, secured, takenBack, Page>>
\* What a revoked share was set to is read by nobody and left out.
RevokedShare == [active |-> FALSE, expires |-> 0, hash |-> FALSE]
Revoked == [t \in DOMAIN shares |-> RevokedShare]
CreateShareCommits(c) ==
  /\ At(c, "create", "locked") /\ docLock' = 0
  /\ shares' = Append(Revoked, [active |-> TRUE, expires |-> 0, hash |-> FALSE])
  /\ Takes(c, Over(c, [token |-> Len(shares) + 1, expires |-> 0]), FALSE)
  /\ secured' = FALSE /\ takenBack' = FALSE /\ UNCHANGED Page
RevokeShare(c) ==
  /\ At(c, "revoke", "sent") /\ shares' = Revoked /\ Takes(c, Over(c, NoShare), FALSE)
  /\ secured' = FALSE /\ takenBack' = FALSE /\ UNCHANGED <<docLock, Page>>
\* UpdateShareConfig reads the share, computes the hash, updates and reads again, each in
\* a statement of its own; without an active share the first two fail.
UpdateReads(c) ==
  /\ At(c, "update", "sent")
  /\ IF Active = {} THEN Done(c, FALSE, NoShare)
     ELSE LET t == CHOOSE a \in Active : TRUE IN
          calls' = [calls EXCEPT ![c].at = "read",
                                 ![c].hash = CASE calls[c].payload.password = "set" -> TRUE
                                               [] calls[c].payload.password = "cleared" -> FALSE
                                               [] OTHER -> shares[t].hash]
  /\ UNCHANGED <<shares, docLock, secured, takenBack, Page>>
Updated(c) ==
  [t \in DOMAIN shares |->
     IF t \notin Active THEN shares[t]
     ELSE [shares[t] EXCEPT !.expires = calls[c].payload.expires, !.hash = calls[c].hash]]
UpdateWrites(c) ==
  LET password == calls[c].payload.password IN
  /\ At(c, "update", "read") /\ Active # {} /\ shares' = Updated(c)
  /\ Takes(c, [calls[c] EXCEPT !.at = "written", !.stands = (password = "set")], password # "cleared")
  /\ secured' = (secured /\ password # "cleared")
  /\ takenBack' = (password = "kept" /\ ~calls[c].hash /\ (takenBack \/ Hashed))
  /\ UNCHANGED <<docLock, Page>>
UpdateMisses(c) ==
  /\ At(c, "update", "read") /\ Active = {} /\ Done(c, FALSE, NoShare)
  /\ UNCHANGED <<shares, docLock, secured, takenBack, Page>>
UpdateReadsAgain(c) ==
  /\ At(c, "update", "written") /\ Done(c, TRUE, Response)
  /\ UNCHANGED <<shares, docLock, secured, takenBack, Page>>

ShareTabInit ==
  /\ shares \in {<<>>, <<[active |-> TRUE, expires |-> 0, hash |-> FALSE]>>}
  /\ calls = [c \in 1..MaxCalls |-> NoCall] /\ docLock = 0 /\ activeShare = NoShare /\ form = ClosedForm
  /\ loaded = FALSE /\ last = "good" /\ secured = FALSE /\ takenBack = FALSE
ShareTabNext ==
  \/ loadShare \/ handleShare \/ handleRevokeShare \/ changeExpiresAt
  \/ setPasswordInput \/ savePassword \/ clearPassword
  \/ \E c \in DOMAIN calls : \/ Answer(c) \/ AnswerFails(c) \/ GetActiveShare(c) \/ CreateShareLocks(c)
                             \/ CreateShareCommits(c) \/ RevokeShare(c) \/ UpdateReads(c)
                             \/ UpdateWrites(c) \/ UpdateMisses(c) \/ UpdateReadsAgain(c)

(***************************************************************************)
(* Properties                                                              *)
(***************************************************************************)

ShareTabTypeOK ==
  /\ activeShare.token \in 0..Len(shares) /\ docLock \in 0..MaxCalls /\ {loaded, secured, takenBack} \subseteq BOOLEAN
  /\ form.expires \in 0..1 /\ last \in {"good", "error", "overtaken"}
\* When every call was answered, the page shows the share that visitors can open, and its
\* form the settings they meet, however the calls met at the server.  Two things part them
\* until the next good answer: the last answer was an error, or it came after the server
\* had taken another call.
SettingsShowShare ==
  loaded /\ Waiting = {} /\ last = "good"
    => activeShare = Response /\ form.expires = activeShare.expires
\* A share whose owner was told that its password is set asks for it, unless another update
\* of the owner's had read the share before and wrote back what it read.
PasswordHolds == secured /\ ~takenBack => Hashed
\* Without the exception, which UpdateShareConfig does not keep: the field that loses the
\* focus to a click on another control starts two updates (docs/011-public-sharing-and-
\* comments.md:91 has the password enforced by the server).
PasswordIsEnforced == secured => Hashed
================================================================================
