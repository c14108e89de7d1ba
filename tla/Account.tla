-------------------------------- MODULE Account --------------------------------
(***************************************************************************)
(* Accounts, from the browser to the tables: registration with a mailed    *)
(* code (app/register, AuthService.Register, EmailVerificationService), the *)
(* session the tabs share in localStorage (app/login, app/oauth/callback,  *)
(* lib/api.ts, AuthenticatedBoundary; OAuthService), and the settings page *)
(* with the ways to sign in (app/settings, OAuthService.Unbind).           *)
(***************************************************************************)
EXTENDS Integers, Sequences, FiniteSets

CONSTANTS Clients,       \* tabs or browsers
          MaxCodes,      \* bound: codes mailed
          Owners,        \* accounts somebody signs in to
          MaxTokens,     \* bound: tokens signed
          MaxExchanges,  \* exchange codes a provider returns with (a bound)
          Providers      \* enabled providers

\* What the proofs ask of them.
AccountBounds ==
  /\ IsFiniteSet(Providers)
  /\ MaxCodes \in Nat /\ MaxTokens \in Nat /\ MaxExchanges \in Nat

(***************************************************************************)
(* Registration of one e-mail address                                      *)
(***************************************************************************)

VARIABLES mails,   \* email_verification_codes of the address, by ctime
          user,    \* the users row exists
          signup   \* RegisterPage of each client, and its two requests
registerVars == <<mails, user, signup>>

\* age: in its cool-down (60 s), valid (10 min), expired.
Mail == [status |-> "pending", used |-> FALSE, age |-> 0]
\* enabled: what the properties say.  typed: the code submitted, 0 a wrong one.
NewSignup == [enabled |-> "loading", typed |-> 0, submit |-> "none", valid |-> 0, send |-> "none",
              mail |-> 0, cooldown |-> FALSE, done |-> FALSE]
RegisterView(p) == CASE p.enabled = "loading" -> "loading" [] p.enabled = "off" -> "unavailable"
                     [] OTHER -> "form"
\* What the form of the page offers: each button is disabled by its own lock.
RegisterForm(p) ==
  IF RegisterView(p) # "form" \/ p.done THEN {}
  ELSE (IF p.send = "none" /\ ~p.cooldown THEN {"send code"} ELSE {})
       \cup (IF p.submit = "none" THEN {"create account"} ELSE {})
SentMails == {i \in DOMAIN mails : mails[i].status = "sent"}
latestByEmail == IF SentMails = {} THEN 0 ELSE CHOOSE i \in SentMails : \A j \in SentMails : j <= i
SetSignup(c, p) == signup' = [signup EXCEPT ![c] = p]

\* A request for the properties that fails reads as a closed registration.
RegisterProperties(c) ==
  /\ signup[c].enabled = "loading" /\ \E e \in {"on", "off"} : SetSignup(c, [signup[c] EXCEPT !.enabled = e])
  /\ UNCHANGED <<mails, user>>
handleSendCode(c) ==
  /\ "send code" \in RegisterForm(signup[c])
  /\ SetSignup(c, [signup[c] EXCEPT !.send = "sent"]) /\ UNCHANGED <<mails, user>>
\* SendRegisterCode: the address is free and no code was sent lately ...
ensureCooldown(c) ==
  /\ signup[c].send = "sent"
  /\ LET wait == latestByEmail # 0 /\ mails[latestByEmail].age = 0
     IN  SetSignup(c, [signup[c] EXCEPT !.send = IF user \/ wait THEN "denied" ELSE "passed"])
  /\ UNCHANGED <<mails, user>>
\* ... the code is stored as pending ...
CreateCode(c) ==
  /\ signup[c].send = "passed" /\ Len(mails) < MaxCodes /\ mails' = Append(mails, Mail)
  /\ SetSignup(c, [signup[c] EXCEPT !.send = "mailing", !.mail = Len(mails) + 1]) /\ UNCHANGED user
\* ... and is valid only once the mail is away.
MarkStatus(c) ==
  /\ signup[c].send = "mailing"
  /\ \E s \in {"sent", "failed"} :
       /\ mails' = [mails EXCEPT ![signup[c].mail].status = s]
       /\ SetSignup(c, [signup[c] EXCEPT !.mail = 0,
                                         !.send = IF s = "sent" THEN "done" ELSE "denied"])
  /\ UNCHANGED user
SendCodeAnswer(c) ==
  /\ signup[c].send \in {"sent", "done", "denied"}
  /\ \E lost \in {signup[c].send = "sent", TRUE} :
       LET ok == signup[c].send = "done" /\ ~lost
       IN  SetSignup(c, [signup[c] EXCEPT !.send = "none", !.cooldown = ok \/ @])
  /\ UNCHANGED <<mails, user>>
CooldownEnds(c) == /\ signup[c].cooldown /\ SetSignup(c, [signup[c] EXCEPT !.cooldown = FALSE])
                   /\ UNCHANGED <<mails, user>>

submitRegister(c) ==
  /\ "create account" \in RegisterForm(signup[c])
  /\ \E i \in 0..Len(mails) : SetSignup(c, [signup[c] EXCEPT !.submit = "sent", !.typed = i])
  /\ UNCHANGED <<mails, user>>
\* Register: the latest code that was sent is validated, before bcrypt ...
ValidateRegisterCode(c) ==
  /\ signup[c].submit = "sent"
  /\ LET i == latestByEmail
         ok == i # 0 /\ signup[c].typed = i /\ ~mails[i].used /\ mails[i].age < 2
     IN  SetSignup(c, [signup[c] EXCEPT !.submit = IF ok THEN "valid" ELSE "denied",
                                         !.typed = 0, !.valid = IF ok THEN i ELSE 0])
  /\ UNCHANGED <<mails, user>>
\* ... and consumed in the transaction that creates the user.
ConsumeIfUnused(m) == m.status = "sent" /\ ~m.used /\ m.age < 2
\* Mutant: the code is consumed before the transaction of the user row.
RegisterWithoutTransaction(c) ==
  /\ signup[c].submit = "valid"
  /\ LET ok == ~user /\ ConsumeIfUnused(mails[signup[c].valid])
     IN  \E created \in BOOLEAN :
           /\ mails' = IF ok THEN [mails EXCEPT ![signup[c].valid].used = TRUE] ELSE mails
           /\ user' = (user \/ (ok /\ created))
           /\ SetSignup(c, [signup[c] EXCEPT !.submit = IF ok /\ created THEN "done" ELSE "denied", !.valid = 0])
RegisterTransaction(c) ==
  /\ signup[c].submit = "valid"
  /\ LET ok == ~user /\ ConsumeIfUnused(mails[signup[c].valid])
     IN  /\ \/ ok /\ mails' = [mails EXCEPT ![signup[c].valid].used = TRUE] /\ user' = TRUE
               /\ SetSignup(c, [signup[c] EXCEPT !.submit = "done", !.valid = 0])
            \/ SetSignup(c, [signup[c] EXCEPT !.submit = "denied", !.valid = 0]) /\ UNCHANGED <<mails, user>>
RegisterAnswer(c) ==
  /\ signup[c].submit \in {"sent", "done", "denied"}
  /\ \E lost \in {signup[c].submit = "sent", TRUE} :
       LET ok == signup[c].submit = "done" /\ ~lost
       IN  SetSignup(c, [signup[c] EXCEPT !.submit = "none", !.typed = 0, !.done = ok])
  /\ UNCHANGED <<mails, user>>
\* Time passes for a code, for older ones at least as fast.
CodeAges ==
  \E i \in DOMAIN mails :
    /\ mails[i].age < 2 /\ \A j \in 1..(i-1) : mails[j].age > mails[i].age \/ mails[j].age = 2
    /\ mails' = [mails EXCEPT ![i].age = @ + 1] /\ UNCHANGED <<user, signup>>

RegisterInit == mails = <<>> /\ user = FALSE /\ signup = [c \in Clients |-> NewSignup]
RegisterNext ==
  \/ CodeAges
  \/ \E c \in Clients :
       \/ RegisterProperties(c) \/ handleSendCode(c) \/ ensureCooldown(c) \/ CreateCode(c)
       \/ MarkStatus(c) \/ SendCodeAnswer(c) \/ CooldownEnds(c) \/ submitRegister(c)
       \/ ValidateRegisterCode(c) \/ RegisterTransaction(c) \/ RegisterAnswer(c)
RegisterSpec == RegisterInit /\ [][RegisterNext]_registerVars

(***************************************************************************)
(* The session of the browser                                              *)
(***************************************************************************)

VARIABLES stored,    \* localStorage: mnote_token (0: none) and mnote_email
          tokens,    \* tokens signed: whose, from which exchange code, expired or not
          exchanges, \* oauth_one_time_tokens of kind exchange: whose, consumed or not
          tabs       \* the tabs: page, requests and what is shown
sessionVars == <<stored, tokens, exchanges, tabs>>

NoSession == [token |-> 0, email |-> "none"]
AtLogin == [page |-> "login", login |-> "none", as |-> "none", oauth |-> FALSE, code |-> 0,
            call |-> 0, error |-> FALSE]
SetTab(t, s) == tabs' = [tabs EXCEPT ![t] = s]
Signed(o, code) == Append(tokens, [owner |-> o, code |-> code, live |-> TRUE])
OnPage(t, page) == tabs[t].page = page

\* What the login page offers: its form and the buttons of the providers have a
\* lock each, the two ways to sign in do not exclude each other.
LoginForm(s) == IF s.page = "login" /\ s.login = "none" THEN {"sign in"} ELSE {}
OAuthButtons(s) == IF s.page = "login" /\ ~s.oauth THEN {"continue with provider"} ELSE {}
handleLogin(t) ==
  /\ "sign in" \in LoginForm(tabs[t])
  /\ \E o \in Owners : SetTab(t, [tabs[t] EXCEPT !.login = "sent", !.as = o, !.error = FALSE])
  /\ UNCHANGED <<stored, tokens, exchanges>>
\* Mutant: the e-mail of the session before stays.
EnterKeepingEmail(t, n) == /\ stored' = [token |-> n, email |-> IF stored.email = "none" THEN tokens'[n].owner
                                                              ELSE stored.email]
                           /\ SetTab(t, [AtLogin EXCEPT !.page = "app", !.oauth = tabs[t].oauth])
\* setAuthToken, setAuthEmail, then the page asked for.
EnterAs(t, n) == /\ stored' = [token |-> n, email |-> tokens'[n].owner]
                 /\ SetTab(t, [AtLogin EXCEPT !.page = "app", !.oauth = tabs[t].oauth])
LoginAnswer(t) ==
  /\ tabs[t].login = "sent"
  /\ \/ /\ Len(tokens) < MaxTokens /\ tokens' = Signed(tabs[t].as, 0) /\ EnterAs(t, Len(tokens) + 1)
     \/ /\ SetTab(t, [tabs[t] EXCEPT !.login = "none", !.as = "none", !.error = TRUE])
        /\ UNCHANGED <<stored, tokens>>
  /\ UNCHANGED exchanges
handleOAuth(t) ==
  /\ OAuthButtons(tabs[t]) # {} /\ SetTab(t, [tabs[t] EXCEPT !.oauth = TRUE, !.error = FALSE])
  /\ UNCHANGED <<stored, tokens, exchanges>>
\* The browser leaves for the provider; the password request goes with the page,
\* and a sign-in that was answered first does not stop it.
OAuthURL(t) ==
  /\ tabs[t].oauth
  /\ \/ SetTab(t, [AtLogin EXCEPT !.page = "provider"])
     \/ SetTab(t, [tabs[t] EXCEPT !.oauth = FALSE, !.error = OnPage(t, "login")])
  /\ UNCHANGED <<stored, tokens, exchanges>>
\* The server's callback consumes the state and stores an exchange code, or
\* returns to the callback page with an error.
ProviderReturns(t) ==
  /\ OnPage(t, "provider")
  /\ \/ \E o \in Owners :
          /\ Len(exchanges) < MaxExchanges /\ exchanges' = Append(exchanges, [owner |-> o, consumed |-> FALSE])
          /\ SetTab(t, [AtLogin EXCEPT !.page = "callback", !.code = Len(exchanges) + 1])
     \/ SetTab(t, [AtLogin EXCEPT !.page = "callback", !.error = TRUE]) /\ UNCHANGED exchanges
  /\ UNCHANGED <<stored, tokens>>
OAuthCallbackView(s) == IF s.error \/ s.code = 0 THEN "failed" ELSE "loading"
\* Opening the address of the callback once more sends the code once more.
OpenCallback(t) ==
  /\ OnPage(t, "login") /\ \E k \in DOMAIN exchanges : SetTab(t, [AtLogin EXCEPT !.page = "callback", !.code = k])
  /\ UNCHANGED <<stored, tokens, exchanges>>
\* ConsumeExchange: one conditional update, then the token.
Exchange(t) ==
  /\ OnPage(t, "callback") /\ OAuthCallbackView(tabs[t]) = "loading"
  /\ LET k == tabs[t].code  x == exchanges[k] IN
     \/ /\ ~x.consumed /\ Len(tokens) < MaxTokens /\ exchanges' = [exchanges EXCEPT ![k].consumed = TRUE]
        /\ tokens' = Signed(x.owner, k)
        /\ \/ EnterAs(t, Len(tokens) + 1)
           \/ SetTab(t, [tabs[t] EXCEPT !.error = TRUE]) /\ UNCHANGED stored    \* the answer is lost
     \/ SetTab(t, [tabs[t] EXCEPT !.error = TRUE]) /\ UNCHANGED <<stored, tokens, exchanges>>
backToSignIn(t) == OnPage(t, "callback") /\ OAuthCallbackView(tabs[t]) = "failed" /\ SetTab(t, AtLogin)
                   /\ UNCHANGED <<stored, tokens, exchanges>>
\* The home page and AuthenticatedBoundary go by whether there is a token.
Home(t) == /\ OnPage(t, "login") /\ SetTab(t, [AtLogin EXCEPT !.page = IF stored.token # 0 THEN "app" ELSE "login"])
           /\ UNCHANGED <<stored, tokens, exchanges>>
BoundaryView(t) == IF stored.token = 0 THEN "checking" ELSE "content"
BoundaryRedirects(t) == /\ OnPage(t, "app") /\ BoundaryView(t) = "checking" /\ SetTab(t, AtLogin)
                        /\ UNCHANGED <<stored, tokens, exchanges>>
\* apiFetch sends the token of the moment ...
apiFetch(t) == /\ OnPage(t, "app") /\ BoundaryView(t) = "content" /\ tabs[t].call = 0
               /\ SetTab(t, [tabs[t] EXCEPT !.call = stored.token]) /\ UNCHANGED <<stored, tokens, exchanges>>
\* ... and an answer that denies it clears whatever is stored by then.
redirectToLogin(t) == stored' = NoSession /\ SetTab(t, AtLogin)
ApiAnswer(t) ==
  /\ tabs[t].call # 0
  /\ IF tokens[tabs[t].call].live THEN SetTab(t, [tabs[t] EXCEPT !.call = 0]) /\ UNCHANGED stored
     ELSE redirectToLogin(t)
  /\ UNCHANGED <<tokens, exchanges>>
handleLogout(t) == OnPage(t, "app") /\ BoundaryView(t) = "content" /\ redirectToLogin(t)
                   /\ UNCHANGED <<tokens, exchanges>>
TokenExpires == /\ \E n \in DOMAIN tokens : tokens[n].live /\ tokens' = [tokens EXCEPT ![n].live = FALSE]
                /\ UNCHANGED <<stored, exchanges, tabs>>

SessionInit == stored = NoSession /\ tokens = <<>> /\ exchanges = <<>> /\ tabs = [t \in Clients |-> AtLogin]
SessionNext ==
  \/ TokenExpires
  \/ \E t \in Clients :
       \/ handleLogin(t) \/ LoginAnswer(t) \/ handleOAuth(t) \/ OAuthURL(t) \/ ProviderReturns(t)
       \/ OpenCallback(t) \/ Exchange(t) \/ backToSignIn(t) \/ Home(t) \/ BoundaryRedirects(t)
       \/ apiFetch(t) \/ ApiAnswer(t) \/ handleLogout(t)
SessionSpec == SessionInit /\ [][SessionNext]_sessionVars

(***************************************************************************)
(* The settings page                                                       *)
(***************************************************************************)

VARIABLES account,  \* users.password_hash is set; rows of oauth_accounts
          settings  \* the settings page of each client
settingsVars == <<account, settings>>

\* loading: a load runs.  target: the open dialog.  doing: bind, unbind or no
\* action of a provider, and how far its request is.
Idle == [provider |-> "none", action |-> "none", answer |-> "none"]
Opened == [page |-> "settings", loading |-> TRUE, error |-> FALSE, bound |-> {}, target |-> "none",
           doing |-> Idle, saving |-> "none"]
SetPage(c, p) == settings' = [settings EXCEPT ![c] = p]
SettingsView(p) == CASE p.error -> "error" [] ~p.error /\ p.loading -> "loading" [] OTHER -> "form"
Here(c) == settings[c].page = "settings"

loadSettings(c) ==
  /\ Here(c) /\ settings[c].loading /\ UNCHANGED account
  /\ \/ SetPage(c, [settings[c] EXCEPT !.loading = FALSE, !.bound = account.bound])
     \/ SetPage(c, [settings[c] EXCEPT !.loading = FALSE, !.error = TRUE])
retrySettings(c) ==
  /\ Here(c) /\ SettingsView(settings[c]) = "error"
  /\ SetPage(c, [settings[c] EXCEPT !.loading = TRUE, !.error = FALSE]) /\ UNCHANGED account
Doing(p, action) == [provider |-> p, action |-> action, answer |-> "none"]
\* The button of a provider's row is disabled while any provider has an action
\* under way, and hidden behind the dialog while it is open.
ProviderRow(p, provider) ==
  IF SettingsView(p) # "form" \/ p.doing # Idle \/ p.target # "none" THEN {}
  ELSE {IF provider \in p.bound THEN "disconnect" ELSE "connect"}
UnbindDialog(p) == IF p.target = "none" \/ p.doing # Idle THEN {} ELSE {"cancel", "disconnect"}
startBind(c, p) ==
  /\ Here(c) /\ "connect" \in ProviderRow(settings[c], p)
  /\ SetPage(c, [settings[c] EXCEPT !.doing = Doing(p, "bind")]) /\ UNCHANGED account
\* The browser leaves; the server binds on the way back, unless the provider has
\* a row, and the page loads afresh.
BindURL(c) ==
  /\ settings[c].doing.action = "bind" /\ Here(c) /\ UNCHANGED account
  /\ \/ SetPage(c, [settings[c] EXCEPT !.page = "provider"])
     \/ SetPage(c, [settings[c] EXCEPT !.doing = Idle])
Bind(c) ==
  /\ settings[c].page = "provider" /\ SetPage(c, Opened)
  /\ \/ account' = [account EXCEPT !.bound = @ \cup {settings[c].doing.provider}]
     \/ UNCHANGED account
requestUnbind(c, p) ==
  /\ Here(c) /\ "disconnect" \in ProviderRow(settings[c], p)
  /\ SetPage(c, [settings[c] EXCEPT !.target = p]) /\ UNCHANGED account
cancelUnbind(c) == /\ Here(c) /\ "cancel" \in UnbindDialog(settings[c])
                   /\ SetPage(c, [settings[c] EXCEPT !.target = "none"]) /\ UNCHANGED account
confirmUnbind(c) ==
  /\ Here(c) /\ "disconnect" \in UnbindDialog(settings[c])
  /\ SetPage(c, [settings[c] EXCEPT !.doing = Doing(settings[c].target, "unbind")]) /\ UNCHANGED account
\* Mutant: the last way is judged by what the page shows.
UnbindAsShown(c) ==
  LET d == settings[c].doing
      last == Cardinality(settings[c].bound) <= 1 /\ ~account.password
  IN  /\ d.action = "unbind" /\ d.answer = "none"
      /\ IF last \/ d.provider \notin account.bound
         THEN UNCHANGED account /\ SetPage(c, [settings[c] EXCEPT !.doing.answer = "denied"])
         ELSE /\ account' = [account EXCEPT !.bound = @ \ {d.provider}]
              /\ SetPage(c, [settings[c] EXCEPT !.doing.answer = "done"])
\* OAuthService.Unbind: the user row is locked, so what it counts still holds
\* when it deletes.
Unbind(c) ==
  LET d == settings[c].doing
      last == Cardinality(account.bound) <= 1 /\ ~account.password
  IN  /\ d.action = "unbind" /\ d.answer = "none"
      /\ IF last \/ d.provider \notin account.bound
         THEN UNCHANGED account /\ SetPage(c, [settings[c] EXCEPT !.doing.answer = "denied"])
         ELSE /\ account' = [account EXCEPT !.bound = @ \ {d.provider}]
              /\ SetPage(c, [settings[c] EXCEPT !.doing.answer = "done"])
UnbindAnswer(c) ==
  LET d == settings[c].doing IN
  /\ d.action = "unbind" /\ UNCHANGED account
  /\ \/ d.answer = "done" /\ SetPage(c, [settings[c] EXCEPT !.doing = Idle, !.target = "none",
                                                            !.bound = @ \ {d.provider}])
     \/ SetPage(c, [settings[c] EXCEPT !.doing = Idle])        \* refused, or lost
\* The three inputs are left out: a new password and the same confirmation are in
\* them, or the button is disabled.
updatePassword(c) ==
  /\ Here(c) /\ SettingsView(settings[c]) = "form" /\ settings[c].saving = "none"
  /\ SetPage(c, [settings[c] EXCEPT !.saving = "sent"]) /\ UNCHANGED account
\* AuthService.UpdatePassword: the current password is right, or there is none.
UpdatePassword(c) ==
  /\ settings[c].saving = "sent"
  /\ \/ account' = [account EXCEPT !.password = TRUE] /\ SetPage(c, [settings[c] EXCEPT !.saving = "done"])
     \/ UNCHANGED account /\ SetPage(c, [settings[c] EXCEPT !.saving = "denied"])
PasswordAnswer(c) ==
  /\ settings[c].saving # "none" /\ UNCHANGED account
  /\ SetPage(c, [settings[c] EXCEPT !.saving = "none"])

SettingsInit ==
  /\ account \in {a \in [password : BOOLEAN, bound : SUBSET Providers] : a.password \/ a.bound # {}}
  /\ settings = [c \in Clients |-> Opened]
SettingsNext ==
  \E c \in Clients :
    \/ loadSettings(c) \/ retrySettings(c) \/ BindURL(c) \/ Bind(c) \/ cancelUnbind(c) \/ confirmUnbind(c)
    \/ Unbind(c) \/ UnbindAnswer(c) \/ updatePassword(c) \/ UpdatePassword(c) \/ PasswordAnswer(c)
    \/ \E p \in Providers : startBind(c, p) \/ requestUnbind(c, p)
SettingsSpec == SettingsInit /\ [][SettingsNext]_settingsVars

(***************************************************************************)
(* Properties                                                              *)
(***************************************************************************)

AccountTypeOK ==
  /\ Len(mails) <= MaxCodes /\ \A i \in DOMAIN mails : mails[i].age \in 0..2
  /\ stored.token \in 0..Len(tokens) /\ stored.email \in Owners \cup {"none"}
  /\ account.bound \subseteq Providers
  /\ \A c \in Clients : settings[c].doing.action = "none" <=> settings[c].doing.provider = "none"

\* docs/002: of several registrations with one code only one succeeds, and a user
\* row that is not created gives the code back: a code is consumed if and only if
\* the account exists, and then exactly one is.
CodeConsumedWithAccount ==
  Cardinality({i \in DOMAIN mails : mails[i].used}) = IF user THEN 1 ELSE 0

\* docs/002: an exchange code gives one token, however many tabs send it; the
\* tabs share one session, whose e-mail is always that of its token.
OneSession ==
  /\ \A m, n \in DOMAIN tokens : m # n /\ tokens[m].code # 0 => tokens[m].code # tokens[n].code
  /\ IF stored.token = 0 THEN stored.email = "none" ELSE stored.email = tokens[stored.token].owner

\* docs/002: the last way to sign in is never taken away, whichever tabs ask for
\* what at the same time.
AlwaysSignIn == account.password \/ account.bound # {}
==============================================================================
