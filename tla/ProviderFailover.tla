-------------------------- MODULE ProviderFailover ----------------------------
(***************************************************************************)
(* The embedding of texts by one of several providers: the cache before    *)
(* them (profile_cache.go), the order in which they are tried, the circuit *)
(* of each in memory and the cool-down of each in the database             *)
(* (profile_embedder.go). Callers are the workers' slots and searches. A   *)
(* text stands for one batch of inputs; clock counts the time unit of the  *)
(* delays. In one process, whose LRU holds every text; a cool-down that    *)
(* cannot be read or written lets calls through, which is left out.        *)
(***************************************************************************)
EXTENDS Naturals, Sequences, FiniteSetsExt

CONSTANTS
  Callers, Texts,
  Endpoints,     \* the sequence of providers of the profile
  CircuitLimit, CircuitDelay,
  Timeout,       \* of one call to a provider
  RetryAfters,   \* what a 429 may ask for
  MaxClock, MaxCalls

VARIABLES
  clock,
  circuits,   \* per provider: failures, blockedUntil
  cooldowns,  \* embedding_provider_cooldowns: blocked_until
  cached,     \* the texts in the LRU, and those in the database
  calls,      \* per caller: its text and where EmbedBatch is
  leaders,    \* singleflight: who asks for a text
  answered,   \* history: how often a provider answered for a text
  streaks,    \* history: failures of a provider since it last answered or tripped
  spared      \* history: from when until when a provider is to be left alone
providerVars == <<clock, circuits, cooldowns, cached, calls, leaders, answered, streaks, spared>>

Names == {Endpoints[i] : i \in DOMAIN Endpoints}
Idle(asked) == [step |-> "idle", text |-> "none", at |-> 1, now |-> 0, since |-> 0, asked |-> asked]
Closed == [failures |-> 0, until |-> 0]
NoSpan == [from |-> 0, till |-> 0]

ProvidersInit ==
  /\ clock = 0 /\ circuits = [p \in Names |-> Closed] /\ cooldowns = [p \in Names |-> 0]
  /\ cached = [lru |-> {}, rows |-> {}] /\ calls = [c \in Callers |-> Idle(0)]
  /\ leaders = [t \in Texts |-> "none"] /\ answered = [t \in Texts |-> 0]
  /\ streaks = [p \in Names |-> 0]
  /\ spared = [p \in Names |-> [circuit |-> NoSpan, limit |-> NoSpan]]

Endpoint(c) == Endpoints[calls[c].at]
providerBlocked(p, now) == circuits[p].until > now \/ cooldowns[p] > now

\* A flight ends for everyone who waits on it, with its result or its error.
Ended(t) == /\ calls' = [c \in Callers |-> IF calls[c].text = t /\ calls[c].step # "missed" THEN Idle(calls[c].asked)
                                           ELSE calls[c]]
            /\ leaders' = [leaders EXCEPT ![t] = "none"]

\* lookup: the LRU, then the database, which fills the LRU; a failing read is a miss.
Ask(c, t) ==
  /\ calls[c].step = "idle" /\ calls[c].asked < MaxCalls
  /\ \/ /\ t \in cached.lru \cup cached.rows
        /\ cached' = [cached EXCEPT !.lru = @ \cup {t}] /\ calls' = [calls EXCEPT ![c] = Idle(@.asked + 1)]
     \/ /\ t \notin cached.lru /\ UNCHANGED cached
        /\ calls' = [calls EXCEPT ![c] = [Idle(@.asked + 1) EXCEPT !.step = "missed", !.text = t]]
  /\ UNCHANGED <<clock, circuits, cooldowns, leaders, answered, streaks, spared>>

\* embedMisses: join the flight for the text, or lead one; the leader looks into
\* the LRU again, for a flight that ended since its own lookup.
embedMisses(c) ==
  LET t == calls[c].text IN
  /\ calls[c].step = "missed"
  /\ IF leaders[t] # "none" THEN calls' = [calls EXCEPT ![c].step = "waiting"] /\ UNCHANGED leaders
     ELSE IF t \in cached.lru THEN calls' = [calls EXCEPT ![c] = Idle(@.asked)] /\ UNCHANGED leaders
     ELSE calls' = [calls EXCEPT ![c].step = "trying", ![c].now = clock] /\ leaders' = [leaders EXCEPT ![t] = c]
  /\ UNCHANGED <<clock, circuits, cooldowns, cached, answered, streaks, spared>>

\* EmbedBatch: the next provider that is not blocked at the time the batch began.
NextProvider(c) ==
  /\ calls[c].step = "trying"
  /\ IF calls[c].at \notin DOMAIN Endpoints THEN Ended(calls[c].text)
     ELSE /\ calls' = [calls EXCEPT ![c] = IF providerBlocked(Endpoint(c), @.now) THEN [@ EXCEPT !.at = calls[c].at + 1]
                                           ELSE [@ EXCEPT !.step = "calling", !.since = clock]]
          /\ UNCHANGED leaders
  /\ UNCHANGED <<clock, circuits, cooldowns, cached, answered, streaks, spared>>

\* recordProviderSuccess, and save: the LRU before the waiters are released; the
\* write to the database may fail.
Succeeds(c) ==
  LET t == calls[c].text p == Endpoint(c) IN
  /\ calls[c].step = "calling"
  /\ circuits' = [circuits EXCEPT ![p] = Closed]
  /\ cached' \in {[lru |-> cached.lru \cup {t}, rows |-> r] : r \in {cached.rows, cached.rows \cup {t}}}
  /\ Ended(t) /\ answered' = [answered EXCEPT ![t] = @ + 1]
  /\ streaks' = [streaks EXCEPT ![p] = 0] /\ spared' = [spared EXCEPT ![p].circuit = NoSpan]
  /\ UNCHANGED <<clock, cooldowns>>

\* recordProviderFailure counts with the time the batch began.
Failed(circuit, now) ==
  IF circuit.failures + 1 >= CircuitLimit THEN [failures |-> 0, until |-> now + CircuitDelay]
  ELSE [circuit EXCEPT !.failures = @ + 1]

\* A timeout, a broken connection, a 5xx or invalid vectors: the next provider.
\* What the circuit can promise is its delay less what the batch may take.
FallsBack(c) ==
  LET p == Endpoint(c) trips == streaks[p] + 1 = CircuitLimit IN
  /\ calls[c].step = "calling"
  /\ circuits' = [circuits EXCEPT ![p] = Failed(@, calls[c].now)]
  /\ calls' = [calls EXCEPT ![c].step = "trying", ![c].at = @ + 1]
  /\ streaks' = [streaks EXCEPT ![p] = IF trips THEN 0 ELSE @ + 1]
  /\ spared' = IF trips THEN [spared EXCEPT ![p].circuit =
                                [from |-> clock, till |-> clock + CircuitDelay - Timeout * Len(Endpoints)]]
               ELSE spared
  /\ UNCHANGED <<clock, cooldowns, cached, leaders, answered>>

\* Mutant: the last answer replaces the cool-down.
SaveLastCooldown(p, until) == cooldowns' = [cooldowns EXCEPT ![p] = until]
SaveCooldown(p, until) == cooldowns' = [cooldowns EXCEPT ![p] = Max({@, until})]

\* 429: the longest cool-down counts; the batch ends.
RateLimited(c) ==
  LET p == Endpoint(c) IN
  /\ calls[c].step = "calling" /\ Ended(calls[c].text)
  /\ \E retryAfter \in RetryAfters :
       LET until == calls[c].now + retryAfter IN
       /\ SaveCooldown(p, until)
       /\ spared' = IF until < spared[p].limit.till THEN spared
                    ELSE [spared EXCEPT ![p].limit = [from |-> clock, till |-> until]]
  /\ UNCHANGED <<clock, circuits, cached, answered, streaks>>

\* A permanent error, or the leader's request is cancelled: for all that wait.
Refused(c) ==
  /\ calls[c].step \in {"trying", "calling"} /\ Ended(calls[c].text)
  /\ UNCHANGED <<clock, circuits, cooldowns, cached, answered, streaks, spared>>

\* A provider answers within the timeout of the call.
Tick ==
  /\ clock < MaxClock /\ clock' = clock + 1
  /\ \A c \in Callers : calls[c].step = "calling" => clock < calls[c].since + Timeout
  /\ \A c \in Callers : calls[c].step # "trying"
  /\ UNCHANGED <<circuits, cooldowns, cached, calls, leaders, answered, streaks, spared>>

ProvidersNext ==
  \/ \E c \in Callers : \/ \E t \in Texts : Ask(c, t)
                        \/ embedMisses(c) \/ NextProvider(c)
                        \/ Succeeds(c) \/ FallsBack(c) \/ RateLimited(c) \/ Refused(c)
  \/ Tick

------------------------------------------------------------------------------
Spans == [from : 0..MaxClock, till : 0..(MaxClock + CircuitDelay + Max(RetryAfters))]
ProvidersTypeOK ==
  /\ clock \in 0..MaxClock /\ cached \in [lru : SUBSET Texts, rows : SUBSET Texts]
  /\ circuits \in [Names -> [failures : 0..(CircuitLimit - 1), until : Nat]] /\ cooldowns \in [Names -> Nat]
  /\ calls \in [Callers -> [step : {"idle", "missed", "waiting", "trying", "calling"}, text : Texts \cup {"none"},
                            at : 1..(Len(Endpoints) + 1), now : 0..MaxClock, since : 0..MaxClock, asked : 0..MaxCalls]]
  /\ leaders \in [Texts -> Callers \cup {"none"}] /\ spared \in [Names -> [circuit : Spans, limit : Spans]]

\* Neither a late failure of an older batch nor a shorter 429 lets a batch that
\* began since ask a provider that is to be left alone: one that failed the limit
\* in a row, while a delay is left that no batch can take, or one that said so.
BlockedIsSpared ==
  \A c \in Callers : calls[c].step = "calling" =>
    \A span \in {spared[Endpoint(c)].circuit, spared[Endpoint(c)].limit} :
      ~ (span.from < calls[c].now /\ calls[c].now < span.till)

\* docs/013: concurrent requests for one text cost one answer of a provider.
AnsweredOnce == \A t \in Texts : answered[t] <= 1

\* Who waits for another's flight is released with it.
WaitersHaveLeader == \A c \in Callers : calls[c].step = "waiting" => leaders[calls[c].text] # "none"
==============================================================================
