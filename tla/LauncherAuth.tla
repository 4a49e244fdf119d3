----------------------------- MODULE LauncherAuth -----------------------------
(* The bootstrap of a browser page against the local server: the one-time      *)
(* token of apps/server/src/launcher-auth.ts, the request handler of app.ts,    *)
(* and the page side (apps/web/src/api.ts, workflow.ts).  Several launches may  *)
(* run at once; each has its own port, token and sessions, but the browser      *)
(* keeps one cookie jar for the host 127.0.0.1, whatever the port.              *)
EXTENDS Naturals, FiniteSets

CONSTANTS Launches,  \* servers, each started with a token of its own
          Pages,     \* browser tabs
          Slots,     \* bound of the model: exchanges under way at once
          Ttl,       \* BOOTSTRAP_TIMEOUT_MS, in ticks
          None       \* no cookie, no token, no page

ASSUME AuthAssumption == /\ Ttl \in Nat \ {0}
                         /\ None \notin Pages
                         /\ None \notin Launches \X (Pages \cup {None})

VARIABLES clock,     \* ticks since each authenticator was made; it stops at Ttl
          used,      \* #used
          sessions,  \* #sessions: the random session and csrf values are both
                     \* named by the launch and the page that is answered
          page,      \* what each tab shows
          at,        \* the launch whose address it has open
          fragment,  \* the fragment of that address
          csrf,      \* #csrfToken of its LocalApiClient
          jar,       \* the eag_session cookie
          slot,      \* the bootstrap requests under way
          accepted   \* history: launches that have let a mutation through

server  == <<clock, used, sessions, accepted>>
browser == <<page, at, fragment, csrf, jar>>
vars    == <<server, browser, slot>>

Sessions == Launches \X (Pages \cup {None})

\* A bootstrap request names the page that waits for its answer, None once that
\* page is gone.  Of an answer all that is kept is the session it carries: that
\* of a 204, or None for every other status.
Request == [stage : {"sent"}, from : Pages \cup {None}, to : Launches]
Answer  == [stage : {"answered"}, from : Pages \cup {None}, session : Sessions \cup {None}]
Free    == [stage |-> "free"]

Init == /\ clock = [l \in Launches |-> 0]
        /\ used = [l \in Launches |-> FALSE]
        /\ sessions = [l \in Launches |-> {}]
        /\ page = [p \in Pages |-> "closed"]
        /\ at = [p \in Pages |-> None]
        /\ fragment = [p \in Pages |-> "absent"]
        /\ csrf = [p \in Pages |-> None]
        /\ jar = None
        /\ slot = [r \in Slots |-> Free]
        /\ accepted = {}

Tick(l) == /\ clock[l] < Ttl
           /\ clock' = [clock EXCEPT ![l] = @ + 1]
           /\ UNCHANGED <<used, sessions, accepted, browser, slot>>

------------------------------------------------------------------------------
(* The page. *)

\* A tab opens some launch's address, with the launch's token or bare.  A
\* token that is not this launch's (from history, a bookmark) is one that
\* ReadBody refuses.
Open(p) == /\ page[p] = "closed"
           /\ \E l \in Launches, f \in {"absent", "token"} :
                 /\ at' = [at EXCEPT ![p] = l]
                 /\ fragment' = [fragment EXCEPT ![p] = f]
           /\ page' = [page EXCEPT ![p] = "fresh"]
           /\ UNCHANGED <<csrf, jar, server, slot>>

\* bootstrapFromFragment up to its await: without a token the page just renders.
Bootstrap(p) ==
    /\ page[p] = "fresh"
    /\ IF fragment[p] = "absent"
       THEN page' = [page EXCEPT ![p] = "anonymous"] /\ UNCHANGED slot
       ELSE /\ page' = [page EXCEPT ![p] = "exchanging"]
            /\ \E r \in Slots :
                  /\ slot[r] = Free
                  /\ slot' = [slot EXCEPT ![r] = [stage |-> "sent", from |-> p, to |-> at[p]]]
    /\ UNCHANGED <<at, fragment, csrf, jar, server>>

\* Mutated: the fragment goes only once the exchange has succeeded.
Settle_OnSuccess(p, session) ==
    /\ page' = [page EXCEPT ![p] = IF session # None THEN "ready" ELSE "failed"]
    /\ csrf' = [csrf EXCEPT ![p] = session]
    /\ fragment' = IF session # None THEN [fragment EXCEPT ![p] = "absent"] ELSE fragment

\* The end of bootstrap and bootstrapFromFragment's finally.
Settle(p, session) ==
    /\ page' = [page EXCEPT ![p] = IF session # None THEN "ready" ELSE "failed"]
    /\ csrf' = [csrf EXCEPT ![p] = session]
    /\ fragment' = [fragment EXCEPT ![p] = "absent"]

\* A reload, or the tab closing: its memory is gone, its requests go on.
Unload(p) == /\ page[p] # "closed"
             /\ \/ page' = [page EXCEPT ![p] = "fresh"] /\ UNCHANGED <<at, fragment>>
                \/ /\ page' = [page EXCEPT ![p] = "closed"]
                   /\ at' = [at EXCEPT ![p] = None]
                   /\ fragment' = [fragment EXCEPT ![p] = "absent"]
             /\ csrf' = [csrf EXCEPT ![p] = None]
             /\ slot' = [r \in Slots |-> IF slot[r] # Free /\ slot[r].from = p
                                         THEN [slot[r] EXCEPT !.from = None] ELSE slot[r]]
             /\ UNCHANGED <<jar, server>>

------------------------------------------------------------------------------
(* The server. *)

Reply(r, session) ==
    slot' = [slot EXCEPT ![r] = [stage |-> "answered", from |-> @.from, session |-> session]]

\* Mutated: compared without asking that both values are there.
HasValidCsrf_Untyped(l, session, token) ==
    token = IF session \in sessions[l] THEN session ELSE None

HasValidCsrf(l, session, token) ==
    /\ session # None /\ token # None
    /\ session \in sessions[l] /\ token = session

\* A mutation is checked and answered in one turn; of the answers (403, 404)
\* nothing depends here, and GET and HEAD requests change nothing at all.
Gate(l, exact, session, token) ==
    /\ accepted' = IF exact /\ HasValidCsrf(l, session, token) THEN accepted \cup {l} ELSE accepted
    /\ UNCHANGED <<clock, used, sessions, browser, slot>>

\* upload, saveDraft, grade: #json throws before sending without a csrf token.
Mutate(p) == /\ csrf[p] # None
             /\ Gate(at[p], TRUE, jar, csrf[p])

\* A mutation that no LocalApiClient sent: another page or program on this
\* machine, its host and origin exact or not, with no csrf token.
Stray(l) == \E exact \in BOOLEAN, session \in {None, jar} : Gate(l, exact, session, None)

\* Mutated: #used is never set.
Exchange_Unmarked(r) ==
    LET q == slot[r]  id == <<q.to, q.from>> IN
    IF clock[q.to] >= Ttl \/ used[q.to]
    THEN Reply(r, None) /\ UNCHANGED <<used, sessions>>
    ELSE /\ sessions' = [sessions EXCEPT ![q.to] = @ \cup {id}]
         /\ UNCHANGED used
         /\ Reply(r, id)

Exchange(r) ==
    LET q == slot[r]  id == <<q.to, q.from>> IN
    IF clock[q.to] >= Ttl \/ used[q.to]
    THEN Reply(r, None) /\ UNCHANGED <<used, sessions>>
    ELSE /\ used' = [used EXCEPT ![q.to] = TRUE]
         /\ sessions' = [sessions EXCEPT ![q.to] = @ \cup {id}]
         /\ Reply(r, id)

\* Mutated: an error on the request's stream is not caught.
ReadBody_NoCatch(r) == /\ slot[r].stage = "sent"
                       /\ \/ Exchange(r)
                          \/ Reply(r, None) /\ UNCHANGED <<used, sessions>>
                          \/ /\ slot' = [slot EXCEPT ![r].stage = "hung"]
                             /\ UNCHANGED <<used, sessions>>
                       /\ UNCHANGED <<clock, accepted, browser>>

\* POST /bootstrap.  Nothing is read before the await of the body, so one step:
\* the launch's token has come, or something else (401), or the stream failed
\* (500); a wrong host or origin (400, 403) ends here too.
ReadBody(r) == /\ slot[r].stage = "sent"
               /\ \/ Exchange(r)
                  \/ Reply(r, None) /\ UNCHANGED <<used, sessions>>
               /\ UNCHANGED <<clock, accepted, browser>>

------------------------------------------------------------------------------
(* The way back. *)

Waiting(r) == slot[r] # Free /\ slot[r].from # None

\* The browser keeps the cookie before any script runs; it may have given up a
\* request whose page is gone.
Deliver(r) ==
    /\ slot[r].stage = "answered"
    /\ LET a == slot[r] IN
       /\ IF Waiting(r) THEN Settle(a.from, a.session) ELSE UNCHANGED <<page, csrf, fragment>>
       /\ \/ a.session # None /\ jar' = a.session
          \/ (a.session = None \/ a.from = None)
             /\ UNCHANGED jar
    /\ slot' = [slot EXCEPT ![r] = Free]
    /\ UNCHANGED <<at, server>>

\* The connection breaks, before the request has had its effect or after.
Lose(r) == /\ slot[r] # Free
           /\ IF Waiting(r) THEN Settle(slot[r].from, None) ELSE UNCHANGED <<page, csrf, fragment>>
           /\ slot' = [slot EXCEPT ![r] = Free]
           /\ UNCHANGED <<at, jar, server>>

Next == \/ \E l \in Launches : Tick(l) \/ Stray(l)
        \/ \E p \in Pages : Open(p) \/ Bootstrap(p) \/ Mutate(p) \/ Unload(p)
        \/ \E r \in Slots : ReadBody(r) \/ Deliver(r) \/ Lose(r)

\* The server handles what it has received and the network carries answers.
Fairness == \A r \in Slots : /\ WF_vars(ReadBody(r))
                             /\ WF_vars(Deliver(r))

Spec == Init /\ [][Next]_vars /\ Fairness

------------------------------------------------------------------------------
TypeOK == /\ clock \in [Launches -> 0..Ttl]
          /\ used \in [Launches -> BOOLEAN]
          /\ sessions \in [Launches -> SUBSET Sessions]
          /\ page \in [Pages -> {"closed", "fresh", "exchanging", "anonymous", "ready", "failed"}]
          /\ at \in [Pages -> Launches \cup {None}]
          /\ \A p \in Pages : page[p] # "closed" => at[p] \in Launches
          /\ fragment \in [Pages -> {"absent", "token"}]
          /\ csrf \in [Pages -> Sessions \cup {None}]
          /\ jar \in Sessions \cup {None}
          /\ slot \in [Slots -> {Free} \cup Request \cup Answer]
          /\ accepted \subseteq Launches

\* One launch, one session, however many tabs race with its token and however
\* their bodies, answers and reloads interleave; and at most one tab holds its
\* csrf token.
OneSessionPerLaunch ==
    \A l \in Launches :
        /\ used[l] <=> sessions[l] # {}
        /\ \A a, b \in sessions[l] : a = b
        /\ \A p, q \in Pages : csrf[p] # None /\ csrf[q] # None /\ at[p] = l /\ at[q] = l => p = q

\* No mutation passes before the launch's own token has been exchanged, whatever
\* cookies other launches have left in the browser.
MutationsNeedTheExchange == \A l \in accepted : used[l]

\* A tab that was let in stays let in, unless another launch's exchange has
\* overwritten the cookie: cookies do not tell ports apart.
ReadyPageStaysLetIn ==
    \A p \in Pages : page[p] = "ready" =>
        /\ csrf[p] \in sessions[at[p]]
        /\ \/ HasValidCsrf(at[p], jar, csrf[p])
           \/ jar # None /\ jar[1] # at[p]

\* "Exchanges a fragment-only launcher secret and removes it even when exchange
\* fails": once a tab has its answer, its address no longer carries a token.
FragmentIsGone ==
    \A p \in Pages : page[p] \in {"ready", "failed"} => fragment[p] = "absent"

\* A tab does not wait for ever for its exchange.
ExchangeEnds == \A p \in Pages : page[p] = "exchanging" ~> page[p] # "exchanging"

==============================================================================
