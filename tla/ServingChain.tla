---------------------------- MODULE ServingChain ----------------------------
(***************************************************************************)
(* One document analysis on its way through browser (frontend/lib/api.ts), *)
(* proxy (frontend/app/api/v1, lib/proxy.mjs) and back end (api.py inside  *)
(* upload_boundary.py), each with a clock of its own: the browser's and    *)
(* the proxy's are derived from the back end's analysis budget, the back   *)
(* end spends a reading clock and up to two such budgets.  What the back   *)
(* end does inside is RequestAdmission's and WorkerIsolation's subject.    *)
(***************************************************************************)
EXTENDS Naturals

CONSTANTS
    Budget,        \* FINRISK_ANALYSIS_TIMEOUT_SECONDS
    ReadTime,      \* UPLOAD_READ_TIMEOUT_SECONDS
    ProxyGrace, BrowserGrace,
    Latency        \* how long a message is on its way, at most

\* The graces are two and four seconds; the browser's outlasts the proxy's by more
\* than a request and a response take on their way.
ASSUME ChainAssumption ==
    /\ {Budget, ReadTime, ProxyGrace, BrowserGrace, Latency} \subseteq Nat
    /\ ProxyGrace + 2 * Latency < BrowserGrace

VARIABLES
    browser,    \* where the page is, and what it shows
    proxy,      \* where its request is between page and back end
    backend,    \* where the analysis is
    reachable,  \* the proxy has an upstream and it answers
    lost,       \* the page's own connection broke
    stored      \* how many of the analysis's records are there: snapshot, bundle, execution

chainVars == << browser, proxy, backend, reachable, lost, stored >>

NoReply == 0

\* `left` is what remains of the clock that runs at this place.
ChainInit ==
    /\ browser = [at |-> "idle", left |-> 0, shown |-> "none"]
    /\ proxy = [at |-> "idle", left |-> 0, reply |-> NoReply, by |-> "nobody"]
    /\ backend = [at |-> "idle", left |-> 0, reply |-> NoReply]
    /\ reachable \in BOOLEAN
    /\ lost = FALSE
    /\ stored = 0

Busy == {"reading", "inspecting", "analysing"}

\* A mutant: the graces are exchanged.
AnalyzeDocument_Hasty ==
    /\ browser.at = "idle"
    /\ browser' = [browser EXCEPT !.at = "waiting", !.left = Budget + ProxyGrace]
    /\ proxy' = [proxy EXCEPT !.at = "coming", !.left = Latency]
    /\ UNCHANGED << backend, reachable, lost, stored >>

\* exchangeJson: fetch with AbortSignal.timeout.
AnalyzeDocument ==
    /\ browser.at = "idle"
    /\ browser' = [browser EXCEPT !.at = "waiting", !.left = Budget + BrowserGrace]
    /\ proxy' = [proxy EXCEPT !.at = "coming", !.left = Latency]
    /\ UNCHANGED << backend, reachable, lost, stored >>

ProxyReplies(status, by) ==
    proxy' = [at |-> "replying", left |-> Latency, reply |-> status, by |-> by]

\* The declared body is too long; no upstream is configured; nothing listens.
ProxyRefuses ==
    /\ proxy.at = "coming"
    /\ \/ ProxyReplies(413, "proxy")
       \/ ~reachable /\ ProxyReplies(503, "proxy")
       \/ ~reachable /\ ProxyReplies(502, "proxy")
    /\ UNCHANGED << browser, backend, reachable, lost, stored >>

ProxyForwards ==
    /\ proxy.at = "coming"
    /\ reachable
    /\ proxy' = [proxy EXCEPT !.at = "waiting", !.left = Budget + ProxyGrace]
    /\ backend' = [backend EXCEPT !.at = "reading", !.left = ReadTime]
    /\ UNCHANGED << browser, reachable, lost, stored >>

\* The bounded stream notices a body longer than declared.
ProxyCutsBody ==
    /\ proxy.at = "waiting"
    /\ backend.at = "reading"
    /\ ProxyReplies(413, "proxy")
    /\ backend' = [backend EXCEPT !.at = "over", !.left = 0]
    /\ UNCHANGED << browser, reachable, lost, stored >>

BackendReplies(status) ==
    backend' = [at |-> "replying", left |-> Latency, reply |-> status]

\* 503: no slot, an unsafe configuration, limiter or datastore out of reach; 500:
\* anything unforeseen; 408 when the reading clock rings.
BackendRefuses ==
    /\ backend.at = "reading"
    /\ \/ \E status \in {401, 413, 415, 422, 429, 500, 503} : BackendReplies(status)
       \/ backend.left = 0 /\ BackendReplies(408)
    /\ UNCHANGED << browser, proxy, reachable, lost, stored >>

\* Two workers in turn, each with the whole budget; 504 when it is spent.
Inspect ==
    /\ backend.at = "reading"
    /\ backend' = [backend EXCEPT !.at = "inspecting", !.left = Budget]
    /\ UNCHANGED << browser, proxy, reachable, lost, stored >>

Analyse ==
    /\ backend.at = "inspecting"
    /\ backend' = [backend EXCEPT !.at = "analysing", !.left = Budget]
    /\ UNCHANGED << browser, proxy, reachable, lost, stored >>

WorkerRejects ==
    /\ backend.at \in {"inspecting", "analysing"}
    /\ \/ \E status \in {413, 422, 500} : BackendReplies(status)
       \/ backend.left = 0 /\ BackendReplies(504)
    /\ UNCHANGED << browser, proxy, reachable, lost, stored >>

\* The worker returned a finished run; no clock limits what follows.
Analysed ==
    /\ backend.at = "analysing"
    /\ backend' = [backend EXCEPT !.at = "storing", !.left = 0]
    /\ UNCHANGED << browser, proxy, reachable, lost, stored >>

\* persist_agent_snapshot: three commits, of which the first two are spared when
\* the same snapshot or bundle is found on record.
Store ==
    /\ backend.at = "storing"
    /\ stored < 3
    /\ stored' = stored + 1
    /\ UNCHANGED << browser, proxy, backend, reachable, lost >>

\* What was committed stays: a rejected record answers 422; a datastore that is out
\* of reach, or does not acknowledge its commit, 503; anything else 500.
StoreFails ==
    /\ backend.at = "storing"
    /\ \/ stored < 3 /\ BackendReplies(422)
       \/ BackendReplies(500)
       \/ BackendReplies(503)
    /\ UNCHANGED << browser, proxy, reachable, lost, stored >>

\* All three are on record before the response is sent, and whoever waits for it.
Complete ==
    /\ backend.at = "storing"
    /\ stored = 3
    /\ BackendReplies(200)
    /\ UNCHANGED << browser, proxy, reachable, lost, stored >>

\* The process goes down, and the proxy's fetch fails.
BackendDies ==
    /\ reachable
    /\ reachable' = FALSE
    /\ backend' = [backend EXCEPT !.at = "over", !.left = 0]
    /\ IF proxy.at = "waiting" THEN ProxyReplies(502, "proxy") ELSE UNCHANGED proxy
    /\ UNCHANGED << browser, lost, stored >>

\* Status and detail are relayed.
Relay ==
    /\ backend.at = "replying"
    /\ IF proxy.at = "waiting" THEN ProxyReplies(backend.reply, "backend") ELSE UNCHANGED proxy
    /\ backend' = [backend EXCEPT !.at = "over", !.left = 0]
    /\ UNCHANGED << browser, reachable, lost, stored >>

\* TimeoutError: the back end is not told and goes on.
ProxyGivesUp ==
    /\ proxy.at = "waiting"
    /\ proxy.left = 0
    /\ ProxyReplies(504, "proxy")
    /\ UNCHANGED << browser, backend, reachable, lost, stored >>

Show(what) == browser' = [at |-> "done", left |-> 0, shown |-> what]

\* isUpstreamUnavailable; a body that is cut short is an unexpected shape.
Receives ==
    /\ browser.at = "waiting"
    /\ proxy.at = "replying"
    /\ \/ proxy.reply = 200 /\ (Show("live") \/ Show("failure"))
       \/ proxy.reply \in {502, 503} /\ Show("unavailable")
       \/ proxy.reply \notin {200, 502, 503} /\ Show("failure")
    /\ proxy' = [proxy EXCEPT !.at = "over", !.left = 0]
    /\ UNCHANGED << backend, reachable, lost, stored >>

\* The catch of exchangeJson makes no difference between an abort ...
BrowserGivesUp ==
    /\ browser.at = "waiting"
    /\ browser.left = 0
    /\ Show("unavailable")
    /\ UNCHANGED << proxy, backend, reachable, lost, stored >>

\* ... and a connection that failed.
ConnectionFails ==
    /\ browser.at = "waiting"
    /\ lost' = TRUE
    /\ Show("unavailable")
    /\ UNCHANGED << proxy, backend, reachable, stored >>

\* Which clock runs where.
Clocked == << << browser, {"waiting"} >>, << proxy, {"coming", "waiting", "replying"} >>,
              << backend, Busy \cup {"replying"} >> >>

Runs(place, at) == place.at \in at

Later(place, at) == IF Runs(place, at) THEN [place EXCEPT !.left = @ - 1] ELSE place

\* A clock that has run down acts before time goes on; what a message or a worker
\* may still do happens at any moment before.
Tick ==
    /\ \A i \in DOMAIN Clocked : Runs(Clocked[i][1], Clocked[i][2]) => Clocked[i][1].left > 0
    /\ \E i \in DOMAIN Clocked : Runs(Clocked[i][1], Clocked[i][2])
    /\ browser' = Later(browser, Clocked[1][2])
    /\ proxy' = Later(proxy, Clocked[2][2])
    /\ backend' = Later(backend, Clocked[3][2])
    /\ UNCHANGED << reachable, lost, stored >>

ChainNext ==
    \/ AnalyzeDocument
    \/ ProxyRefuses \/ ProxyForwards \/ ProxyCutsBody
    \/ BackendRefuses \/ Inspect \/ Analyse \/ WorkerRejects
    \/ Analysed \/ Store \/ StoreFails \/ Complete \/ BackendDies
    \/ Relay \/ ProxyGivesUp
    \/ Receives \/ BrowserGivesUp \/ ConnectionFails
    \/ Tick

ChainSpec == ChainInit /\ [][ChainNext]_chainVars

-----------------------------------------------------------------------------
(* Properties. *)

\* The page speaks of an unreachable upstream, next to which it offers the sample,
\* only when there is none, when its own connection broke or when the back end itself
\* said 503 (no slot, unsafe configuration, a datastore out of reach): no clock may
\* ring before the one behind it, or a slow analysis would be reported as no server.
\* What it shows as live is stored whole.  What it calls a failure left nothing on
\* record, but for an analysis given up on, an answer cut short, and a back end that
\* failed between its commits (422) or at any point of them (500).
PageTellsTheTruth ==
    /\ browser.shown = "unavailable" => ~reachable \/ lost \/ backend.reply = 503
    /\ browser.shown = "live" => stored = 3
    /\ browser.shown = "failure" /\ stored > 0 =>
          \/ proxy.reply = 504 /\ proxy.by = "proxy"
          \/ proxy.reply = 200
          \/ proxy.reply = 422 /\ backend.reply = 422 /\ stored < 3
          \/ proxy.reply = 500 /\ backend.reply = 500
=============================================================================
