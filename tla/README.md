# FinRisk, formally

FinRisk (`src/backend/finrisk`, v0.4.2) analyses financial filings and decides
how much of its own analysis may be relied upon: it extracts facts, runs rules
and an agent, fuses their findings, evaluates evidence assurance, and either
reports, flags, escalates to a human reviewer or abstains.  An enterprise layer
around the analysis keeps tenants, snapshots, risk cases, audit events and
decision bundles.  A research programme beside it acquires filings, freezes
studies and verifies them.  This directory holds TLA+ models of that program,
the TLC configurations that check them, and theorems about them that TLAPS
checks.

Paths below are relative to `src/backend/finrisk` unless they say otherwise.

## 1. The system

### Serving

| Component | Source | State | Operations | What is hard | What makes it correct |
|---|---|---|---|---|---|
| Risk cases | `enterprise/service.py`, `workflow.py`, `repository.py`, `postgres.py` | case rows with a version, the append-only audit trail | create, transition, add action, add resolution evidence, reopen, override | request threads read, check and save without a lock; the save is optimistic | every successful call is atomic on the current row; the proof gate; the trail explains the row; tenants stay apart |
| Analysis persistence | `api.py` `persist_agent_snapshot`, `enterprise/service.py`, repositories | snapshots, decision bundles, execution records | persist an analysis | look-then-insert on the content hash; a failure after any of three commits | no bundle without its snapshot; every answered analysis is recorded exactly; equal evidence has one identity |
| Worker isolation | `process_isolation.py`, `document_worker.py`, `api.py` | the spawned worker, its result file, the waiting coroutine | run, deadline, cancellation, crash | the worker may answer, die, hang or be late; the caller may be cancelled repeatedly | no worker outlives its request unnoticed; exactly one, truthful outcome |
| Request admission | `request_boundary.py`, `upload_boundary.py`, `api.py` | two slots per boundary, the body, the child, the temporary file | admit, reject, read, time out, disconnect, authenticate, analyse, cancel | every exit must give everything back; an upload is authenticated before it is read | slots are conserved; costs are held inside slots; charged once and first |
| Rate limits (shared) | `enterprise/security.py`, migrations 005 and 006 | one table of admissions, shared by every replica | `allow`, retention sweep | counting under READ COMMITTED; `now()` is the start of a transaction; sweep and key locks | never more than the limit in a window; no unearned refusal; bounded table |
| Rate limits (in process) | `enterprise/security.py` | a deque per key, least recently active first | `allow` | eviction at the key limit | as the shared limiter, but for what eviction forgets |
| API keys, bootstrap | `enterprise/security.py`, `enterprise/api.py` | credentials, durable or in the process | create an organization, issue, rotate | organization and key are two commits; concurrent rotation, with and without a row lock | one live key per organization |
| Job queue | `enterprise/jobs.py` | jobs, attempts | enqueue, claim, complete, fail | a worker that dies; answers that look at no status | no job is stranded (nothing constructs a queue today) |
| Agent run | `agent/*`, `tools/registry.py` | plan, trace, status, snapshots | run in a request, in a worker, in a script; replay | a tool, the provider or the worker may fail anywhere; a deployment lies between run and replay | an answer is whole; a replay differs only for a reason |
| Narrative providers | `llm.py` | the call log | extract | retries, back-off, invalid answers | bounded attempts, every one logged |
| Front end | `src/frontend` | none | proxy and wait | three clocks, one derived from the other | the page reports a time-out only when nothing was answered |
| Assurance | `assurance/*` | none (pure); the deployed policy | evaluate, verify, authorise | two implementations of one procedure, precedence of reasons, recorded results that are altered | they agree; a relaxed decision is supported; the verifier leaves no freedom |
| Fusion and dispositions | `enterprise/fusion.py` | none (pure) | fuse, escalate for failures | the order PASS < FLAG < REVIEW < ABSTAIN through several steps | no step softens an earlier one |
| Analysis decision | `agent/orchestrator.py`, `pipeline.py`, `agent/review.py` | one run's proposal, failures, decision, status | the agent route, the deterministic route | two routes that must not drift apart | the agent is never laxer; a run ends in the status of its decision |
| Decision certificates | `enterprise/decision_bundle.py` | stored bundles | build, verify, store, read back | verification under the policy of another day, or under none | what is issued is accepted; what was altered is not |
| Calculation | `pipeline.py`, `metrics.py`, `facts.py`, `rules.py`, `scoring.py`, `contradictions.py`, `tension.py` | none | assess | inputs of a fact and inputs asked as its proof are listed in two places; averaged and plain calibers | a proven finding rests on verified numbers only; a change compares like with like |
| Ingestion | `parser.py`, `tools/ingestion.py`, `xbrl.py` | review issues | read rows, rank, verify; select companyfacts | notes, dashes, two values of one item; order of filings | what is ambiguous is reviewed; the fact is the newest filing's |

### Research

| Component | Source (under `src`) | State | Operations | What is hard | What makes it correct |
|---|---|---|---|---|---|
| SEC acquisition | `backend/finrisk/xbrl.py`, `scripts/acquire_empirical_corpus.py` | two cache files per key, snapshots, manifest | fetch, acquire | processes that share a cache and die between two files | what is listed is what was served |
| Bulk corpus | `backend/finrisk/sec_bulk.py`, `e4_outcomes.py`, `scripts/import_sec_bulk.py` | archives, corpus, labels | download, import | reports, restatements and years arrive one by one | a label given is final |
| Strong tabular reference | `research/strong_tabular_reference` | some twenty files | approve, rebuild, verify, check the draft, load and score | kills between files, edits while fits run, two machines | what a verifier accepts is one study |
| E5 freeze harness | `research/e5/harness` | one manifest per stage | freeze, write, verify | people freeze in any order over any tree | a chain that verifies records one study |
| E4 study | `scripts/run_e4.py`, `backend/finrisk/e4_*.py`, `scripts/render_e4_readme.py` | the stage, the files of fifteen commands, records of the local model | the commands and `all`, batches, replay, choice of the cohort | kills and removals; a model that answers wrongly, late or not at all | what is reproduced stems from one run of the model; every case is answered once; the cohort does not depend on order |
| Robustness study E4-R | `research/e4r_automated_robustness` | results, figures, manifests | four modes of running, verify, nested cross-validation | packets and configurations that change between modes | what verifies agrees with its packet; scores are blind |
| Temporal risk, governance, portfolio, document storage, pool, observability, reports, other research, scripts | | | | | see section 5 |

How they meet.  A request passes the browser's and the proxy's clocks and the
middleware (correlation, CORS, request body boundary, upload boundary), and is
authenticated and charged by the rate limiter: an upload in the boundary,
before its body is read, any other request in a dependency of its route, after
the body has been parsed.  A document is inspected and then analysed in two
children, one after the other, each under worker isolation.  The child runs the
agent, whose assessment goes through fusion, the failure-aware escalation, the
critic and assurance; the API process gets the finished state and persists it.
Risk cases refer to persisted snapshots, whose verified evidence paths are what
the proof gate asks for.  Shared state is the database (or, in development, the
in-memory repository) and the per-process slots; there are no messages and no
callbacks between the parts.  The studies share no state but files: they read
the corpora that acquisition and import leave, call the pipeline as a library,
and are verified from the files alone.

## 2. The models

### Modules

| Module | Models | State and actions against the code |
|---|---|---|
| `RiskCaseRules` | `workflow.py`, `auth.py`, the checks and changes of `service.py` | roles, permissions, the transition table, one guard `May...` and one result operator per operation, the audit event each emits |
| `RiskCaseLedger` | the abstract specification: what the API promises | `cases`, `audit`; one atomic step per successful operation on the current row |
| `RiskCases` | `service.py` over a repository | `pending[t]` is the copy a request thread works on and the event it will save; one action per operation that reads, checks and changes a copy, `Save` and `Reject` for `repository.save`, `Restart` for the process |
| `AnalysisPersistence` | `persist_agent_snapshot` and the service and repository calls under it | `call[t].step` is the next call; `snapshots`, `bundles`, `executions` are the tables; `Fail` is an outage or the end of the process at any step, after any commit |
| `WorkerPromise` | the abstract specification: what a caller of `run_spawned_worker` may rely on | a child that lives, may leave a result and goes; one verdict |
| `WorkerIsolation` | `run_spawned_worker`, `_terminate`, the shielded cleanup, `document_worker`'s publication of its result | every await and every look at the child or the file is a step; the child writes, renames, dies or hangs; `CancelBody` and `CancelCleanup` deliver a cancellation at any await |
| `RateLimiter` | `PostgresRateLimiter.allow` and its SQL | `tx[l]` is the transaction of a limiter object: `Sweep`/`SkipSweep`, `LockKey`, `Prune`, `Count`, `Refuse`, `Decide`, `Limited`, `Admit`, `Fail`; rows a transaction has deleted are `dropped` until it commits |
| `LocalLimiter` | `SlidingWindowRateLimiter` | the order of the keys and their times; one action per call, for a lock is held throughout |
| `Credentials` | bootstrap, issue, rotation, both stores | `creds` are the rows, `call[c]` a caller between two commits or two dictionary operations; `cut` are the bootstraps that died in between |
| `JobQueue` | `enterprise/jobs.py` | `jobs` in order of arrival, `claims` what each worker has claimed; a worker answers once for its claim, or dies with it |
| `RequestAdmission` | both boundaries and `analyze_document` | `free[k]` are the slots, `request[c]` where a request stands and what it has cost; one action per exit of the code |
| `AgentRun` | `agent/`, `tools/registry.py`, `llm.py` | a plan, one action per tool call or attempt at the provider, `Fail`/kill at each; snapshots, their replay, and a release that changes engine or policy |
| `ServingChain` | `frontend/lib/api.ts`, the proxy, the back end's clocks | one analysis, a tick of time for all three; `stored` counts its records as they are committed or found (`Store`), `StoreFails` answers 422, 500 or 503 between any two of them; which of answer, proxy time-out and browser time-out the page sees |
| `DispositionRules` | `fusion.py` | `hierarchical_escalation`, `failure_aware_proposal` and the critic's effect as operators |
| `AssuranceRules` | `assurance/evidence.py`, `fragility.py`, `shift.py`, `policy.py` | evidence, fragility, sufficient evidence and distribution checks as operators |
| `AssuranceEngine` | `assurance/engine.py`, `semantics.py` | the engine (`Evaluate`) and the verifier (`VerifyAssurance`), translated separately as they are written separately |
| `AssuranceRuntime` | `orchestrator.run` and `pipeline.decide` from the assessment on, the bundle's life | the disposition as it passes fusion, failures, critic, assurance, certificate and store; `Redeploy` changes the policy of the process |
| `Ratios`, `Assessment` | `metrics.py`; `FinRiskPipeline.assess` | exact fractions; facts from line items, and separately what is asked as their proof; signals, contradictions, tensions, scores, coverage |
| `TableExtraction` | `parser.py`, `tools/ingestion.py` | rows of cells under year columns, paired as the code pairs them; candidates ranked by their places in the document, then verified and reviewed |
| `CompanyFacts` | `parse_companyfacts` | the payload grows by filings; the selection is a function of it |
| `SecAcquisition` | `SecClient`, `acquire_empirical_corpus.py` | every file write is a step that may leave the file torn; `Crash` at each |
| `SecCorpus` | `sec_bulk.py`, `e4_outcomes.py`, `import_sec_bulk.py` | `Download` adds a quarter's archive, `Import` builds corpus and labels from all there are |
| `StudyArtifacts` | `research/strong_tabular_reference` | `disk` maps each file to what it was derived from; one action per file written; verifier and loader as predicates of the disk |
| `FreezeChain` | `e5_harness.py` | manifests per stage over a tree that people edit; `Verifies` is the verifier |
| `StagedStudy` | `run_e4.py`, `e4_core.py` (stage record), `render_e4_readme.py` | which run of the model each file stems from; `Start`, `WriteFile`, `Advance`, kills, removals, `all` |
| `AgentBatches` | `e4_agent.py` | the batch asked now and its parts; call, retry, bisect, record, replay |
| `CohortSelection` | `e4_core.py` | rows scanned in any order, then the selection |
| `RobustnessStudy` | `run_e4r.py`, `verify_e4r.py`, `e4r_report.py`, `e4r_extension.py` | a result is the packet, out-of-fold packet and configuration it stems from |
| `NestedCV` | `e4r_leakage.py`, `e4r_models.py` | the audit, or none with `--extensions`, then one outer fold after the other; a score is the set of rows its model has seen |

Compositions: `MCServing` (`RequestAdmission`, `AgentRun`, `ServingChain`,
`WorkerIsolation`), `MCGateway` (`RateLimiter` twice, `Credentials`,
`LocalLimiter`, `JobQueue`), `MCAssuranceRuntime` (the assurance modules, and
with `MCFilings` tables, companyfacts and calculation), `MCResearch`
(`StudyArtifacts`, `FreezeChain`, `SecAcquisition`, `SecCorpus`), `MCStudies`
(the E4 and E4-R modules).  Parts that share no state are put side by side: a
variable `part`, chosen initially, says which one a behaviour runs, so that one
run asks one family of questions without multiplying the states.  Where the
parts do share a budget or a worker, their own modules say how: `ServingChain`
takes the time a request spends in `RequestAdmission` and `WorkerIsolation` as
a reading time and up to two budgets, and `AgentRun` the worker as something
that may be killed at any step.

`..._proofs` modules hold the theorems.  `PROJECT.json` maps every definition
to the lines it stands for.

### Abstractions

*All modules.*  A hash identifies what it hashes, except where the code cuts it
short: bundle identifiers may collide.  Identifiers are fresh numbers.  Text,
logging and formatting are left out.

*Risk cases.*  A call whose checks fail answers 422 before it has touched
anything shared: it is the absence of its action.  Snapshots are immutable, so
reading one belongs to the step that reads the row.  `Restart` loses every copy
in flight and no committed row; the case and its event are one transaction.
The model is of the database repository; the in-memory one runs the same check
under a lock, and its listings, which iterate without it, are not modelled.
What a caller is told after its commit is not modelled either: an answer that
is lost leaves the store as it is.

*Worker isolation.*  The sleep between polls has no length; the deadline may
pass at any point after the start.  A child may ignore SIGTERM and survive
SIGKILL as an unreaped process, which the code reports as "unreclaimed".

*Rate limiter.*  PostgreSQL at READ COMMITTED as the queries use it: `now()` is
the transaction's start, deletes show to others at commit, a delete waits for
another's delete of the same row.  The code sets no `statement_timeout`, so
`MaxDelay`, the longest a transaction lasts, is an assumption about the
environment, and the properties name it.  Every API process has two limiter
objects (API and bootstrap) on the one table.  A deadlock's victim gets
`RateLimiterUnavailable`, a 503 (`Fail`).  Collisions of the key's lock number
are not modelled.

*Credentials.*  A credential is its id; authentication reads and changes
nothing.  In the durable store a rotation is one transaction on a locked row;
in the process it is a sequence of dictionary operations that interleave.

*Request admission.*  Commands and queries are the routes that ask for an API
key; health and bootstrap are excluded.  `Envelopes` merges everything that is
decided before the body: the configured limit and `Content-Length`.  `Cancel`
is the server's shutdown, and work already given to a thread ends first.
`MaxStrays` bounds temporary files left by a failed write.

*Agent run and chain.*  What tools compute is data: a run is determined by its
input and what extraction yielded.  The calls of the page that are no analysis
(entities, the pilot table; 8 seconds in the browser against 62 in the proxy)
are left out of the chain.

*Assurance.*  Scores are whole points and ratios whole percentages; the
standard deviation is compared without its root, which is exact for two
dimensions.  Coverage is whether it reaches the policy's minimum.  A verified
path cites at least one piece of evidence, an unverified one none, which is
what `build_decision_trace` produces.  Reliability and probability are None and
calibration UNCALIBRATED, as in every call of the runtime.  The API passes no
reference profile; other callers of the agent may, and the model lets them.
The critic's two other challenges cannot occur: inapplicable model outputs are
removed before it sees them, and claims are formatted, never free text.
Severity labels and diagnostics are left out.  How extraction went is one of
four inputs (`Narratives`).  The two routes differ on one of them, and the
model keeps the difference: `pipeline.assess` calls an extraction suppressed
when no claim was *accepted* (`pipeline.py:353`), the agent only when none was
*extracted* (`agent/orchestrator.py:117`), so that a document whose claims all
fail verification is escalated on the deterministic route alone.

*Calculation and ingestion.*  Numbers are exact fractions, of which an instance
uses a few; labels are recognised, and scales, currencies and spellings are
left out.  The metrics are those the rules of the instance need, one at least
of each shape of the code.

*Research.*  A file is the record of what it was derived from, so that a hash
of it is the file; a fit is a deterministic function of its inputs, which is
what the seeds and the lock file are for, and the machines that differ are a
parameter.  The statistics themselves (fits, bootstraps, intervals) are
parameters or left out: the models are of who derives what from what, when.
A SHA-256 rank is an arbitrary order.

## 3. The runs

| Run | Asks | Bounds, and why they are enough |
|---|---|---|
| `cases` | Is every successful call atomic, whoever interleaves? Do the proof gate, the trail and progress hold? | Two threads, three users (analyst and manager of one tenant, manager of another), three dossiers (with and without verified evidence, another tenant's), one case, five calls, one restart: two threads already give every race of two saves, and five calls reach resolution and reopening. One case, because no operation reads two. |
| `cases_reopen` | Does every way back to open record a reason? *(no)* | One manager, one dossier, seven calls: the shortest way from created to resolved and back. |
| `persist` | Are certificates and execution records grounded, complete and unique through races and failures? | Two threads, three analyses, five kinds of result: identical, of an upgraded engine, with a colliding identifier, unverifiable, unbuildable; a writer and a viewer. Every pair of results can race, and a third arrives later. |
| `persist_dedup` | Is equal evidence stored once? *(no)* | Two threads, one result. |
| `gateway` | Does the quota hold in every window, is every refusal earned, what can deadlock, by how much are caps missed? Has an organization one key, and is any job stranded? | Window: two limiters, one key (keys meet only in the capacity check), quota 2, window 2, six ticks, so that three windows pass and rows expire, are swept and pruned. Capacity: three keys and a table of three rows, five calls. Keys: three callers, two organizations, five credentials, in both stores: two rotate while a third bootstraps. Fallback: three keys for two places. Queue: two workers, four enqueues under three identities, two attempts. |
| `limiter_spent` | Does a spent quota stay spent for the whole window? *(no)* | As the window of `gateway`, two rows per sweep, four ticks. |
| `assurance` | Do engine and verifier agree, is a relaxed decision supported, is every step monotone? Do tables, facts and findings keep their year, order and proof? | Two dimensions, two rules and a tension on three pieces of evidence, one score per band, four policies that differ where the code branches, one reference observation per way through the distribution check. Tables of two rows (two of one item make a conflict) under every header of two years; three filings of companyfacts; filings of five themes with amounts on either side of each threshold, no reference or one of them unverified, and a claim. |
| `columns` | Does a number stay under its year? *(no)* | As above. |
| `serving` | Are slots conserved, uploads charged first, ends reached? Does an isolated worker keep its promise? Is an answer whole, a replay explained, a page truthful? | Three connections for two slots, bodies of up to two chunks with a limit of one: a request more than there are slots, a chunk more than the limit. One worker whose child may do anything, cancelled any number of times. Three runs or replays, three attempts at the provider, four inputs that give every form of the plan, one release. One analysis in half seconds: budget 60 s, reading 30 s, graces of 2 s and 4 s, messages under way for at most half a second. |
| `research` | Is what the verifiers accept, and scores are computed with, one study? Is what is acquired authentic, are labels final? | Two contents of each input, two families of two blocks with ties and a failed fit, two machines, three kills or edits, one commit. A chain of the four stages that have checks, two versions of two files, two mishaps. Two processes and two documents in two versions, one retry, one crash. Five quarters of archives: revenue and cash flow of the second year well, bad or missing, income well or bad, assets smaller where revenue is missing, quarterly reports absent or after the annual one. |
| `years` | Is an observation of its fiscal year? *(no)* | As the archives of `research`. |
| `studies` | Is a reproduced study one run of the model, each case answered once, the cohort fair, the robustness study one, its scores blind? Does a diligent person finish? | The fifteen commands with two kills and two removals. Three cases in two representations, batches of one to three, four faults. Ten filings of seven companies in three sectors. Three packets (two with the same labels, one leaking), two configurations, two runs, two edits. Four observations in three folds, eleven data sets: one sound, ten unlike it in one place. |

`CHECK_DEADLOCK FALSE` stands where a bound, or the end of the one call or
study, stops the model.  `gateway` alone uses symmetry (limiters and the keys
that fill the table), for it checks no liveness.

### What they show

Five runs end in a counterexample and show where the code and its own words
part:

- `cases_reopen`: a RESOLVED case goes back to OPEN through the plain
  transition (`enterprise/workflow.py:15`), without the actor, reason and
  timestamp that `docs/risk_case_workflow.md:11` requires of a reopen.
- `persist_dedup`: two identical analyses both look before either saves, and
  store one content under two identifiers (`api.py:425`), although "same
  evidence, same id".  `DuplicatesAreBounded` and `IdentitySettles` say what
  holds instead: never more rows than threads, and no further row once nobody
  is between the lookup and the save.
- `limiter_spent`: an admission is stamped with the start of a transaction
  that may have waited (`enterprise/security.py:266`), so its row leaves the
  window early.  `QuotaHolds` says what holds instead: the limit in every
  window shortened by the longest transaction.
- `columns`: `extract_values` pairs the last numbers of a row with the first
  years of its header and drops dashes before it counts (`parser.py:92`): a
  row with a note number and a dash moves each number one year, and the result
  is handed on as verified.  `ReviewIsAsked` says what is caught: two values,
  unknown statements, numbers that trace to nothing.
- `years`: companyfacts lists a filing's comparatives under the filing's own
  fiscal year, and the bulk import anchors on the first of them
  (`sec_bulk.py:254`), which `xbrl.py:304` warns of.

The passing runs show the properties of `PROJECT.json` on these instances.
Some are conjunctions of what used to be asked apart:

- `HistoryIsExact`: executions are grounded, every success that was answered is
  recorded, and recorded once, only one record claims a first use; a sound
  analysis goes unrecorded only by an outage or a colliding identifier.
- `CapsAreKept`: the shared table overshoots by no more than the limiters past
  the check, and the fallback forgets only what newcomers crowded out.
- `EverythingEnds`: requests, and the call of a worker whose child hangs.
- `TroubleNeverHelps`: losing evidence never improves a decision, an adverse
  finding never clears one, and the agent's route is never laxer than the
  deterministic one.
- `AnswersAreWhole`: an answer that is kept has a frozen assessment and a
  certificate, its trace is the plan, its attempts its own, its status that of
  its decision.
- `DriftIsExplained`: a replay that differs differs in what the provider
  answered, or for one of two reasons named below.
- `EveryCaseAnsweredOnce`: through retries and bisection every case gets one
  answer or one recorded failure, and the replay gives the same or refuses.
- `PublishedIsOneStudy`: what the verifier of the reference accepts, and the
  loader scores with, stems from one set of inputs.
- `VerifiedHeadlinesAgree`: whatever modes were run before, scores that verify
  passed an audit on a packet with the labels of the one in the tree, statistics
  and sectors are about these scores, and the extensions stem from one packet and
  the configuration in the tree.  It does not say that ledger and statistics stem
  from that configuration, nor that an extension was fitted on an audited packet:
  see below.

### Seen on the way

What follows is no counterexample of a run: the models state what holds with it,
or leave it out.

*Limits.*  A key admitted while the table was less than half full keeps its
quota, and keys admitted so can fill it and then be refused
(`enterprise/security.py:251`, `:254`).  The proxy's one budget and two seconds
(`src/frontend/lib/proxy.mjs:117`, comment at `:114`) is shorter than the
reading clock and two budgets the back end may spend: the analysis is then
stored, and the page shows a failure, truthfully.  The three records of an
analysis are three commits (`api.py:434`, `:476`, `:505`): a request that fails
after the first is answered 422, 500 or 503 and leaves its snapshot, which an
analysis of the same filing finds and uses again.  A 503 of the back end itself
(no slot, unsafe configuration, datastore) is shown as an unreachable upstream
(`src/frontend/lib/api.ts:10`, `:239`).  Nothing in the repository runs workers
over the job queue; `complete` and `fail` do not look at a job's status, so an
answer given twice would revive a finished job, and a job whose worker died
stays running (`enterprise/jobs.py:44`, `:49`): `NoJobIsStranded` is about workers that
answer once, and exempts the dead.  That the browser outlasts
the proxy needs a message to take less than a second
(`2 * Latency + ProxyGrace < BrowserGrace`).

*Replay.*  The frozen input leaves out the assurance reference
(`agent/orchestrator.py:239`, against `docs/assurance_architecture.md:239`), and
the cost of a run that is not over pages is that of the run before it in the
same context: replays of such runs drift.

*Studies.*  Once the predictions of E4 are frozen, files of the local model that
are missing or stem from different runs of it can no longer be replaced, and
the study is doomed (`Doomed`); `all` never runs
`verify-agent-replay`, which the report expects (`src/scripts/run_e4.py:416`,
`src/scripts/render_e4_readme.py:113`), and a replay raises on responses that
were kept although rejected.  The rebuild of the reference claims that it
verifies before anything has verified it.  Unlocking the last stage of E5 edits
a tree that earlier manifests record, and blind predictions are checked against
mounts rather than outcomes (`e5_harness.py:260`, `:530`); its check of
disjointness is narrower than the comment at line 43.  In E4-R two JSON files
stand in no manifest; with `--extensions` an older ledger, or statistics under
an edited configuration, verify; "exactly once" is decided on sets;
`--skip-extensions` leaves a placeholder on which verification raises; and
`--extensions` returns before the leakage stage that `e4r_leakage.py:7` promises
before every evaluation.

*Data.*  A crash between a cached document and its hash makes the key unusable
until somebody removes it, and so can two concurrent first fetches of different
payloads; a torn manifest stops the next run.  Both fail closed, which is what
`AcquiredIsAuthentic` rests on.  Labels are final if archives arrive whole and
in order; the files of an import are written one after another.  A restated
value is marked when one filing has two, not when the concept changes;
comparatives of a later annual report are ignored; an unusable newest value
shadows an older usable one.  The concepts of a line item are called ordered
aliases of which the first wins (`xbrl.py:24`); the newest filing wins, and the
order decides ties only.  A Unicode minus is matched and cannot be parsed,
so its value is dropped in silence, and an unusable first candidate drops a line
item without a review issue.  In the assessment a proven contradiction can
vanish when an unverified net income makes a ratio unavailable, and tensions can
contradict the list of contradictions (`pipeline.py:428`).

### Fairness

Clients owe nothing anywhere.

- `RiskCases`: a thread that holds a copy goes on to save it
  (`WF(Save \/ Reject)`); between reading and saving there is no wait.
- `ServingSpec`: the event loop runs the parent of a worker and the clock
  reaches the deadline (`WF(ParentStep)`, `WF(Expire)`); the child owes nothing.
  In the boundaries pool threads return, the read clock and the workers'
  deadlines ring, and a response is taken or its connection dropped
  (`WF(Progress(c))`).  For the last the code has no clock of its own; it is an
  assumption about the server under it.
- `StudiesSpec`: a command that runs goes on (`WF` of a write, of the advance
  and of the mount); a person starts `all` again after it ended (`SF`, for kills
  and removals disable it now and then), clears up after a killed command and
  verifies the replay, as `EXECUTION_RESTART_REPORT.md` describes.  Kills and
  removals are bounded, and owe nothing.

`GatewaySpec`, `AnalysisSpec`, `ResearchSpec` and the `Spec` of
`AnalysisPersistence` state no liveness: a blocked
transaction ends by PostgreSQL's deadlock detection, an analysis is a straight
line, and nobody is obliged to rebuild, freeze or download.

## 4. The proofs

For every value of the constants, under the `ASSUME`s of the modules:

- `RiskCases_proofs`.  Type correctness, then `CopyIsCurrentOrDoomed`, the
  inductive core: a copy in flight is exactly what the operation makes of the
  row as it is stored *now*, or its version is stale and its save will be
  refused.  With the freshness of event identifiers (`IdsAreFresh`) it follows
  that every step that stores anything is one operation on the current row
  (`StoreSteps`), and from that, one property at a time: `ProofGate`,
  `AuditExplainsRow`, `TenantsStayApart`, that nothing recorded is lost, that a
  closed case stays closed, and the refinement of `RiskCaseLedger`.
- `AnalysisPersistence_proofs`.  `CertificatesAreGrounded` is not inductive:
  it needs to know what a call in flight has already stored.  `Grounded` adds
  that for every step of a call (`CallsAreGrounded`) and is; the store only
  grows, so calls that do not move stay grounded.  `DuplicatesAreBounded` is
  proved with a count of rows plus threads in the gap, `IdentitySettles` from
  the same lemma.
- `Filings_proofs` follows a filing.  For the worker that parses it, `IInv`
  says what the outcome can be in each section of the code (body, cleanup,
  cancelled) and what the directory tells of the child; safety
  (`NoSilentOrphan`, truthful outcomes, no swallowed cancellation) and the
  refinement of `WorkerPromise` follow.  For its tables, what is selected is one
  of the best candidates of its group (`SelectedIsTop`, from `FirstOf`), so
  whatever contradicts it is one of them too, and was asked about:
  `ReviewIsAlwaysAsked`, for rows of any length under any header.  Of
  companyfacts the code keeps the last entry after a sort, and the first slot
  (concept and unit) that no other beats; both orders are strict and total
  (`FirstInOrder`), so there is one of each (`LastFiledIs`, `BestSlotIs`), and
  nothing that reports the line item is later (`SelectedIsNewest`).  A sum of
  debts needs more: that entries of one accession are filed on one day
  (`Payload`, the inductive invariant), and that no concept is both a short-term
  and a long-term debt (`ConceptAssumption`, as in `CONCEPTS`), or the concepts
  of a sum would not tell those of its parts.  `FactsAlwaysFollowFilings`
  follows for payloads that only grow.  For the
  assessment the code says twice what a fact needs, where it computes it and
  where it asks for proof, and the proof sets one list against the other:
  each level, growth and trend is computed from its inputs alone
  (`LevelsStand`, `GrowthsStand`, `TrendsStand`), a covered fact requires
  nothing that is not verified (`RequiredAgree`), and what it requires contains
  its inputs (`LevelRequires`, `GrowthRequires`, `TrendRequires`).  So no change
  of an unverified number moves a covered fact (`FactsStand`), and
  `ProvenFindingsAlwaysStand` follows for every set of rules.  There is one
  exception, which `RuleAssumption` states: the sum of short-term and long-term
  debt is a fact under the name of a line item, and as such asks for a line item
  that was not reported; no rule in `rules.json` and no check is on it.
  `SameStructureNeverDrifts` multiplies fractions crosswise (`QuotientsAlike`,
  `GrowthsAlike`): quotients and growths of numbers that grew alike are equal,
  and a difference of equal fractions is zero, with signs and with missing
  numbers.  `FilingAssumption` says what a filing is; the line items are any
  integers over any positive ones.
- `Gateway_proofs`.  In the rate limiter two readings of the table have to
  meet: an admission is a row until it is older than the window (`Kept`), and a
  row is an admission (`Accounted`).  With the key's lock (`Locked`), what a
  transaction has counted still holds when it inserts (`Counted`, `Pruned`,
  `Earned`), and `QuotaHolds` and `RefusalsAreEarned` are inductive on top.
  For the deadlocks it is enough that nobody who waits has deleted anything
  unless it swept (`SweepersDelete`: `OnlySweepersEverDeadlock`).  The cap of
  the table is not inductive: it needs to know who is past the check and what
  each of them will free.  `Room` counts them with the rows (a transaction
  whose deletes are still live brings its own room), `KeyRoom` the keys with
  the newcomers let in without pressure; that no two transactions delete one
  row (`DropsApart`), only rows of their own key or past retention
  (`OwnOrStale`), makes the exchange one for one (`Traded`), and a key admitted
  under pressure has a row that outlives its transaction (`Known`, from
  `RetentionAssumption`: `retention_factor` is two).  `CapacityStaysBounded`
  is the first half of `CapsAreKept`, for every table.
  The other half is about what the fallback forgets.  `LocalInv` says that the
  dict is in the order of last calls (`InOrder`), that a key which is not in it
  has seen `max_keys` others call since it did (`Forgotten`), and that a deque
  holds what was admitted since the call that made it, as far as the window
  reaches (`Remembered`).  So a key that gets more than its limit was evicted
  between two calls, by `max_keys` others: `FallbackForgetsOnlyCrowdedOut`.
  For keys, `CredInv` ties each caller to the rows it will
  touch: an organization whose bootstrap is between its commits has no key and
  waits for one caller (`Vacant`); a rotation holds a key of its organization
  and an identifier nobody else has, and in the durable store the key is live
  and locked (`Held`).  Every other organization is then served (`AllServed`,
  with one live key as a singleton rather than a count).  For jobs, no two
  workers claim one (`ClaimsAreSole`), and what a job's status says is so.  The
  theorems are `OneKeyEach` and `NoJobEverStranded`.
- `Serving_proofs`.  Conservation of slots, with what a request can
  hold and has been charged at each of its steps (`RequestInv`); one case per
  action, and three lemmas about the holders of slots when a request stays,
  enters or leaves.  `CostsAreHeldInside` follows and has no run of its own.
  For the chain of browser, proxy and back end, `ChainInv` says that the
  browser's clock is ahead of the proxy's by the difference of the graces less
  the messages under way (`BrowserOutlasts`, from `ChainAssumption`), what each
  of the three has been answered (`BackendAnswers`, `ProxyAnswers`,
  `PageWasTold`), and what an answer says of the records that are there
  (`StoredAnswers`): `PagesTellTheTruth` for every budget, grace and latency.
  For the agent, `AgentInv` says that the trace is a prefix of the plan
  (`FollowsInv`) and how long it is at each point of a run (`ProgressInv`), that
  every attempt but the last invited another and the log is the run's own
  (`AttemptsInv`), what decision, snapshot and status follow from
  (`OutcomeInv`), and that what a caller kept can be run again (`KeptInv`).
  An exception may end a run anywhere, so each part is stated for a run that
  stopped there.  `AnswersAreAlwaysWhole` and `DriftIsAlwaysExplained` follow.
- `AssuranceRuntime_proofs`.  `RouteInv` says what each stage has derived from
  the assessment; it is inductive by itself.  `OnlyEscalates` then needs the
  verifier's conditions only, whatever the engine concludes.
  `AuthorizedIsSupported` follows from "VERIFIED" and "no flips" by counting:
  as many verified paths as paths are all of them, no flips are an empty set of
  them.  `VerifierPinsTheDecision` holds because the verifier derives decision,
  automation and status from fields nobody altered, as the engine did.
  `EngineAlwaysStands` puts engine, verifier, service and repository side by
  side (`EngineVerifies`, `VerifierAgrees`): every result the engine issues is
  accepted by what comes after it, so no analysis fails.  Its exact search
  tries candidates in a strict total order, smaller ones first (`SearchOrder`),
  so there is a first that preserves and it is a smallest (`FirstExists`,
  `ExactIsSound`); the greedy pass says truly whether its set preserves
  (`GreedyIsSound`).
  `AgentNeverLaxer` compares two routes over one assessment: the agent's
  failures include the deterministic ones, and what blocks a proposal still
  does when more has failed (`MoreFailuresBlock`).
  With it `TroubleNeverPays` says that trouble never helps.  A path that lost
  its evidence keeps its score and is not verified any more (`EvidenceGone`):
  fusion says the same, more has failed, and one such path blocks an
  authorization, so what is left ends in REVIEW at least, or in ABSTAIN if it
  did before (`RemovalCompares`).  A further
  dimension can only raise the maximum, and the uplift by the number of those
  elevated (`AggregateGrows`); that it clears nothing needs more, since it may
  bring scores closer together and end a disagreement.  Scores of at most t
  have a standard deviation of t/2 at most (`SumsCompare`, with sums over finite
  sets compared by hand), so if all that remain pass they agree
  (`CloseScoresAgree`).  This rests on `PassingScoresAgree`: the review score
  is at most the tolerated disagreement, 40 and 45 as deployed; under a policy
  without it scores that pass could disagree, and a dimension end that.
- `Research_proofs`.  `FreezeInv` ties the hash a manifest carries to the
  tree it was frozen over: a manifest may be edited, torn or deleted, but no
  edit gives it the hash of another tree, and that is what the verifier
  compares.  `VerifiedChainIsOneStudy` and `ModelPrecedesProtocol` follow from
  the invariant and the verifier's checks alone.  For what is fetched from the
  SEC, `SecInv` says that a payload in hand was served in full
  (`BodiesAreServed`), that the acquirer's list is the manifest until it writes
  it and every entry has its snapshot (`ListsAreBacked`), and that an unfinished
  file of the cache has somebody at it while nobody died (`CacheIsTended`).
  `AcquiredIsAuthentic` follows, under the assumption that one process
  at most acquires (`SecAssumption`): the script is started by hand, and two
  would overwrite one manifest.  For the fitted reference, `StudyInv` says what a
  manifest binds (`Binds`: files of one rebuild, approved with hashes that
  differ from what it read only in inputs edited meanwhile), which files carry
  the basis of the rebuild under way (`BuilderInv`), and that a loader holds
  what its manifest names unless a rebuild raced it (`ReaderInv`):
  `PublishedIsAlwaysOneStudy`, with machines, inputs and fits as parameters.
  For the labels, `CorpusInv` says that one that is final is what an import of
  the archives there are now would give (`FinalInv`).  A filing has a place
  (archive, row), which makes the order of filing total (`FiledInOrder`), as a
  stable sort does.  A later archive only adds filings after all of them
  (`Extended`), so the original filing of a year stays (`SameOriginal`), with it
  the observation and its outcome (`PoolGrows`), and two reports that count
  within a window keep counting (`SameReports`).  What may still happen is that
  a second report turns an unknown condition into a known one, or that a year
  gets its outcome past the window: but a verified label was decided whichever
  way the unknown ones turn out (`LabelledKept`), and the code of an unlabelled
  observation is final only once something known reaches the horizon
  (`LabelKept`).  `LabelsAreAlwaysFinal` needs that the SEC cuts its archives by
  the quarter of filing (`CorpusAssumption`): one with an earlier filing than an
  archive before it would replace an original.
- `Studies_proofs`.  In the staged study every file is written, and can be
  removed, at one stage only (`Homes`); so a comparison made at a stage is
  still true when the study is past it (`StageInv`), and a command under way
  keeps what it checked at its start (`CommandInv`).
  `ReproducedStudyIsAlwaysOneRun` then holds for any number of kills and
  removals.  For the local model's batches, `FatesInv` says of each case that is
  past which call answered it, or that two about it alone failed, and of the
  others how often they were asked alone; `CallsInv` that an accepted record has
  answered all it was about and any other does not parse.  The bound on the
  calls needs to know what a batch may still take: four a case less two for each
  part still to be asked (`CallsBound`), which no retry, split, answer or
  surrender overdraws.  A record that was rejected and kept stops the replay, as
  its cases have their predictions from elsewhere (`ReplayIsSafe`).
  `EveryCaseIsAnsweredOnce` holds for every cut into batches that fits, any
  answers and any number of failures.  For the cohort, `ScanInv` says that a
  company's candidate is the earliest of its eligible filings read so far, in
  whatever order they come, and `DrawInv` what was drawn from the candidates.
  That the draw fills the limit exactly is arithmetic over the sectors
  (`SampleIs`): a floor loses less than one seat of a sector's share, so the
  seats left are fewer than the sectors (`Adds`, `AllAdd`, which goes by a least
  counterexample); and in a strict order of a finite set exactly n have fewer
  than n before them (`FirstOnes`), both for the sectors with the largest
  remainders and for the companies within a sector.  `CohortIsAlwaysFair` assumes
  finitely many filings with numbers for dates and sectors, and ranks that tell
  companies apart (`CohortAssumption`).  In the nested loop, `FoldsInv` says what the model of each scored
  fold has seen: never the company it scores.  That nobody is on both sides under
  another name rests on the audit, which a run with `--extensions` does without:
  as many CIKs as observations are one each (`NobodyTwice`, by cardinalities).
  `ScoresAreAlwaysBlind` assumes finite packets whose days are numbers
  (`CVAssumption`).  In the robustness study the plan of a run is in order
  (`Plans`, `NextStep`), so a run that gets to its manifest has audited its
  packet, or taken its scores from a ledger that was (`LedgerInv`), and has
  written each extension itself (`RunInv`); what a manifest lists is then of one
  run (`ManifestInv`) although a verifier compares few of these files.
  `VerifiedHeadlinesAlwaysAgree` assumes that the study on disk at first passed
  its audit (`FirstPacketAssumption`).

Induction over naturals is done by hand where a proof needs it: a set of
numbers that is not empty has a least one (`LeastNatural`, `LeastOf`, from the library's
theorem about well-founded orders), and the property holds below it.

Only model-checked: liveness (`SomeCallCommits`, `EverythingEnds`,
`StudyFinishes`), since the prover has no fairness; of `HistoryIsExact`, which is
safety throughout, that first uses are unique and rejections real
(`AlwaysGrounded` has the rest); and `CapsAreKept` as one formula over the behaviours of `MCGateway`,
which joins two instances of the limiter: its halves are theorems of the two
components, `CapacityStaysBounded` and `FallbackForgetsOnlyCrowdedOut`.

## 5. Not modelled

- *Temporal risk and evidence graph* (`enterprise/temporal.py`,
  `evidence_graph.py`): a list that refuses a period out of order, and in the
  repository a lookup under a lock and a sort; differences of two snapshots,
  and a path enumeration with a cap, are pure and have one comparison each.
- *Model governance and policies*: one table of transitions on a record that is
  returned and kept by nobody; comparison of versions and calibration are
  arithmetic on floats.
- *Portfolio, scenarios, applicability, alerts*: pure reports over one input.
  That an inapplicable model output is removed restricts the assessments the
  models start from.
- *Document storage*: a write and a read of one file; nothing constructs it.
- *Connection pool, readiness, migrations*: time-outs of a library's pool and
  probes of the schema.  An outage is a failing call in every model.
- *Observability and telemetry*: no decision reads them.
- *Reading of PDFs, recognition of labels, spellings of numbers*: text.
- *Scoring models and metrics outside the modelled rules*: floats.
- *Statistics of the studies* (fits, bootstraps, intervals, figures) and the
  research modules that compute nothing else: numbers on recorded data, which
  the artifact models treat as contents.
- *Release checks over HTTP, reports, deployment, the remaining scripts*:
  one-shot formatting and verification of a running service.

The components these belong to are `not_modelled`, or `partly` where the rest
is modelled.
