# A verification project for Magenta Retain

Magenta Retain is an agent that tries to keep telecom customers from leaving. This directory
models its concurrent and transactional core, and the commands that measure it, in TLA+, checks them with TLC on small instances and
proves the central facts with TLAPS for all instances. Paths below are relative to
`backend/src/magenta/` unless they start with another directory.

## 1. The system

| Part | State it keeps | Operations | Hard behaviour | Makes it correct |
|---|---|---|---|---|
| Decision spine (`graph/`) | FULFILLMENTS, GUARDRAIL_CONTACTS, AUDIT_LOG; per run the graph state; the checkpointer | nodes sense, diagnose, decide, guardrail, act, outcome; `persist_audit` | runs interleave between commits, die half-way, re-run, share one connection | an offer is granted once and reported truthfully; no gate is skipped; the audit trail is complete |
| Negotiation chat (`chat/`, `api/routes_chat.py`, `api/chat_sessions.py`, `frontend/src/pages/Negotiation.tsx`) | a `RetentionChat` per session: dialogue state, ladder, offer on the table, confirm flag | start, turn, close, expiry; `run_negotiation` | concurrent turns of one session (the page's Enter key is not disabled while a turn is in flight), turns after an end state, authority cap, exceptions mid-turn, lost replies | nothing is fulfilled without an offer shown and a yes to it |
| Tenant dependencies (`api/deps.py`, `tenancy.py`, `db.py`, `api/population.py`) | bounded TTL caches, the build lock, one pooled connection per tenant | get, put, evict, build | eviction under use, cold-build race, pool exhaustion | one build per cold tenant; capacity; connections are given back |
| LLM gateway (`llm.py`, `budget.py`, `context.py`, `graph/system2.py`) | LLM_USAGE, the cached budget verdict, the tenant in a contextvar | chat, chat_structured, retry, meter, deliberate | rate limits, stale verdicts, a thread pool that loses the context | bounded retries; every reply metered; spend stops at the budget |
| Cost levers (`cost/`, `graph/batch_diagnose.py`) | SEMANTIC_CACHE, CostMeter | `magenta cost report` | a report that fails half-way and is run again, reports side by side | reuse does not drift, only reports side by side pay twice |
| Provisioning (`auth.py`, `jobs.py`, `storage.py`, `api/routes_org.py`) | organisations, job queue, model artifacts | ensure_org, train, retry_stalled | overlapping first requests, a stalled worker that comes back, two trainers of one file | one organisation and one job; done means trained |
| Customer memory (`memory/`) | temporal edges | add_edge, consolidate, timeline; `magenta memory eval` | evaluations that overlap or die in one table | one open edge per fact; an evaluation cleans up |
| Experiments and response simulator (`experiment.py`, `graph/ablation.py`, `graph/policy.py`, `sim/oracle.py`, `sim/events.py`) | arms, spend, score card; seeded random streams | run_experiment, the ladder; outcome | budget cut-off, holdout split, pairing of rungs by the seed | disjoint arms; spend within the budget; offers act only the way they should |
| Bandit (`brain/bandit.py`) | posterior per arm; BANDIT_POSTERIOR | select, update, save, load | load-update-save of concurrent processes, deaths | rows of one save; nothing lost but to an overlap |
| Evaluation (`evalx/`, `graph/scenario.py`) | the scenarios' throwaway tenants | golden set, hard checks, judge | scans of several queries beside runs that commit | scenarios repeat; scans see what there is and no more |
| Streams (`api/sse.py`, `api/routes_stream.py`) | none | guarded_stream | exceptions after the response has started | every stream ends with `done` |
| Models and population (`brain/risk.py`, `brain/uplift.py`, `sim/population.py`, ...) | seeded population, fitted models | generate, score | numeric only | statistics, not protocols |

How they interact: the API resolves a tenant (`auth`, `context`), gets its dependencies from the
cache (`api/deps`) and runs the graph in a worker thread over the tenant's **one** cached
connection; AgentPolicy runs the same graph inside experiments over that connection; the CLI opens
its own connection and the Postgres checkpointer; a chat turn calls the Act node alone. The three
meet only in the database tables. Every one of them reaches the LLM through the gateway, which
reads the tenant from the context of the thread it runs on. The commands of the laboratory (cost
report, experiment, eval report, memory eval) are processes of their own over the same tables.

`PROJECT.json` lists every component with its status and every hazard at its line.

## 2. Plan

Order: what can do most harm first.

1. **RetentionSpine** with its abstract contract **OfferLedger** (done, every
   safety property and the refinement proved).
2. **Negotiation**: RetentionChat, the ladder, the controller and both drivers, with
   concurrent turns; it implements **OfferLedger** too (done; every safety property and the
   refinement proved). What is left of this part: the session store (expiry, one-owner lookups).
3. **DepsCache**: BoundedTTLCache, the build lock, connections, the pool and the worker that
   writes the files (done, every safety property proved).
4. **LlmGateway**: budget verdict cache, retry loop, fallback and repair, metering, the council's
   thread pool (done, every safety property proved).
5. **Provisioning**: ensure_org, the workers, stalled retries, artifacts (done, every safety
   property proved).
6. The laboratory, one module per command: **CostReport**, **Experiment** (with the response
   simulator), **BanditStore** with its abstract **PosteriorStore**, **GoldenReport**, **MemoryEval**
   (done, every safety property and the refinement proved).

Abstract specifications worth stating: OfferLedger (done, implemented by the spine and by the
chat) and PosteriorStore (done, implemented by BanditStore). The modules use no RECURSIVE operator, so that they can be proved about.

## 3. The modules

### RetentionSpine

One tenant (all tables and keys carry TENANT_ID). Each statement that ends in a commit is one
action, so other runs and deaths come between any two.

| Code | Model |
|---|---|
| `OverallState` fields of a run | `request`, `diagnosed`, `offer`, `failed`, `log` |
| Act's local `already` | `already` |
| LangGraph's position in the graph, the statement inside Act | `pc` |
| FULFILLMENTS, GUARDRAIL_CONTACTS, AUDIT_LOG | `fulfillments`, `contacts`, `audit` |
| `audit_log` channel in PostgresSaver (CLI only) | `thread`, per customer and campaign |
| bandit posterior | `trained`: the runs it has learned from |
| wall clock | `now` |

`StartApi`, `StartCli`, `StartPolicy`, `StartChat` are the four callers. `Sense` ... `Outcome` are
the nodes with the conditional edges that leave them; `ActNoAction`, `ActShadow`, `ActLookup`,
`ActInsert`, `ActContact` are Act statement by statement. `Abort` is a death, an exception or a
client that leaves its stream: the audit entries of the run are lost. `AbortMidPersist` is a death
inside `persist_audit` on the connection that API runs share, where another run's commit has made a
prefix of the rows durable.

Abstracted: scores, LLM text, the arm the bandit or the council picks (any of the candidates), the
labels DECIDE and DECIDE_S2 (one node). Fields `by`, `writer` and `run` of rows are not columns: they
say which run made the row. Shipped callers always pass the MARKETING flag as true; the constant
`Consenting` keeps the gate's other branch, which the node's tests exercise. The memory hook is
left out because every shipped `GraphDeps` has `memory=None`. The RuntimeError at the end of
`insert_fulfillment` is unreachable: nothing deletes rows.

### OfferLedger

The contract of the tables, without runs: `Grant` (once per offer), `Notify` (only of a granted
offer, once per run), `Report` (true statements only). `RetentionSpine!ImplementsLedger` is the
refinement: rows map to grants, contacts to notices, Act entries in AUDIT_LOG to reports.

### Negotiation

One session. An action is a piece of `RetentionChat.respond()` between two points where another
thread can act: the LLM calls, Act's committed statements, and the checks a later statement relies
on.

| Code | Model |
|---|---|
| `OfferLadder._rungs`, `_position` | `rungs` (sorted as `Ladders` says), `position` (0 before open, else the index plus one) |
| `RetentionChat._current_offer`, `_awaiting_confirm` | `current`, `awaiting` |
| `DialogueState.status`, `commitments`, `concessions_made` | `status`, `commitments`, `conceded` |
| the substring test of the turn's text for `_ACCEPT_WORDS` | `yes`, any Boolean |
| the Perception | `heard`: the five classes `next_act` and the NEGOTIATE branch tell apart |
| locals `accepted_offer`, `nxt` | `held` |
| Act's `already` | `already` |
| `run_negotiation`'s `final_offer` and result | `final`, `result` |
| FULFILLMENTS, GUARDRAIL_CONTACTS of this customer | `fulfillments`, `contacts` |

| Code | Action |
|---|---|
| the loop of `run_negotiation`; `POST /turn` from the page | `Submit`, `Finish`, `Leave` |
| `perceive` | `Perceive` |
| the confirmation gate | `Gate` |
| `next_act` and CLARIFY, HANDOFF | `Clarify`, `Handoff`, `Choose` |
| NEGOTIATE: open the ladder, accept, present | `Negotiate`, `Open`, `NothingFits`, `Accept`, `Present` |
| `OfferLadder.concede` | `Concede`, `Exhausted`, `Advance` |
| wording and `_emit` | `Word`, `Confirm` |
| `_fulfill_via_act_node` | `Lookup`, `Insert`, `RecordContact`, `Accepted` |
| an exception in perceive or in the database | `Fail`: the turn is gone, what it changed stays |

The driver is chosen once: `runner` alternates with the customer, `page` may have `MaxInFlight`
turns in flight and may lose a reply (the connection drops, the worker thread goes on). `prompt`,
`seen` and `orderly` are history: what the customer had in front of them when they sent a turn.
Act is the same three statements that `RetentionSpine` has as `ActLookup`, `ActInsert` and
`ActContact`; sessions and runs of one tenant meet only in the tables, which `RetentionSpine`
shows with `StartChat`. Left out because nothing reads them back into a decision: sentiment
history, `intent_stack`, `ladder_position` of the state, the text of turns.

### DepsCache

A request's way to its tenant's dependencies, and the training job that writes the files these are
built from.

| Code | Model |
|---|---|
| `DEPS_CACHE._data` in LRU order | `cache`, entries named by the request that built them |
| `_BUILD_LOCK` | `buildLock` |
| connections of entries; `ensure_org`'s short connection | `open`; `pc = "resolve"` |
| `risk.joblib`, `uplift.joblib` of a tenant | `disk`: missing, torn or saved |
| `jobs.train_tenant_models` | `training`, `trainings` |
| `time.monotonic()` | `now` |

`Arrive`/`Resolve` are `current_tenant`; `Get` and `Recheck` are `BoundedTTLCache.get` before and
under the lock; `Acquire`, `Load`, `Connect`, `Put` the build, each of which may leave the lock with
an exception; `Use` is whatever the request does with the entry, at any later time. `get` and `put`
are one step each because the cache's own lock covers them, `on_evict` included. The cache is the
sequence of the `OrderedDict`'s items, so `Without` takes an item out and `get` appends it again. `invalidate` and
`clear` have no callers outside tests. The worker's actions save the files one after the other,
`joblib.dump` straight onto the file, and `WorkerDies` leaves half of one. `MaxTrainings` is a bound
of the model.

### Provisioning

| Code | Model |
|---|---|
| position in `current_tenant`'s transaction; its organisation | `pc`, `org` |
| ORGANIZATIONS | `orgs` |
| procrastinate_jobs | `jobs`, named by the request that enqueued them |
| a worker process in `train_tenant_models` | `stage`, `task`, `target`, `tries` |
| an open file of `joblib.dump` that nobody else has had open meanwhile | `alone` |
| history: organisations that two have trained for at once | `together` |
| the worker's row in procrastinate_workers | `fresh` |
| `risk.joblib`, `uplift.joblib` | `disk` |

`Arrive`, `Insert`, `Defer`, `Commit` are `ensure_org` and the commit of `current_tenant`; `Insert`
waits for an uncommitted row of the same key, as PostgreSQL does. `Fetch`, `Train`, `Finish`, `Raise`
are a worker's job, `Provision` is `magenta tenant provision`, `RetryStalled` and `RemoveOld` are the
periodic tasks. Opening a file empties it for whoever else is writing it, and two trainers of one
organisation need not write the same bytes (`provision --n` takes another population, LightGBM is not
told to be deterministic). So `Close` leaves the file whole if the writer had it alone, and whole or
torn otherwise.

Procrastinate is external and modelled by what the code relies on: `queueing_lock` is unique among
jobs to do, `lock` among jobs being done, a stalled job is one that is being done by nobody or by a
worker without a heartbeat, and a finishing worker marks its job whoever the queue thinks has it.
A worker has one job at a time, so the periodic tasks need an idle one. Workers share a disk, as
under docker compose; `render.yaml:92` notes that on Render the web service does not see it.
Token verification keeps no state. `MaxMishaps` and `count` are a bound of the model.

### LlmGateway

A logical call is named after the thread that makes it. A caller may `chat`, call
`chat_structured`, or deliberate, which hands two chats to a pool of two threads of its own.

| Code | Model |
|---|---|
| position in `chat` / `chat_structured` / `_call_with_retry` | `pc`, and `stage`: plain chat, structured parse, JSON mode, repair |
| `current_tenant_id` of a thread's context | `scoped` |
| the `role` argument | `role` |
| `attempt`, `total_slept` | `attempt`, `slept` (milliseconds) |
| `_BUDGET_CACHE`'s entry of the tenant; `is_over_budget`'s local | `verdicts`; `verdict`, with when it was read |
| LLM_USAGE of this month; by ROLE | `used`; `rows` |
| `time.monotonic()`, the calendar | `now`, `months` |

`Check`, `Query`, `Store` are `is_over_budget` around its database query, between which other
threads put their verdicts; `RateLimited`, `Answered`, `ProviderFails` are what the provider may do
with an attempt; `Meter` is `_meter` and `record_usage`, whose exceptions are swallowed; `Valid` and
`Invalid` what the caller does with the reply. `Convene` and `Join` are `deliberate`: `submit` does
not copy the context, so the pool's threads are not in `scoped`. `Tick`, `NewMonth` and `Crowded` (the
cache's other tenants) are the world. `due`, `strays` and `flipped` are history. A reply counts as one
unit of usage, and its text as whether it validates. A notice is the four forms
`_parse_retry_after_seconds` tells apart.

### CostReport

`StartReport` ... `ReportEnds` are the statements of `magenta cost report`: the loop of
`diagnose_cohort` (`LookupHits` or `LookupMisses`, `Cascade`, `Put`), then the quality sample (`Sample`,
`CascadeAgain`, `Compare`); `ReportFails` is an exception or a death in any of them. Reports run one after
the other or side by side: nothing keeps two commands apart, and between a lookup that misses and
its put come the LLM's answers. `semantic` is SEMANTIC_CACHE, which they share and which outlives them;
`out` and `meter` are a command's result and CostMeter, gone when it ends. `missedAt` and the fields `by`
and `seen` of a row are history: who put it, and how many rows the lookup before had seen. Embeddings are the constant `Similarity`;
`Confident` and `TagOf` stand for the confidence and the tag found in an answer's text. A call of the
LLM is one step, which LlmGateway refines.

### Experiment

A world is one seed: `holdout` and `streams` (what the streams of each customer yield). `Withhold` and
`Decide` are a customer's turn in `run_experiment`, with the rungs of `graph/ablation.py` in
`DecidesOf`; `Grant` and `PassOver` are a candidate's turn in the greedy cut, the best of those
`Waiting` first; `RunArms` is the rest of `_run_arms` (the outcomes are `Outcome`); `Score` the scorecard's counts and the next rung; `AgentFails` an agent's graph that raises.
`EventsOf`, `OfferEffect`, `ChurnLogit`, `AcceptLogit` are `sim/events.py` and `sim/oracle.py`.
Probabilities are compared with draws by their logits in integer units, which keeps every
comparison the code makes (the sigmoid is monotone) and leaves the numbers of the draws arbitrary.
`baseline` is history: the records of the no-action rung of the same seed. That each kind of draw comes
from a stream of its own is how `sim/oracle.py` seeds them and is built into `streams`; `OfferEffects` is
therefore about what is gated by an offer, and could not show two kinds of draw sharing a stream.

### BanditStore

`posterior` is BANDIT_POSTERIOR as committed and `mine` each command's ThompsonBandit; a belief is
the set of updates summed into it, so that a lost update can be seen. `LoadPosterior`, `RunOne`, `Upsert`
(one row, waiting for its lock), `CommitSave` are `run-one`; the commands that only load stop after
`LoadPosterior`; `Die` rolls back. Row locks and snapshots are PostgreSQL's. It implements PosteriorStore
(`Store`, `ImplementsStore`).

### PosteriorStore

What the table promises, without rows or locks: `Load` copies the whole posterior, `Save` replaces the
whole of it with what the command holds, `Train` changes only what the command itself holds, `GiveUp`
leaves no trace. Two saves that overlap are two saves one after the other, the later of which wins.

### GoldenReport

The scenarios of `evalx/golden.py` with the fields that a stand-in of `graph/scenario.py`, the catalog or
the guardrail reads; `RunScenario` is a scenario's whole graph, in one step since its tables are those
of a tenant of its own. `ReadFulfilled` ... `ReadApproved` are the queries of the two scans, each a
snapshot; `Act`, `Persist`, `EndUnaudited` are what the scans can see of the default tenant's runs
meanwhile. `Kill` leaves the scenarios' rows behind; nothing ever cleans them up.

### MemoryEval

`CloseOpen` and `AddEdge` are `consolidate`'s UPDATE and INSERT with the one commit; `Ask` both
questions and their scores; `EvalRaises`, `CleanUp`, `Leave` the ways through `finally`. `semantic_recall`
returns any k edges of the customer in any order.

### MCRequests, MCLab

Several components checked in one run. They share no variable and no table, so nothing is gained by
interleaving them: the initial state chooses the part that moves (`part`), and the others stay
in one initial state. MCRequests is the LlmGateway and the deps of its tenant at the limit of the
pool; MCLab extends the five commands. The properties are the modules' own, by name.

### The modules named `..._proofs`

`X_proofs` extends module `X` and holds its theorems; `Lab_proofs` is about CostReport,
GoldenReport, MemoryEval, BanditStore and all the commands of MCLab side by side, and extends
Experiment_proofs, which is about Experiment. See section 6.

## 4. Runs

| Run | Question | Instance |
|---|---|---|
| `spine` | Do overlapping and dying runs keep the ledger contract, the contact of every fulfilment and the frequency cap up to overlap; do consent, margin and guardrail hold for all that is fulfilled; is every fulfilment audited in the end; does the compliance scan stay empty? | 2 in flight, 1 death; either 2 runs by API, CLI and experiment for two customers of whom one consents, or 3 runs by API and chat for one customer, clock 0..2, window 1 |
| `spine_shadow` (violation) | Is a shadow-logged customer never fulfilled for? | 2 runs, experiment and API |
| `spine_rerun` (violation) | Is AUDIT_LOG one row per node run? | 2 CLI runs of one thread |
| `chat` | Can turns of a page session that overlap, raise or lose their reply fulfil without an offer, beyond the authority, or twice; does the gate hold when they do not overlap; does `run_negotiation` end, and return what happened? | 3 turns, 2 in flight, 1 raises, handoff after 4 turns of both speakers, either driver, a ladder of up to 3 rungs of which the dearest exceeds the cap |
| `chat_overlap` (violation) | Is every fulfilment preceded by a CONFIRM_ACT reply and a separate, later yes? | 2 turns in flight |
| `deps_cache` | Is every connection accounted for, is nothing closed but the expired and the least recently used? | 4 requests, 3 tenants, cache of 2, pool of 4, clock 0..1, ttl 0, 1 training job |
| `requests` | Does every logical LLM call and every request for dependencies end; is each metered reply under its role; how stale can a budget verdict be? | 2 callers, one of whom deliberates or parses, 2 attempts, a budget of one reply, ttl 0, query time 1, clock 0..2, 1 month change; 2 requests, 2 tenants, cache of 1, pool of 2, 2 training jobs |
| `llm_council` (violation) | Is every reply given for a tenant metered? | as `requests` |
| `provisioning` | Does every organisation get one job and its models, and is a job that is called done a trained organisation? | 2 requests, 2 organisations, 2 workers, 1 retry, any 2 mishaps |
| `provisioning_stalled` (violation) | Does the lock keep a stalled-job retry from a second trainer? | one mishap |
| `lab` | Do the laboratory's commands keep what they promise: reuse without drift, offers that act only the way they should, the greedy budget, posteriors loaded and replaced as a whole, repeatable scenarios, exact scans, memories that are histories? | below |
| `budget_stops` (violation) | Does the greedy treatment stop where the spend would exceed the budget? | as `lab` |

Bounds of the spine: `MaxActive` runs in flight, `MaxAborts` deaths, `MaxTime` clock. Two runs in flight are
enough for each race between two statements, the third run adds a re-run after both; one death is
enough because a dead run leaves only rows behind. The clock passes the window once. The run has two
instances in one (`Bounds` of MCRetentionSpine): the gates need several customers and every entry point of the graph,
the overlap a third run and time. Runs are alike (no property depends on which run is which), so
they begin in one order; only the ages of contacts matter, so the clock waits for the first contact.

Bounds of the chat: with three turns a page can be shown an offer, back out of it or concede, and
say yes, or have one turn's statements fall between any two of another's; three rungs give one
concession within the cap and one beyond it. The runner's third turn lies beyond `HandoffAfter` when
both others have been answered, so all four ways out of the loop occur. Turns are symmetric, arms
are not (they have costs).

Bounds of the cache: three tenants over two entries force evictions, the fourth request meets the
entry of an earlier one as a hit, a rebuild or a victim; the pool of four is exhausted by
two entries, one under construction and one `ensure_org`. A ttl of 0 makes an entry old with the first
tick, so entries are closed by age as well as by capacity; one training job is enough to meet a
file torn, saved by halves or whole. `requests` has the pool at its limit with two requests, where every
way out of the lock occurs.

Bounds of the gateway: what is about two threads is about the council's two, or one of them and the
other caller; two attempts give one retry and one exhaustion by count, and the two notices (a wait
below, and one above the total) one by the total; a budget of one reply is reached by the first
call, so the ledger crosses it in both directions with the new month; the clock lets a verdict be
read, stored and grow old one tick each.

Bounds of the laboratory: three customers of three shapes, of which the middle one is near the other
two, and two reports, side by side or one after the other, with a quality sample of one; three customers, a persuadable
one, a sleeping dog with the highest value and a sure thing, over two commands and a budget that pays
for one credit and one fix; three writers and a reader of two arms (an overlap, and a save after
it); two evaluation reports and two runs of one customer, with the catalog as configured; two
memory evaluations of two customers. The parts share nothing, so their bounds are independent.

Bounds of provisioning: a mishap is a rollback, a death, a lapsed heartbeat, a training that raises
or a training by hand. `DoneMeansTrained` and `Provisioned` except two cases: two have trained for the
organisation at once, and may have left its files torn for good, which takes one mishap; and a
training by hand was cut short, which takes two. Any two, in any order, reach both and what is left: a worker
that dies, comes back and dies again, or raises. With two requests the organisations may be one or two, and with two workers a job may be
fetched twice.

Fairness: `FairSpec` asks weak fairness of each run's, turn's or request's own steps. Each is a
synchronous call on a live thread and Python goes on with the next statement; LLM and database
calls and the pool's wait have timeouts. In `Negotiation` it also asks it of `RunnerStep`, because
`run_negotiation` is a loop whose persona always answers; the page's customer may stop at any time. `LlmGateway` asks it of each
thread's `CallStep` (sleeps end, the client library's requests time out by default) and of `Join`, `BanditStore` of a writer's
steps only, since a process that holds rows goes on or dies. In `Provisioning` it asks it of
the workers (a supervisor restarts the process), of a live worker's heartbeat and of the periodic
retry, which cron repeats every ten minutes.
Nothing is asked of new requests or calls, of training jobs, of time or of failures. The build lock needs no
strong fairness for `RequestEnds`, since a request builds at most once.

## 5. Findings

* **Holdout purity** (`spine_shadow`). `evalx/hardchecks.py:109` calls a SHADOW entry and a
  fulfilment of one customer "mutually exclusive by construction". `AgentPolicy` runs every customer
  of an experiment as a shadow run, so the scan reports customers that were treated elsewhere.
* **Audit rows of a re-run** (`spine_rerun`). `graph/build.py:117` promises one row per node run; the
  Postgres checkpointer keeps `audit_log` per thread and a second `run-one` flushes the old entries
  again.
* **Separate, later yes** (`chat_overlap`). `chat/agent.py:9` promises that nothing is fulfilled
  without CONFIRM_ACT and a separate, later explicit yes. The gate tests a flag of the session
  (`chat/agent.py:119`); a second turn that the customer sent before the first was answered finds it
  set and is taken for the yes to a prompt nobody has read.
* **One trainer** (`provisioning_stalled`). `auth.py:131` says that `lock=org_id` keeps a stalled-job
  retry of a worker that only looked dead from having two workers train one organisation. The retry
  (`jobs.py:110`) queues the very job that worker is doing, so no job of the organisation is being
  done any more and the lock lets the next worker have it. An organisation has one job, so the lock
  never meets a second one.
* **Unmetered council** (`llm_council`). `context.py:3-7` promises that the tenant a request binds is
  seen by whatever it calls, and `llm.py:171` meters every reply to it. `graph/system2.py:72` submits two of
  System-2's three calls to a `ThreadPoolExecutor`, whose threads start with an empty context: their
  replies are neither checked against the budget nor written to LLM_USAGE.
* **The budget's stop** (`budget_stops`). `experiment.py:99` speaks of treating the best first "until spend
  would exceed budget"; the loop (`experiment.py:103-108`) passes an offer that does not fit over and goes on
  to cheaper ones. `BudgetIsGreedy` states what the code does.

Smaller disagreements met on the way, which no run is about:

* `_role_for_model` (`llm.py:154`) books a reply under the first role that has its model. The table of
  a deployment whose roles share a model (`data/run-ablation.sh:4` overrides MAGENTA_MODEL_LARGE) does
  not tell them apart. `MeteredUnderItsRole` is checked for distinct models.
* A parse that the client library rejects has been billed but is not metered.
* `batch_diagnose.py:3-5`: customers of one shape share a diagnosis only if no other row is as near.
* The quality figure of the cost report compares two fresh answers and never a cached one, which is
  what its comments (`batch_diagnose.py:61-63`, `cli.py:749-752`) are worried about.

## 6. Proofs

For all sets of runs, customers, campaigns and arms and all bounds, from `SpineAssumption` only (costs
and margins are naturals, the special values differ from the others).

`SpineInv` is inductive. Its parts: `RunInv` ties location and locals (an offer exists from decide on,
Act inserts only real arms of non-holdout requests); `GateInv` says what holds between a gate and
Act (an approving verdict is in the run's log, the arm is eligible); `RowInv` and `ContactInv` tie
each row to the run that made it; `LookupInv` says what Act read stays true; `EntryInv` and
`VerdictInv` speak of every copy of an audit entry (log, checkpoint, table). The strengthening is
needed because the properties mention only the tables, while what makes them true is where the
runs are. `Stable` collects what no step takes back and carries most of the frame reasoning.

The frequency cap needs a count of its own, `CapInv`, inductive given `SpineInv`: the contacts of a customer
in the current window (`Recent`) and the runs past the guardrail that may still add one (`Pending`) are
together at most `FreqCapMax + MaxActive - 1`. A verdict that passes has counted fewer than `FreqCapMax`
contacts, at a moment when at most `MaxActive` runs are in flight; `record_contact` only moves a run from the
one set to the other; time only empties the window. Older windows (`UpTo`) get no new rows.

| Theorem | States |
|---|---|
| `TypeCorrect` | `TypeOK` |
| `InserterContactsAlways`, `ContactBackedAlways` | row and contact come together unless the run dies |
| `GatedFulfilmentAlways`, `MarginGateRedundantAlways` | the gates |
| `GuardrailComplianceAlways` | the compliance scan finds nothing |
| `FrequencyCapUpToOverlapAlways` | the cap holds up to the runs in flight together |
| `SpineImplementsLedger` | refinement of OfferLedger |
| `LedgerCorrect` | what the contract guarantees |

`NegotiationInv` carries the chat's theorems, for all sets of turns and arms, all ladders, caps and
bounds, from `NegotiationAssumption`. `OfferInv`: a flag set, a turn past opening or confirming, and
a turn in Act each have an offer; it holds for overlapping turns, and makes the `RuntimeError` of the gate
unreachable. `AskedInv` is about orderly sessions: at most one turn is in flight, and while the flag
is set and no turn is past the gate, what the customer has in front of them is the offer on the
table and is committed to. `RowInv` ties each row to the turn that made it. `ConfirmedThenYes` alone
is not inductive: it speaks of rows, and what makes a new row true is what the turn has read. `AuthorityInv` follows an
arm from the ladder to the table: what a turn holds or presents is the opening rung, which `ladder.open`
does not hold against the authority, or one within it.

On top of it `SessionInv` adds what is about the state between turns, and therefore needs to know
what may happen within one. `LadderInv`: in an orderly session the only turn in flight is the only one that
moves along the ladder, so the rung it chose before `Advance` is still the next one, and a turn that
opens finds the ladder unopened. `RunnerInv`: a runner's session is orderly and ACTIVE while a turn is in
flight; its rows are those of the turn about to answer ACCEPTED, or it has been accepted with the offer of its rows;
once it has returned nothing is in flight any more.

| Theorem | States |
|---|---|
| `NegotiationTypeCorrect` | `TypeOK` |
| `AwaitingHasOfferAlways` | no turn fulfils or confirms nothing, turns overlapping or not |
| `ConfirmedThenYesAlways` | the confirmation gate, for orderly sessions |
| `WithinAuthorityAlways` | no concession exceeds the authority, and no fulfilment but of the opening rung |
| `OnTheTableAlways` | the offer on the table is the ladder's rung, reached one by one |
| `RunnerOutcomeAlways` | `run_negotiation` returns what happened |
| `NegotiationImplementsLedger` | overlapping turns keep the OfferLedger contract |

`DepsInv`, from `DepsCacheAssumption`: `LockInv` says who holds the build lock. `CacheInv` says that no
tenant has two entries and no request built two, that no more than `MaxSize` are kept, that the open
connections are those of the entries and of the request about to put one, that an entry's request is past its build,
and that the builder's tenant has no entry, without which `put` would replace one and leak its
connection. The lemmas before it say what taking an item out of a sequence, dropping its first and
appending one do to its set of items.

| Theorem | States |
|---|---|
| `DepsTypeCorrect` | `TypeOK` |
| `OneBuilderAlways` | the build lock is held by the one request that builds |
| `ConnectionsAccountedAlways` | what is checked out are the connections of entries and of the one build |
| `ClosedByAgeOrCapacityAlways` | an action property: no step closes any other entry's connection |

`ProvisioningInv` carries the two facts about first requests, for all sets and any number of mishaps:
transactions that have inserted and not yet committed are of organisations without a row, no two
of one organisation, and only a committed one has a job; no worker's step makes a job or loses one.
`TrainingInv` is about the workers. Two trainers of one organisation put it into `together` (`AloneInv`), so in any
other a file that is being written is its writer's alone, and a file that a trainer has passed is whole
(`FilesInv`); the job that is trained for is called done by nobody else (`JobOpenInv`). Hence a job
becomes succeeded with both files whole, and what could undo that is a trainer who is then there, or was cut
short, which only a training by hand can be once the job is done (`DoneInv`). While no heartbeat has lapsed and
nobody has trained by hand, a worker at work owns its job (`OwnerInv`), and the queue's lock serves.

| Theorem | States |
|---|---|
| `ProvisioningTypeCorrect` | `TypeOK` |
| `OneJobPerOrgAlways` | a row exactly if one job was enqueued |
| `NeverAlreadyEnqueuedAlways` | `AlreadyEnqueued` is unreachable |
| `DoneMeansTrainedAlways` | a succeeded job has left its models, or somebody is writing them, unless two trained at once or a training by hand was cut short |
| `TrainsAloneAlways` | one trainer of an organisation when no heartbeat lapses |

`GatewayInv`, from `LlmGatewayAssumption`, for all callers, council threads, budgets and bounds.
`PlaceInv`: only a thread with a tenant asks for its budget and meters, one that will call the provider has an
attempt left, and a pool moves only while its caller waits. `BillInv`: what is due covers the strays
and the replies about to be metered. `VerdictInv`: a verdict, cached or in a thread's hand, that is
wrong now was asked for before the ledger last crossed the budget (`WrongSince`); the window of
`VerdictWindow` is then what the ttl and the query time leave. `MeteredUnderItsRole` is an equation between rows and bills that
each step keeps; it needs `DistinctModels`, since `_role_for_model` books a reply under the first role with
its model. That no reply is lost or doubled when models are shared is the theorem after it.

| Theorem | States |
|---|---|
| `GatewayTypeCorrect` | `GatewayTypeOK`, with it the bounds on attempts and sleep |
| `MeteredUnderItsRoleAlways` | if no two roles share a model, each reply is a row under its role |
| `EveryReplyARowAlways` | whatever roles share, each reply is one row |
| `VerdictWindowAlways` | how stale the verdict of a call may be |

The laboratory's theorems rest on one ASSUME per module (`BanditAssumption`, `MemoryAssumption`,
`GoldenAssumption`, `CostReportAssumption`, `ExperimentAssumption`), which the `lab` run evaluates for its constants.
They say what the code's configuration and types give: the catalog is a non-empty list, customers of a cohort
or a population are distinct, a text is most similar to itself, costs are naturals.

`BanditInv`: every belief is its prior and a set of updates (`SumsInv`); the table and what readers hold is as one
finished save left it (`SaveInv`: a save commits when it has locked as many rows as there are arms,
so it replaces them all); an update is in no belief before it is made (`FreshInv`); a locked row belongs to a
transaction that writes what its command holds (`LockInv`); what is committed and not overwritten is in
the table, and in what each command has loaded or was missed by it since (`MissedInv`).
For the refinement, a `LoadPosterior` is a Load, `RunOne` a Train, `CommitSave` the Save (by `LockInv` and
`SumsInv` the rows it releases are every row of what the command holds: `CommitReplaces`), `Die` a
GiveUp, and an `Upsert` a stutter.

`MemoryInv` gives, for each evaluation, the edges of its customer from where the evaluation is: none,
the first fact, both. `GoldenInv` says what the scans of a report have read so far against the rows
that were there when it began (`ScanInv`), relying on audit rows being written only by runs that have ended (`TenantInv`); and
that a scenario on a tenant for the first time sees nothing of other scenarios (`FirstRunInv`). `ScenariosHoldAlways`
has the hypothesis `CatalogHolds`, that each scenario passes on an empty tenant with the configured
catalog: it is a fact about the numbers in `offers.yaml`, and the `lab` run evaluates it. `CostInv` adds to
the three parts of `ReuseIsSound` where the loop is, and what a report whose lookup missed knows of the cache (`Missed`):
every row that its lookup had seen is far from its shape, and every row since is another report's. A step of one
report moves its own part and adds none but its own rows, which is all that the others have to know of it (`OthersKeep`).

`ExperimentInv`: the records of a rung follow the streams of the world, each customer's churn from the arm and
the acceptance recorded (`FollowsStreams`), and those of the no-action rung, like the holdout in every rung, have no
arm, since that policy wants nobody and the holdout is not asked. `OfferEffects` then compares two
records of the same draws: `Logits` says which way an offer moves the churn logit, and the counts of the
scorecards follow from which customers can differ at all (`SetsDiffer`).

`CutInv`, a part of it, is what makes the budget's property inductive: while the cut goes on, `spend` is the sum
of the costs of those who won (`Purse`), it is within the budget, nobody still waiting is worth more than somebody
looked at, and whoever was passed over could not be paid for out of what the winners worth at least as
much had left (`Worthier`). Whoever has won when a candidate is passed over is worth at least as much, so
the whole spend of that moment counts; later wins only add to it, costs being naturals, so what could not
be afforded never becomes affordable.

The sums are `MapThenSumSet`, whose definition is a recursive function chosen on finite sets. That such a
function exists (`TotalsExist`), is unique (`TotalsAgree`) and unfolds at any element, not only the one the
choice takes first (`SpendSome`, `SpendOne`), is proved without an induction theorem: a statement about
finite sets that failed would fail for a set of smallest cardinality (`Smallest`, `SmallestSet`), and one element
less gives the contradiction. From these: a sum is a natural, grows with its set (`SpendGrows`),
depends only on the records it sums (`SpendSame`), and skips those who spent nothing (`SpendOfSpenders`).

`CommandsSideBySide` says that the
system of the `lab` run is each command's own specification as far as that command goes, so that all of these hold
of it.

| Theorem | States |
|---|---|
| `BanditTypeCorrect`, `MemoryTypeCorrect`, `GoldenTypeCorrect`, `CostTypeCorrect`, `ExperimentTypeCorrect` | the types of each command |
| `CommandsSideBySide`, `LabTypeCorrect` | the commands side by side are each what they are alone; `LabTypeOK` |
| `RowsOfOneSaveAlways` | the table and what is read of it are of one finished save |
| `LostOnlyToOverlapAlways` | a committed update is lost only to a save that had loaded before |
| `MemoryKeptAlways` | histories only, nothing left behind, full marks |
| `ScansAreExactAlways` | a scan names who was treated and held out, and nobody else |
| `ScenariosHoldAlways` | a scenario that holds once holds in every report |
| `ReuseIsSoundAlways` | reuse for near shapes only, nothing paid twice but by reports side by side, the meter adds up |
| `BanditImplementsStore` | refinement of PosteriorStore |
| `OfferEffectsAlways` | offers act only the way they should, on each customer and on the scorecard |
| `BudgetIsGreedyAlways` | the spend is within the budget, and nobody is passed over who could be paid for |

Every safety property and every refinement the passing runs check has a theorem. Only model-checked:
`FulfilmentAudited`, `RunnerEnds`, `RequestEnds`, `CallEnds`, `SaveEnds` and `Provisioned` (liveness under
fairness is out of the prover's reach). `MarginGateRedundant`, `ContactBacked`, `OneBuilder`,
`EveryReplyARow` and `RowsOfOneSave` are proved; no run repeats them (`ImplementsLedger` contains the second, and
`ImplementsStore` most of the last).

## 7. Not modelled

* Numeric code: risk, uplift and their features (only `classify_segment` is, in GoldenReport), parity,
  bandit sampling, the population generator, embeddings, bootstrap intervals. Statistics of seeded
  arithmetic, which TLC cannot evaluate and which are no protocols.
* LLM texts: prompts, personas, perception, the judge (its command is given no transcripts).
* The population cache: a second BoundedTTLCache without `on_evict` whose values are pure functions of
  the tenant; two concurrent misses build the same value twice.
* Event streams: `guarded_stream` is one sequential generator that catches every exception and then
  yields `done`; nothing interleaves with it, and a test reaches its every path.
* Code that only tests call or build: `BrainPolicy`, `invalidate` and `clear` of the caches, the nightly
  transcript scans and `replay_idempotent`, a `GraphDeps` with a memory.
* The dictionary of chat sessions (`api/chat_sessions.py`), `chat_start`'s validation, data routes, the
  organisation profile, printing, logging, configuration, migrations, deployment, and the frontend
  beyond what drives a negotiation.
